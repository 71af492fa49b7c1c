-------------------------------- MODULE Watch --------------------------------
(***************************************************************************)
(* The watch stream of one Kubernetes resource kind, as watch_loop of      *)
(* src/plugins/kubernetes/store.rs consumes it.  The API server and the    *)
(* kube watcher behind the stream are external: the watcher lists the      *)
(* objects (Init, one InitApply per object in any order, InitDone), then   *)
(* delivers every later change in order, and starts over with a new list   *)
(* after it lost the stream, when changes may have been missed.            *)
(*                                                                         *)
(* KubeIndex and KubeEndpoints extend this module with the store that the  *)
(* events are applied to.                                                  *)
(***************************************************************************)
EXTENDS Naturals, Sequences

CONSTANTS
    Objects,        \* names of the objects of this kind
    Values,         \* what an object can be
    NoObject,       \* the object does not exist
    MaxChanges,     \* bound: changes in the cluster
    MaxBreaks       \* bound: losses of the stream

ASSUME WatchConstants ==
    NoObject \notin Values /\ MaxChanges \in Nat /\ MaxBreaks \in Nat

VARIABLES
    cluster,        \* the objects the API server holds
    phase,          \* "broken", "listing" or "watching"
    todo,           \* listed objects that are still to come as InitApply
    queue,          \* changes that the stream still has to deliver
    seen,           \* local variable of watch_loop: objects of this list
    changes,        \* changes so far
    breaks          \* losses so far

watchVars == <<cluster, phase, todo, queue, seen, changes, breaks>>

WatchInit ==
    /\ cluster \in [Objects -> Values \cup {NoObject}]
    /\ phase = "broken"
    /\ todo = {} /\ queue = <<>> /\ seen = {}
    /\ changes = 0 /\ breaks = 0

(* The cluster changes; an open stream will report it.  A deletion reports *)
(* the last state of the object.                                           *)
ClusterChange(o, v) ==
    /\ changes < MaxChanges
    /\ cluster[o] # v
    /\ changes' = changes + 1
    /\ cluster' = [cluster EXCEPT ![o] = v]
    /\ queue' = IF phase = "broken" THEN queue
                ELSE Append(queue, IF v = NoObject
                       THEN [type |-> "delete", obj |-> o, val |-> cluster[o]]
                       ELSE [type |-> "apply", obj |-> o, val |-> v])
    /\ UNCHANGED <<phase, todo, seen, breaks>>

(* The stream is lost with what it had not delivered. *)
StreamBreaks ==
    /\ phase # "broken"
    /\ breaks < MaxBreaks
    /\ breaks' = breaks + 1
    /\ phase' = "broken" /\ todo' = {} /\ queue' = <<>>
    /\ UNCHANGED <<cluster, seen, changes>>

(* Event::Init *)
InitEventKeepsSeen ==       \* mutant: seen is not cleared
    /\ phase = "broken"
    /\ phase' = "listing"
    /\ todo' = {[obj |-> o, val |-> cluster[o]] : o \in {x \in Objects : cluster[x] # NoObject}}
    /\ UNCHANGED <<cluster, queue, seen, changes, breaks>>

InitEvent ==
    /\ phase = "broken"
    /\ phase' = "listing"
    /\ todo' = {[obj |-> o, val |-> cluster[o]] : o \in {x \in Objects : cluster[x] # NoObject}}
    /\ seen' = {}
    /\ UNCHANGED <<cluster, queue, changes, breaks>>

(* Event::InitApply(o), the part of it that is not the store's *)
TakeInitApply(e) ==
    /\ phase = "listing" /\ e \in todo
    /\ todo' = todo \ {e}
    /\ seen' = seen \cup {e.obj}
    /\ UNCHANGED <<cluster, phase, queue, changes, breaks>>

(* Event::InitDone *)
TakeInitDone ==
    /\ phase = "listing" /\ todo = {}
    /\ phase' = "watching"
    /\ UNCHANGED <<cluster, todo, queue, seen, changes, breaks>>

(* Event::Apply and Event::Delete *)
TakeEvent(type, e) ==
    /\ phase = "watching" /\ queue # <<>>
    /\ e = Head(queue) /\ e.type = type
    /\ queue' = Tail(queue)
    /\ UNCHANGED <<cluster, phase, todo, seen, changes, breaks>>

CaughtUp == phase = "watching" /\ queue = <<>>
=============================================================================
