------------------------------ MODULE KubeIndex ------------------------------
(***************************************************************************)
(* The services and pods of the kubernetes store                           *)
(* (src/plugins/kubernetes/store.rs): a map from object to its addresses   *)
(* and an index from address to object for reverse lookups.  apply_pod,    *)
(* delete_pod and retain_pods maintain pods and pod_by_ip; the service     *)
(* functions maintain services with svc_by_ip (cluster addresses) and with *)
(* ext_by_ip (external addresses) in the same way.  They differ in one     *)
(* point, KeepEmpty: a service without address is stored, a pod without    *)
(* address, or one that has finished, is not.                              *)
(***************************************************************************)
EXTENDS Watch

CONSTANTS Ips, KeepEmpty

VARIABLES
    objs,           \* services or pods: the addresses, or NoObject
    byIp,           \* svc_by_ip, ext_by_ip or pod_by_ip: an object, or NoObject
    synced          \* the synced flag that readiness looks at

vars == <<watchVars, objs, byIp, synced>>

(* Values is SUBSET Ips: of an object only its addresses matter here. *)
ASSUME IndexConstants ==
    /\ Values = SUBSET Ips
    /\ NoObject \notin Objects
    /\ KeepEmpty \in BOOLEAN

OldIps(o) == IF objs[o] = NoObject THEN {} ELSE objs[o]

(* apply_service, apply_pod: the old addresses leave the index, the new    *)
(* ones enter it.                                                          *)
ApplyKeepsOld(o, ips) ==        \* mutant: the old addresses stay indexed
    /\ objs' = [objs EXCEPT ![o] = IF ips = {} /\ ~KeepEmpty THEN NoObject ELSE ips]
    /\ byIp' = [ip \in Ips |-> IF ip \in ips THEN o ELSE byIp[ip]]

Apply(o, ips) ==
    /\ objs' = [objs EXCEPT ![o] = IF ips = {} /\ ~KeepEmpty THEN NoObject ELSE ips]
    /\ byIp' = [ip \in Ips |-> IF ip \in ips THEN o
                               ELSE IF ip \in OldIps(o) THEN NoObject ELSE byIp[ip]]

(* delete_service, delete_pod *)
DeleteNothing(o) == UNCHANGED <<objs, byIp>>    \* mutant

Delete(o) ==
    /\ objs' = [objs EXCEPT ![o] = NoObject]
    /\ byIp' = [ip \in Ips |-> IF ip \in OldIps(o) THEN NoObject ELSE byIp[ip]]

(* retain_services, retain_pods: under one lock *)
Retain(kept) ==
    LET goneIps == UNION {OldIps(o) : o \in Objects \ kept} IN
    /\ objs' = [o \in Objects |-> IF o \in kept THEN objs[o] ELSE NoObject]
    /\ byIp' = [ip \in Ips |-> IF ip \in goneIps THEN NoObject ELSE byIp[ip]]
-----------------------------------------------------------------------------
Init == /\ WatchInit
        /\ objs = [o \in Objects |-> NoObject]
        /\ byIp = [ip \in Ips |-> NoObject]
        /\ synced = FALSE

OnInit       == InitEvent /\ UNCHANGED <<objs, byIp, synced>>
OnInitApply  == \E e \in todo :
                   TakeInitApply(e) /\ Apply(e.obj, e.val) /\ UNCHANGED synced
OnInitDone   == TakeInitDone /\ Retain(seen) /\ synced' = TRUE
OnApply      == \E o \in Objects, v \in Values :
                   /\ TakeEvent("apply", [type |-> "apply", obj |-> o, val |-> v])
                   /\ Apply(o, v) /\ UNCHANGED synced
OnDelete     == \E o \in Objects, v \in Values :
                   /\ TakeEvent("delete", [type |-> "delete", obj |-> o, val |-> v])
                   /\ Delete(o) /\ UNCHANGED synced

External == \/ \E o \in Objects, v \in Values \cup {NoObject} : ClusterChange(o, v)
            \/ StreamBreaks

Loop == OnInit \/ OnInitApply \/ OnInitDone \/ OnApply \/ OnDelete

Next == \/ Loop
        \/ External /\ UNCHANGED <<objs, byIp, synced>>

Spec == Init /\ [][Next]_vars

(* watch_loop runs for ever and the watcher reconnects after a loss. *)
Fairness == WF_vars(Loop)

FairSpec == Spec /\ Fairness
-----------------------------------------------------------------------------
(* The maps have their types; a pod without address, or one that has       *)
(* finished, is never kept (the early return of apply_pod).                *)
TypeOK ==
    /\ cluster \in [Objects -> Values \cup {NoObject}]
    /\ objs \in [Objects -> Values \cup {NoObject}]
    /\ ~KeepEmpty => \A o \in Objects : objs[o] # {}
    /\ byIp \in [Ips -> Objects \cup {NoObject}]
    /\ seen \subseteq Objects
    /\ todo \subseteq [obj : Objects, val : Values]
    /\ synced \in BOOLEAN

(* What the store holds of an object of the cluster. *)
Stored(v) == IF v = {} /\ ~KeepEmpty THEN NoObject ELSE v

(* A reverse lookup never names a service or pod that does not have the    *)
(* address, through updates, deletions and relists in any order.           *)
IndexSound == \A ip \in Ips : byIp[ip] # NoObject =>
    objs[byIp[ip]] # NoObject /\ ip \in objs[byIp[ip]]

(* Whenever the stream has nothing left to deliver the store mirrors the   *)
(* cluster, also after changes were missed between two watches (the retain *)
(* of InitDone, with what `seen` collected).                               *)
Mirrors == CaughtUp => objs = [o \in Objects |-> Stored(cluster[o])]

(* Once the cluster and the stream are quiet the store becomes and stays   *)
(* a mirror of the cluster, and the plugin reports ready.                  *)
Converges == <>[](synced /\ objs = [o \in Objects |-> Stored(cluster[o])])
-----------------------------------------------------------------------------
(* Said of the index and not so: that the watchers keep it current, so     *)
(* that an address which a stored object has can be looked up.             *)
IndexComplete == \A o \in Objects : objs[o] # NoObject =>
    \A ip \in objs[o] : byIp[ip] # NoObject
=============================================================================
