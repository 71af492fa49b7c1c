------------------------------ MODULE Inflight ------------------------------
(***************************************************************************)
(* The `inflight` map of the cache plugin: a DashMap from cache key to an  *)
(* Arc<AtomicBool>.  refresh_in_background takes two atomic steps, and any *)
(* number of worker threads can be between them:                           *)
(*                                                                         *)
(*   GetFlag   inflight.entry(k).or_insert(false).clone()                  *)
(*   Swap      flag.swap(true): TRUE means another thread is refreshing;   *)
(*             otherwise a refresh task is spawned                         *)
(*                                                                         *)
(* The task removes the map entry when it is done (RemoveEntry).  It does  *)
(* not hold the flag itself, so a thread that cloned the flag earlier may  *)
(* swap it after the entry is gone or after the key has a new flag.        *)
(***************************************************************************)
EXTENDS Naturals

CONSTANTS
    Keys,       \* cache keys
    Callers,    \* concurrent executions of serve_dns
    Flags       \* memory cells an Arc<AtomicBool> can occupy

NoFlag  == "no flag"
NoClone == [key |-> "none", flag |-> NoFlag]

ASSUME InflightConstants == /\ NoFlag \notin Flags
                            /\ NoClone.key \notin Keys

VARIABLES
    inflight,   \* the map: a flag, or NoFlag where the key has no entry
    raised,     \* the flags whose AtomicBool is true
    clone,      \* the clone a caller holds between its two steps
    running     \* number of spawned refresh tasks of each key

inflightVars == <<inflight, raised, clone, running>>

(* Entries and clones refer to cells, and no task ends that was not       *)
(* spawned (`running` stays a natural number).                             *)
InflightTypeOK ==
    /\ inflight \in [Keys -> Flags \cup {NoFlag}]
    /\ raised \subseteq Flags
    /\ clone \in [Callers -> [key : Keys, flag : Flags] \cup {NoClone}]
    /\ running \in [Keys -> Nat]

InflightInit ==
    /\ inflight = [k \in Keys |-> NoFlag]
    /\ raised = {}
    /\ clone = [c \in Callers |-> NoClone]
    /\ running = [k \in Keys |-> 0]

(* A cell is free, and may be reused, when no Arc points to it. *)
FreeFlags == {f \in Flags : /\ \A k \in Keys : inflight[k] # f
                            /\ \A c \in Callers : clone[c].flag # f}

(* The map entry stays locked until the clone is made: one step. *)
GetFlag(c, k) ==
    /\ clone[c] = NoClone
    /\ \/ /\ inflight[k] # NoFlag
          /\ clone' = [clone EXCEPT ![c] = [key |-> k, flag |-> inflight[k]]]
          /\ UNCHANGED <<inflight, raised>>
       \/ /\ inflight[k] = NoFlag
          /\ \E f \in FreeFlags :
                /\ inflight' = [inflight EXCEPT ![k] = f]
                /\ raised' = raised \ {f}
                /\ clone' = [clone EXCEPT ![c] = [key |-> k, flag |-> f]]
    /\ UNCHANGED running

(* swap(true), then spawn unless it was already set.  Nothing shared is    *)
(* read between the swap and the spawn.                                    *)
Swap(c) ==
    LET k == clone[c].key  f == clone[c].flag IN
    /\ clone[c] # NoClone
    /\ raised' = raised \cup {f}
    /\ running' = IF f \in raised THEN running
                                   ELSE [running EXCEPT ![k] = @ + 1]
    /\ clone' = [clone EXCEPT ![c] = NoClone]
    /\ UNCHANGED inflight

(* The end of a refresh task: inflight.remove(&k). *)
RemoveEntryForgotten(k) ==   \* mutant: the entry is left behind
    /\ running[k] > 0
    /\ running' = [running EXCEPT ![k] = @ - 1]
    /\ UNCHANGED <<inflight, raised, clone>>

RemoveEntry(k) ==
    /\ running[k] > 0
    /\ running' = [running EXCEPT ![k] = @ - 1]
    /\ inflight' = [inflight EXCEPT ![k] = NoFlag]
    /\ UNCHANGED <<raised, clone>>

InflightNext ==
    \/ \E c \in Callers : Swap(c) \/ \E k \in Keys : GetFlag(c, k)
    \/ \E k \in Keys : RemoveEntry(k)

InflightSpec == InflightInit /\ [][InflightNext]_inflightVars

(* A thread in refresh_in_background keeps running, and a refresh task     *)
(* ends because the chain below it answers or fails (forward gives up      *)
(* after 5 s).  Nothing makes callers arrive.                              *)
InflightFairness ==
    /\ \A c \in Callers : WF_inflightVars(Swap(c))
    /\ \A k \in Keys : WF_inflightVars(RemoveEntry(k))

InflightFairSpec == InflightSpec /\ InflightFairness
-----------------------------------------------------------------------------
(* At most one background refresh of a key runs at a time, whatever the    *)
(* interleaving of threads that cloned the flag before or after the entry  *)
(* was removed (the `already refreshing` test of refresh_in_background).   *)
OneRefreshPerKey == \A k \in Keys : running[k] <= 1

(* The inductive strengthening: a key has a task exactly while its map     *)
(* entry holds a raised flag; two keys never share a flag; and a clone is  *)
(* either the current entry of its own key or a raised left-over.          *)
FlagDiscipline ==
    /\ \A k \in Keys : running[k] =
          IF inflight[k] \in raised THEN 1 ELSE 0
    /\ \A j, k \in Keys : inflight[j] # NoFlag /\ inflight[j] = inflight[k] => j = k
    /\ \A c \in Callers : clone[c] # NoClone =>
          \/ inflight[clone[c].key] = clone[c].flag
          \/ clone[c].flag \in raised /\ \A k \in Keys : inflight[k] # clone[c].flag

(* The map, flags and tasks implement the abstract promise: refreshes of a *)
(* key start and finish one at a time, and a call that finds its flag      *)
(* raised has met a refresh of its key, also when it holds an old flag.    *)
Asking  == [c \in Callers |-> clone[c].key]
Covered == {c \in Callers : clone[c].flag \in raised}
Abstract == INSTANCE SingleFlight
              WITH refreshing <- running, asking <- Asking, covered <- Covered
ImplementsSingleFlight == Abstract!Spec

(* An entry never blocks its key for good: every entry of `inflight` is    *)
(* removed again, so that the next stale hit can refresh.                  *)
NoKeyStuck == \A k \in Keys : inflight[k] # NoFlag ~> inflight[k] = NoFlag
=============================================================================
