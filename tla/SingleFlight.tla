---------------------------- MODULE SingleFlight ----------------------------
(***************************************************************************)
(* What refresh_in_background of src/plugins/cache.rs promises: for one    *)
(* cache key at most one refresh runs at a time, and a call that starts    *)
(* none may rely on another: a refresh of its key was running at some time *)
(* during the call.  Inflight.tla is the protocol that implements this.    *)
(***************************************************************************)
EXTENDS Naturals

CONSTANTS Keys, Callers

VARIABLES
    refreshing,     \* number of background refreshes of each key
    asking,         \* the key of each thread's call, or NoKey
    covered         \* calls during which a refresh of their key was running

abstractVars == <<refreshing, asking, covered>>

NoKey == "none"

Init == /\ refreshing = [k \in Keys |-> 0]
        /\ asking = [c \in Callers |-> NoKey]
        /\ covered = {}

Request(c, k) ==
    /\ asking[c] = NoKey
    /\ asking' = [asking EXCEPT ![c] = k]
    /\ covered' = IF refreshing[k] > 0 THEN covered \cup {c} ELSE covered
    /\ UNCHANGED refreshing

Start(c) ==
    LET k == asking[c] IN
    /\ k \in Keys /\ refreshing[k] = 0
    /\ refreshing' = [refreshing EXCEPT ![k] = 1]
    /\ asking' = [asking EXCEPT ![c] = NoKey]
    /\ covered' = (covered \cup {d \in Callers : asking[d] = k}) \ {c}

Skip(c) ==
    /\ c \in covered
    /\ asking' = [asking EXCEPT ![c] = NoKey]
    /\ covered' = covered \ {c}
    /\ UNCHANGED refreshing

Finish(k) ==
    /\ refreshing[k] = 1
    /\ refreshing' = [refreshing EXCEPT ![k] = 0]
    /\ UNCHANGED <<asking, covered>>

Next == \/ \E c \in Callers : Start(c) \/ Skip(c) \/ \E k \in Keys : Request(c, k)
        \/ \E k \in Keys : Finish(k)

Spec == Init /\ [][Next]_abstractVars
=============================================================================
