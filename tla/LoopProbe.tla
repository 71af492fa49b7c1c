----------------------------- MODULE LoopProbe -----------------------------
(***************************************************************************)
(* The loop plugin (src/plugins/loop.rs): probes with names of their own   *)
(* are sent to this server at the start, and one that arrives more than    *)
(* twice has come back through the upstreams: the process exits.           *)
(***************************************************************************)
EXTENDS Integers, FiniteSets

CONSTANT ATTEMPTS       \* 3

ASSUME AttemptsAssumption == ATTEMPTS \in Nat

Probes == 1 .. ATTEMPTS

VARIABLES
    looping,            \* the upstreams send what they get back here
    probing,            \* the probe that is waited for, ATTEMPTS + 1 after the last
    seen,               \* probe -> how often it has arrived
    travelling,         \* probes on their way to this server: a bag, as counts
    asked,              \* the probes sent
    off,                \* the window is over
    exited

loopVars == <<looping, probing, seen, travelling, asked, off, exited>>

LoopInit ==
    /\ looping \in BOOLEAN
    /\ probing = 1 /\ asked = {} /\ off = FALSE /\ exited = FALSE
    /\ seen = [p \in Probes |-> 0] /\ travelling = [p \in Probes |-> 0]

(* Loop::new: a random name per attempt *)
SharedName(p) == 1      \* mutant: every attempt sends the same name

NameOfProbe(p) == p

SendProbe ==
    /\ ~exited /\ probing \in Probes \ asked
    /\ asked' = asked \cup {probing}
    /\ travelling' = [travelling EXCEPT ![probing] = @ + 1]
    /\ UNCHANGED <<looping, probing, seen, off, exited>>
SendFails ==
    /\ ~exited /\ probing \in Probes \ asked
    /\ probing' = probing + 1
    /\ UNCHANGED <<looping, seen, travelling, asked, off, exited>>

(* no answer within two seconds: the next name *)
ProbeTimeout ==
    /\ ~exited /\ probing \in asked
    /\ probing' = probing + 1
    /\ UNCHANGED <<looping, seen, travelling, asked, off, exited>>
ProbeAnswered ==
    /\ ~exited /\ probing \in asked /\ seen[NameOfProbe(probing)] > 0
    /\ probing' = ATTEMPTS + 1
    /\ UNCHANGED <<looping, seen, travelling, asked, off, exited>>

(* serve_dns: counted while the window is open, then on to the upstreams *)
Arrive(p) ==
    LET n == NameOfProbe(p)
        count == seen[n] + 1
    IN  /\ ~exited /\ travelling[p] > 0
        /\ IF off THEN UNCHANGED <<seen, exited>>
           ELSE seen' = [seen EXCEPT ![n] = count] /\ exited' = (count > 2)
        /\ travelling' = [travelling EXCEPT ![p] = IF looping /\ ~exited' THEN @ ELSE @ - 1]
        /\ UNCHANGED <<looping, probing, asked, off>>

WindowEnds ==
    /\ ~exited /\ ~off /\ probing = ATTEMPTS + 1
    /\ off' = TRUE
    /\ UNCHANGED <<looping, probing, seen, travelling, asked, exited>>

LoopNext ==
    \/ SendProbe
    \/ SendFails
    \/ ProbeTimeout
    \/ ProbeAnswered
    \/ \E p \in Probes : Arrive(p)
    \/ WindowEnds
LoopSpec == LoopInit /\ [][LoopNext]_loopVars
-----------------------------------------------------------------------------
(* Slow or silent upstreams are not a loop: unless the upstreams do send   *)
(* the probes back, the process never exits, however many probes are       *)
(* retried and however late they arrive ("a retry must not look like the   *)
(* previous probe coming back").                                           *)
NoFalseExit == exited => looping
=============================================================================
