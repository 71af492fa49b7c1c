------------------------------ MODULE MCServer ------------------------------
(* Four parts of the server that run beside each other: the life of the    *)
(* process, one connection of a stream listener, the start-up probes of    *)
(* loop, and queries through a forward with max_concurrent.  They share no *)
(* state, so a behaviour follows one of them and the others rest in an     *)
(* initial state in which no fair action is enabled.                       *)
EXTENDS MCLifecycle, Stream, LoopProbe
CONSTANTS p1, p2, c1, c2, one, many, none
VARIABLES part, concurrent, rr, fails, flags, prober, query, drops

TwoProxies == <<p1, p2>>
TwoQueries == {c1, c2}
F == INSTANCE Forward WITH
        Queries <- TwoQueries, Proxies <- TwoProxies, Policy <- "round_robin",
        MaxFails <- 1, MaxConcurrent <- 1, MaxDrops <- 1, MaxCount <- 1,
        probing <- flags, q <- query

(* a query answered with one message, a transfer of three, a dropped query *)
ThreePipelined == <<many, one, none>>
PartsOf(m) == CASE m = one -> 1 [] m = many -> 3 [] m = none -> 0

forwardVars == <<concurrent, rr, fails, flags, prober, query, drops>>
serverVars == <<part, vars, streamVars, loopVars, forwardVars>>

ServerInit ==
    /\ part \in {"life", "stream", "loop", "forward"}
    /\ Init /\ inst = i1
    /\ StreamInit
    /\ LoopInit /\ (part # "loop" => ~looping)
    /\ F!Init

ServerNext ==
    \/ part = "life" /\ Next /\ UNCHANGED <<part, streamVars, loopVars, forwardVars>>
    \/ part = "stream" /\ StreamNext /\ UNCHANGED <<part, vars, loopVars, forwardVars>>
    \/ part = "loop" /\ LoopNext /\ UNCHANGED <<part, vars, streamVars, forwardVars>>
    \/ part = "forward" /\ F!Next /\ UNCHANGED <<part, vars, streamVars, loopVars>>

ServerSpec == ServerInit /\ [][ServerNext]_serverVars
              /\ Fairness /\ StreamFairness /\ F!Fairness

ConcurrencyLimit == F!ConcurrencyLimit
QueryEnds == F!QueryEnds
=============================================================================
