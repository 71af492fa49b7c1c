------------------------------- MODULE Forward -------------------------------
(***************************************************************************)
(* The forward plugin (src/plugins/forward.rs): admission under            *)
(* max_concurrent, the choice of upstreams and failover, the failure       *)
(* counters, and the health-check task of each upstream.  Queries run      *)
(* concurrently and share only atomics, so every access to one of them is  *)
(* a step of its own.                                                      *)
(*                                                                         *)
(* One exchange with an upstream (connect: UDP, the TCP retry of a         *)
(* truncated answer, timeouts) is its outcome; ConnPool.tla models the     *)
(* streams below it.                                                       *)
(***************************************************************************)
EXTENDS Integers, Sequences, FiniteSets, Functions

CONSTANTS
    Queries,            \* concurrent executions of serve_dns
    Proxies,            \* sequence of the configured upstreams
    Policy,             \* "sequential", "round_robin" or "random"
    MaxFails,           \* max_fails, 0 = never down
    MaxConcurrent,      \* max_concurrent, 0 = no limit
    MaxDrops,           \* bound: futures dropped while they wait
    MaxCount            \* bound: the failure counters, only compared with 0 and MaxFails, stop here

Upstreams == Range(Proxies)
N == Len(Proxies)

ASSUME ForwardConstants ==
    /\ Policy \in {"sequential", "round_robin", "random"}
    /\ MaxFails \in Nat /\ MaxConcurrent \in Nat /\ MaxDrops \in Nat
    /\ MaxCount \in Nat \ {0} /\ MaxCount >= MaxFails
    /\ N > 0 /\ Cardinality(Upstreams) = N
    /\ IsFiniteSet(Queries)

VARIABLES
    concurrent,     \* queries that max_concurrent counts
    rr,             \* round-robin counter, modulo N
    fails,          \* failure counter of each upstream
    probing,        \* upstreams whose `probing` flag is set
    prober,         \* health-check task of each upstream
    q,              \* each query: program counter and local variables
    drops           \* futures dropped so far (for the bound)

vars == <<concurrent, rr, fails, probing, prober, q, drops>>

Idle == [pc |-> "idle"]
Down(p) == MaxFails # 0 /\ fails[p] >= MaxFails
Inc(n) == IF n < MaxCount THEN n + 1 ELSE n
-----------------------------------------------------------------------------
(* serve_dns: fetch_add, then compare the old value with the limit. *)
AdmitLate(c) ==         \* mutant: the limit is tested with > on the old value
    /\ q[c] = Idle
    /\ concurrent' = IF MaxConcurrent = 0 THEN concurrent ELSE concurrent + 1
    /\ q' = [q EXCEPT ![c] = [pc |-> IF MaxConcurrent > 0 /\ concurrent > MaxConcurrent
                                     THEN "reject" ELSE "list"]]
    /\ UNCHANGED <<rr, fails, probing, prober, drops>>

Admit(c) ==
    /\ q[c] = Idle
    /\ concurrent' = IF MaxConcurrent = 0 THEN concurrent ELSE concurrent + 1
    /\ q' = [q EXCEPT ![c] = [pc |-> IF MaxConcurrent > 0 /\ concurrent >= MaxConcurrent
                                     THEN "reject" ELSE "list"]]
    /\ UNCHANGED <<rr, fails, probing, prober, drops>>

Reject(c) ==
    /\ q[c].pc = "reject"
    /\ concurrent' = concurrent - 1
    /\ q' = [q EXCEPT ![c] = Idle]
    /\ UNCHANGED <<rr, fails, probing, prober, drops>>

(* The order in which this query tries the upstreams. *)
Rotation(start) == [x \in 1 .. N |-> Proxies[((start + x - 1) % N) + 1]]
Orders == CASE Policy = "sequential"  -> {Proxies}
            [] Policy = "round_robin" -> {Rotation(rr)}
            [] Policy = "random"      -> Injection(1 .. N, Upstreams)

List(c) ==
    /\ q[c].pc = "list"
    /\ \E order \in Orders :
          q' = [q EXCEPT ![c] = [pc |-> "loop", list |-> order, i |-> 0, up |-> order[1],
                    triedDown |-> FALSE, tried |-> {}, asks |-> 0, kept |-> FALSE]]
    /\ rr' = IF Policy = "round_robin" THEN (rr + 1) % N ELSE rr
    /\ UNCHANGED <<concurrent, fails, probing, prober, drops>>

(* The head of the loop: past the deadline no further upstream is tried. *)
Loop(c) ==
    /\ q[c].pc = "loop"
    /\ \E pc \in {"pick", "expired"} : q' = [q EXCEPT ![c].pc = pc]
    /\ UNCHANGED <<concurrent, rr, fails, probing, prober, drops>>

(* One turn of the inner loop: look at the next upstream of the list.      *)
(* up is p; tried and asks are history variables, and asks stops above the *)
(* bound of BoundedAttempts.                                               *)
Asking(r, p, i, all) ==
    [r EXCEPT !.pc = "wait", !.up = p, !.i = i, !.triedDown = IF all THEN TRUE ELSE @,
              !.tried = @ \cup {p}, !.asks = IF @ <= 2 * N THEN @ + 1 ELSE @]
Chosen(c, p, i, all) == q' = [q EXCEPT ![c] = Asking(q[c], p, i, all)]

(* The last upstream of the list is down, and so are all the others. *)
AllDownForever(c, p, i) ==      \* mutant: tried_any_down is not tested
    /\ Down(p) /\ i = N
    /\ \A u \in Upstreams : Down(u)

AllDown(c, p, i) ==
    /\ Down(p) /\ i = N
    /\ ~q[c].triedDown
    /\ \A u \in Upstreams : Down(u)

Pick(c) ==
    /\ q[c].pc = "pick"
    /\ \/ /\ q[c].i >= N
          /\ q' = [q EXCEPT ![c].pc = "end"]
       \/ LET i == q[c].i + 1  p == q[c].list[i] IN
          /\ q[c].i < N
          /\ \/ ~Down(p) /\ Chosen(c, p, i, FALSE)
             \/ AllDown(c, p, i) /\ Chosen(c, p, 0, TRUE)
             \/ Down(p) /\ ~AllDown(c, p, i) /\ q' = [q EXCEPT ![c].i = i]
    /\ UNCHANGED <<concurrent, rr, fails, probing, prober, drops>>

(* What comes of asking the upstream. *)
Answered(c) ==              \* a matching answer that is passed on
    /\ q[c].pc = "wait"
    /\ fails' = [fails EXCEPT ![q[c].up] = 0]
    /\ q' = [q EXCEPT ![c] = [@ EXCEPT !.pc = "leave", !.kept = TRUE]]
    /\ UNCHANGED <<concurrent, rr, probing, prober, drops>>

FailedOver(c) ==            \* a matching answer with a failover rcode
    /\ q[c].pc = "wait"
    /\ fails' = [fails EXCEPT ![q[c].up] = 0]
    /\ q' = [q EXCEPT ![c] = [@ EXCEPT !.pc = IF q[c].i < N THEN "loop" ELSE "leave", !.kept = TRUE]]
    /\ UNCHANGED <<concurrent, rr, probing, prober, drops>>

Mismatched(c) ==            \* wrong id or question: the next one is tried
    /\ q[c].pc = "wait"
    /\ q' = [q EXCEPT ![c].pc = "loop"]
    /\ UNCHANGED <<concurrent, rr, fails, probing, prober, drops>>

Errored(c) ==               \* network error or timeout
    /\ q[c].pc = "wait"
    /\ fails' = [fails EXCEPT ![q[c].up] = Inc(@)]
    /\ q' = [q EXCEPT ![c].pc = "check"]
    /\ UNCHANGED <<concurrent, rr, probing, prober, drops>>

(* start_health_check: swap the flag, spawn a task if it was clear. *)
StartHealthCheckAlways(c) ==    \* mutant: the flag is not looked at
    LET p == q[c].up IN
    /\ q[c].pc = "check"
    /\ probing' = probing \cup {p}
    /\ prober' = [prober EXCEPT ![p] = Append(@, "sleep")]
    /\ q' = [q EXCEPT ![c].pc = "loop"]
    /\ UNCHANGED <<concurrent, rr, fails, drops>>

StartHealthCheck(c) ==
    LET p == q[c].up IN
    /\ q[c].pc = "check"
    /\ probing' = probing \cup {p}
    /\ prober' = IF p \in probing THEN prober
                 ELSE [prober EXCEPT ![p] = Append(@, "sleep")]
    /\ q' = [q EXCEPT ![c].pc = "loop"]
    /\ UNCHANGED <<concurrent, rr, fails, drops>>

(* Out of the loop: the kept answer if there is one, else an error. *)
EndForgets(c) ==            \* mutant: the kept answer is not returned
    /\ q[c].pc \in {"end", "expired"}
    /\ q' = [q EXCEPT ![c] = [@ EXCEPT !.pc = "leave", !.kept = FALSE]]
    /\ UNCHANGED <<concurrent, rr, fails, probing, prober, drops>>

End(c) ==
    /\ q[c].pc \in {"end", "expired"}
    /\ q' = [q EXCEPT ![c].pc = "leave"]
    /\ UNCHANGED <<concurrent, rr, fails, probing, prober, drops>>

Leave(c) ==
    /\ q[c].pc = "leave"
    /\ concurrent' = IF MaxConcurrent = 0 THEN concurrent ELSE concurrent - 1
    /\ q' = [q EXCEPT ![c] = Idle]
    /\ UNCHANGED <<rr, fails, probing, prober, drops>>

(* The caller drops the future while it awaits the upstream: the write     *)
(* timeout of DoH, a closed HTTP/2 stream.  Nothing after the await runs.  *)
Dropped(c) ==
    /\ q[c].pc = "wait"
    /\ drops < MaxDrops
    /\ drops' = drops + 1
    /\ q' = [q EXCEPT ![c] = Idle]
    /\ UNCHANGED <<concurrent, rr, fails, probing, prober>>
-----------------------------------------------------------------------------
(* The x-th health-check task of p (there is never more than one). *)
Wake(p, x) ==
    /\ prober[p][x] = "sleep"
    /\ prober' = [prober EXCEPT ![p][x] = IF fails[p] = 0 THEN "exit" ELSE "probe"]
    /\ UNCHANGED <<concurrent, rr, fails, probing, q, drops>>

ProbeOk(p, x) ==
    /\ prober[p][x] = "probe"
    /\ fails' = [fails EXCEPT ![p] = 0]
    /\ prober' = [prober EXCEPT ![p][x] = "exit"]
    /\ UNCHANGED <<concurrent, rr, probing, q, drops>>

ProbeFailed(p, x) ==
    /\ prober[p][x] = "probe"
    /\ fails' = [fails EXCEPT ![p] = Inc(@)]
    /\ prober' = [prober EXCEPT ![p][x] = "sleep"]
    /\ UNCHANGED <<concurrent, rr, probing, q, drops>>

Exit(p, x) ==
    /\ prober[p][x] = "exit"
    /\ probing' = probing \ {p}
    /\ prober' = [prober EXCEPT ![p] = SubSeq(@, 1, x - 1) \o SubSeq(@, x + 1, Len(@))]
    /\ UNCHANGED <<concurrent, rr, fails, q, drops>>
-----------------------------------------------------------------------------
Init ==
    /\ concurrent = 0 /\ rr = 0 /\ drops = 0
    /\ fails = [p \in Upstreams |-> 0]
    /\ probing = {}
    /\ prober = [p \in Upstreams |-> <<>>]
    /\ q = [c \in Queries |-> Idle]

QueryStep(c) ==     \* the steps of a query that is under way
    \/ Reject(c) \/ List(c) \/ Loop(c) \/ Pick(c)
    \/ Answered(c) \/ FailedOver(c) \/ Mismatched(c) \/ Errored(c)
    \/ StartHealthCheck(c) \/ End(c) \/ Leave(c)

ProberStep(p) == \E x \in DOMAIN prober[p] :
    Wake(p, x) \/ ProbeOk(p, x) \/ ProbeFailed(p, x) \/ Exit(p, x)

Next == \/ \E c \in Queries : Admit(c) \/ QueryStep(c) \/ Dropped(c)
        \/ \E p \in Upstreams : ProberStep(p)

Spec == Init /\ [][Next]_vars

(* A query under way keeps running (an exchange ends by its timeout), and  *)
(* so does a health-check task.  Queries need not arrive.                  *)
Fairness == /\ \A c \in Queries : WF_vars(QueryStep(c))
            /\ \A p \in Upstreams : WF_vars(ProberStep(p))

FairSpec == Spec /\ Fairness
-----------------------------------------------------------------------------
Counted == {c \in Queries : q[c].pc # "idle"}
Inside  == {c \in Queries : q[c].pc \notin {"idle", "reject"}}
WithLocals == {c \in Queries : q[c].pc \notin {"idle", "reject", "list"}}

(* Never more than max_concurrent queries are with the upstreams, though   *)
(* the counter is raised before it is compared, by any number of queries.  *)
ConcurrencyLimit == MaxConcurrent > 0 => Cardinality(Inside) <= MaxConcurrent

(* An upstream has at most one health-check task, and exactly while its    *)
(* probing flag is set.                                                    *)
OneProber == \A p \in Upstreams :
    Len(prober[p]) = IF p \in probing THEN 1 ELSE 0

(* A query asks at most twice as many times as there are upstreams, even   *)
(* when upstreams go down and recover while it walks its list.             *)
BoundedAttempts == \A c \in WithLocals : q[c].asks <= 2 * N

(* A query that gets a matching answer from any upstream is never answered *)
(* with an error (an answer with a failover rcode is kept for the end).    *)
AnswerNotLost ==
    [][\A c \in Queries : c \in WithLocals /\ q[c].kept /\ q'[c].pc # "idle"
                             => q'[c].kept]_vars

(* Every query that is under way comes to an end. *)
QueryEnds == \A c \in Queries : q[c].pc # "idle" ~> q[c].pc = "idle"
-----------------------------------------------------------------------------
(* Stated by the code or its docs, and not so:                             *)

(* max_concurrent refuses a query only over the limit, that is when at     *)
(* least max_concurrent other queries are under way.                       *)
RefusedOnlyOverLimit ==
    [][\A c \in Queries : q[c].pc = "idle" /\ q'[c].pc = "reject"
                             => Cardinality(Counted) >= MaxConcurrent]_vars

(* When all upstreams are down, each one is tried once anyway before the   *)
(* query fails (unless its time is up).                                    *)
AllDownTriesEach ==
    \A c \in Queries : q[c].pc = "end" /\ q[c].triedDown /\ ~q[c].kept
                          => q[c].tried = Upstreams

(* Health checking of an upstream is running from its first failure on,    *)
(* until a success clears the failure (a query that just failed is about   *)
(* to start it).                                                           *)
FailedIsProbed ==
    \A p \in Upstreams : fails[p] > 0 =>
        p \in probing \/ \E c \in Queries : q[c].pc = "check" /\ q[c].up = p
=============================================================================
