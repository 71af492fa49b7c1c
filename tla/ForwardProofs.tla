---------------------------- MODULE ForwardProofs ----------------------------
(***************************************************************************)
(* For any upstreams, limits and number of queries: start_health_check     *)
(* leaves an upstream with at most one health-check task, max_concurrent   *)
(* is never exceeded, no query asks more than twice per upstream, and an   *)
(* answer that was kept is not lost.                                       *)
(*                                                                         *)
(* For any exchanges, sockets and size of the pool: a stream has one user, *)
(* and an exchange reads the answer to its own request.  The second rests  *)
(* on the first and on what a stream carries: nothing while it is idle or  *)
(* about to be written to, then the one request of its user, or the answer *)
(* to it.                                                                  *)
(***************************************************************************)
EXTENDS Forward, ConnPool, FiniteSetTheorems, TLAPS

(* The health-check tasks of each upstream; never two of them. *)
Tasks == [Upstreams -> Seq({"sleep", "probe", "exit"})]
ProberInv == prober \in Tasks /\ OneProber

(* A task's step keeps its place in the list of tasks; its exit empties it. *)
LEMMA ProberNext == ProberInv /\ [Next]_vars => ProberInv'
<1> SUFFICES ASSUME ProberInv, [Next]_vars PROVE ProberInv'
  OBVIOUS
<1> USE DEF ProberInv, Tasks, OneProber
<1>1. CASE UNCHANGED <<prober, probing>>
  BY <1>1
<1>2. ASSUME NEW c \in Queries, StartHealthCheck(c) PROVE ProberInv'
  <2> DEFINE p == q[c].up
  <2>1. probing' = probing \cup {p}
    BY <1>2 DEF StartHealthCheck
  <2>2. CASE p \in probing
    BY <1>2, <2>1, <2>2 DEF StartHealthCheck
  <2>3. CASE p \notin probing
    <3>1. prober' = [prober EXCEPT ![p] = Append(@, "sleep")]
      BY <1>2, <2>3 DEF StartHealthCheck
    <3> HIDE DEF p
    <3>2. prober' \in Tasks
      <4>1. CASE p \in Upstreams
        <5>1. Append(prober[p], "sleep") \in Seq({"sleep", "probe", "exit"})
          BY <4>1
        <5>2. QED
          BY <3>1, <5>1, Zenon
      <4>2. CASE p \notin Upstreams
        BY <3>1, <4>2, Zenon
      <4>3. QED
        BY <4>1, <4>2
    <3>3. \A u \in Upstreams : u # p => prober'[u] = prober[u] /\ (u \in probing' <=> u \in probing)
      BY <2>1, <3>1
    <3>4. p \in Upstreams => Len(prober'[p]) = 1 /\ p \in probing'
      BY <2>1, <2>3, <3>1
    <3>5. QED
      BY <3>2, <3>3, <3>4
  <2>4. QED
    BY <2>2, <2>3
<1>3. ASSUME NEW u \in Upstreams, NEW n \in DOMAIN prober[u], Wake(u, n) \/ ProbeOk(u, n) \/ ProbeFailed(u, n)
      PROVE  ProberInv'
  <2>1. PICK s \in {"sleep", "probe", "exit"} : prober' = [prober EXCEPT ![u][n] = s]
    BY <1>3 DEF Wake, ProbeOk, ProbeFailed
  <2>2. probing' = probing
    BY <1>3 DEF Wake, ProbeOk, ProbeFailed
  <2>3. [prober[u] EXCEPT ![n] = s] \in Seq({"sleep", "probe", "exit"}) /\ Len([prober[u] EXCEPT ![n] = s]) = Len(prober[u])
    OBVIOUS
  <2>4. prober' = [prober EXCEPT ![u] = [prober[u] EXCEPT ![n] = s]]
    BY <2>1
  <2>5. QED
    BY <2>2, <2>3, <2>4
<1>4. ASSUME NEW u \in Upstreams, NEW n \in DOMAIN prober[u], Exit(u, n) PROVE ProberInv'
  <2>1. prober[u] \in Seq({"sleep", "probe", "exit"}) /\ Len(prober[u]) = 1 /\ n = 1 /\ u \in probing
    BY <1>4
  <2>2. SubSeq(prober[u], 1, n - 1) \o SubSeq(prober[u], n + 1, Len(prober[u])) = <<>>
    BY <2>1
  <2>3. prober' = [prober EXCEPT ![u] = <<>>] /\ probing' = probing \ {u}
    BY <1>4, <2>2, Zenon DEF Exit
  <2>4. prober' \in Tasks /\ prober'[u] = <<>> /\ \A v \in Upstreams : v # u => prober'[v] = prober[v]
    BY <2>3
  <2>5. QED
    BY <2>3, <2>4, Zenon
<1>5. ASSUME NEW c \in Queries, Admit(c) \/ QueryStep(c) \/ Dropped(c), ~StartHealthCheck(c)
      PROVE  UNCHANGED <<prober, probing>>
  BY <1>5, Zenon DEF Admit, QueryStep, Dropped, Reject, List, Loop, Pick, Answered, FailedOver, Mismatched, Errored, End, Leave
<1>6. CASE UNCHANGED vars
  BY <1>1, <1>6 DEF vars
<1>7. QED
  BY <1>1, <1>2, <1>3, <1>4, <1>5, <1>6 DEF Next, ProberStep

(* No upstream ever has two health checks, and none without its flag. *)
THEOREM OneHealthCheck == Spec => []OneProber
<1>1. Init => ProberInv
  BY DEF Init, ProberInv, Tasks, OneProber
<1>2. ProberInv => OneProber
  BY DEF ProberInv
<1>3. QED
  BY <1>1, <1>2, ProberNext, PTL DEF Spec
-----------------------------------------------------------------------------
(* What a query holds once it has its list: a turn of the loop moves i, so *)
(* that asks stays below i, plus N after the one restart of the list.      *)
NoLocals == {"idle", "reject", "list"}
Walked(r) == /\ {"i", "asks", "triedDown", "kept"} \subseteq DOMAIN r
             /\ r.i \in 0 .. N /\ r.asks \in Nat
             /\ r.asks <= r.i + (IF r.triedDown THEN N ELSE 0)
(* a query of the model; the locals of one that has its list *)
IsQuery(r) == /\ "pc" \in DOMAIN r /\ r = [f \in DOMAIN r |-> r[f]]
              /\ r.pc \notin NoLocals => Walked(r)
QueriesOK == q = [c \in Queries |-> q[c]] /\ \A c \in Queries : IsQuery(q[c])
(* a step of query c leaves the others alone *)
OnlyOf(c) == \A d \in Queries : d # c => q'[d] = q[d]

(* A step of one query leaves the others alone. *)
LEMMA QueryBecomes ==
    ASSUME QueriesOK, NEW c \in Queries, NEW r, IsQuery(r), q' = [q EXCEPT ![c] = r]
    PROVE  QueriesOK' /\ OnlyOf(c) /\ q'[c] = r
<1>1. q'[c] = r /\ OnlyOf(c) /\ q' = [d \in Queries |-> q'[d]]
  BY DEF QueriesOK, OnlyOf
<1>2. QED
  BY <1>1 DEF QueriesOK, OnlyOf

(* The step only moves the program counter. *)
LEMMA QueryGoesTo ==
    ASSUME QueriesOK, NEW c \in Queries, NEW pc, q' = [q EXCEPT ![c].pc = pc],
           q[c].pc \notin NoLocals, pc \notin NoLocals
    PROVE  QueriesOK' /\ OnlyOf(c) /\ q'[c].pc = pc
<1> DEFINE r == [q[c] EXCEPT !.pc = pc]
<1>1. q' = [q EXCEPT ![c] = r]
  OBVIOUS
<1>2. IsQuery(r) /\ r.pc = pc
  BY DEF QueriesOK, IsQuery, Walked
<1> HIDE DEF r
<1>3. QED
  BY <1>1, <1>2, QueryBecomes, Zenon

(* The step sets `kept` as well. *)
LEMMA QueryKeeps ==
    ASSUME QueriesOK, NEW c \in Queries, NEW pc, q' = [q EXCEPT ![c] = [@ EXCEPT !.pc = pc, !.kept = TRUE]],
           q[c].pc \notin NoLocals, pc \notin NoLocals
    PROVE  QueriesOK' /\ OnlyOf(c) /\ q'[c].pc = pc
<1> DEFINE r == [q[c] EXCEPT !.pc = pc, !.kept = TRUE]
<1>1. q' = [q EXCEPT ![c] = r]
  OBVIOUS
<1>2. IsQuery(r) /\ r.pc = pc
  BY Zenon DEF QueriesOK, IsQuery, Walked
<1> HIDE DEF r
<1>3. QED
  BY <1>1, <1>2, QueryBecomes, Zenon

(* A turn of the inner loop asks an upstream, or passes over one. *)
LEMMA QueryAsks ==
    ASSUME QueriesOK, NEW c \in Queries, NEW p, NEW i \in 0 .. N, NEW all \in BOOLEAN,
           q[c].pc \notin NoLocals, Chosen(c, p, i, all),
           IF all THEN ~q[c].triedDown /\ q[c].i = N - 1 /\ i = 0 ELSE i = q[c].i + 1
    PROVE  QueriesOK' /\ OnlyOf(c) /\ q'[c].pc = "wait"
<1> DEFINE r == Asking(q[c], p, i, all)
<1>1. q' = [q EXCEPT ![c] = r]
  BY DEF Chosen
<1>2. /\ DOMAIN r = DOMAIN q[c] /\ r = [f \in DOMAIN r |-> r[f]]
      /\ r.pc = "wait" /\ "pc" \in DOMAIN r
  BY Zenon DEF QueriesOK, IsQuery, Asking
<1>3. N \in Nat /\ Walked(q[c])
  BY DEF QueriesOK, IsQuery, N
<1>4. r.i = i /\ r.asks \in Nat /\ r.asks <= q[c].asks + 1
  BY <1>3 DEF QueriesOK, IsQuery, Walked, Asking
<1>5. r.triedDown = IF all THEN TRUE ELSE q[c].triedDown
  BY <1>3 DEF QueriesOK, IsQuery, Walked, Asking
<1>6. Walked(r)
  <2>1. CASE all
    <3>1. ~q[c].triedDown /\ q[c].i = N - 1 /\ i = 0 /\ r.triedDown = TRUE
      BY <1>5, <2>1
    <3>2. q[c].asks \in Nat /\ q[c].asks <= N - 1
      BY <1>3, <3>1 DEF Walked
    <3>3. r.asks <= r.i + N
      BY <1>3, <1>4, <3>1, <3>2
    <3>4. QED
      BY <1>2, <1>3, <1>4, <3>1, <3>3 DEF Walked
  <2>2. CASE ~all
    BY <1>2, <1>3, <1>4, <1>5, <2>2 DEF Walked
  <2>3. QED
    BY <2>1, <2>2
<1>7. IsQuery(r)
  BY <1>2, <1>6 DEF IsQuery
<1> HIDE DEF r
<1>8. QED
  BY <1>1, <1>2, <1>7, QueryBecomes, Zenon

(* An upstream that is down is passed over. *)
LEMMA QuerySkips ==
    ASSUME QueriesOK, NEW c \in Queries, q[c].pc \notin NoLocals, q[c].i < N,
           q' = [q EXCEPT ![c].i = q[c].i + 1]
    PROVE  QueriesOK' /\ OnlyOf(c) /\ q'[c].pc = q[c].pc
<1> DEFINE r == [q[c] EXCEPT !.i = q[c].i + 1]
<1>1. q' = [q EXCEPT ![c] = r]
  OBVIOUS
<1>2. N \in Nat /\ Walked(q[c])
  BY DEF QueriesOK, IsQuery, N
<1>3. /\ r = [f \in DOMAIN r |-> r[f]] /\ DOMAIN r = DOMAIN q[c] /\ "pc" \in DOMAIN r
      /\ r.pc = q[c].pc /\ r.asks = q[c].asks /\ r.i = q[c].i + 1
      /\ r.triedDown = q[c].triedDown
  BY <1>2 DEF QueriesOK, IsQuery, Walked
<1>4. Walked(r)
  BY <1>2, <1>3 DEF Walked
<1>5. IsQuery(r)
  BY <1>3, <1>4 DEF IsQuery
<1> HIDE DEF r
<1>6. QED
  BY <1>1, <1>3, <1>5, QueryBecomes, Zenon

(* A query gets its list. *)
LEMMA QueryListed ==
    ASSUME QueriesOK, NEW c \in Queries, List(c)
    PROVE  QueriesOK' /\ OnlyOf(c) /\ q'[c].pc = "loop"
<1>1. PICK order \in Orders :
        q' = [q EXCEPT ![c] = [pc |-> "loop", list |-> order, i |-> 0, up |-> order[1],
                 triedDown |-> FALSE, tried |-> {}, asks |-> 0, kept |-> FALSE]]
  BY Zenon DEF List
<1> DEFINE r == [pc |-> "loop", list |-> order, i |-> 0, up |-> order[1],
                 triedDown |-> FALSE, tried |-> {}, asks |-> 0, kept |-> FALSE]
<1>2. N \in Nat
  BY DEF N
<1>3. IsQuery(r) /\ r.pc = "loop"
  <2>1. "pc" \in DOMAIN r /\ r = [f \in DOMAIN r |-> r[f]]
    OBVIOUS
  <2>2. r.i = 0 /\ r.asks = 0 /\ ~r.triedDown /\ {"i", "asks", "triedDown", "kept"} \subseteq DOMAIN r
    OBVIOUS
  <2>3. Walked(r)
    BY <1>2, <2>2 DEF Walked
  <2>4. QED
    BY <2>1, <2>3 DEF IsQuery
<1>4. q' = [q EXCEPT ![c] = r]
  BY <1>1
<1> HIDE DEF r
<1>5. QED
  BY <1>3, <1>4, QueryBecomes, Zenon

(* The turns of the inner loop. *)
LEMMA QueryPicks ==
    ASSUME QueriesOK, NEW c \in Queries, Pick(c)
    PROVE  QueriesOK' /\ OnlyOf(c) /\ q'[c].pc \notin NoLocals
<1> DEFINE i == q[c].i + 1
           p == q[c].list[i]
<1>1. q[c].pc = "pick" /\ q[c].pc \notin NoLocals
  BY DEF Pick, NoLocals
<1>2. N \in Nat /\ q[c].i \in 0 .. N
  BY <1>1 DEF QueriesOK, IsQuery, Walked, N
<1>3. CASE q' = [q EXCEPT ![c].pc = "end"]
  <2>1. "end" \notin NoLocals
    BY DEF NoLocals
  <2>2. QED
    BY <1>1, <1>3, <2>1, QueryGoesTo, Zenon
<1>4. CASE q[c].i < N /\ Chosen(c, p, i, FALSE)
  <2>1. i \in 0 .. N /\ i = q[c].i + 1
    BY <1>2, <1>4
  <2>2. QED
    BY <1>1, <1>4, <2>1, QueryAsks, Zenon DEF NoLocals
<1>5. CASE q[c].i < N /\ AllDown(c, p, i) /\ Chosen(c, p, 0, TRUE)
  <2>1. ~q[c].triedDown /\ q[c].i = N - 1 /\ 0 \in 0 .. N
    BY <1>2, <1>5 DEF AllDown
  <2>2. QED
    BY <1>1, <1>5, <2>1, QueryAsks, Zenon DEF NoLocals
<1>6. CASE q[c].i < N /\ q' = [q EXCEPT ![c].i = i]
  BY <1>1, <1>6, QuerySkips, Zenon
<1>7. QED
  BY <1>3, <1>4, <1>5, <1>6, Zenon DEF Pick

(* The steps of an admitted query, up to the one with which it leaves. *)
Under(c) == \/ List(c) \/ Loop(c) \/ Pick(c) \/ Answered(c) \/ FailedOver(c)
            \/ Mismatched(c) \/ Errored(c) \/ StartHealthCheck(c) \/ End(c)

(* Such a step keeps the query admitted, and counted. *)
LEMMA QueryUnder ==
    ASSUME QueriesOK, NEW c \in Queries, Under(c)
    PROVE  /\ QueriesOK' /\ OnlyOf(c) /\ concurrent' = concurrent
           /\ q[c].pc \notin {"idle", "reject"} /\ q'[c].pc \notin {"idle", "reject"}
<1>1. concurrent' = concurrent
  BY Zenon DEF Under, List, Loop, Pick, Answered, FailedOver, Mismatched, Errored, StartHealthCheck, End
<1>2. q[c].pc \in {"list", "loop", "pick", "wait", "check", "end", "expired"}
  BY Zenon DEF Under, List, Loop, Pick, Answered, FailedOver, Mismatched, Errored, StartHealthCheck, End
<1>3. CASE List(c)
  BY <1>1, <1>2, <1>3, QueryListed
<1>4. CASE Pick(c)
  BY <1>1, <1>2, <1>4, QueryPicks DEF NoLocals
<1>5. CASE Loop(c)
  <2>1. PICK pc \in {"pick", "expired"} : q' = [q EXCEPT ![c].pc = pc]
    BY <1>5, Zenon DEF Loop
  <2>2. q[c].pc \notin NoLocals /\ pc \notin NoLocals
    BY <1>5 DEF Loop, NoLocals
  <2>3. QED
    BY <1>1, <1>2, <2>1, <2>2, QueryGoesTo, Zenon
<1>6. CASE Answered(c) \/ FailedOver(c)
  <2>1. PICK pc \in {"loop", "leave"} : q' = [q EXCEPT ![c] = [@ EXCEPT !.pc = pc, !.kept = TRUE]]
    BY <1>6, Zenon DEF Answered, FailedOver
  <2>2. q[c].pc \notin NoLocals /\ pc \notin NoLocals
    BY <1>6 DEF Answered, FailedOver, NoLocals
  <2>3. QED
    BY <1>1, <1>2, <2>1, <2>2, QueryKeeps, Zenon
<1>7. CASE Mismatched(c) \/ Errored(c) \/ StartHealthCheck(c) \/ End(c)
  <2>1. PICK pc \in {"loop", "check", "leave"} : q' = [q EXCEPT ![c].pc = pc]
    BY <1>7, Zenon DEF Mismatched, Errored, StartHealthCheck, End
  <2>2. q[c].pc \notin NoLocals /\ pc \notin NoLocals
    BY <1>7, Zenon DEF Mismatched, Errored, StartHealthCheck, End, NoLocals
  <2>3. QED
    BY <1>1, <1>2, <2>1, <2>2, QueryGoesTo, Zenon
<1>8. QED
  BY <1>3, <1>4, <1>5, <1>6, <1>7 DEF Under
-----------------------------------------------------------------------------
(* A query that leaves has no locals any more, and one that enters none yet. *)
LEMMA QueryBare ==
    ASSUME QueriesOK, NEW c \in Queries, NEW pc \in {"idle", "reject", "list"}, q' = [q EXCEPT ![c] = [pc |-> pc]]
    PROVE  QueriesOK' /\ OnlyOf(c) /\ q'[c].pc = pc
<1>1. IsQuery([pc |-> pc]) /\ [pc |-> pc].pc = pc
  BY DEF IsQuery, NoLocals
<1>2. QED
  BY <1>1, QueryBecomes, Zenon

(* What the counter is worth: it is at least the number of queries it      *)
(* counts (a dropped future is never taken off), and a query only goes in  *)
(* when the counter, its own increment aside, is below the limit.          *)
LimitInv == /\ QueriesOK /\ concurrent \in Int
            /\ MaxConcurrent > 0 =>
                  /\ Cardinality(Counted) <= concurrent
                  /\ Cardinality(Inside) <= MaxConcurrent

(* There are finitely many queries, and those inside are counted. *)
LEMMA CountedFinite == /\ IsFiniteSet(Counted) /\ IsFiniteSet(Inside) /\ Inside \subseteq Counted
                       /\ Cardinality(Counted) \in Nat /\ Cardinality(Inside) \in Nat
                       /\ Cardinality(Inside) <= Cardinality(Counted)
<1>1. Inside \subseteq Counted /\ Counted \subseteq Queries
  BY DEF Inside, Counted
<1>2. IsFiniteSet(Counted) /\ IsFiniteSet(Inside)
  BY <1>1, ForwardConstants, FS_Subset
<1>3. QED
  BY <1>1, <1>2, FS_Subset, FS_CardinalityType

(* A query is counted as long as it is inside; a refused one is counted    *)
(* for a moment, and never inside.                                         *)
LEMMA LimitNext == LimitInv /\ [Next]_vars => LimitInv'
<1> SUFFICES ASSUME LimitInv, [Next]_vars PROVE LimitInv'
  OBVIOUS
<1> USE DEF LimitInv
<1>1. CASE UNCHANGED <<q, concurrent>>
  BY <1>1 DEF QueriesOK, Counted, Inside
<1>2. ASSUME NEW c \in Queries, Admit(c) PROVE LimitInv'
  <2> DEFINE to == IF MaxConcurrent > 0 /\ concurrent >= MaxConcurrent THEN "reject" ELSE "list"
  <2>1. QueriesOK' /\ OnlyOf(c) /\ q'[c].pc = to
    BY <1>2, QueryBare, Zenon DEF Admit
  <2>2. q[c].pc = "idle"
    BY <1>2 DEF Admit, Idle
  <2>3. concurrent' \in Int
    BY <1>2 DEF Admit
  <2>4. Counted' = Counted \cup {c} /\ c \notin Counted
    BY <2>1, <2>2 DEF Counted, OnlyOf
  <2>5. Inside' = IF to = "list" THEN Inside \cup {c} ELSE Inside
    BY <2>1, <2>2 DEF Inside, OnlyOf
  <2>6. c \notin Inside
    BY <2>2 DEF Inside
  <2>7. ASSUME MaxConcurrent > 0
        PROVE  Cardinality(Counted') <= concurrent' /\ Cardinality(Inside') <= MaxConcurrent
    <3>1. concurrent' = concurrent + 1
      BY <1>2, <2>7, ForwardConstants DEF Admit
    <3>2. Cardinality(Counted') = Cardinality(Counted) + 1
      BY <2>4, CountedFinite, FS_AddElement, Zenon
    <3>3. CASE concurrent >= MaxConcurrent
      BY <2>5, <2>7, <3>1, <3>2, <3>3, CountedFinite
    <3>4. CASE ~(concurrent >= MaxConcurrent)
      <4>1. Cardinality(Inside') = Cardinality(Inside) + 1
        BY <2>5, <2>6, <3>4, CountedFinite, FS_AddElement, Zenon
      <4>2. QED
        BY <2>7, <3>1, <3>2, <3>4, <4>1, CountedFinite, ForwardConstants
    <3>5. QED
      BY <3>3, <3>4
  <2>8. QED
    BY <2>1, <2>3, <2>7
<1>3. ASSUME NEW c \in Queries, Reject(c) \/ Leave(c) \/ Dropped(c) PROVE LimitInv'
  <2>1. q' = [q EXCEPT ![c] = [pc |-> "idle"]] /\ q[c].pc \in {"reject", "leave", "wait"}
    BY <1>3 DEF Reject, Leave, Dropped, Idle
  <2>2. QueriesOK' /\ OnlyOf(c) /\ q'[c].pc = "idle"
    BY <2>1, QueryBare, Zenon
  <2>3. concurrent' \in Int /\ (MaxConcurrent > 0 => concurrent' >= concurrent - 1)
    BY <1>3, ForwardConstants DEF Reject, Leave, Dropped
  <2>4. Counted' = Counted \ {c} /\ c \in Counted
    BY <2>1, <2>2 DEF Counted, OnlyOf
  <2>5. Inside' \subseteq Inside
    BY <2>2 DEF Inside, OnlyOf
  <2>6. Cardinality(Counted') = Cardinality(Counted) - 1
    BY <2>4, CountedFinite, FS_RemoveElement, Zenon
  <2>7. Cardinality(Inside') \in Nat /\ Cardinality(Inside') <= Cardinality(Inside)
    BY <2>5, CountedFinite, FS_Subset, FS_CardinalityType
  <2>8. QED
    BY <2>2, <2>3, <2>6, <2>7, CountedFinite, ForwardConstants
<1>4. ASSUME NEW c \in Queries, Under(c) PROVE LimitInv'
  <2>1. /\ QueriesOK' /\ OnlyOf(c) /\ concurrent' = concurrent
        /\ q[c].pc \notin {"idle", "reject"} /\ q'[c].pc \notin {"idle", "reject"}
    BY <1>4, QueryUnder
  <2>2. Counted' = Counted /\ Inside' = Inside
    BY <2>1 DEF Counted, Inside, OnlyOf
  <2>3. QED
    BY <2>1, <2>2
<1>5. ASSUME NEW p \in Upstreams, ProberStep(p) PROVE LimitInv'
  BY <1>1, <1>5, Zenon DEF ProberStep, Wake, ProbeOk, ProbeFailed, Exit
<1>6. CASE UNCHANGED vars
  BY <1>1, <1>6 DEF vars
<1>7. QED
  BY <1>2, <1>3, <1>4, <1>5, <1>6 DEF Next, QueryStep, Under

(* The counter is as LimitInv says in every state. *)
LEMMA LimitInvariant == Spec => []LimitInv
<1>1. Init => LimitInv
  <2> SUFFICES ASSUME Init PROVE LimitInv
    OBVIOUS
  <2>1. QueriesOK
    BY DEF Init, Idle, QueriesOK, IsQuery, NoLocals
  <2>2. Counted = {} /\ Inside = {}
    BY DEF Init, Idle, Counted, Inside
  <2>3. QED
    BY <2>1, <2>2, FS_EmptySet, ForwardConstants DEF Init, LimitInv
<1>2. QED
  BY <1>1, LimitNext, PTL DEF Spec

(* However the queries interleave the counter's increment, its comparison  *)
(* and its decrement, and whichever futures are dropped in between, no     *)
(* more than max_concurrent queries are with the upstreams.                *)
THEOREM LimitHolds == Spec => []ConcurrencyLimit
<1>1. LimitInv => ConcurrencyLimit
  BY DEF LimitInv, ConcurrencyLimit
<1>2. QED
  BY <1>1, LimitInvariant, PTL

(* A query's walk along its list is bounded whatever the upstreams'        *)
(* failure counters do meanwhile: the list is restarted once at most.      *)
THEOREM AttemptsBounded == Spec => []BoundedAttempts
<1>1. LimitInv => BoundedAttempts
  <2> SUFFICES ASSUME LimitInv, NEW c \in WithLocals PROVE q[c].asks <= 2 * N
    BY DEF BoundedAttempts
  <2>1. N \in Nat /\ Walked(q[c])
    BY DEF LimitInv, QueriesOK, IsQuery, NoLocals, WithLocals, N
  <2>2. QED
    BY <2>1 DEF Walked
<1>2. QED
  BY <1>1, LimitInvariant, PTL

(* One step: what a query has kept stays, or becomes TRUE, or it leaves. *)
LEMMA KeptStep ==
    ASSUME QueriesOK, [Next]_vars, NEW c \in WithLocals, q'[c].pc # "idle"
    PROVE  q'[c].kept \in {q[c].kept, TRUE}
<1>1. c \in Queries /\ q[c].pc \notin NoLocals /\ "kept" \in DOMAIN q[c] /\ c \in DOMAIN q
  BY Zenon DEF WithLocals, NoLocals, QueriesOK, IsQuery, Walked
<1>2. CASE q'[c] = q[c]
  BY <1>2
<1>3. ASSUME NEW pc, q' = [q EXCEPT ![c].pc = pc] PROVE q'[c].kept = q[c].kept
  BY <1>1, <1>3
<1>4. ASSUME NEW pc, q' = [q EXCEPT ![c] = [@ EXCEPT !.pc = pc, !.kept = TRUE]] PROVE q'[c].kept = TRUE
  BY <1>1, <1>4, Zenon
<1>5. ASSUME NEW p, NEW i, NEW all, Chosen(c, p, i, all) PROVE q'[c].kept = q[c].kept
  BY <1>1, <1>5, Zenon DEF Chosen, Asking
<1>6. ASSUME NEW i, q' = [q EXCEPT ![c].i = i] PROVE q'[c].kept = q[c].kept
  BY <1>1, <1>6
<1>7. ASSUME NEW d \in Queries, d # c, Admit(d) \/ QueryStep(d) \/ Dropped(d) PROVE q'[c] = q[c]
  <2>1. CASE Under(d)
    BY <1>1, <1>7, <2>1, QueryUnder, Zenon DEF OnlyOf
  <2>2. CASE Admit(d) \/ Reject(d) \/ Leave(d) \/ Dropped(d)
    <3>1. \E r : q' = [q EXCEPT ![d] = r]
      BY <2>2 DEF Admit, Reject, Leave, Dropped
    <3>2. QED
      BY <1>1, <1>7, <3>1
  <2>3. QED
    BY <1>7, <2>1, <2>2, Zenon DEF QueryStep, Under
<1>8. CASE Answered(c) \/ FailedOver(c)
  BY <1>4, <1>8, Zenon DEF Answered, FailedOver
<1>9. CASE Pick(c)
  BY <1>3, <1>5, <1>6, <1>9, Zenon DEF Pick
<1>10. CASE Loop(c) \/ Mismatched(c) \/ Errored(c) \/ StartHealthCheck(c) \/ End(c)
  BY <1>3, <1>10, Zenon DEF Loop, Mismatched, Errored, StartHealthCheck, End
<1>11. ~(Admit(c) \/ Reject(c) \/ List(c) \/ Leave(c) \/ Dropped(c))
  <2>1. ~(Admit(c) \/ Reject(c) \/ List(c))
    BY <1>1 DEF Admit, Reject, List, Idle, NoLocals
  <2>2. Leave(c) \/ Dropped(c) => q'[c] = Idle
    BY <1>1 DEF Leave, Dropped
  <2>3. QED
    BY <2>1, <2>2 DEF Idle
<1>12. ASSUME NEW p \in Upstreams, ProberStep(p) PROVE q'[c] = q[c]
  BY <1>12, Zenon DEF ProberStep, Wake, ProbeOk, ProbeFailed, Exit
<1>13. CASE UNCHANGED vars
  BY <1>2, <1>13 DEF vars
<1>14. QED
  BY <1>1, <1>2, <1>7, <1>8, <1>9, <1>10, <1>11, <1>12, <1>13, Zenon DEF Next, QueryStep

(* An answer that is kept for the end of the loop (a failover rcode), or   *)
(* about to be returned, is not lost to a later error, timeout or mismatch *)
(* nor to the deadline.                                                    *)
THEOREM AnswerKept == Spec => AnswerNotLost
<1> DEFINE Kept == \A c \in Queries : c \in WithLocals /\ q[c].kept /\ q'[c].pc # "idle" => q'[c].kept
<1>1. LimitInv /\ [Next]_vars => Kept
  BY KeptStep, Zenon DEF LimitInv
<1>2. QED
  BY <1>1, LimitInvariant, PTL DEF Spec, AnswerNotLost
-----------------------------------------------------------------------------
(* The pool without its newest connection. *)
LEMMA OlderConns ==
    ASSUME pool \in Seq(Conns), pool # <<>>, IsInjective(pool)
    PROVE  /\ Older \in Seq(Conns) /\ Len(Older) <= Len(pool) /\ IsInjective(Older)
           /\ Newest \in Conns /\ Newest \in Range(pool)
           /\ Range(Older) \subseteq Range(pool) \ {Newest}
<1>1. /\ Len(pool) \in Nat /\ Len(pool) > 0 /\ DOMAIN pool = 1 .. Len(pool)
      /\ \A i \in 1 .. Len(pool) : pool[i] \in Conns
  OBVIOUS
<1>2. Older \in Seq(Conns) /\ Len(Older) = Len(pool) - 1 /\ \A i \in 1 .. Len(pool) - 1 : Older[i] = pool[i]
  BY <1>1 DEF Older
<1>3. DOMAIN Older = 1 .. Len(pool) - 1
  BY <1>1, <1>2
<1>4. QED
  BY <1>1, <1>2, <1>3 DEF Newest, Range, IsInjective

(* The pool with one more connection. *)
LEMMA AppendToPool ==
    ASSUME NEW s \in Seq(Conns), NEW c \in Conns, c \notin Range(s), IsInjective(s)
    PROVE  /\ Append(s, c) \in Seq(Conns) /\ Len(Append(s, c)) = Len(s) + 1 /\ IsInjective(Append(s, c))
           /\ Range(Append(s, c)) = Range(s) \cup {c}
<1>1. /\ Len(s) \in Nat /\ DOMAIN s = 1 .. Len(s) /\ DOMAIN Append(s, c) = 1 .. Len(s) + 1
      /\ Append(s, c) \in Seq(Conns) /\ Len(Append(s, c)) = Len(s) + 1
      /\ \A i \in 1 .. Len(s) : Append(s, c)[i] = s[i]
      /\ Append(s, c)[Len(s) + 1] = c
  OBVIOUS
<1>2. IsInjective(Append(s, c))
  BY <1>1 DEF Range, IsInjective
<1>3. Range(Append(s, c)) = Range(s) \cup {c}
  BY <1>1 DEF Range
<1>4. QED
  BY <1>1, <1>2, <1>3, Zenon
-----------------------------------------------------------------------------
(* What each stream carries. *)
Empty(c) == asked[c] = <<>> /\ unread[c] = <<>>
Carries(c, e) == \/ asked[c] = <<e>> /\ unread[c] = <<>>
                 \/ asked[c] = <<>> /\ unread[c] = <<e>>
StreamsOK ==
    /\ \A c \in Range(pool) : Empty(c)
    /\ \A e \in Exchanges : x[e].pc = "write" => Empty(x[e].conn)
    /\ \A e \in Exchanges : x[e].pc = "read" => Carries(x[e].conn, e)

PoolInv == PoolTypeOK /\ ExclusiveConn /\ StreamsOK

(* No connection exists at the start. *)
LEMMA PoolInvInit == PoolInit => PoolInv
BY PoolAssumption DEF PoolInit, PoolInv, PoolTypeOK, ExclusiveConn, StreamsOK, Waiting, NoExchange, Range, IsInjective

(* A connection that nobody else has, and that carries nothing, is given   *)
(* to an exchange: the newest of the pool (TakeConn) or a new one (Dial).  *)
LEMMA StreamGiven ==
    ASSUME PoolInv, NEW e \in Exchanges, NEW c \in Conns,
           \A f \in Waiting : x[f].conn # c,
           pool' \in Seq(Conns), Len(pool') <= PoolCap, IsInjective(pool'), Range(pool') \subseteq Range(pool) \ {c},
           x' = [f \in Exchanges |-> x'[f]], x'[e].pc = "write", x'[e].conn = c,
           \A f \in Exchanges : f # e => x'[f] = x[f],
           asked' \in [Conns -> Seq(Exchanges)], unread' \in [Conns -> Seq(Exchanges)], Empty(c)',
           \A d \in Conns : d # c => asked'[d] = asked[d] /\ unread'[d] = unread[d]
    PROVE  PoolInv'
<1> USE DEF PoolInv
<1>1. \A f \in Waiting' : f = e \/ (f \in Waiting /\ f # e /\ x'[f] = x[f])
  BY DEF Waiting
<1>2. e \in Exchanges /\ \A f \in Exchanges : f \in Waiting' => x'[f].conn \in Conns
  BY <1>1, Zenon DEF PoolTypeOK
<1>3. PoolTypeOK'
  BY <1>2 DEF PoolTypeOK, Waiting
<1>4. ExclusiveConn'
  <2>1. \A f, g \in Waiting' : x'[f].conn = x'[g].conn => f = g
    <3> SUFFICES ASSUME NEW f \in Waiting', NEW g \in Waiting', x'[f].conn = x'[g].conn PROVE f = g
      OBVIOUS
    <3>1. CASE f = e \/ g = e
      BY <1>1, <3>1, Zenon
    <3>2. CASE f # e /\ g # e
      BY <1>1, <3>2 DEF ExclusiveConn
    <3>3. QED
      BY <3>1, <3>2
  <2>2. \A f \in Waiting' : x'[f].conn \notin Range(pool')
    BY <1>1, Zenon DEF ExclusiveConn
  <2>3. QED
    BY <2>1, <2>2 DEF ExclusiveConn
<1>5. StreamsOK'
  <2>1. \A d \in Range(pool) : d \in Conns
    BY DEF PoolTypeOK, Range
  <2>2. \A d \in Range(pool') : Empty(d)'
    BY <2>1, Zenon DEF StreamsOK, Empty
  <2>3. \A f \in Exchanges : x'[f].pc = "write" => Empty(x[f].conn)'
    <3> SUFFICES ASSUME NEW f \in Exchanges, x'[f].pc = "write", f # e PROVE Empty(x[f].conn)'
      OBVIOUS
    <3>1. x'[f] = x[f] /\ x[f].conn \in Conns /\ x[f].conn # c
      BY DEF PoolTypeOK, Waiting
    <3>2. asked'[x[f].conn] = asked[x[f].conn] /\ unread'[x[f].conn] = unread[x[f].conn]
      BY <3>1
    <3>3. Empty(x[f].conn)
      BY <3>1 DEF StreamsOK
    <3>4. QED
      BY <3>1, <3>2, <3>3 DEF Empty
  <2>4. \A f \in Exchanges : x'[f].pc = "read" => Carries(x[f].conn, f)'
    <3> SUFFICES ASSUME NEW f \in Exchanges, x'[f].pc = "read" PROVE Carries(x[f].conn, f)'
      OBVIOUS
    <3>1. x'[f] = x[f] /\ x[f].conn \in Conns /\ x[f].conn # c
      BY DEF PoolTypeOK, Waiting
    <3>2. asked'[x[f].conn] = asked[x[f].conn] /\ unread'[x[f].conn] = unread[x[f].conn]
      BY <3>1
    <3>3. Carries(x[f].conn, f)
      BY <3>1 DEF StreamsOK
    <3>4. QED
      BY <3>1, <3>2, <3>3, Zenon DEF Carries
  <2>5. QED
    BY <2>2, <2>3, <2>4 DEF StreamsOK
<1>6. QED
  BY <1>3, <1>4, <1>5

(* Every step keeps it: a connection goes from the pool to one exchange,   *)
(* and back only when the answer has been read.                            *)
LEMMA PoolInvNext == PoolInv /\ [PoolNext]_poolVars => PoolInv'
<1> SUFFICES ASSUME PoolInv, [PoolNext]_poolVars PROVE PoolInv'
  OBVIOUS
<1> USE DEF PoolInv, PoolTypeOK, ExclusiveConn, StreamsOK, Waiting, Empty, Carries
<1>1. ASSUME NEW e \in Exchanges, TakeConn(e) PROVE PoolInv'
  <2>1. CASE pool' = <<>> /\ x' = [x EXCEPT ![e] = [pc |-> "dial", again |-> TRUE]]
    <3>1. Range(pool') = {} /\ IsInjective(pool') /\ pool' \in Seq(Conns) /\ Len(pool') <= PoolCap
      BY <2>1, PoolAssumption DEF Range, IsInjective
    <3>2. asked' = asked /\ unread' = unread
      BY <1>1 DEF TakeConn
    <3>3. x'[e].pc = "dial" /\ x' = [f \in Exchanges |-> x'[f]]
      BY <2>1, Zenon
    <3>4. \A f \in Exchanges : f # e => x'[f] = x[f]
      BY <2>1, Zenon
    <3>5. PoolTypeOK' /\ ExclusiveConn'
      BY <3>1, <3>2, <3>3, <3>4, Zenon
    <3>6. StreamsOK'
      BY <3>1, <3>2, <3>3, <3>4, Zenon
    <3>7. QED
      BY <3>5, <3>6, Zenon
  <2>2. CASE /\ pool # <<>> /\ pool' = Older
             /\ x' = [x EXCEPT ![e] = [pc |-> "write", conn |-> Newest, again |-> TRUE]]
    <3>1. PICK c \in Range(pool) : c = Newest
      BY <2>2, OlderConns, Zenon
    <3>2. /\ pool' \in Seq(Conns) /\ IsInjective(pool') /\ c \in Conns
          /\ Range(pool') \subseteq Range(pool) \ {c} /\ Len(pool') <= PoolCap
      BY <2>2, <3>1, OlderConns, PoolAssumption
    <3>3. asked' = asked /\ unread' = unread
      BY <1>1, Zenon DEF TakeConn
    <3>4. \A f \in Exchanges : f # e => x'[f] = x[f]
      BY <2>2
    <3>5. x'[e].pc = "write" /\ x'[e].conn = c /\ x' = [f \in Exchanges |-> x'[f]]
      BY <2>2, <3>1, Zenon
    <3>6. Empty(c)' /\ \A f \in Waiting : x[f].conn # c
      BY <3>1, <3>3, Zenon
    <3> HIDE DEF PoolInv, Waiting, Empty
    <3>7. asked' \in [Conns -> Seq(Exchanges)] /\ unread' \in [Conns -> Seq(Exchanges)]
      BY <3>3 DEF PoolInv
    <3>8. QED
      BY <3>2, <3>3, <3>4, <3>5, <3>6, <3>7, StreamGiven, Zenon
  <2>3. QED
    BY <1>1, <2>1, <2>2, Zenon DEF TakeConn
<1>2. ASSUME NEW e \in Exchanges, Dial(e) PROVE PoolInv'
  <2>1. CASE x' = [x EXCEPT ![e] = NoExchange] /\ UNCHANGED <<asked, unread>>
    BY <1>2, <2>1, Zenon DEF Dial, NoExchange
  <2>2. ASSUME NEW c \in Conns \ InUse,
               x' = [x EXCEPT ![e] = [pc |-> "write", conn |-> c, again |-> @.again]],
               asked' = [asked EXCEPT ![c] = <<>>], unread' = [unread EXCEPT ![c] = <<>>]
        PROVE  PoolInv'
    <3>1. pool' = pool /\ c \notin Range(pool) /\ \A f \in Waiting : x[f].conn # c
      BY <1>2, <2>2, Zenon DEF Dial, InUse
    <3>2. \A f \in Exchanges : f # e => x'[f] = x[f]
      BY <2>2, Zenon
    <3>3. x'[e].pc = "write" /\ x'[e].conn = c /\ x' = [f \in Exchanges |-> x'[f]]
      BY <2>2, Zenon
    <3>4. /\ asked' \in [Conns -> Seq(Exchanges)] /\ unread' \in [Conns -> Seq(Exchanges)] /\ Empty(c)'
          /\ \A d \in Conns : d # c => asked'[d] = asked[d] /\ unread'[d] = unread[d]
      BY <2>2
    <3>5. pool' \in Seq(Conns) /\ Len(pool') <= PoolCap /\ IsInjective(pool') /\ Range(pool') \subseteq Range(pool) \ {c}
      BY <3>1, Zenon
    <3> HIDE DEF PoolInv, Waiting, Empty
    <3>6. QED
      BY <3>1, <3>2, <3>3, <3>4, <3>5, StreamGiven, Zenon
  <2>3. QED
    BY <1>2, <2>1, <2>2, Zenon DEF Dial
<1>3. ASSUME NEW e \in Exchanges, Write(e) PROVE PoolInv'
  <2>1. x'[e].pc = "read" /\ x'[e].conn = x[e].conn /\ x' = [f \in Exchanges |-> x'[f]]
    BY <1>3, Zenon DEF Write
  <2>2. \A f \in Exchanges : f # e => x'[f] = x[f]
    BY <1>3, Zenon DEF Write
  <2>3. pool' = pool /\ unread' = unread /\ x[e].pc = "write" /\ x[e].conn \in Conns
    BY <1>3, Zenon DEF Write
  <2>4. Append(asked[x[e].conn], e) = <<e>> /\ unread[x[e].conn] = <<>>
    <3>1. asked[x[e].conn] = <<>> /\ unread[x[e].conn] = <<>>
      BY <2>3, Zenon
    <3>2. Append(<<>>, e) = <<e>>
      OBVIOUS
    <3>3. QED
      BY <3>1, <3>2, Zenon
  <2>5. asked' = [asked EXCEPT ![x[e].conn] = <<e>>]
    BY <1>3, <2>4, Zenon DEF Write
  <2>6. Waiting' = Waiting /\ e \in Waiting /\ \A f \in Waiting : x'[f].conn = x[f].conn
    BY <2>1, <2>2, <2>3, Zenon
  <2>7. PoolTypeOK'
    <3>1. <<e>> \in Seq(Exchanges)
      OBVIOUS
    <3>2. asked' \in [Conns -> Seq(Exchanges)]
      BY <2>5, <3>1, Zenon
    <3> HIDE DEF Waiting
    <3>3. QED
      BY <2>1, <2>3, <2>6, <3>2, Zenon
  <2>8. ExclusiveConn'
    <3>1. /\ \A f, g \in Waiting : x[f].conn = x[g].conn => f = g
          /\ \A f \in Waiting : x[f].conn \notin Range(pool)
          /\ IsInjective(pool)
      OBVIOUS
    <3> HIDE DEF Waiting, PoolInv
    <3>2. \A f, g \in Waiting' : x'[f].conn = x'[g].conn => f = g
      BY <2>6, <3>1
    <3>3. \A f \in Waiting' : x'[f].conn \notin Range(pool')
      BY <2>3, <2>6, <3>1, Zenon
    <3>4. QED
      BY <2>3, <3>1, <3>2, <3>3, Zenon
  <2>9. StreamsOK'
    <3>1. \A c \in Conns : c # x[e].conn => asked'[c] = asked[c]
      BY <2>5, Zenon
    <3>2. asked'[x[e].conn] = <<e>>
      BY <2>3, <2>5, Zenon
    <3>3. \A c \in Range(pool) : c # x[e].conn /\ c \in Conns
      BY <2>6 DEF Range
    <3>4. \A f \in Waiting : f # e => x[f].conn # x[e].conn /\ x[f].conn \in Conns
      BY <2>6, Zenon
    <3>5. \A c \in Range(pool') : Empty(c)'
      BY <2>3, <3>1, <3>3, Zenon
    <3>6. \A f \in Exchanges : x'[f].pc = "write" => Empty(x[f].conn)'
      <4> SUFFICES ASSUME NEW f \in Exchanges, x'[f].pc = "write" PROVE Empty(x[f].conn)'
        OBVIOUS
      <4>1. f # e /\ x'[f] = x[f] /\ f \in Waiting
        BY <2>1, <2>2, Zenon
      <4>2. QED
        BY <2>3, <3>1, <3>4, <4>1
    <3>7. \A f \in Exchanges : x'[f].pc = "read" => Carries(x[f].conn, f)'
      <4> SUFFICES ASSUME NEW f \in Exchanges, x'[f].pc = "read" PROVE Carries(x[f].conn, f)'
        OBVIOUS
      <4>1. CASE f = e
        BY <2>1, <2>3, <2>4, <3>2, <4>1, Zenon
      <4>2. CASE f # e
        <5>1. x'[f] = x[f] /\ f \in Waiting
          BY <2>2, <4>2, Zenon
        <5>2. QED
          BY <2>3, <3>1, <3>4, <4>2, <5>1, ZenonT(60)
      <4>3. QED
        BY <4>1, <4>2, Zenon
    <3>8. QED
      BY <3>5, <3>6, <3>7, Zenon
  <2>10. QED
    BY <2>7, <2>8, <2>9, Zenon
<1>4. ASSUME NEW e \in Exchanges, Read(e) PROVE PoolInv'
  <2> DEFINE c == x[e].conn
  <2>1. x[e].pc = "read" /\ c \in Conns /\ c \notin Range(pool) /\ asked' = asked
    BY <1>4, Zenon DEF Read
  <2>2. asked[c] = <<>> /\ unread[c] = <<e>> /\ unread' = [unread EXCEPT ![c] = <<>>]
    <3>1. asked[c] = <<>> /\ unread[c] = <<e>>
      BY <1>4, <2>1, Zenon DEF Read
    <3>2. Tail(<<e>>) = <<>>
      OBVIOUS
    <3>3. QED
      BY <1>4, <3>1, <3>2, Zenon DEF Read
  <2>3. x'[e].pc = "idle" /\ x' = [f \in Exchanges |-> x'[f]] /\ \A f \in Exchanges : f # e => x'[f] = x[f]
    BY <1>4, Zenon DEF Read, NoExchange
  <2>4. /\ pool' \in Seq(Conns) /\ IsInjective(pool') /\ Range(pool') \subseteq Range(pool) \cup {c}
        /\ Len(pool') <= PoolCap
    BY <1>4, <2>1, AppendToPool, PoolAssumption DEF Read, PutConn
  <2> HIDE DEF c
  <2>5. \A f \in Exchanges : f \in Waiting' => f # e /\ f \in Waiting /\ x'[f] = x[f]
    BY <2>3, Zenon
  <2>6. \A f \in Waiting : f # e => x[f].conn # c
    BY <2>1, Zenon DEF c
  <2>7. QED
    BY <2>1, <2>2, <2>3, <2>4, <2>5, <2>6, SMTT(60)
<1>5. ASSUME NEW e \in Exchanges, Fail(e) \/ ExchangeDropped(e) PROVE PoolInv'
  <2>1. x'[e].pc \in {"idle", "dial"} /\ x' = [f \in Exchanges |-> x'[f]]
    BY <1>5 DEF Fail, ExchangeDropped, NoExchange
  <2>2. \A f \in Exchanges : f # e => x'[f] = x[f]
    BY <1>5, Zenon DEF Fail, ExchangeDropped
  <2>3. pool' = pool /\ asked' = asked /\ unread' = unread
    BY <1>5, Zenon DEF Fail, ExchangeDropped
  <2>4. QED
    BY <2>1, <2>2, <2>3, ZenonT(60)
<1>6. ASSUME NEW c \in Conns, Answer(c) PROVE PoolInv'
  <2>1. pool' = pool /\ x' = x /\ asked[c] # <<>>
    BY <1>6, Zenon DEF Answer
  <2>2. asked' \in [Conns -> Seq(Exchanges)] /\ unread' \in [Conns -> Seq(Exchanges)]
    BY <1>6 DEF Answer
  <2>3. \A d \in Conns : d # c => asked'[d] = asked[d] /\ unread'[d] = unread[d]
    BY <1>6, Zenon DEF Answer
  <2>4. \A e \in Exchanges : asked[c] = <<e>> /\ unread[c] = <<>> => asked'[c] = <<>> /\ unread'[c] = <<e>>
    BY <1>6 DEF Answer
  <2>5. PoolTypeOK' /\ ExclusiveConn'
    BY <2>1, <2>2, Zenon
  <2>6. StreamsOK'
    <3>1. \A d \in Range(pool) : d \in Conns /\ d # c
      BY <2>1 DEF Range
    <3>2. \A f \in Exchanges : x[f].pc = "write" => x[f].conn \in Conns /\ x[f].conn # c
      BY <2>1, Zenon
    <3>3. \A f \in Exchanges : x[f].pc = "read" => x[f].conn \in Conns
      OBVIOUS
    <3>4. \A f \in Exchanges : x[f].pc = "read" => Carries(x[f].conn, f)'
      <4> SUFFICES ASSUME NEW f \in Exchanges, x[f].pc = "read" PROVE Carries(x[f].conn, f)'
        OBVIOUS
      <4>1. CASE x[f].conn = c
        BY <2>1, <2>4, <4>1, Zenon
      <4>2. CASE x[f].conn # c
        BY <2>1, <2>3, <3>3, <4>2, Zenon
      <4>3. QED
        BY <4>1, <4>2, Zenon
    <3>5. QED
      BY <2>1, <2>3, <3>1, <3>2, <3>4, ZenonT(60)
  <2>7. QED
    BY <2>5, <2>6, Zenon
<1>7. CASE UNCHANGED poolVars
  BY <1>7, Zenon DEF poolVars
<1>8. QED
  BY <1>1, <1>2, <1>3, <1>4, <1>5, <1>6, <1>7, Zenon DEF PoolNext

(* The invariant holds in every reachable state. *)
LEMMA PoolInvariant == PoolSpec => []PoolInv
BY PoolInvInit, PoolInvNext, PTL DEF PoolSpec

(* The pool never holds more idle streams than put_conn allows. *)
THEOREM PoolBounded == PoolSpec => []PoolTypeOK
<1>1. PoolInv => PoolTypeOK
  BY DEF PoolInv
<1>2. QED
  BY PoolInvariant, <1>1, PTL

(* A stream never has two users, nor a user while it waits in the pool.    *)
THEOREM OneUserPerStream == PoolSpec => []ExclusiveConn
<1>1. PoolInv => ExclusiveConn
  BY DEF PoolInv
<1>2. QED
  BY PoolInvariant, <1>1, PTL

(* No exchange reads the answer to a request that was given up, by itself  *)
(* or by another.                                                          *)
THEOREM OwnAnswerOnly == PoolSpec => []NoCrossTalk
<1>1. PoolInv => NoCrossTalk
  BY DEF PoolInv, StreamsOK, Carries, NoCrossTalk
<1>2. QED
  BY PoolInvariant, <1>1, PTL
=============================================================================
