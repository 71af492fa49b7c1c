----------------------------- MODULE CacheProofs -----------------------------
(***************************************************************************)
(* The protocol of the inflight map never lets two background refreshes of *)
(* one key run together and implements the abstract single flight; the     *)
(* cache plugin as a whole keeps to that protocol; and its two stores      *)
(* bound how old the data is that a client gets and how long the client    *)
(* may keep it.  For any sets of keys, threads and memory cells, every     *)
(* configuration, capacity, set of upstream answers and number of queries. *)
(***************************************************************************)
EXTENDS Cache, TLAPS

(* The inductive invariant: types, and the discipline of the flags. *)
IInv == InflightTypeOK /\ FlagDiscipline

(* A new flag is not the entry of a key nor the clone of a thread. *)
LEMMA FreeFlagIsFree ==
    ASSUME NEW f \in FreeFlags
    PROVE  /\ f \in Flags
           /\ \A k \in Keys : inflight[k] # f
           /\ \A c \in Callers : clone[c].flag # f
  BY DEF FreeFlags

(* The empty map with no thread inside refresh_in_background is a good start. *)
LEMMA InitIInv == InflightInit => IInv
  BY InflightConstants
  DEF InflightInit, IInv, InflightTypeOK, FlagDiscipline, NoClone

(* Taking or creating the entry of a key keeps the discipline. *)
LEMMA GetFlagIInv ==
    ASSUME IInv, NEW c \in Callers, NEW k \in Keys, GetFlag(c, k)
    PROVE  IInv'
  <1>1. CASE inflight[k] # NoFlag
    <2>1. /\ clone' = [clone EXCEPT ![c] = [key |-> k, flag |-> inflight[k]]]
          /\ UNCHANGED <<inflight, raised, running>>
      BY <1>1 DEF GetFlag
    <2>2. InflightTypeOK'
      BY <1>1, <2>1 DEF IInv, InflightTypeOK
    <2>3. FlagDiscipline'
      BY <1>1, <2>1 DEF IInv, InflightTypeOK, FlagDiscipline
    <2>. QED  BY <2>2, <2>3 DEF IInv
  <1>2. CASE inflight[k] = NoFlag
    <2>1. PICK f \in FreeFlags :
              /\ inflight' = [inflight EXCEPT ![k] = f]
              /\ raised' = raised \ {f}
              /\ clone' = [clone EXCEPT ![c] = [key |-> k, flag |-> f]]
              /\ running' = running
      BY <1>2 DEF GetFlag
    <2>2. /\ f \in Flags
          /\ f # NoFlag
          /\ \A j \in Keys : inflight[j] # f
          /\ \A d \in Callers : clone[d].flag # f
      BY FreeFlagIsFree, InflightConstants
    <2>3. InflightTypeOK'
      BY <2>1, <2>2 DEF IInv, InflightTypeOK
    <2>4. ASSUME NEW j \in Keys
          PROVE  running'[j] = IF inflight'[j] \in raised' THEN 1 ELSE 0
      BY <1>2, <2>1, <2>2, InflightConstants
      DEF IInv, InflightTypeOK, FlagDiscipline
    <2>5. \A i, j \in Keys :
              inflight'[i] # NoFlag /\ inflight'[i] = inflight'[j] => i = j
      BY <2>1, <2>2 DEF IInv, InflightTypeOK, FlagDiscipline
    <2>6. ASSUME NEW d \in Callers, clone'[d] # NoClone
          PROVE  \/ inflight'[clone'[d].key] = clone'[d].flag
                 \/ /\ clone'[d].flag \in raised'
                    /\ \A j \in Keys : inflight'[j] # clone'[d].flag
      <3>1. CASE d = c
        BY <2>1, <2>2, <3>1 DEF IInv, InflightTypeOK
      <3>2. CASE d # c
        <4>1. clone'[d] = clone[d] /\ clone[d] \in [key : Keys, flag : Flags]
          BY <2>1, <2>6, <3>2 DEF IInv, InflightTypeOK
        <4>2. clone[d].flag # f
          BY <2>2
        <4>. QED
          BY <1>2, <2>1, <2>2, <2>6, <3>2, <4>1, <4>2, InflightConstants
          DEF IInv, InflightTypeOK, FlagDiscipline
      <3>. QED  BY <3>1, <3>2
    <2>. QED  BY <2>3, <2>4, <2>5, <2>6 DEF IInv, FlagDiscipline
  <1>. QED  BY <1>1, <1>2

(* The swap starts a task exactly when it raises the flag of the entry. *)
LEMMA SwapIInv ==
    ASSUME IInv, NEW c \in Callers, Swap(c)
    PROVE  IInv'
  <1> DEFINE k == clone[c].key
             f == clone[c].flag
  <1>1. /\ k \in Keys /\ f \in Flags
        /\ raised' = raised \cup {f}
        /\ running' = IF f \in raised THEN running
                                 ELSE [running EXCEPT ![k] = @ + 1]
        /\ clone' = [clone EXCEPT ![c] = NoClone]
        /\ inflight' = inflight
    BY DEF Swap, IInv, InflightTypeOK
  <1>2. InflightTypeOK'
    BY <1>1 DEF IInv, InflightTypeOK
  <1>3. f \notin raised => inflight[k] = f
    BY DEF Swap, IInv, FlagDiscipline
  <1>4. f # NoFlag
    BY <1>1, InflightConstants
  <1> HIDE DEF k, f
  <1>5. ASSUME NEW j \in Keys
        PROVE  running'[j] = IF inflight'[j] \in raised' THEN 1 ELSE 0
    BY <1>1, <1>3, <1>4 DEF IInv, InflightTypeOK, FlagDiscipline
  <1>6. \A i, j \in Keys :
            inflight'[i] # NoFlag /\ inflight'[i] = inflight'[j] => i = j
    BY <1>1 DEF IInv, FlagDiscipline
  <1>7. \A d \in Callers : clone'[d] # NoClone =>
            \/ inflight'[clone'[d].key] = clone'[d].flag
            \/ clone'[d].flag \in raised' /\ \A j \in Keys : inflight'[j] # clone'[d].flag
    BY <1>1 DEF IInv, InflightTypeOK, FlagDiscipline
  <1>. QED  BY <1>2, <1>5, <1>6, <1>7 DEF IInv, FlagDiscipline

(* The end of a task turns the clones of the removed flag into raised left-overs. *)
LEMMA RemoveEntryIInv ==
    ASSUME IInv, NEW k \in Keys, RemoveEntry(k)
    PROVE  IInv'
  <1>0. /\ running[k] > 0
        /\ running' = [running EXCEPT ![k] = running[k] - 1]
        /\ inflight' = [inflight EXCEPT ![k] = NoFlag]
        /\ UNCHANGED <<raised, clone>>
    BY DEF RemoveEntry
  <1>1. running[k] = 1 /\ inflight[k] \in Flags /\ inflight[k] \in raised
    BY <1>0 DEF IInv, InflightTypeOK, FlagDiscipline
  <1>2. InflightTypeOK'
    BY <1>0, <1>1 DEF IInv, InflightTypeOK
  <1>3. FlagDiscipline'
    BY <1>0, <1>1, InflightConstants DEF IInv, InflightTypeOK, FlagDiscipline
  <1>. QED  BY <1>2, <1>3 DEF IInv

(* Every step of the protocol preserves the invariant. *)
LEMMA NextIInv == IInv /\ [InflightNext]_inflightVars => IInv'
  <1> SUFFICES ASSUME IInv, [InflightNext]_inflightVars  PROVE IInv'
    OBVIOUS
  <1>1. CASE UNCHANGED inflightVars
    BY <1>1 DEF IInv, InflightTypeOK, FlagDiscipline, inflightVars
  <1>2. ASSUME NEW c \in Callers, Swap(c)  PROVE IInv'
    BY <1>2, SwapIInv
  <1>3. ASSUME NEW c \in Callers, NEW k \in Keys, GetFlag(c, k)  PROVE IInv'
    BY <1>3, GetFlagIInv
  <1>4. ASSUME NEW k \in Keys, RemoveEntry(k)  PROVE IInv'
    BY <1>4, RemoveEntryIInv
  <1>. QED  BY <1>1, <1>2, <1>3, <1>4 DEF InflightNext

(* The types and the discipline of the flags hold in every reachable state. *)
THEOREM InflightInvariant == InflightSpec => []IInv
  BY InitIInv, NextIInv, PTL DEF InflightSpec

(* The discipline alone, as the model-checking run states it. *)
THEOREM FlagsDisciplined == InflightSpec => []FlagDiscipline
  <1>1. IInv => FlagDiscipline
    BY DEF IInv
  <1>. QED  BY <1>1, InflightInvariant, PTL

(* refresh_in_background never has two refreshes of one key at once. *)
THEOREM AtMostOneRefresh == InflightSpec => []OneRefreshPerKey
  <1>1. ASSUME IInv, NEW k \in Keys  PROVE running[k] <= 1
    BY <1>1 DEF IInv, InflightTypeOK, FlagDiscipline
  <1>2. IInv => OneRefreshPerKey
    BY <1>1, Zenon DEF OneRefreshPerKey
  <1>. QED  BY <1>2, InflightInvariant, PTL

(* Taking a flag is a request, which knows of a running refresh. *)
LEMMA GetFlagRequests ==
    ASSUME IInv, NEW c \in Callers, NEW k \in Keys, GetFlag(c, k)
    PROVE  Abstract!Request(c, k)
  <1>1. running[k] > 0 <=> inflight[k] \in raised
    BY DEF IInv, InflightTypeOK, FlagDiscipline
  <1>2. Asking[c] = Abstract!NoKey /\ c \notin Covered
    BY InflightConstants
    DEF GetFlag, Asking, Covered, Abstract!NoKey, NoClone, IInv, InflightTypeOK
  <1>3. /\ Asking' = [Asking EXCEPT ![c] = k]
        /\ Covered' = IF running[k] > 0 THEN Covered \cup {c} ELSE Covered
    <2>1. CASE inflight[k] # NoFlag
      <3>1. /\ clone' = [clone EXCEPT ![c] = [key |-> k, flag |-> inflight[k]]]
            /\ UNCHANGED raised
        BY <2>1 DEF GetFlag
      <3>. QED  BY <3>1, <1>1, <1>2, Zenon DEF Asking, Covered, IInv, InflightTypeOK
    <2>2. CASE inflight[k] = NoFlag
      <3>1. PICK f \in FreeFlags :
              /\ raised' = raised \ {f}
              /\ clone' = [clone EXCEPT ![c] = [key |-> k, flag |-> f]]
        BY <2>2 DEF GetFlag
      <3>2. \A d \in Callers : clone[d].flag # f
        BY <3>1, FreeFlagIsFree
      <3>3. ~(running[k] > 0)
        BY <1>1, <2>2, InflightConstants DEF IInv, InflightTypeOK
      <3>. QED  BY <3>1, <3>2, <3>3, <1>2, Zenon DEF Asking, Covered, IInv, InflightTypeOK
    <2>. QED  BY <2>1, <2>2
  <1>4. UNCHANGED running
    BY DEF GetFlag
  <1>. QED  BY <1>2, <1>3, <1>4 DEF Abstract!Request

(* A swap that finds the flag clear starts the only refresh of its key, and *)
(* every call for the key that had not met a refresh meets this one; a swap *)
(* that finds it raised belongs to a call that has met one.                 *)
LEMMA SwapStartsOrSkips ==
    ASSUME IInv, NEW c \in Callers, Swap(c)
    PROVE  Abstract!Start(c) \/ Abstract!Skip(c)
  <1> DEFINE k == clone[c].key
             f == clone[c].flag
  <1>0. /\ k \in Keys /\ f \in Flags
        /\ raised' = raised \cup {f}
        /\ clone' = [clone EXCEPT ![c] = NoClone]
    BY DEF Swap, IInv, InflightTypeOK
  <1>1. Asking' = [Asking EXCEPT ![c] = Abstract!NoKey]
    BY <1>0, Zenon DEF Asking, Abstract!NoKey, NoClone, IInv, InflightTypeOK
  <1>2. c \notin Covered'
    BY <1>0, InflightConstants DEF Covered, NoClone, IInv, InflightTypeOK
  <1>3. \A d \in Callers \ {c} : d \in Covered' <=> d \in Covered \/ clone[d].flag = f
    BY <1>0 DEF Covered, IInv, InflightTypeOK
  <1>4. CASE f \in raised
    <2>1. UNCHANGED running
      BY <1>4 DEF Swap
    <2>2. c \in Covered /\ Covered' = Covered \ {c}
      BY <1>2, <1>3, <1>4 DEF Covered
    <2>. QED  BY <1>1, <2>1, <2>2 DEF Abstract!Skip
  <1>5. CASE f \notin raised
    <2>1. running[k] = 0 /\ inflight[k] = f
      BY <1>0, <1>5, InflightConstants DEF Swap, IInv, InflightTypeOK, FlagDiscipline
    <2>2. running' = [running EXCEPT ![k] = 1]
      BY <1>0, <1>5, <2>1 DEF Swap, IInv, InflightTypeOK
    <2>3. \A d \in Callers : clone[d].flag = f => clone[d].key = k
      BY <1>0, <1>5, <2>1, InflightConstants
      DEF NoClone, IInv, InflightTypeOK, FlagDiscipline
    <2>4. \A d \in Callers : clone[d].key = k => clone[d].flag = f \/ d \in Covered
      BY <1>0, <2>1, InflightConstants
      DEF Covered, NoClone, IInv, InflightTypeOK, FlagDiscipline
    <2>5. Covered' = (Covered \cup {d \in Callers : Asking[d] = k}) \ {c}
      BY <1>2, <1>3, <2>3, <2>4 DEF Covered, Asking
    <2>6. Asking[c] = k
      BY DEF Asking
    <2>. QED  BY <1>0, <1>1, <2>1, <2>2, <2>5, <2>6 DEF Abstract!Start
  <1>. QED  BY <1>4, <1>5

(* The end of a task is the end of the only refresh of its key. *)
LEMMA RemoveEntryFinishes ==
    ASSUME IInv, NEW k \in Keys, RemoveEntry(k)
    PROVE  Abstract!Finish(k)
  <1>1. running[k] = 1
    BY DEF RemoveEntry, IInv, InflightTypeOK, FlagDiscipline
  <1>2. running' = [running EXCEPT ![k] = 0]
    BY <1>1 DEF RemoveEntry, IInv, InflightTypeOK
  <1>3. UNCHANGED <<Asking, Covered>>
    BY DEF RemoveEntry, Asking, Covered
  <1>. QED  BY <1>1, <1>2, <1>3 DEF Abstract!Finish

(* The protocol of refresh_in_background implements the abstract           *)
(* specification, step by step.                                            *)
THEOREM RefinesSingleFlight == InflightSpec => ImplementsSingleFlight
  <1>1. InflightInit => Abstract!Init
    BY InflightConstants
    DEF InflightInit, Abstract!Init, Abstract!NoKey, NoClone, Asking, Covered
  <1>2. IInv /\ [InflightNext]_inflightVars => [Abstract!Next]_(Abstract!abstractVars)
    <2> SUFFICES ASSUME IInv, [InflightNext]_inflightVars
                 PROVE  Abstract!Next \/ UNCHANGED Abstract!abstractVars
      OBVIOUS
    <2>1. CASE UNCHANGED inflightVars
      BY <2>1 DEF inflightVars, Abstract!abstractVars, Asking, Covered
    <2>2. ASSUME NEW c \in Callers, Swap(c)  PROVE Abstract!Next
      BY <2>2, SwapStartsOrSkips DEF Abstract!Next
    <2>3. ASSUME NEW c \in Callers, NEW k \in Keys, GetFlag(c, k)  PROVE Abstract!Next
      BY <2>3, GetFlagRequests DEF Abstract!Next
    <2>4. ASSUME NEW k \in Keys, RemoveEntry(k)  PROVE Abstract!Next
      BY <2>4, RemoveEntryFinishes DEF Abstract!Next
    <2>. QED  BY <2>1, <2>2, <2>3, <2>4 DEF InflightNext
  <1>. QED
    BY <1>1, <1>2, InflightInvariant, PTL
    DEF InflightSpec, ImplementsSingleFlight, Abstract!Spec
-----------------------------------------------------------------------------
(* Every execution of serve_dns that is under way works for a key. *)
QueryKeys == /\ DOMAIN query = Callers
             /\ \A c \in Callers : query[c].pc # "idle" => query[c].key \in Keys

(* A step that only moves query c to idle, or to a state for key k, keeps it. *)
LEMMA QueryMoves ==
    ASSUME QueryKeys, NEW c \in Callers, NEW q, query' = [query EXCEPT ![c] = q],
           q.pc = "idle" \/ q.key \in Keys
    PROVE  QueryKeys'
  BY DEF QueryKeys

(* No query is under way at first. *)
LEMMA QueryKeysInit == Init => QueryKeys
  BY DEF Init, QueryKeys, Idle

(* Every step keeps it: a query keeps the key it was started with. *)
LEMMA QueryKeysNext == QueryKeys /\ [Next]_vars => QueryKeys'
  <1> SUFFICES ASSUME QueryKeys, [Next]_vars  PROVE QueryKeys'
    OBVIOUS
  <1>1. CASE UNCHANGED query
    BY <1>1 DEF QueryKeys
  <1>2. ASSUME NEW c \in Callers, Finish(c)  PROVE QueryKeys'
    BY <1>2, QueryMoves, Zenon DEF Finish, Idle
  <1>3. ASSUME NEW c \in Callers, NEW k \in Keys, Ask(c, k)  PROVE QueryKeys'
    BY <1>3, QueryMoves, Zenon DEF Ask
  <1>4. ASSUME NEW c \in Callers, NEW k \in Keys, NEW i, OnHit(c, k, i)
        PROVE  QueryKeys'
    <2>1. CASE AskVerify(c, k, i)
      BY <2>1, QueryMoves, Zenon DEF AskVerify
    <2>2. CASE StartRefresh(c, k, i)
      BY <2>2, QueryMoves, Zenon DEF StartRefresh
    <2>. QED  BY <1>2, <1>4, <2>1, <2>2 DEF OnHit
  <1>5. ASSUME NEW c \in Callers, NEW k \in Keys, LookupSuccess(c, k)
        PROVE  QueryKeys'
    <2>1. CASE query' = [query EXCEPT ![c] = [pc |-> "denial", key |-> k]]
      BY <2>1, QueryMoves, Zenon
    <2>. QED  BY <1>3, <1>4, <1>5, <2>1 DEF LookupSuccess
  <1>6. ASSUME NEW c \in Callers, LookupDenial(c)  PROVE QueryKeys'
    <2>1. PICK k \in Keys : k = query[c].key
      BY <1>6 DEF LookupDenial, QueryKeys
    <2>. QED  BY <1>3, <1>4, <1>6, <2>1 DEF LookupDenial
  <1>7. ASSUME NEW c \in Callers,
               \/ \E m \in Messages : MissAnswered(c, m) \/ VerifyAnswered(c, m)
               \/ MissFailed(c) \/ VerifyFailed(c) \/ Dropped(c) \/ RefreshSwap(c)
        PROVE  QueryKeys'
    BY <1>2, <1>7 DEF MissAnswered, VerifyAnswered, MissFailed, VerifyFailed,
                      Dropped, RefreshSwap
  <1>8. ASSUME \/ \E c \in Callers : RefreshGetFlag(c)
               \/ \E k \in Keys : \/ \E m \in Messages : RefreshAnswered(k, m)
                                  \/ RefreshFailed(k) \/ RefreshEnd(k)
               \/ Tick
               \/ UNCHANGED vars
        PROVE  UNCHANGED query
    BY <1>8 DEF RefreshGetFlag, RefreshAnswered, RefreshFailed, RefreshEnd, Tick,
                vars, cacheVars
  <1>. QED  BY <1>1, <1>5, <1>6, <1>7, <1>8 DEF Next

(* A step of the plugin takes one step of the protocol, or none. *)
LEMMA CacheStepIsInflightStep ==
    QueryKeys /\ [Next]_vars => [InflightNext]_inflightVars
  <1> SUFFICES ASSUME QueryKeys, [Next]_vars  PROVE [InflightNext]_inflightVars
    OBVIOUS
  <1>1. CASE UNCHANGED vars
    BY <1>1 DEF vars
  <1>2. ASSUME NEW c \in Callers,
               \/ \E k \in Keys : LookupSuccess(c, k)
               \/ LookupDenial(c)
               \/ \E m \in Messages : MissAnswered(c, m) \/ VerifyAnswered(c, m)
               \/ MissFailed(c) \/ VerifyFailed(c) \/ Dropped(c)
        PROVE  UNCHANGED inflightVars
    BY <1>2, Zenon DEF LookupSuccess, LookupDenial, MissAnswered, VerifyAnswered,
                MissFailed, VerifyFailed, Dropped
  <1>3. ASSUME NEW c \in Callers, RefreshGetFlag(c)  PROVE InflightNext
    <2>1. PICK k \in Keys : k = query[c].key
      BY <1>3 DEF RefreshGetFlag, QueryKeys
    <2>2. GetFlag(c, k)
      BY <1>3, <2>1 DEF RefreshGetFlag, GetFlag
    <2>. QED  BY <2>2 DEF InflightNext
  <1>4. ASSUME NEW c \in Callers, RefreshSwap(c)  PROVE InflightNext
    BY <1>4 DEF RefreshSwap, InflightNext
  <1>5. ASSUME NEW k \in Keys,
               RefreshFailed(k) \/ \E m \in Messages : RefreshAnswered(k, m)
        PROVE  UNCHANGED inflightVars
    BY <1>5 DEF RefreshFailed, RefreshAnswered
  <1>6. ASSUME NEW k \in Keys, RefreshEnd(k)  PROVE InflightNext
    BY <1>6 DEF RefreshEnd, InflightNext
  <1>7. ASSUME Tick  PROVE UNCHANGED inflightVars
    BY <1>7 DEF Tick
  <1>. QED  BY <1>1, <1>2, <1>3, <1>4, <1>5, <1>6, <1>7 DEF Next

(* The plugin implements the protocol of the inflight map. *)
THEOREM CacheUsesInflight == Spec => InflightSpec
  <1>1. Init => InflightInit
    BY DEF Init
  <1>. QED
    BY <1>1, QueryKeysInit, QueryKeysNext, CacheStepIsInflightStep, PTL
    DEF Spec, InflightSpec

(* The cache plugin never has two background refreshes of one key at once, *)
(* whether they come from stale hits or from prefetches.                   *)
THEOREM CacheRefreshesOnce == Spec => []OneRefreshPerKey
  BY CacheUsesInflight, AtMostOneRefresh, PTL
-----------------------------------------------------------------------------
(***************************************************************************)
(* The two stores: how old the data is that a client gets, how long its    *)
(* TTL lets the client keep it, and what an item of the success store is   *)
(* replaced by.                                                            *)
(***************************************************************************)
(* At most one item per key. *)
Unique(s) == \A a, b \in 1..Len(s) : s[a].key = s[b].key => a = b

(* How an item is removed: the items behind it move up. *)
LEMMA WithoutShape ==
    ASSUME NEW S, NEW s \in Seq(S), NEW k
    PROVE  \/ /\ Without(s, k) = s
              /\ \A n \in 1..Len(s) : s[n].key # k
           \/ \E p \in 1..Len(s) :
                 /\ s[p].key = k
                 /\ Without(s, k) \in Seq(S) /\ Len(Without(s, k)) = Len(s) - 1
                 /\ \A n \in 1..Len(s) - 1 : Without(s, k)[n] = IF n < p THEN s[n] ELSE s[n + 1]
<1> DEFINE at == {n \in DOMAIN s : s[n].key = k}
<1>1. CASE at = {}
  BY <1>1 DEF Without
<1>2. CASE at # {}
  <2> DEFINE p == CHOOSE n \in at : TRUE
             w == [n \in 1 .. Len(s) - 1 |-> IF n < p THEN s[n] ELSE s[n + 1]]
  <2>1. p \in 1 .. Len(s) /\ s[p].key = k
    BY <1>2
  <2>2. Without(s, k) = w
    BY <1>2 DEF Without
  <2> HIDE DEF p
  <2>3. Len(s) - 1 \in Nat /\ \A n \in 1 .. Len(s) - 1 : w[n] \in S
    BY <2>1
  <2>4. w \in Seq(S) /\ Len(w) = Len(s) - 1
    BY <2>3
  <2>5. QED
    BY <2>1, <2>2, <2>4
<1>3. QED
  BY <1>1, <1>2

(* Nor is a store changed that has no item of the key. *)
LEMMA WithoutNone ==
    ASSUME NEW S, NEW s \in Seq(S), NEW k, \A h \in Range(s) : h.key # k
    PROVE  Without(s, k) = s
<1>1. \A n \in 1..Len(s) : s[n].key # k
  BY DEF Range
<1>2. QED
  BY <1>1, WithoutShape

(* The items that are left. *)
LEMMA WithoutItems ==
    ASSUME NEW S, NEW s \in Seq(S), Unique(s), NEW k
    PROVE  /\ Without(s, k) \in Seq(S) /\ Unique(Without(s, k)) /\ Len(Without(s, k)) <= Len(s)
           /\ Range(Without(s, k)) = {i \in Range(s) : i.key # k}
<1>1. CASE Without(s, k) = s /\ \A n \in 1..Len(s) : s[n].key # k
  BY <1>1 DEF Range
<1>2. ASSUME NEW p \in 1..Len(s), s[p].key = k, Without(s, k) \in Seq(S),
             Len(Without(s, k)) = Len(s) - 1,
             \A n \in 1..Len(s) - 1 : Without(s, k)[n] = IF n < p THEN s[n] ELSE s[n + 1]
      PROVE  /\ Unique(Without(s, k))
             /\ Range(Without(s, k)) = {i \in Range(s) : i.key # k}
  <2> DEFINE w == Without(s, k)
  <2>0. w \in Seq(S) /\ Len(w) = Len(s) - 1 /\ \A n \in 1..Len(w) : w[n] = IF n < p THEN s[n] ELSE s[n + 1]
    BY <1>2
  <2> HIDE DEF w
  <2>1. \A n \in 1..Len(w) : \E m \in 1..Len(s) : m # p /\ w[n] = s[m] /\ m = IF n < p THEN n ELSE n + 1
    BY <2>0
  <2>2. \A m \in 1..Len(s) : m # p => \E n \in 1..Len(w) : w[n] = s[m]
    <3> SUFFICES ASSUME NEW m \in 1..Len(s), m # p PROVE \E n \in 1..Len(w) : w[n] = s[m]
      OBVIOUS
    <3>1. CASE m < p
      BY <2>0, <3>1
    <3>2. CASE m > p
      <4>1. m - 1 \in 1..Len(w) /\ ~(m - 1 < p) /\ m - 1 + 1 = m
        BY <2>0, <3>2
      <4>2. w[m - 1] = s[m]
        BY <2>0, <4>1
      <4>3. QED
        BY <4>1, <4>2
    <3>3. QED
      BY <3>1, <3>2
  <2>3. Unique(w)
    BY <2>0, <2>1 DEF Unique
  <2>4. \A m \in 1..Len(s) : s[m].key = k <=> m = p
    BY <1>2 DEF Unique
  <2>5. Range(w) = {i \in Range(s) : i.key # k}
    <3>1. ASSUME NEW i \in Range(w) PROVE i \in Range(s) /\ i.key # k
      <4>1. PICK n \in 1..Len(w) : i = w[n]
        BY <2>0 DEF Range
      <4>2. PICK m \in 1..Len(s) : m # p /\ w[n] = s[m]
        BY <2>1
      <4>3. QED
        BY <2>4, <4>1, <4>2 DEF Range
    <3>2. ASSUME NEW i \in Range(s), i.key # k PROVE i \in Range(w)
      <4>1. PICK m \in 1..Len(s) : i = s[m]
        BY DEF Range
      <4>2. m # p
        BY <2>4, <3>2, <4>1
      <4>3. QED
        BY <2>0, <2>2, <4>1, <4>2 DEF Range
    <3>3. QED
      BY <3>1, <3>2
  <2>6. QED
    BY <2>3, <2>5 DEF w
<1>3. QED
  BY <1>1, <1>2, WithoutShape

(* put: the item is in front, and only the last of the others may go. *)
LEMMA PutItems ==
    ASSUME NEW S, NEW s \in Seq(S), Unique(s), NEW i \in S, Len(s) <= Cap
    PROVE  /\ Put(s, i) \in Seq(S) /\ Unique(Put(s, i)) /\ Len(Put(s, i)) <= Cap
           /\ i \in Range(Put(s, i))
           /\ \A j \in Range(Put(s, i)) : j = i \/ (j \in Range(s) /\ j.key # i.key)
           /\ \/ Len(Put(s, i)) = Cap
              \/ \A j \in Range(s) : j.key # i.key => j \in Range(Put(s, i))
<1> DEFINE w == Without(s, i.key)
           r == <<i>> \o w
           n == IF Len(r) > Cap THEN Cap ELSE Len(r)
<1>0. Cap \in Nat /\ Cap > 0
  BY CacheConstants
<1>1. /\ w \in Seq(S) /\ Unique(w) /\ Len(w) <= Len(s)
      /\ Range(w) = {j \in Range(s) : j.key # i.key}
  BY WithoutItems
<1>2. Put(s, i) = SubSeq(r, 1, n)
  BY DEF Put
<1> HIDE DEF w
<1>3. r \in Seq(S) /\ Len(r) = Len(w) + 1 /\ r[1] = i /\ \A m \in 2..Len(r) : r[m] = w[m - 1]
  BY <1>1
<1> HIDE DEF r
<1>4. n \in Nat /\ n > 0 /\ n <= Len(r) /\ n <= Cap /\ (n = Cap \/ n = Len(r))
  BY <1>0, <1>3, <1>1
<1> HIDE DEF n
<1>5. Put(s, i) \in Seq(S) /\ Len(Put(s, i)) = n /\ \A m \in 1..n : Put(s, i)[m] = r[m]
  BY <1>2, <1>3, <1>4
<1> DEFINE q == Put(s, i)
<1>6. q \in Seq(S) /\ Len(q) = n /\ q[1] = i /\ \A m \in 2..n : m - 1 \in 1..Len(w) /\ q[m] = w[m - 1]
  BY <1>1, <1>3, <1>4, <1>5
<1> HIDE DEF q
<1>7. \A m \in 1..Len(w) : w[m].key # i.key
  BY <1>1 DEF Range
<1>8. Unique(q)
  <2> SUFFICES ASSUME NEW a \in 1..n, NEW b \in 1..n, q[a].key = q[b].key PROVE a = b
    BY <1>6 DEF Unique
  <2>1. a = 1 \/ (a \in 2..n /\ q[a] = w[a - 1] /\ a - 1 \in 1..Len(w))
    BY <1>4, <1>6
  <2>2. b = 1 \/ (b \in 2..n /\ q[b] = w[b - 1] /\ b - 1 \in 1..Len(w))
    BY <1>4, <1>6
  <2>3. a # 1 /\ b # 1 => a - 1 = b - 1
    BY <1>1, <2>1, <2>2, Zenon DEF Unique
  <2>4. QED
    BY <1>4, <1>6, <1>7, <2>1, <2>2, <2>3
<1>9. i \in Range(q)
  BY <1>4, <1>6 DEF Range
<1>10. \A j \in Range(q) : j = i \/ j \in Range(w)
  <2> SUFFICES ASSUME NEW j \in Range(q), j # i PROVE j \in Range(w)
    OBVIOUS
  <2>1. PICK m \in 1..n : j = q[m]
    BY <1>6 DEF Range
  <2>2. m \in 2..n
    BY <1>4, <1>6, <2>1
  <2>3. m - 1 \in 1..Len(w) /\ j = w[m - 1]
    BY <1>6, <2>1, <2>2
  <2>4. 1..Len(w) = DOMAIN w
    BY <1>1
  <2>5. QED
    BY <2>3, <2>4, Zenon DEF Range
<1>11. n = Len(r) => Range(w) \subseteq Range(q)
  <2> SUFFICES ASSUME n = Len(r), NEW m \in 1..Len(w) PROVE w[m] \in Range(q)
    BY <1>1 DEF Range
  <2>1. m + 1 \in 1..n /\ q[m + 1] = w[m]
    BY <1>1, <1>3, <1>4, <1>6
  <2>2. QED
    BY <1>6, <2>1 DEF Range
<1>12. QED
  BY <1>1, <1>4, <1>6, <1>8, <1>9, <1>10, <1>11 DEF q
-----------------------------------------------------------------------------
(* What a store holds. *)
StoreItem == [key : Keys, msg : Messages, at : Nat, stored : Nat, ttl : Nat,
              fetches : Nat, window : Nat]

(* The chain was asked at `since` and has not had longer than Latency. *)
Waits(since, t) == since \in Nat /\ since <= t /\ t <= since + Latency

(* An item was stored after the chain produced it, at most Latency later,  *)
(* and for no longer than the configuration allows.                        *)
ItemOK(i, t) == /\ i.at <= i.stored /\ i.stored <= t /\ i.stored <= i.at + Latency
                /\ i.ttl <= MaxLifetime(i.msg)

(* A store at time t: one item per key, within the capacity. *)
StoreOK(s, t) == /\ s \in Seq(StoreItem) /\ Unique(s) /\ Len(s) <= Cap
                 /\ \A i \in Range(s) : ItemOK(i, t)

(* An answer keeps both promises, whenever it is handed out. *)
AnswerOK(r) == /\ r.when - r.at <= MaxLifetime(r.msg) + StaleUpto + Latency
               /\ ~KeepTTL => r.ttl = 0 \/ r.when + r.ttl <= r.at + r.msg.ttl + Latency

(* A query waits for the chain within Latency, and remembers a hit that    *)
(* keeps the promises.                                                     *)
QueryOK(q, t) == /\ q.pc \in {"miss", "verify"} => Waits(q.since, t)
                 /\ q.pc \in {"verify", "refresh"} => AnswerOK(q.hit)

(* A refresh task waits for the chain within Latency. *)
FetchOK(f, t) == f.pc = "asking" => Waits(f.since, t)

(* A store of successes and referrals only. *)
OnlyPositive(s) == \A i \in Range(s) : Positive(i.msg)

(* The inductive invariant: the stores, the queries and the refresh tasks   *)
(* under way, and the answer that goes out.                                 *)
Stores  == StoreOK(pcache, now) /\ StoreOK(ncache, now) /\ OnlyPositive(pcache)
Asked   == \A c \in Callers : QueryOK(query[c], now)
Fetches == DOMAIN fetch = Keys /\ \A k \in Keys : FetchOK(fetch[k], now)
Answers == reply.kind = "answer" => AnswerOK(reply)
CacheInv == now \in Nat /\ Stores /\ Asked /\ Fetches /\ Answers

(* The two CASEs over the kind of an answer choose the same arm. *)
LEMMA LifetimeBounded ==
    ASSUME NEW m \in Messages
    PROVE  Lifetime(m) \in Nat /\ MaxLifetime(m) \in Nat /\ Lifetime(m) <= MaxLifetime(m)
<1>1. ~(Positive(m) /\ Denial(m))
  BY DEF Positive, Denial
<1>2. m.ttl \in Nat /\ {MinPTTL, PTTL, MinNTTL, NTTL, FailTTL} \subseteq Nat
      /\ MinPTTL <= PTTL /\ MinNTTL <= NTTL
  BY CacheConstants
<1>3. \A t \in Nat : Clamp(t, MinPTTL, PTTL) \in Nat /\ Clamp(t, MinPTTL, PTTL) <= PTTL
  BY <1>2 DEF Clamp
<1>4. \A t \in Nat : Clamp(t, MinNTTL, NTTL) \in Nat /\ Clamp(t, MinNTTL, NTTL) <= NTTL
  BY <1>2 DEF Clamp
<1>5. CASE Positive(m)
  BY <1>1, <1>2, <1>3, <1>5 DEF Lifetime, MaxLifetime
<1>6. CASE Denial(m)
  BY <1>1, <1>2, <1>4, <1>6 DEF Lifetime, MaxLifetime
<1>7. CASE ~Positive(m) /\ ~Denial(m)
  BY <1>2, <1>7 DEF Lifetime, MaxLifetime
<1>8. QED
  BY <1>5, <1>6, <1>7

(* Only successes and referrals go to the success store. *)
LEMMA StoredPositive ==
    ASSUME NEW k, NEW m, StoreOf(k, m) = "pcache"
    PROVE  Positive(m)
BY DEF StoreOf, Positive, Denial

(* A new item, from an answer that came within Latency. *)
LEMMA NewItem ==
    ASSUME now \in Nat, NEW since, Waits(since, now), NEW at \in since .. now,
           NEW k \in Keys, NEW m \in Messages
    PROVE  Item(k, m, at) \in StoreItem /\ ItemOK(Item(k, m, at), now) /\ AnswerOK(Fresh(k, m, at))
<1>1. at \in Nat /\ at <= now /\ now <= at + Latency /\ Latency \in Nat /\ StaleUpto \in Nat
  BY CacheConstants DEF Waits
<1>2. Lifetime(m) \in Nat /\ MaxLifetime(m) \in Nat /\ Lifetime(m) <= MaxLifetime(m) /\ m.ttl \in Nat
  BY LifetimeBounded, CacheConstants
<1>3. Item(k, m, at) \in StoreItem /\ ItemOK(Item(k, m, at), now)
  BY <1>1, <1>2 DEF Item, StoreItem, ItemOK
<1>4. AnswerOK(Fresh(k, m, at))
  BY <1>1, <1>2 DEF Fresh, AnswerOK
<1>5. QED
  BY <1>3, <1>4

(* The bookkeeping of a hit changes nothing else of the item. *)
LEMMA TouchedItem ==
    ASSUME now \in Nat, NEW i \in StoreItem
    PROVE  /\ Touch(i) \in StoreItem
           /\ Touch(i).key = i.key /\ Touch(i).msg = i.msg /\ Touch(i).at = i.at
           /\ Touch(i).stored = i.stored /\ Touch(i).ttl = i.ttl
<1> DEFINE expired == now - i.window > Duration
           count   == (IF expired THEN 0 ELSE i.fetches) + 1
           w == IF expired THEN now ELSE i.window
           f == IF count > Prefetch THEN Prefetch ELSE count
<1>1. i.fetches \in Nat /\ i.window \in Nat /\ Prefetch \in Nat /\ Duration \in Nat
  BY CacheConstants DEF StoreItem
<1>2. w \in Nat /\ f \in Nat
  BY <1>1
<1>3. Touch(i) = [[i EXCEPT !.window = w] EXCEPT !.fetches = f]
  BY DEF Touch, StoreItem
<1> HIDE DEF w, f
<1>4. QED
  BY <1>2, <1>3, Zenon DEF StoreItem

(* An item that is not dead gives an answer that keeps the promises. *)
LEMMA HitKeepsPromises ==
    ASSUME now \in Nat, NEW i \in StoreItem, ItemOK(i, now), ~Dead(i)
    PROVE  AnswerOK(Hit(i))
<1>1. i.at \in Nat /\ i.stored \in Nat /\ i.ttl \in Nat /\ i.msg \in Messages
  BY DEF StoreItem
<1>2. i.msg.ttl \in Nat /\ MaxLifetime(i.msg) \in Nat /\ Latency \in Nat /\ StaleUpto \in Nat
  BY <1>1, LifetimeBounded, CacheConstants
<1>3. now - i.stored <= i.ttl + StaleUpto
  BY <1>1, <1>2 DEF Dead, Stale, Remaining, Age
<1>4. Hit(i).when = now /\ Hit(i).at = i.at /\ Hit(i).msg = i.msg /\ Hit(i).ttl = ToMsg(i)
  BY DEF Hit
<1>5. now - i.at <= MaxLifetime(i.msg) + StaleUpto + Latency
  BY <1>1, <1>2, <1>3 DEF ItemOK
<1>6. ~KeepTTL => ToMsg(i) = 0 \/ now + ToMsg(i) <= i.at + i.msg.ttl + Latency
  BY <1>1, <1>2 DEF ItemOK, ToMsg, Age
<1>7. QED
  BY <1>4, <1>5, <1>6 DEF AnswerOK

(* put keeps a store in order. *)
LEMMA PutOK ==
    ASSUME NEW t, NEW s, StoreOK(s, t), NEW i \in StoreItem, ItemOK(i, t)
    PROVE  StoreOK(Put(s, i), t) /\ (OnlyPositive(s) /\ Positive(i.msg) => OnlyPositive(Put(s, i)))
BY PutItems DEF StoreOK, OnlyPositive

(* So does the removal of a key. *)
LEMMA WithoutOK ==
    ASSUME NEW t, NEW s, StoreOK(s, t), NEW k
    PROVE  StoreOK(Without(s, k), t) /\ (OnlyPositive(s) => OnlyPositive(Without(s, k)))
<1>1. Cap \in Nat
  BY CacheConstants
<1>2. /\ Without(s, k) \in Seq(StoreItem) /\ Unique(Without(s, k)) /\ Len(Without(s, k)) <= Len(s)
      /\ Range(Without(s, k)) = {i \in Range(s) : i.key # k}
  BY WithoutItems DEF StoreOK
<1>3. Len(Without(s, k)) <= Cap
  BY <1>1, <1>2 DEF StoreOK
<1>4. QED
  BY <1>2, <1>3 DEF StoreOK, OnlyPositive

(* insert keeps both stores in order, whatever the upstream said. *)
LEMMA InsertOK ==
    ASSUME now \in Nat, Stores, NEW since, Waits(since, now), NEW at \in since .. now,
           NEW k \in Keys, NEW m \in Messages, insert(k, m, at), UNCHANGED now
    PROVE  Stores'
<1>1. Item(k, m, at) \in StoreItem /\ ItemOK(Item(k, m, at), now) /\ Item(k, m, at).msg = m
  BY NewItem DEF Item
<1>2. StoreOK(pcache', now) /\ OnlyPositive(pcache')
  <2>1. CASE StoreOf(k, m) = "pcache"
    <3>1. pcache' = Put(pcache, Item(k, m, at))
      BY <2>1 DEF insert
    <3>2. QED
      BY <1>1, <2>1, <3>1, PutOK, StoredPositive DEF Stores
  <2>2. CASE StoreOf(k, m) # "pcache"
    BY <2>2 DEF insert, Stores
  <2>3. QED
    BY <2>1, <2>2
<1>3. StoreOK(ncache', now)
  BY <1>1, PutOK DEF insert, Stores
<1>4. QED
  BY <1>2, <1>3 DEF Stores

(* What a later second leaves true. *)
LEMMA StoreLater ==
    ASSUME NEW t \in Nat, NEW s, StoreOK(s, t)
    PROVE  StoreOK(s, t + 1)
<1>1. ASSUME NEW i \in Range(s) PROVE ItemOK(i, t + 1)
  <2>1. i \in StoreItem /\ ItemOK(i, t)
    BY <1>1 DEF StoreOK, Range
  <2>2. QED
    BY <2>1 DEF ItemOK, StoreItem
<1>2. QED
  BY <1>1 DEF StoreOK

(* A step that leaves the clock alone and moves one query. *)
LEMMA QueryMovesOK ==
    ASSUME Asked, QueryKeys, NEW c \in Callers, NEW q, QueryOK(q, now),
           query' = [query EXCEPT ![c] = q], UNCHANGED now
    PROVE  Asked'
<1>1. \A d \in Callers : query'[d] = IF d = c THEN q ELSE query[d]
  BY DEF QueryKeys
<1>2. QED
  BY <1>1 DEF Asked

(* A query that has ended, or that asks the chain now. *)
LEMMA QueryEndsOrAsks ==
    ASSUME now \in Nat, Asked, QueryKeys, NEW c \in Callers, NEW k, Finish(c) \/ Ask(c, k), UNCHANGED now
    PROVE  Asked'
<1>1. QueryOK(Idle, now)
  BY DEF QueryOK, Idle
<1>2. QueryOK([pc |-> "miss", key |-> k, since |-> now], now)
  BY CacheConstants DEF QueryOK, Waits
<1>3. QED
  BY <1>1, <1>2, QueryMovesOK DEF Finish, Ask

(* A hit is answered, or remembered while the chain is asked. *)
LEMMA HitMovesOK ==
    ASSUME now \in Nat, Asked, QueryKeys, NEW c \in Callers, NEW k, NEW i, AnswerOK(Hit(i)),
           OnHit(c, k, i), UNCHANGED now
    PROVE  Asked' /\ Answers'
<1>1. QueryOK([pc |-> "verify", key |-> k, since |-> now, hit |-> Hit(i)], now)
  BY CacheConstants DEF QueryOK, Waits
<1>2. QueryOK([pc |-> "refresh", key |-> k, hit |-> Hit(i)], now)
  BY DEF QueryOK
<1>3. CASE AskVerify(c, k, i) /\ reply' = NoReply
  BY <1>1, <1>3, QueryMovesOK, Zenon DEF AskVerify, NoReply, Answers
<1>4. CASE StartRefresh(c, k, i) /\ reply' = NoReply
  BY <1>2, <1>4, QueryMovesOK, Zenon DEF StartRefresh, NoReply, Answers
<1>5. CASE Finish(c) /\ reply' = Hit(i)
  BY <1>5, QueryEndsOrAsks DEF Answers
<1>6. QED
  BY <1>3, <1>4, <1>5 DEF OnHit

(* What a lookup finds is an item of the store. *)
LEMMA FoundItem ==
    ASSUME NEW t, NEW s, StoreOK(s, t), NEW k, NEW i \in Find(s, k)
    PROVE  i \in Range(s) /\ i.key = k /\ i \in StoreItem /\ ItemOK(i, t)
<1>1. i \in Range(s) /\ i.key = k
  BY DEF Find
<1>2. PICK n \in DOMAIN s : i = s[n]
  BY <1>1 DEF Range
<1>3. QED
  BY <1>1, <1>2 DEF StoreOK

(* What a lookup does to the store it looks into. *)
LEMMA LookedUp ==
    ASSUME now \in Nat, NEW s, StoreOK(s, now), NEW k, NEW i \in Find(s, k), ~Dead(i)
    PROVE  /\ StoreOK(Put(s, Touch(i)), now)
           /\ OnlyPositive(s) => OnlyPositive(Put(s, Touch(i)))
           /\ AnswerOK(Hit(Touch(i)))
<1>1. i \in Range(s) /\ i \in StoreItem /\ ItemOK(i, now)
  BY FoundItem
<1>2. Touch(i) \in StoreItem /\ ItemOK(Touch(i), now) /\ ~Dead(Touch(i)) /\ Touch(i).msg = i.msg
  BY <1>1, TouchedItem DEF ItemOK, Dead, Stale, Remaining, Age
<1>3. QED
  BY <1>1, <1>2, PutOK, HitKeepsPromises DEF OnlyPositive

(* No store holds anything at first. *)
LEMMA CacheInit == Init => CacheInv
<1> SUFFICES ASSUME Init PROVE CacheInv
  OBVIOUS
<1>1. StoreOK(<<>>, now) /\ OnlyPositive(<<>>)
  BY CacheConstants DEF StoreOK, OnlyPositive, Range, Unique
<1>2. now \in Nat /\ Stores
  BY <1>1 DEF Init, Stores
<1>3. Asked /\ Fetches /\ Answers
  BY DEF Init, Asked, Fetches, Answers, QueryOK, FetchOK, Idle, NoTask, NoReply
<1>4. QED
  BY <1>2, <1>3 DEF CacheInv

(* get on the success store: a miss, a dead item removed, or a hit. *)
LEMMA LookupSuccessOK ==
    ASSUME CacheInv, QueryKeys, NEW c \in Callers, NEW k \in Keys, LookupSuccess(c, k)
    PROVE  CacheInv'
<1>0. UNCHANGED <<now, ncache, fetch>> /\ now \in Nat /\ Stores /\ Asked /\ Fetches
  BY DEF LookupSuccess, CacheInv
<1>1. now' \in Nat /\ Fetches'
  BY <1>0 DEF Fetches
<1>2. CASE /\ query' = [query EXCEPT ![c] = [pc |-> "denial", key |-> k]]
           /\ reply' = NoReply /\ UNCHANGED pcache
  <2>1. QueryOK([pc |-> "denial", key |-> k], now)
    BY DEF QueryOK
  <2>2. Asked'
    BY <1>0, <1>2, <2>1, QueryMovesOK, Zenon
  <2>3. Stores' /\ Answers'
    BY <1>0, <1>2 DEF Stores, Answers, NoReply
  <2>4. QED
    BY <1>1, <2>2, <2>3 DEF CacheInv
<1>3. CASE pcache' = Without(pcache, k) /\ Ask(c, k) /\ reply' = NoReply
  <2>1. Asked'
    BY <1>0, <1>3, QueryEndsOrAsks
  <2>2. StoreOK(Without(pcache, k), now) /\ OnlyPositive(Without(pcache, k))
    BY <1>0, WithoutOK DEF Stores
  <2>3. Stores' /\ Answers'
    BY <1>0, <1>3, <2>2 DEF Stores, Answers, NoReply
  <2>4. QED
    BY <1>1, <2>1, <2>3 DEF CacheInv
<1>4. ASSUME NEW i \in Find(pcache, k), ~Dead(i), pcache' = Put(pcache, Touch(i)), OnHit(c, k, Touch(i))
      PROVE  CacheInv'
  <2>1. StoreOK(Put(pcache, Touch(i)), now) /\ OnlyPositive(Put(pcache, Touch(i))) /\ AnswerOK(Hit(Touch(i)))
    BY <1>0, <1>4, LookedUp DEF Stores
  <2>2. Asked' /\ Answers'
    BY <1>0, <1>4, <2>1, HitMovesOK
  <2>3. Stores'
    BY <1>0, <1>4, <2>1 DEF Stores
  <2>4. QED
    BY <1>1, <2>2, <2>3 DEF CacheInv
<1>5. QED
  BY <1>2, <1>3, <1>4 DEF LookupSuccess

(* get on the denial store, likewise. *)
LEMMA LookupDenialOK ==
    ASSUME CacheInv, QueryKeys, NEW c \in Callers, LookupDenial(c)
    PROVE  CacheInv'
<1> DEFINE k == query[c].key
<1>0. UNCHANGED <<now, pcache, fetch>> /\ now \in Nat /\ Stores /\ Asked /\ Fetches
  BY Zenon DEF LookupDenial, CacheInv
<1>1. now' \in Nat /\ Fetches'
  BY <1>0 DEF Fetches
<1>2. CASE (ncache' = ncache \/ ncache' = Without(ncache, k)) /\ Ask(c, k) /\ reply' = NoReply
  <2>1. Asked'
    BY <1>0, <1>2, QueryEndsOrAsks
  <2>2. StoreOK(Without(ncache, k), now)
    BY <1>0, WithoutOK DEF Stores
  <2>3. Stores' /\ Answers'
    BY <1>0, <1>2, <2>2 DEF Stores, Answers, NoReply
  <2>4. QED
    BY <1>1, <2>1, <2>3 DEF CacheInv
<1>3. ASSUME NEW i \in Find(ncache, k), ~Dead(i), ncache' = Put(ncache, Touch(i)), OnHit(c, k, Touch(i))
      PROVE  CacheInv'
  <2>1. StoreOK(Put(ncache, Touch(i)), now) /\ AnswerOK(Hit(Touch(i)))
    BY <1>0, <1>3, LookedUp DEF Stores
  <2>2. Asked' /\ Answers'
    BY <1>0, <1>3, <2>1, HitMovesOK
  <2>3. Stores'
    BY <1>0, <1>3, <2>1 DEF Stores
  <2>4. QED
    BY <1>1, <2>2, <2>3 DEF CacheInv
<1>4. QED
  BY <1>2, <1>3, Zenon DEF LookupDenial

(* The chain answers a miss or a verification within Latency. *)
LEMMA AnsweredOK ==
    ASSUME CacheInv, QueryKeys, NEW c \in Callers, NEW m \in Messages,
           MissAnswered(c, m) \/ VerifyAnswered(c, m)
    PROVE  CacheInv'
<1>0. UNCHANGED <<now, fetch>> /\ now \in Nat /\ Stores /\ Asked /\ Fetches
  BY Zenon DEF MissAnswered, VerifyAnswered, CacheInv
<1>1. now' \in Nat /\ Fetches'
  BY <1>0 DEF Fetches
<1>2. /\ query[c].pc \in {"miss", "verify"} /\ Finish(c)
      /\ \E at \in query[c].since .. now : insert(query[c].key, m, at) /\ reply' = Fresh(query[c].key, m, at)
  BY Zenon DEF MissAnswered, VerifyAnswered
<1>3. Waits(query[c].since, now) /\ query[c].key \in Keys
  BY <1>0, <1>2, Zenon DEF Asked, QueryOK, QueryKeys
<1>4. PICK at \in query[c].since .. now : insert(query[c].key, m, at) /\ reply' = Fresh(query[c].key, m, at)
  BY <1>2, Zenon
<1>5. AnswerOK(Fresh(query[c].key, m, at))
  BY <1>0, <1>3, NewItem, Zenon
<1>6. Stores'
  BY <1>0, <1>3, <1>4, InsertOK, Zenon
<1>7. Asked' /\ Answers'
  BY <1>0, <1>2, <1>4, <1>5, QueryEndsOrAsks, Zenon DEF Answers
<1>8. QED
  BY <1>1, <1>6, <1>7, Zenon DEF CacheInv

(* A refresh task that has just been started has not waited. *)
LEMMA NewFetch == ASSUME NEW t \in Nat PROVE FetchOK([pc |-> "asking", since |-> t], t)
BY CacheConstants DEF FetchOK, Waits

(* The chain fails, the client goes, or a refresh was or was not started:  *)
(* at most the remembered hit goes out.                                    *)
LEMMA EndedOK ==
    ASSUME CacheInv, QueryKeys, NEW c \in Callers,
           MissFailed(c) \/ VerifyFailed(c) \/ Dropped(c) \/ RefreshSwap(c)
    PROVE  CacheInv'
<1>0. UNCHANGED <<now, pcache, ncache>> /\ Finish(c) /\ now \in Nat /\ Stores /\ Asked /\ Fetches
  BY Zenon DEF MissFailed, VerifyFailed, Dropped, RefreshSwap, CacheInv
<1>1. now' \in Nat /\ Stores'
  BY <1>0 DEF Stores
<1>2. Asked'
  BY <1>0, QueryEndsOrAsks
<1>3. Answers'
  <2>1. reply' \in {Failed, NoReply} \/ (query[c].pc \in {"verify", "refresh"} /\ reply' = query[c].hit)
    BY Zenon DEF MissFailed, VerifyFailed, Dropped, RefreshSwap
  <2>2. query[c].pc \in {"verify", "refresh"} => AnswerOK(query[c].hit)
    BY <1>0, Zenon DEF Asked, QueryOK
  <2>3. Failed.kind # "answer" /\ NoReply.kind # "answer"
    BY DEF Failed, NoReply
  <2>4. QED
    BY <2>1, <2>2, <2>3, Zenon DEF Answers
<1>4. Fetches'
  <2>1. FetchOK([pc |-> "asking", since |-> now], now)
    BY <1>0, NewFetch, Zenon
  <2>2. fetch' = fetch \/ fetch' = [fetch EXCEPT ![clone[c].key] = [pc |-> "asking", since |-> now]]
    BY Zenon DEF MissFailed, VerifyFailed, Dropped, RefreshSwap
  <2>3. QED
    BY <1>0, <2>1, <2>2 DEF Fetches
<1>5. QED
  BY <1>1, <1>2, <1>3, <1>4 DEF CacheInv

(* The refresh task inserts what it got, or nothing. *)
LEMMA RefreshTaskOK ==
    ASSUME CacheInv, NEW k \in Keys,
           RefreshFailed(k) \/ RefreshEnd(k) \/ \E m \in Messages : RefreshAnswered(k, m)
    PROVE  CacheInv'
<1>0. UNCHANGED <<now, query>> /\ reply' = NoReply /\ now \in Nat /\ Stores /\ Asked /\ Fetches
  BY Zenon DEF RefreshFailed, RefreshEnd, RefreshAnswered, CacheInv
<1>1. now' \in Nat /\ Asked' /\ Answers'
  BY <1>0 DEF Asked, Answers, NoReply
<1>2. Fetches'
  <2>1. FetchOK([pc |-> "done"], now) /\ FetchOK(NoTask, now)
    BY DEF FetchOK, NoTask
  <2>2. \E f \in {[pc |-> "done"], NoTask} : fetch' = [fetch EXCEPT ![k] = f]
    BY Zenon DEF RefreshFailed, RefreshEnd, RefreshAnswered
  <2>3. QED
    BY <1>0, <2>1, <2>2, Zenon DEF Fetches
<1>3. Stores'
  <2>1. CASE UNCHANGED <<pcache, ncache>>
    BY <1>0, <2>1 DEF Stores
  <2>2. ASSUME NEW m \in Messages, RefreshAnswered(k, m) PROVE Stores'
    <3>1. PICK at \in fetch[k].since .. now : insert(k, m, at)
      BY <2>2, Zenon DEF RefreshAnswered
    <3>2. Waits(fetch[k].since, now)
      BY <1>0, <2>2, Zenon DEF RefreshAnswered, Fetches, FetchOK
    <3>3. QED
      BY <1>0, <3>1, <3>2, InsertOK
  <2>3. QED
    BY <2>1, <2>2 DEF RefreshFailed, RefreshEnd
<1>4. QED
  BY <1>1, <1>2, <1>3 DEF CacheInv

(* A second passes for items, queries and refresh tasks. *)
LEMMA TickOK ==
    ASSUME CacheInv, Tick
    PROVE  CacheInv'
<1>1. /\ now' = now + 1 /\ reply' = NoReply /\ UNCHANGED <<pcache, ncache, query, fetch>>
      /\ now \in Nat /\ Stores /\ Asked /\ Fetches
  BY Zenon DEF Tick, CacheInv
<1>2. StoreOK(pcache, now + 1) /\ StoreOK(ncache, now + 1)
  BY <1>1, StoreLater DEF Stores
<1>3. \A since : Waits(since, now) /\ now < since + Latency => Waits(since, now + 1)
  BY <1>1, CacheConstants DEF Waits
<1>4. \A c \in Callers : QueryOK(query[c], now + 1)
  BY <1>1, <1>3, Zenon DEF Tick, Asked, QueryOK
<1>5. \A k \in Keys : FetchOK(fetch[k], now + 1)
  BY <1>1, <1>3, Zenon DEF Tick, Fetches, FetchOK
<1>6. now + 1 \in Nat
  BY <1>1
<1>7. Stores' /\ Asked' /\ Fetches' /\ Answers'
  BY <1>1, <1>2, <1>4, <1>5 DEF Stores, Asked, Fetches, Answers, NoReply
<1>8. QED
  BY <1>1, <1>6, <1>7 DEF CacheInv

(* Every step of the plugin keeps the invariant. *)
LEMMA CacheNext == CacheInv /\ QueryKeys /\ [Next]_vars => CacheInv'
<1> SUFFICES ASSUME CacheInv, QueryKeys, [Next]_vars PROVE CacheInv'
  OBVIOUS
<1>1. CASE UNCHANGED vars
  BY <1>1 DEF vars, cacheVars, CacheInv, Stores, Asked, Fetches, Answers
<1>2. ASSUME NEW c \in Callers, RefreshGetFlag(c) PROVE CacheInv'
  BY <1>2, Zenon DEF RefreshGetFlag, CacheInv, Stores, Asked, Fetches, Answers, NoReply
<1>3. QED
  BY <1>1, <1>2, LookupSuccessOK, LookupDenialOK, AnsweredOK, EndedOK, RefreshTaskOK, TickOK DEF Next

(* The items of both stores, the queries and the refresh tasks under way   *)
(* stay within their bounds in every reachable state.                      *)
THEOREM CacheInvariant == Spec => []CacheInv
  BY CacheInit, CacheNext, QueryKeysInit, QueryKeysNext, PTL DEF Spec

(* What get hands out was never produced longer ago than the maximal TTL,  *)
(* serve_stale and the time of one question to the chain add up to.        *)
THEOREM StalenessHolds == Spec => []BoundedStaleness
<1>1. CacheInv => BoundedStaleness
  BY DEF CacheInv, Answers, AnswerOK, BoundedStaleness
<1>2. QED
  BY <1>1, CacheInvariant, PTL

(* The TTL of an answer from the cache never outlives the upstream's TTL,  *)
(* counted from when the upstream answered, but for the time the question  *)
(* took (keepttl excepted).                                                *)
THEOREM TTLHolds == Spec => []NoTTLExtension
<1>1. CacheInv => NoTTLExtension
  BY DEF CacheInv, Answers, AnswerOK, NoTTLExtension
<1>2. QED
  BY <1>1, CacheInvariant, PTL

(* put keeps an item, replaces it by the new one, or the store is full. *)
LEMMA PutKeeps ==
    ASSUME NEW t, NEW s, StoreOK(s, t), NEW i \in StoreItem, NEW j \in Range(s)
    PROVE  \/ \E h \in Range(Put(s, i)) : h.key = j.key
           \/ Len(Without(Put(s, i), j.key)) = Cap
<1> DEFINE p == Put(s, i)
<1>1. /\ p \in Seq(StoreItem) /\ i \in Range(p)
      /\ Len(p) = Cap \/ \A h \in Range(s) : h.key # i.key => h \in Range(p)
  BY PutItems DEF StoreOK
<1> HIDE DEF p
<1>2. CASE \A h \in Range(p) : h.key # j.key
  <2>2. Without(p, j.key) = p
    BY <1>1, <1>2, WithoutNone, Zenon
  <2>3. Len(p) = Cap
    BY <1>1, <1>2, Zenon
  <2>4. QED
    BY <2>2, <2>3, Zenon DEF p
<1>3. QED
  BY <1>2 DEF p

(* What may happen to an item j of the success store. *)
Survives(j) == \/ \E h \in Range(pcache') : h.key = j.key
               \/ Len(Without(pcache', j.key)) = Cap

(* One step, one item: it is still there, replaced by a success, or evicted. *)
LEMMA LiveKept ==
    ASSUME CacheInv, QueryKeys, [Next]_vars, NEW j \in Range(pcache), ~Dead(j)
    PROVE  Survives(j)
<1>0. now \in Nat /\ Stores /\ StoreOK(pcache, now)
  BY DEF CacheInv, Stores
<1>1. CASE UNCHANGED pcache
  BY <1>1 DEF Survives
<1>2. ASSUME NEW i \in StoreItem, pcache' = Put(pcache, i) PROVE Survives(j)
  BY <1>0, <1>2, PutKeeps DEF Survives
<1>3. ASSUME NEW c \in Callers, NEW k \in Keys, LookupSuccess(c, k) PROVE Survives(j)
  <2>1. ASSUME NEW i \in Find(pcache, k), Dead(i), pcache' = Without(pcache, k) PROVE Survives(j)
    <3>1. i \in Range(pcache) /\ i.key = k /\ Unique(pcache) /\ pcache \in Seq(StoreItem)
      BY <1>0, <2>1, FoundItem, Zenon DEF StoreOK
    <3>2. j.key = k => j = i
      BY <3>1 DEF Unique, Range
    <3>3. Range(pcache') = {h \in Range(pcache) : h.key # k}
      BY <2>1, <3>1, WithoutItems
    <3>4. QED
      BY <2>1, <3>2, <3>3 DEF Survives
  <2>2. ASSUME NEW i \in Find(pcache, k), pcache' = Put(pcache, Touch(i)) PROVE Survives(j)
    <3>1. Touch(i) \in StoreItem
      BY <1>0, <2>2, FoundItem, TouchedItem, Zenon
    <3>2. QED
      BY <1>2, <2>2, <3>1
  <2>3. QED
    BY <1>1, <1>3, <2>1, <2>2, Zenon DEF LookupSuccess
<1>4. ASSUME NEW k \in Keys, NEW m \in Messages, NEW since, Waits(since, now), NEW at \in since .. now,
             insert(k, m, at)
      PROVE  Survives(j)
  <2>1. Item(k, m, at) \in StoreItem
    BY <1>0, <1>4, NewItem, SMTT(30)
  <2>2. QED
    BY <1>1, <1>2, <1>4, <2>1, Zenon DEF insert
<1>5. ASSUME NEW c \in Callers, NEW m \in Messages, MissAnswered(c, m) \/ VerifyAnswered(c, m)
      PROVE  Survives(j)
  <2>1. /\ query[c].pc \in {"miss", "verify"}
        /\ \E at \in query[c].since .. now : insert(query[c].key, m, at)
    BY <1>5, Zenon DEF MissAnswered, VerifyAnswered
  <2>2. Waits(query[c].since, now) /\ query[c].key \in Keys
    BY <2>1, Zenon DEF CacheInv, Asked, QueryOK, QueryKeys
  <2>3. QED
    BY <1>4, <2>1, <2>2, Zenon
<1>6. ASSUME NEW k \in Keys, NEW m \in Messages, RefreshAnswered(k, m) PROVE Survives(j)
  <2>1. Waits(fetch[k].since, now) /\ \E at \in fetch[k].since .. now : insert(k, m, at)
    BY <1>6, Zenon DEF RefreshAnswered, CacheInv, Fetches, FetchOK
  <2>2. QED
    BY <1>4, <2>1, Zenon
<1>7. ASSUME \/ \E c \in Callers : \/ LookupDenial(c) \/ MissFailed(c) \/ VerifyFailed(c)
                                   \/ Dropped(c) \/ RefreshGetFlag(c) \/ RefreshSwap(c)
             \/ \E k \in Keys : RefreshFailed(k) \/ RefreshEnd(k)
             \/ Tick \/ UNCHANGED vars
      PROVE  UNCHANGED pcache
  BY <1>7, Zenon DEF LookupDenial, MissFailed, VerifyFailed, Dropped, RefreshGetFlag, RefreshSwap,
              RefreshFailed, RefreshEnd, Tick, vars, cacheVars
<1>8. QED
  BY <1>1, <1>3, <1>5, <1>6, <1>7 DEF Next

(* While an item of the success store may be served, no step of get,       *)
(* insert or a refresh loses it but for a newer success or the LRU limit.  *)
THEOREM SuccessKept == Spec => LiveSuccessKept
<1> DEFINE Kept == \A i \in Range(pcache) : ~Dead(i) =>
                      \/ \E j \in Range(pcache') : j.key = i.key /\ Positive(j.msg)
                      \/ Len(Without(pcache', i.key)) = Cap
<1>1. ASSUME CacheInv, CacheInv', QueryKeys, [Next]_vars PROVE Kept
  <2>1. \A j \in Range(pcache') : Positive(j.msg)
    BY <1>1 DEF CacheInv, Stores, OnlyPositive
  <2>2. \A i \in Range(pcache) : ~Dead(i) => Survives(i)
    BY <1>1, LiveKept
  <2>3. QED
    BY <2>1, <2>2 DEF Survives
<1>2. QED
  BY <1>1, CacheInvariant, QueryKeysInit, QueryKeysNext, PTL DEF Spec, LiveSuccessKept
=============================================================================
