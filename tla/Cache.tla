-------------------------------- MODULE Cache --------------------------------
(***************************************************************************)
(* The cache plugin (src/plugins/cache.rs): the success and denial stores, *)
(* the lookup, the insertion of upstream answers, serve_stale in both      *)
(* refresh modes, prefetch, and the background refreshes, which go through *)
(* the inflight map of Inflight.tla.                                       *)
(*                                                                         *)
(* A store is one shard of an LruCache: a sequence of items, most recently *)
(* used first.  All keys of the model share the shard, which is the worst  *)
(* case for eviction.  Time is in whole seconds, the unit every comparison *)
(* of the code uses.                                                       *)
(***************************************************************************)
EXTENDS Inflight, Integers, Sequences, Functions

CONSTANTS
    Messages,           \* upstream answers, see typify for the fields
    Cap,                \* items per shard, max(capacity / 256, 1)
    PTTL, MinPTTL,      \* success: maximal and minimal TTL
    NTTL, MinNTTL,      \* denial: maximal and minimal TTL
    FailTTL,            \* servfail TTL, 0 = not cached
    Prefetch,           \* hits that trigger a prefetch, 0 = off
    Duration,           \* prefetch window
    Percentage,         \* prefetch when this share of the TTL is left
    StaleUpto,          \* serve_stale, 0 = off
    Verify,             \* serve_stale verify (TRUE) or immediate (FALSE)
    KeepTTL,
    DisableSuccess,     \* keys in the zones of `disable success`
    DisableDenial,      \* keys in the zones of `disable denial`
    Latency,            \* longest time the chain below takes to answer
    MaxTime             \* bound of the clock

(* setup accepts a maximal TTL below the minimal one, with which the       *)
(* Duration::clamp of insert panics; that configuration is left out.       *)
ASSUME CacheConstants ==
    /\ Cap \in Nat \ {0}
    /\ {MinPTTL, PTTL, MinNTTL, NTTL, FailTTL, Prefetch, Duration,
        Percentage, StaleUpto, Latency, MaxTime} \subseteq Nat
    /\ MinPTTL <= PTTL /\ MinNTTL <= NTTL
    /\ Verify \in BOOLEAN /\ KeepTTL \in BOOLEAN
    /\ \A m \in Messages : m.ttl \in Nat

VARIABLES
    now,        \* the clock
    pcache,     \* the success store
    ncache,     \* the denial store
    query,      \* where each serve_dns is
    fetch,      \* what the refresh task of each key is doing
    reply       \* the answer the last step gave to a client (a history variable)

cacheVars == <<now, pcache, ncache, query, fetch, reply>>
vars == <<cacheVars, inflightVars>>

Idle    == [pc |-> "idle"]
NoTask  == [pc |-> "none"]
NoReply == [kind |-> "none"]
Failed  == [kind |-> "failed"]  \* Err, Rcode or Drop from the chain below
-----------------------------------------------------------------------------
(* The kind of an upstream answer. *)
typify(m) ==
    CASE ~m.isQuery -> "Meta"
      [] m.isQuery /\ m.rcode = "NXDomain" -> "NameError"
      [] m.isQuery /\ m.rcode = "NoError" ->
            IF m.answers THEN "Success"
            ELSE IF ~m.soa /\ m.ns /\ ~m.aa THEN "Delegation" ELSE "NoError"
      [] OTHER -> "OtherError"

Positive(m) == typify(m) \in {"Success", "Delegation"}
Denial(m)   == typify(m) \in {"NoError", "NameError"}

Clamp(t, low, high) == IF t < low THEN low ELSE IF t > high THEN high ELSE t

(* The store an answer goes to. *)
StoreOfNoRcode(k, m) ==         \* mutant: an error is kept as a success
    IF m.truncated \/ ~m.sameQuestion \/ typify(m) = "Meta" THEN "none"
    ELSE IF Denial(m) THEN "ncache" ELSE "pcache"

StoreOf(k, m) ==
    CASE m.truncated \/ ~m.sameQuestion \/ typify(m) = "Meta" -> "none"
      [] Positive(m) /\ ~m.truncated /\ m.sameQuestion ->
            IF k \in DisableSuccess THEN "none" ELSE "pcache"
      [] Denial(m) /\ ~m.truncated /\ m.sameQuestion ->
            IF k \in DisableDenial THEN "none" ELSE "ncache"
      [] OTHER -> IF FailTTL = 0 THEN "none" ELSE "ncache"

(* The lifetime of a stored answer; one without records gets the minimum. *)
Lifetime(m) ==
    LET bare == ~m.answers /\ ~m.soa /\ ~m.ns IN
    CASE Positive(m) -> Clamp(m.ttl, MinPTTL, PTTL)
      [] Denial(m)   -> Clamp(IF bare THEN MinNTTL ELSE m.ttl, MinNTTL, NTTL)
      [] OTHER       -> FailTTL

(* LruCache: put replaces the key's item or evicts the least recently used. *)
Without(s, k) ==
    LET at == {n \in DOMAIN s : s[n].key = k}
        p  == CHOOSE n \in at : TRUE
    IN  IF at = {} THEN s ELSE [n \in 1 .. Len(s) - 1 |-> IF n < p THEN s[n] ELSE s[n + 1]]
Put(s, i) == LET r == <<i>> \o Without(s, i.key)
             IN  SubSeq(r, 1, IF Len(r) > Cap THEN Cap ELSE Len(r))
Find(s, k) == {i \in Range(s) : i.key = k}

(* insert: `at` is when the upstream produced the answer. *)
Item(k, m, at) == [key |-> k, msg |-> m, at |-> at, stored |-> now,
                   ttl |-> Lifetime(m), fetches |-> 0, window |-> now]

insert(k, m, at) ==
    /\ pcache' = IF StoreOf(k, m) = "pcache" THEN Put(pcache, Item(k, m, at)) ELSE pcache
    /\ ncache' = IF StoreOf(k, m) = "ncache" THEN Put(ncache, Item(k, m, at)) ELSE ncache
-----------------------------------------------------------------------------
Age(i)       == now - i.stored
Remaining(i) == i.ttl - Age(i)
Stale(i)     == Remaining(i) <= 0

DeadNever(i) ==                 \* mutant: stale_upto is not enforced
    FALSE

Dead(i)      == Stale(i) /\ Age(i) > i.ttl + StaleUpto

(* The prefetch bookkeeping of a hit.  Only fetches >= Prefetch matters,   *)
(* so the counter stops at Prefetch (the code counts on in a u32).         *)
Touch(i) ==
    LET expired == now - i.window > Duration
        count   == (IF expired THEN 0 ELSE i.fetches) + 1
    IN [i EXCEPT !.window  = IF expired THEN now ELSE @,
                 !.fetches = IF count > Prefetch THEN Prefetch ELSE count]

WantPrefetch(i) == /\ Prefetch > 0 /\ i.fetches >= Prefetch
                   /\ ~Stale(i)
                   /\ Remaining(i) * 100 <= i.ttl * Percentage

(* The TTL the client sees: aged since the item was stored, 0 when stale. *)
ToMsgNotAged(i) ==              \* mutant: the stored TTL goes out as it is
    IF Stale(i) THEN 0 ELSE i.msg.ttl

ToMsg(i) == IF Stale(i) THEN 0
            ELSE IF KeepTTL THEN i.msg.ttl
            ELSE IF i.msg.ttl > Age(i) THEN i.msg.ttl - Age(i) ELSE 0

Hit(i) == [kind |-> "answer", key |-> i.key, msg |-> i.msg, at |-> i.at,
           when |-> now, ttl |-> ToMsg(i), stale |-> Stale(i)]
Fresh(k, m, at) == [kind |-> "answer", key |-> k, msg |-> m, at |-> at,
                    when |-> now, ttl |-> m.ttl, stale |-> FALSE]
-----------------------------------------------------------------------------
(* The chain below is asked: on a miss, or to verify a stale hit. *)
Ask(c, k)       == query' = [query EXCEPT ![c] =
                       [pc |-> "miss", key |-> k, since |-> now]]
AskVerify(c, k, i) == query' = [query EXCEPT ![c] =
                       [pc |-> "verify", key |-> k, since |-> now, hit |-> Hit(i)]]
StartRefresh(c, k, i) == query' = [query EXCEPT ![c] =
                       [pc |-> "refresh", key |-> k, hit |-> Hit(i)]]
Finish(c)       == query' = [query EXCEPT ![c] = Idle]

(* What serve_dns does with a live item of either store. *)
OnHit(c, k, i) ==
    \/ /\ Stale(i) /\ Verify
       /\ AskVerify(c, k, i)
       /\ reply' = NoReply
    \/ /\ (Stale(i) /\ ~Verify) \/ WantPrefetch(i)
       /\ StartRefresh(c, k, i)
       /\ reply' = NoReply
    \/ /\ ~Stale(i) /\ ~WantPrefetch(i)
       /\ Finish(c)
       /\ reply' = Hit(i)

(* get, first half: the success store.  A dead item is removed and ends    *)
(* the lookup: the denial store is not consulted.                          *)
LookupSuccess(c, k) ==
    /\ query[c] = Idle
    /\ \/ /\ Find(pcache, k) = {}
          /\ query' = [query EXCEPT ![c] = [pc |-> "denial", key |-> k]]
          /\ reply' = NoReply
          /\ UNCHANGED pcache
       \/ \E i \in Find(pcache, k) :
             \/ /\ Dead(i)
                /\ pcache' = Without(pcache, k)
                /\ Ask(c, k)
                /\ reply' = NoReply
             \/ /\ ~Dead(i)
                /\ pcache' = Put(pcache, Touch(i))
                /\ OnHit(c, k, Touch(i))
    /\ UNCHANGED <<now, ncache, fetch, inflightVars>>

(* get, second half: the denial store, under its own lock. *)
LookupDenial(c) ==
    LET k == query[c].key IN
    /\ query[c].pc = "denial"
    /\ \/ /\ Find(ncache, k) = {}
          /\ Ask(c, k)
          /\ reply' = NoReply
          /\ UNCHANGED ncache
       \/ \E i \in Find(ncache, k) :
             \/ /\ Dead(i)
                /\ ncache' = Without(ncache, k)
                /\ Ask(c, k)
                /\ reply' = NoReply
             \/ /\ ~Dead(i)
                /\ ncache' = Put(ncache, Touch(i))
                /\ OnHit(c, k, Touch(i))
    /\ UNCHANGED <<now, pcache, fetch, inflightVars>>

(* The chain answers a miss: insert, and pass the answer on. *)
MissAnswered(c, m) ==
    /\ query[c].pc = "miss"
    /\ \E at \in query[c].since .. now :
          /\ insert(query[c].key, m, at)
          /\ reply' = Fresh(query[c].key, m, at)
    /\ Finish(c)
    /\ UNCHANGED <<now, fetch, inflightVars>>

MissFailed(c) ==
    /\ query[c].pc = "miss"
    /\ Finish(c)
    /\ reply' = Failed
    /\ UNCHANGED <<now, pcache, ncache, fetch, inflightVars>>

(* Verify mode: a fresh answer replaces the stale one unless it is SERVFAIL. *)
VerifyAnswered(c, m) ==
    /\ query[c].pc = "verify"
    /\ m.rcode # "ServFail"
    /\ \E at \in query[c].since .. now :
          /\ insert(query[c].key, m, at)
          /\ reply' = Fresh(query[c].key, m, at)
    /\ Finish(c)
    /\ UNCHANGED <<now, fetch, inflightVars>>

VerifyFailed(c) ==
    /\ query[c].pc = "verify"
    /\ Finish(c)
    /\ reply' = query[c].hit
    /\ UNCHANGED <<now, pcache, ncache, fetch, inflightVars>>

(* The client is gone while the chain is asked: the future is dropped. *)
Dropped(c) ==
    /\ query[c].pc \in {"miss", "verify"}
    /\ Finish(c)
    /\ reply' = NoReply
    /\ UNCHANGED <<now, pcache, ncache, fetch, inflightVars>>

(* refresh_in_background, its two steps.  The second one may spawn a task; *)
(* either way serve_dns then returns the answer found.                     *)
RefreshGetFlag(c) ==
    /\ query[c].pc = "refresh"
    /\ GetFlag(c, query[c].key)
    /\ reply' = NoReply
    /\ UNCHANGED <<now, pcache, ncache, query, fetch>>

RefreshSwapWaits(c) ==          \* mutant: waits for a flag that is never cleared
    /\ query[c].pc = "refresh" /\ clone[c].flag \notin raised
    /\ Swap(c)
    /\ fetch' = [fetch EXCEPT ![clone[c].key] = [pc |-> "asking", since |-> now]]
    /\ Finish(c)
    /\ reply' = query[c].hit
    /\ UNCHANGED <<now, pcache, ncache>>

RefreshSwap(c) ==
    /\ query[c].pc = "refresh"
    /\ Swap(c)
    /\ fetch' = IF running' # running
                THEN [fetch EXCEPT ![clone[c].key] = [pc |-> "asking", since |-> now]]
                ELSE fetch
    /\ Finish(c)
    /\ reply' = query[c].hit
    /\ UNCHANGED <<now, pcache, ncache>>

(* The refresh task: the chain answers or fails, then the entry is removed. *)
RefreshAnswered(k, m) ==
    /\ fetch[k].pc = "asking"
    /\ \E at \in fetch[k].since .. now : insert(k, m, at)
    /\ fetch' = [fetch EXCEPT ![k] = [pc |-> "done"]]
    /\ reply' = NoReply
    /\ UNCHANGED <<now, query, inflightVars>>

RefreshFailed(k) ==
    /\ fetch[k].pc = "asking"
    /\ fetch' = [fetch EXCEPT ![k] = [pc |-> "done"]]
    /\ reply' = NoReply
    /\ UNCHANGED <<now, pcache, ncache, query, inflightVars>>

RefreshEndForgets(k) ==         \* mutant: the entry is not removed
    /\ fetch[k].pc = "done"
    /\ fetch' = [fetch EXCEPT ![k] = NoTask]
    /\ reply' = NoReply
    /\ UNCHANGED <<now, pcache, ncache, query, inflightVars>>

RefreshEnd(k) ==
    /\ fetch[k].pc = "done"
    /\ RemoveEntry(k)
    /\ fetch' = [fetch EXCEPT ![k] = NoTask]
    /\ reply' = NoReply
    /\ UNCHANGED <<now, pcache, ncache, query>>

(* A second passes.  The chain below answers or gives up within Latency    *)
(* (5 s for forward), so no question is older than that.                   *)
Tick ==
    /\ now < MaxTime
    /\ \A c \in Callers : query[c].pc \in {"miss", "verify"} => now < query[c].since + Latency
    /\ \A k \in Keys : fetch[k].pc = "asking" => now < fetch[k].since + Latency
    /\ now' = now + 1
    /\ reply' = NoReply
    /\ UNCHANGED <<pcache, ncache, query, fetch, inflightVars>>
-----------------------------------------------------------------------------
Init ==
    /\ now = 0
    /\ pcache = <<>> /\ ncache = <<>>
    /\ query = [c \in Callers |-> Idle]
    /\ fetch = [k \in Keys |-> NoTask]
    /\ reply = NoReply
    /\ InflightInit

Next ==
    \/ \E c \in Callers :
          \/ \E k \in Keys : LookupSuccess(c, k)
          \/ LookupDenial(c)
          \/ \E m \in Messages : MissAnswered(c, m) \/ VerifyAnswered(c, m)
          \/ MissFailed(c) \/ VerifyFailed(c) \/ Dropped(c)
          \/ RefreshGetFlag(c) \/ RefreshSwap(c)
    \/ \E k \in Keys :
          \/ \E m \in Messages : RefreshAnswered(k, m)
          \/ RefreshFailed(k) \/ RefreshEnd(k)
    \/ Tick

Spec == Init /\ [][Next]_vars

(* Threads keep running and the chain below answers or fails; queries need *)
(* not arrive and upstreams need not give a good answer.                   *)
Fairness ==
    /\ \A c \in Callers :
          /\ WF_vars(LookupDenial(c))
          /\ WF_vars(\/ MissFailed(c) \/ VerifyFailed(c)
                     \/ \E m \in Messages : MissAnswered(c, m) \/ VerifyAnswered(c, m))
          /\ WF_vars(RefreshGetFlag(c)) /\ WF_vars(RefreshSwap(c))
    /\ \A k \in Keys :
          /\ WF_vars(RefreshFailed(k) \/ \E m \in Messages : RefreshAnswered(k, m))
          /\ WF_vars(RefreshEnd(k))

FairSpec == Spec /\ Fairness
-----------------------------------------------------------------------------
(* The longest time an answer of this kind stays in a store. *)
MaxLifetime(m) == CASE Positive(m) -> PTTL [] Denial(m) -> NTTL [] OTHER -> FailTTL

(* No client is given data that the upstream produced longer ago than the  *)
(* configured maximal TTL plus serve_stale plus the time the chain takes:  *)
(* across late inserts that overwrite newer answers, failed refreshes,     *)
(* prefetches and the two stores shadowing each other.  (when is the time  *)
(* of the lookup that found the item, or of the fresh answer.)             *)
BoundedStaleness ==
    reply.kind = "answer" =>
        reply.when - reply.at <= MaxLifetime(reply.msg) + StaleUpto + Latency

(* A TTL handed to a client never lets the client keep the data longer     *)
(* than the upstream allowed (unless keepttl asks for it).                 *)
NoTTLExtension ==
    reply.kind = "answer" /\ ~KeepTTL =>
        reply.ttl = 0 \/ reply.when + reply.ttl <= reply.at + reply.msg.ttl + Latency

(* serve_stale keeps what it has: while an item of the success store may   *)
(* still be served, no failure, denial or SERVFAIL from upstream removes   *)
(* or replaces it.  Only a newer success, or the LRU limit, does.          *)
LiveSuccessKept ==
    [][\A i \in Range(pcache) : ~Dead(i) =>
          \/ \E j \in Range(pcache') : j.key = i.key /\ Positive(j.msg)
          \/ Len(Without(pcache', i.key)) = Cap]_vars

(* The plugin touches the inflight map only by steps of its protocol, so   *)
(* that what is shown of the protocol holds for the plugin.                *)
UsesInflightProtocol == InflightFairSpec

(* Every query is answered, or its client has gone. *)
QueryEnds == \A c \in Callers : query[c] # Idle ~> query[c] = Idle
=============================================================================
