----------------------------- MODULE TaskProofs -----------------------------
(***************************************************************************)
(* Theorems about two tasks that copy what another server holds: the watcher*)
(* that keeps the services and pods of the kubernetes store (KubeIndex), and*)
(* the refresh task of secondary (Secondary).                              *)
(*                                                                         *)
(* KubeIndex, for any objects, addresses, changes and losses of the stream:*)
(* the reverse index of the services or pods only names an object that has *)
(* the address.  With the types, IndexSound is inductive: an update takes  *)
(* all the old addresses of the object out of the index.  And once the     *)
(* stream has delivered everything, the store mirrors the cluster: its     *)
(* invariant is what the stream owes (WatchInv), and that an object the    *)
(* stream owes nothing for is stored as it is.                             *)
(***************************************************************************)
EXTENDS KubeIndex, Secondary, WatchProofs

(* The store is well typed and its index is sound. *)
SoundInv == TypeOK /\ IndexSound

(* What an update of the store establishes. *)
StoreSound ==
    /\ objs \in [Objects -> Values \cup {NoObject}]
    /\ ~KeepEmpty => \A o \in Objects : objs[o] # {}
    /\ byIp \in [Ips -> Objects \cup {NoObject}]
    /\ IndexSound

(* The mark of an absent object is not the empty set of addresses. *)
LEMMA NoEmptyMark == NoObject # {}
BY WatchConstants, IndexConstants

(* apply_service and apply_pod keep the index sound. *)
LEMMA ApplySound ==
    ASSUME StoreSound, NEW o \in Objects, NEW ips \in Values, Apply(o, ips)
    PROVE  StoreSound'
<1>1. /\ objs' \in [Objects -> Values \cup {NoObject}]
      /\ ~KeepEmpty => \A x \in Objects : objs'[x] # {}
  BY NoEmptyMark DEF StoreSound, Apply
<1>2. byIp' \in [Ips -> Objects \cup {NoObject}]
  BY DEF StoreSound, Apply
<1>3. ASSUME NEW ip \in Ips, byIp'[ip] # NoObject
      PROVE  objs'[byIp'[ip]] # NoObject /\ ip \in objs'[byIp'[ip]]
  <2>1. CASE ip \in ips
    BY <2>1, WatchConstants DEF Apply, StoreSound
  <2>2. CASE ip \notin ips
    <3>1. ip \notin OldIps(o) /\ byIp'[ip] = byIp[ip]
      BY <1>3, <2>2 DEF Apply
    <3>2. byIp[ip] \in Objects /\ objs[byIp[ip]] # NoObject /\ ip \in objs[byIp[ip]]
      BY <1>3, <3>1 DEF StoreSound, IndexSound
    <3>3. byIp[ip] # o
      BY <3>1, <3>2 DEF OldIps
    <3>4. QED
      BY <3>1, <3>2, <3>3 DEF Apply, StoreSound
  <2>3. QED
    BY <2>1, <2>2
<1>4. QED
  BY <1>1, <1>2, <1>3 DEF StoreSound, IndexSound

(* retain_services and retain_pods keep the index sound, whatever is kept. *)
LEMMA RetainSound ==
    ASSUME StoreSound, NEW kept, Retain(kept)
    PROVE  StoreSound'
<1>1. /\ objs' \in [Objects -> Values \cup {NoObject}]
      /\ ~KeepEmpty => \A x \in Objects : objs'[x] # {}
  BY NoEmptyMark DEF StoreSound, Retain
<1>2. byIp' \in [Ips -> Objects \cup {NoObject}]
  BY DEF StoreSound, Retain
<1>3. ASSUME NEW ip \in Ips, byIp'[ip] # NoObject
      PROVE  objs'[byIp'[ip]] # NoObject /\ ip \in objs'[byIp'[ip]]
  <2>1. byIp'[ip] = byIp[ip] /\ \A x \in Objects \ kept : ip \notin OldIps(x)
    BY <1>3 DEF Retain
  <2>2. byIp[ip] \in Objects /\ objs[byIp[ip]] # NoObject /\ ip \in objs[byIp[ip]]
    BY <1>3, <2>1 DEF StoreSound, IndexSound
  <2>3. byIp[ip] \in kept
    BY <2>1, <2>2 DEF OldIps
  <2>4. QED
    BY <2>1, <2>2, <2>3 DEF Retain
<1>4. QED
  BY <1>1, <1>2, <1>3 DEF StoreSound, IndexSound

(* delete_service and delete_pod keep the index sound. *)
LEMMA DeleteSound ==
    ASSUME StoreSound, NEW o \in Objects, Delete(o)
    PROVE  StoreSound'
<1>1. /\ objs' \in [Objects -> Values \cup {NoObject}]
      /\ ~KeepEmpty => \A x \in Objects : objs'[x] # {}
  BY NoEmptyMark DEF StoreSound, Delete
<1>2. byIp' \in [Ips -> Objects \cup {NoObject}]
  BY DEF StoreSound, Delete
<1>3. ASSUME NEW ip \in Ips, byIp'[ip] # NoObject
      PROVE  objs'[byIp'[ip]] # NoObject /\ ip \in objs'[byIp'[ip]]
  <2>1. byIp'[ip] = byIp[ip] /\ ip \notin OldIps(o)
    BY <1>3 DEF Delete
  <2>2. byIp[ip] \in Objects /\ objs[byIp[ip]] # NoObject /\ ip \in objs[byIp[ip]]
    BY <1>3, <2>1 DEF StoreSound, IndexSound
  <2>3. byIp[ip] # o
    BY <2>1, <2>2 DEF OldIps
  <2>4. QED
    BY <2>1, <2>2, <2>3 DEF Delete, StoreSound
<1>4. QED
  BY <1>1, <1>2, <1>3 DEF StoreSound, IndexSound

(* The store starts empty. *)
LEMMA SoundInit == Init => SoundInv
BY NoEmptyMark, Zenon DEF Init, WatchInit, SoundInv, TypeOK, IndexSound

(* Every step of the loop, of the cluster and of the stream keeps it. *)
LEMMA SoundNext == SoundInv /\ [Next]_vars => SoundInv'
<1> SUFFICES ASSUME SoundInv, [Next]_vars PROVE SoundInv'
  OBVIOUS
<1>0. TypeOK /\ StoreSound
  BY DEF SoundInv, TypeOK, StoreSound
<1>1. CASE OnInit
  <2>1. todo' \subseteq [obj : Objects, val : Values]
    BY <1>0, <1>1 DEF OnInit, InitEvent, TypeOK
  <2>2. seen' = {} /\ UNCHANGED <<cluster, objs, byIp, synced>>
    BY <1>1 DEF OnInit, InitEvent
  <2>3. QED
    BY <1>0, <2>1, <2>2 DEF SoundInv, TypeOK, IndexSound
<1>2. CASE OnInitApply
  <2>1. PICK e \in todo : TakeInitApply(e) /\ Apply(e.obj, e.val) /\ UNCHANGED synced
    BY <1>2 DEF OnInitApply
  <2>2. e.obj \in Objects /\ e.val \in Values
    BY <1>0 DEF TypeOK
  <2>3. StoreSound'
    BY <1>0, <2>1, <2>2, ApplySound
  <2>4. QED
    BY <1>0, <2>1, <2>2, <2>3 DEF TakeInitApply, SoundInv, TypeOK, StoreSound
<1>3. CASE OnInitDone
  <2>1. TakeInitDone /\ Retain(seen) /\ synced' = TRUE
    BY <1>3 DEF OnInitDone
  <2>2. StoreSound'
    BY <1>0, <2>1, RetainSound
  <2>3. QED
    BY <1>0, <2>1, <2>2 DEF TakeInitDone, SoundInv, TypeOK, StoreSound
<1>4. CASE OnApply
  <2>1. PICK o \in Objects, v \in Values :
           /\ TakeEvent("apply", [type |-> "apply", obj |-> o, val |-> v])
           /\ Apply(o, v) /\ UNCHANGED synced
    BY <1>4 DEF OnApply
  <2>2. StoreSound'
    BY <1>0, <2>1, ApplySound
  <2>3. QED
    BY <1>0, <2>1, <2>2 DEF TakeEvent, SoundInv, TypeOK, StoreSound
<1>5. CASE OnDelete
  <2>1. PICK o \in Objects, v \in Values :
           /\ TakeEvent("delete", [type |-> "delete", obj |-> o, val |-> v])
           /\ Delete(o) /\ UNCHANGED synced
    BY <1>5 DEF OnDelete
  <2>2. StoreSound'
    BY <1>0, <2>1, DeleteSound
  <2>3. QED
    BY <1>0, <2>1, <2>2 DEF TakeEvent, SoundInv, TypeOK, StoreSound
<1>6. CASE External /\ UNCHANGED <<objs, byIp, synced>>
  <2>1. cluster' \in [Objects -> Values \cup {NoObject}] /\ todo' \subseteq todo /\ seen' = seen
    <3>1. CASE StreamBreaks
      BY <1>0, <3>1 DEF StreamBreaks, TypeOK
    <3>2. CASE \E o \in Objects, v \in Values \cup {NoObject} : ClusterChange(o, v)
      BY <1>0, <3>2 DEF ClusterChange, TypeOK
    <3>3. QED
      BY <1>6, <3>1, <3>2 DEF External
  <2>2. QED
    BY <1>0, <1>6, <2>1 DEF SoundInv, TypeOK, StoreSound, IndexSound
<1>7. CASE UNCHANGED vars
  BY <1>0, <1>7 DEF vars, watchVars, SoundInv, TypeOK, StoreSound, IndexSound
<1>8. QED
  BY <1>1, <1>2, <1>3, <1>4, <1>5, <1>6, <1>7 DEF Next, Loop

(* A reverse lookup of a service or a pod never names one that does not    *)
(* have the address.                                                       *)
THEOREM ReverseIndexSound == Spec => []IndexSound
<1>1. SoundInv => IndexSound
  BY DEF SoundInv
<1>2. QED
  BY <1>1, SoundInit, SoundNext, PTL DEF Spec

(* The type invariant of the services and the pods. *)
THEOREM IndexTyped == Spec => []TypeOK
<1>1. SoundInv => TypeOK
  BY DEF SoundInv
<1>2. QED
  BY <1>1, SoundInit, SoundNext, PTL DEF Spec
-----------------------------------------------------------------------------
(* An object without pending event, once it has come in the list or the    *)
(* list is over, is stored as it is in the cluster.                        *)
MirrorInv ==
    /\ WatchInv
    /\ objs \in [Objects -> Values \cup {NoObject}]
    /\ phase # "broken" => \A o \in Objects :
          Quiet(o) /\ (phase = "watching" \/ o \in seen) => objs[o] = Stored(cluster[o])

(* The store starts empty, before the first list. *)
LEMMA MirrorInit == Init => MirrorInv
BY WatchStarts DEF Init, MirrorInv, WatchInit

(* Every step keeps the mirror: an update stores what its event tells, and *)
(* the retain at the end of a list drops what the list did not have.       *)
LEMMA MirrorNext == MirrorInv /\ [Next]_vars => MirrorInv'
<1> SUFFICES ASSUME MirrorInv, [Next]_vars PROVE MirrorInv'
  OBVIOUS
<1>0. WatchInv /\ objs \in [Objects -> Values \cup {NoObject}] /\ Stored(NoObject) = NoObject
  BY NoEmptyMark DEF MirrorInv, Stored
<1>1. CASE OnInit
  <2>1. InitEvent /\ objs' = objs
    BY <1>1 DEF OnInit
  <2>2. WatchInv' /\ phase' = "listing" /\ seen' = {}
    BY <1>0, <2>1, ListBegins
  <2>3. QED
    BY <1>0, <2>1, <2>2 DEF MirrorInv
<1>2. CASE OnInitApply
  <2>1. PICK e \in todo : TakeInitApply(e) /\ Apply(e.obj, e.val)
    BY <1>2 DEF OnInitApply
  <2>2. /\ WatchInv' /\ phase' = "listing" /\ UNCHANGED <<cluster, queue>>
        /\ e.obj \in Objects /\ e.val \in Values /\ seen' = seen \cup {e.obj}
        /\ Quiet(e.obj) => e.val = cluster[e.obj]
    BY <1>0, <2>1, ListedComes
  <2>3. objs' = [objs EXCEPT ![e.obj] = Stored(e.val)]
    BY <2>1 DEF Apply, Stored
  <2>4. objs' \in [Objects -> Values \cup {NoObject}]
    BY <1>0, <2>2, <2>3 DEF Stored
  <2>5. \A o \in Objects : Quiet(o)' <=> Quiet(o)
    BY <2>2 DEF Quiet
  <2>6. phase = "listing"
    BY <2>1 DEF TakeInitApply
  <2>7. QED
    BY <1>0, <2>2, <2>3, <2>4, <2>5, <2>6 DEF MirrorInv
<1>3. CASE OnInitDone
  <2>1. TakeInitDone /\ Retain(seen)
    BY <1>3 DEF OnInitDone
  <2>2. /\ WatchInv' /\ phase = "listing" /\ phase' = "watching" /\ UNCHANGED <<cluster, queue>>
        /\ \A o \in Objects : Quiet(o) /\ o \notin seen => cluster[o] = NoObject
    BY <1>0, <2>1, ListEnds
  <2>3. objs' = [o \in Objects |-> IF o \in seen THEN objs[o] ELSE NoObject]
    BY <2>1 DEF Retain
  <2>4. \A o \in Objects : Quiet(o)' <=> Quiet(o)
    BY <2>2 DEF Quiet
  <2>5. QED
    BY <1>0, <2>2, <2>3, <2>4 DEF MirrorInv
<1>4. CASE OnApply
  <2>1. PICK o \in Objects, v \in Values :
           TakeEvent("apply", [type |-> "apply", obj |-> o, val |-> v]) /\ Apply(o, v)
    BY <1>4 DEF OnApply
  <2>2. /\ WatchInv' /\ phase = "watching" /\ phase' = "watching" /\ UNCHANGED cluster
        /\ \A x \in Objects : x # o => (Quiet(x)' <=> Quiet(x))
        /\ Quiet(o)' => v = cluster[o]
    BY <1>0, <2>1, EventTaken DEF Tells
  <2>3. objs' = [objs EXCEPT ![o] = Stored(v)]
    BY <2>1 DEF Apply, Stored
  <2>4. objs' \in [Objects -> Values \cup {NoObject}]
    BY <1>0, <2>3 DEF Stored
  <2>5. QED
    BY <1>0, <2>2, <2>3, <2>4 DEF MirrorInv
<1>5. CASE OnDelete
  <2>1. PICK o \in Objects, v \in Values :
           TakeEvent("delete", [type |-> "delete", obj |-> o, val |-> v]) /\ Delete(o)
    BY <1>5 DEF OnDelete
  <2>2. /\ WatchInv' /\ phase = "watching" /\ phase' = "watching" /\ UNCHANGED cluster
        /\ \A x \in Objects : x # o => (Quiet(x)' <=> Quiet(x))
        /\ Quiet(o)' => cluster[o] = NoObject
    BY <1>0, <2>1, EventTaken DEF Tells
  <2>3. objs' = [objs EXCEPT ![o] = NoObject]
    BY <2>1 DEF Delete
  <2>4. QED
    BY <1>0, <2>2, <2>3 DEF MirrorInv
<1>6. CASE External /\ UNCHANGED <<objs, byIp, synced>>
  <2>1. CASE StreamBreaks
    BY <1>0, <1>6, <2>1, StreamLost DEF MirrorInv
  <2>2. ASSUME NEW o \in Objects, NEW v \in Values \cup {NoObject}, ClusterChange(o, v)
        PROVE  MirrorInv'
    <3>1. /\ WatchInv' /\ UNCHANGED <<phase, seen>>
          /\ phase # "broken" =>
                \A x \in Objects : Quiet(x)' => x # o /\ Quiet(x) /\ cluster'[x] = cluster[x]
      BY <1>0, <2>2, ChangePending, Zenon DEF ClusterChange
    <3>2. QED
      BY <1>0, <1>6, <3>1 DEF MirrorInv
  <2>3. QED
    BY <1>6, <2>1, <2>2 DEF External
<1>7. CASE UNCHANGED vars
  <2>1. UNCHANGED <<cluster, phase, todo, queue, seen, objs>>
    BY <1>7 DEF vars, watchVars
  <2>2. QED
    BY <2>1 DEF MirrorInv, WatchInv, Quiet, LastEvent, ToCome
<1>8. QED
  BY <1>1, <1>2, <1>3, <1>4, <1>5, <1>6, <1>7 DEF Next, Loop

(* When the stream has nothing left to deliver, the services or the pods   *)
(* of the store are those of the cluster, whatever was lost before.        *)
THEOREM StoreMirrors == Spec => []Mirrors
<1>1. MirrorInv => Mirrors
  <2> SUFFICES ASSUME MirrorInv, CaughtUp PROVE objs = [o \in Objects |-> Stored(cluster[o])]
    BY DEF Mirrors
  <2>1. phase = "watching" /\ \A o \in Objects : Quiet(o)
    BY DEF CaughtUp, Quiet
  <2>2. objs \in [Objects -> Values \cup {NoObject}] /\ \A o \in Objects : objs[o] = Stored(cluster[o])
    BY <2>1 DEF MirrorInv
  <2>3. QED
    BY <2>2
<1>2. QED
  BY <1>1, MirrorInit, MirrorNext, PTL DEF Spec
-----------------------------------------------------------------------------
(***************************************************************************)
(* Secondary, for any number of primaries and any SOA timers: ServedAge    *)
(* bounds the age at every place of the task by one number, and is not     *)
(* inductive; the invariant bounds it at each place by what the wait or    *)
(* the exchange under way still takes.                                     *)
(***************************************************************************)
(* The age at which a wait may end, while the expiry has not been noticed. *)
Base == (IF Refresh > Expire + Retry THEN Refresh ELSE Expire + Retry) + Jitter

(* The types, and that a wait begins with the first primary. *)
SecondaryType ==
    /\ at \in Primaries /\ left \in Nat /\ age \in Nat
    /\ pc \in {"first", "backoff", "wait", "check", "transfer", "stopped"}
    /\ pc \in {"wait", "backoff"} => at = 1

(* At age a, with l ticks left, the age will be at most b at the end.      *)
Ends(a, l, b) == a + l <= b

(* What is left of a wait or an exchange is counted against the age: a     *)
(* wait ends by Base, each primary of a check and then each primary of a   *)
(* transfer costs one Exchange more.                                       *)
AgeInv ==
    /\ SecondaryType
    /\ pc \in {"first", "backoff"} => zone = None
    /\ Served /\ pc = "wait" => Ends(age, left, Base)
    /\ Served /\ pc = "check" => Ends(age, left, Base + at * Exchange)
    /\ Served /\ pc = "transfer" => Ends(age, left, Base + N * Exchange + at * Exchange)

(* How Ends changes when time passes and when a wait or exchange begins.   *)
LEMMA EndsFacts ==
    ASSUME NEW a \in Nat, NEW l \in Nat, NEW b \in Nat
    PROVE  /\ Ends(a, l, b) => a <= b
           /\ l <= b => Ends(0, l, b)
           /\ a <= b => Ends(a, l, b + l)
           /\ \A c \in Nat : a <= b /\ b <= c => Ends(a, l, c + l)
           /\ l > 0 /\ Ends(a, l, b) => Ends(a, l - 1, b) /\ Ends(a + 1, l - 1, b)
BY DEF Ends

(* One more primary costs one more exchange, and the last one the most.    *)
LEMMA Products ==
    /\ Base \in Nat /\ Exchange \in Nat /\ N * Exchange \in Nat
    /\ 1 * Exchange = Exchange /\ 1 \in Primaries /\ N \in Primaries
    /\ \A k \in Primaries : /\ k * Exchange \in Nat
                            /\ k * Exchange <= N * Exchange
                            /\ (k + 1) * Exchange = k * Exchange + Exchange
    /\ Longest = Base + N * Exchange + N * Exchange
<1>1. N \in Nat /\ N > 0 /\ Refresh \in Nat /\ Retry \in Nat /\ Expire \in Nat /\ Jitter \in Nat
      /\ Exchange \in Nat
  BY SecondaryConstants
<1>2. Base \in Nat /\ 1 \in Primaries /\ N \in Primaries
  BY <1>1 DEF Base, Primaries
<1>3. N * Exchange \in Nat /\ 1 * Exchange = Exchange
  BY <1>1
<1>4. ASSUME NEW k \in Primaries
      PROVE  /\ k * Exchange \in Nat
             /\ k * Exchange <= N * Exchange
             /\ (k + 1) * Exchange = k * Exchange + Exchange
  <2>1. k \in Nat /\ N - k \in Nat
    BY <1>1 DEF Primaries
  <2>2. k * Exchange \in Nat /\ (N - k) * Exchange \in Nat
    BY <1>1, <2>1
  <2>3. N * Exchange = k * Exchange + (N - k) * Exchange
    BY <1>1, <2>1
  <2>4. (k + 1) * Exchange = k * Exchange + Exchange
    BY <1>1, <2>1
  <2>5. QED
    BY <1>3, <2>2, <2>3, <2>4
<1>5. 2 * N * Exchange = N * Exchange + N * Exchange
  BY <1>1
<1>6. Longest = Base + N * Exchange + N * Exchange
  BY <1>1, <1>2, <1>3, <1>5 DEF Longest, Base
<1>7. QED
  BY <1>1, <1>2, <1>3, <1>4, <1>6

(* The timers are numbers, and Base is past each of the waits. *)
LEMMA TimersOk == /\ Refresh \in Nat /\ Retry \in Nat /\ Expire \in Nat
                  /\ Jitter \in Nat /\ Backoff \in Nat /\ Exchange \in Nat /\ Base \in Nat
                  /\ 1 \in Primaries
                  /\ Refresh + Jitter <= Base /\ Expire + Retry + Jitter <= Base
BY SecondaryConstants DEF Base, Primaries

(* Every step keeps the account of the age: a good answer sets it back,   *)
(* the next primary or a transfer adds one exchange to what is allowed.    *)
LEMMA AgeInductive == AgeInv /\ [SecondaryNext]_secondaryVars => AgeInv'
<1> SUFFICES ASSUME AgeInv, [SecondaryNext]_secondaryVars PROVE AgeInv'
  OBVIOUS
<1>0. /\ at \in Nat /\ N \in Nat /\ 1 <= at /\ at <= N
      /\ at \in Primaries /\ age \in Nat /\ left \in Nat /\ SecondaryType
  BY SecondaryConstants DEF AgeInv, SecondaryType, Primaries
<1>1. /\ at * Exchange \in Nat /\ at * Exchange <= N * Exchange
      /\ Base + at * Exchange \in Nat /\ Base + N * Exchange + at * Exchange \in Nat
      /\ Base + N * Exchange \in Nat /\ Base + at * Exchange <= Base + N * Exchange
  BY <1>0, Products
<1> USE TimersOk DEF env, zn
<1>2. ASSUME Good PROVE AgeInv'
  <2>1. SecondaryType' /\ pc' = "wait" /\ age' = 0
    BY <1>2 DEF Good, SecondaryType
  <2>2. left' \in Nat /\ left' <= Base
    BY <1>2 DEF Good
  <2>3. Ends(age', left', Base)
    BY <2>1, <2>2, EndsFacts
  <2>4. QED
    BY <2>1, <2>3 DEF AgeInv
<1>3. ASSUME Failed PROVE AgeInv'
  <2>1. SecondaryType' /\ pc' = "wait" /\ age' = age /\ left' \in Nat /\ left' <= Retry + Jitter
    BY <1>3, <1>0 DEF Failed, SecondaryType
  <2>2. Served' => ~(age >= Expire)
    BY <1>3, Zenon DEF Failed, Served
  <2>3. \A l \in Nat : l <= Retry + Jitter /\ ~(age >= Expire) => Ends(age, l, Base)
    BY <1>0 DEF Ends
  <2>4. Served' => Ends(age', left', Base)
    BY <2>1, <2>2, <2>3
  <2>5. QED
    BY <2>1, <2>4 DEF AgeInv
<1>4. ASSUME at < N, at' = at + 1, left' = Exchange, UNCHANGED <<pc, failing, age, zn>>,
             pc \in {"first", "check", "transfer"}
      PROVE  AgeInv'
  <2>1. at' \in Primaries /\ (at + 1) * Exchange = at * Exchange + Exchange
    BY <1>4, <1>0, Products DEF Primaries
  <2>2. SecondaryType'
    BY <1>4, <1>0, <2>1 DEF SecondaryType
  <2>3. /\ Base + at' * Exchange = (Base + at * Exchange) + Exchange
        /\ Base + N * Exchange + at' * Exchange = (Base + N * Exchange + at * Exchange) + Exchange
    <3>1. /\ Base + (at + 1) * Exchange = (Base + at * Exchange) + Exchange
          /\ Base + N * Exchange + (at + 1) * Exchange = (Base + N * Exchange + at * Exchange) + Exchange
      BY <1>1, <2>1, Products
    <3>2. QED
      BY <1>4, <3>1, Zenon
  <2>4. \A b \in Nat : Ends(age, left, b) => Ends(age', left', b + Exchange)
    BY <1>0, <1>4, EndsFacts
  <2>5. Served' => Served
    BY <1>4, Zenon DEF Served
  <2>6. QED
    BY <1>1, <1>4, <2>2, <2>3, <2>4, <2>5, Zenon DEF AgeInv
<1>5. ASSUME TransferFails PROVE AgeInv'
  <2>1. CASE pc' = "backoff" /\ pc = "first" /\ at' = 1 /\ left' \in 0..Backoff /\ UNCHANGED <<failing, age, zn>>
    <3>1. SecondaryType'
      BY <1>0, <2>1 DEF SecondaryType
    <3>2. QED
      BY <2>1, <3>1 DEF AgeInv
  <2>2. QED
    BY <1>3, <1>5, <2>1 DEF TransferFails
<1>6. CASE TransferOk
  BY <1>2, <1>6 DEF TransferOk
<1>7. CASE TransferBad
  BY <1>5, <1>7 DEF TransferBad
<1>8. CASE TransferDown
  BY <1>4, <1>5, <1>8 DEF TransferDown
<1>9. CASE CheckAnswered
  <2>1. CASE pc' = "transfer" /\ at' = 1 /\ left' = Exchange /\ UNCHANGED <<age, zn>>
    <3>1. SecondaryType'
      BY <1>0, <2>1 DEF SecondaryType
    <3>2. Ends(age, left, Base + at * Exchange) => Ends(age', left', (Base + N * Exchange) + Exchange)
      BY <1>0, <1>1, <2>1, EndsFacts, Zenon
    <3>3. (Base + N * Exchange) + Exchange = Base + N * Exchange + at' * Exchange
      BY <2>1, Products
    <3>4. Served' => Served
      BY <2>1, Zenon DEF Served
    <3>5. QED
      BY <1>9, <2>1, <3>1, <3>2, <3>3, <3>4 DEF AgeInv, CheckAnswered
  <2>2. QED
    BY <1>2, <1>9, <2>1 DEF CheckAnswered
<1>10. CASE CheckDown
  BY <1>3, <1>4, <1>10 DEF CheckDown
<1>11. CASE WakeTimer \/ WakeKick
  <2>1. /\ pc \in {"wait", "backoff"} /\ pc' = (IF pc = "wait" THEN "check" ELSE "first")
        /\ left' = Exchange /\ UNCHANGED <<zn, at, age>>
    BY <1>11 DEF WakeTimer, WakeKick, Wakes
  <2>2. SecondaryType' /\ (pc = "wait" => at = 1)
    BY <1>0, <2>1 DEF SecondaryType
  <2>3. Ends(age, left, Base) => Ends(age', left', Base + Exchange)
    BY <1>0, <2>1, EndsFacts
  <2>4. 1 * Exchange = Exchange
    OBVIOUS
  <2>5. Served' => Served
    BY <2>1, Zenon DEF Served
  <2>6. QED
    BY <2>1, <2>2, <2>3, <2>4, <2>5 DEF AgeInv
<1>12. CASE Stop
  BY <1>12 DEF Stop, AgeInv, SecondaryType
<1>13. CASE Tick
  <2>1. SecondaryType' /\ UNCHANGED <<pc, at, zone, expired>>
    BY <1>0, <1>13 DEF Tick, SecondaryType
  <2>2. \A b \in Nat : Ends(age, left, b) => Ends(age', left', b)
    BY <1>0, <1>13, EndsFacts, Zenon DEF Tick
  <2>3. QED
    BY <1>1, <2>1, <2>2 DEF AgeInv, Served
<1>14. CASE NotifyIn \/ Shutdown \/ (\E p \in Primaries : PrimaryChanges(p)) \/ UNCHANGED secondaryVars
  <2>1. UNCHANGED <<zn, pc, at, left, age>>
    BY <1>14 DEF NotifyIn, Shutdown, PrimaryChanges, secondaryVars
  <2>2. QED
    BY <2>1 DEF AgeInv, SecondaryType, Served
<1>15. QED
  BY <1>6, <1>7, <1>8, <1>9, <1>10, <1>11, <1>12, <1>13, <1>14 DEF SecondaryNext, Task

(* A served zone is never older than Longest while its task runs (run of   *)
(* src/plugins/secondary.rs), for any timers and any number of primaries.  *)
THEOREM ServedAgeHolds == SecondarySpec => []ServedAge
<1>1. SecondaryInit => AgeInv
  BY TimersOk DEF SecondaryInit, AgeInv, SecondaryType, Served
<1>2. AgeInv => ServedAge
  <2> SUFFICES ASSUME AgeInv, Served, pc # "stopped" PROVE age <= Longest
    BY DEF ServedAge
  <2>1. at * Exchange \in Nat /\ at * Exchange <= N * Exchange
    BY Products DEF AgeInv, SecondaryType
  <2>2. QED
    BY <2>1, Products DEF AgeInv, SecondaryType, Served, Ends
<1>3. QED
  BY <1>1, <1>2, AgeInductive, PTL DEF SecondarySpec
=============================================================================
