----------------------------- MODULE WatchProofs -----------------------------
(***************************************************************************)
(* What the watch stream of Watch owes its reader, for any objects and any *)
(* changes: the last event that is pending for an object tells its state   *)
(* in the cluster, and an object without pending event is, during a list,  *)
(* still to come, or has come, or is not in the cluster.  The stores of    *)
(* KubeIndex and KubeEndpoints build their invariants on it.               *)
(***************************************************************************)
EXTENDS Watch, TLAPS

(* the events of a stream *)
Event == [type : {"apply", "delete"}, obj : Objects, val : Values]

(* The state an event tells of its object. *)
Tells(e) == IF e.type = "apply" THEN e.val ELSE NoObject

(* No event of the object is pending. *)
Quiet(o) == \A i \in 1..Len(queue) : queue[i].obj # o

(* The entry is the last one of its object. *)
LastEvent(i) == \A j \in 1..Len(queue) : queue[j].obj = queue[i].obj => j <= i

(* The object is still to come in the list. *)
ToCome(o) == \E e \in todo : e.obj = o

(* The types, and what the stream owes its reader.  An object comes once   *)
(* in a list, and with its state in the cluster unless a later event says  *)
(* otherwise.                                                              *)
WatchInv ==
    /\ cluster \in [Objects -> Values \cup {NoObject}]
    /\ phase \in {"broken", "listing", "watching"}
    /\ queue \in Seq(Event)
    /\ todo \subseteq [obj : Objects, val : Values]
    /\ seen \subseteq Objects
    /\ phase = "broken" => queue = <<>>
    /\ phase # "listing" => todo = {}
    /\ \A i \in 1..Len(queue) : LastEvent(i) => Tells(queue[i]) = cluster[queue[i].obj]
    /\ \A e, f \in todo : e.obj = f.obj => e = f
    /\ \A e \in todo : e.obj \notin seen
    /\ \A e \in todo : Quiet(e.obj) => e.val = cluster[e.obj]
    /\ phase = "listing" => \A o \in Objects : Quiet(o) =>
          ToCome(o) \/ o \in seen \/ cluster[o] = NoObject

(* The stream is not open at the start. *)
LEMMA WatchStarts == WatchInit => WatchInv
BY DEF WatchInit, WatchInv, Quiet, ToCome, LastEvent

(* A change of the cluster is pending, unless the stream is lost. *)
LEMMA ChangePending ==
    ASSUME WatchInv, NEW o \in Objects, NEW v \in Values \cup {NoObject}, ClusterChange(o, v)
    PROVE  /\ WatchInv'
           /\ phase # "broken" =>
                 \A x \in Objects : Quiet(x)' => x # o /\ Quiet(x) /\ cluster'[x] = cluster[x]
<1>1. /\ cluster' = [cluster EXCEPT ![o] = v] /\ cluster[o] # v
      /\ UNCHANGED <<phase, todo, seen>>
      /\ cluster' \in [Objects -> Values \cup {NoObject}]
  BY DEF ClusterChange, WatchInv
<1>2. CASE phase = "broken"
  <2>1. queue' = <<>> /\ queue = <<>> /\ todo = {}
    BY <1>2 DEF ClusterChange, WatchInv
  <2>2. QED
    BY <1>1, <1>2, <2>1 DEF WatchInv
<1>3. CASE phase # "broken"
  <2> DEFINE e == IF v = NoObject THEN [type |-> "delete", obj |-> o, val |-> cluster[o]]
                                  ELSE [type |-> "apply", obj |-> o, val |-> v]
  <2>1. e \in Event /\ e.obj = o /\ Tells(e) = v
    <3>1. CASE v = NoObject
      BY <1>1, <3>1 DEF Event, Tells, WatchInv
    <3>2. CASE v # NoObject
      BY <1>1, <3>2 DEF Event, Tells, WatchInv
    <3>3. QED
      BY <3>1, <3>2
  <2>2. queue' = Append(queue, e)
    BY <1>3 DEF ClusterChange
  <2> HIDE DEF e
  <2>3. queue \in Seq(Event) /\ Len(queue) \in Nat
    BY DEF WatchInv
  <2>4. /\ queue' \in Seq(Event) /\ Len(queue') = Len(queue) + 1
        /\ \A i \in 1..Len(queue) : queue'[i] = queue[i]
        /\ queue'[Len(queue) + 1] = e
    BY <2>1, <2>2, <2>3
  <2>5. \A x \in Objects : Quiet(x)' => x # o /\ Quiet(x) /\ cluster'[x] = cluster[x]
    BY <1>1, <2>1, <2>3, <2>4 DEF Quiet, WatchInv
  <2>6. ASSUME NEW i \in 1..Len(queue'), LastEvent(i)'
        PROVE  Tells(queue'[i]) = cluster'[queue'[i].obj]
    <3>1. CASE i = Len(queue) + 1
      BY <1>1, <2>1, <2>4, <3>1 DEF WatchInv
    <3>2. CASE i # Len(queue) + 1
      <4>1. i \in 1..Len(queue) /\ queue'[i] = queue[i]
        BY <2>3, <2>4, <3>2
      <4>2. queue[i].obj # o
        BY <2>1, <2>3, <2>4, <2>6, <4>1 DEF LastEvent
      <4>3. LastEvent(i)
        <5>1. \A j \in 1..Len(queue') : queue'[j].obj = queue'[i].obj => j <= i
          BY <2>6 DEF LastEvent
        <5>2. \A j \in 1..Len(queue) : j \in 1..Len(queue') /\ queue'[j] = queue[j]
          BY <2>3, <2>4
        <5>3. QED
          BY <4>1, <5>1, <5>2 DEF LastEvent
      <4>4. queue[i] \in Event
        BY <2>3, <4>1
      <4>5. queue[i].obj \in Objects
        BY <4>4 DEF Event
      <4>6. QED
        BY <1>1, <4>1, <4>2, <4>3, <4>5 DEF WatchInv
    <3>3. QED
      BY <3>1, <3>2
  <2>7. \A f \in todo : f.obj \in Objects
    BY DEF WatchInv
  <2>8. QED
    BY <1>1, <1>3, <2>4, <2>5, <2>6, <2>7 DEF WatchInv, ToCome
<1>4. QED
  BY <1>2, <1>3

(* The stream is lost, with what was pending. *)
LEMMA StreamLost == ASSUME WatchInv, StreamBreaks PROVE WatchInv' /\ phase' = "broken"
BY DEF WatchInv, StreamBreaks, Quiet, LastEvent, ToCome

(* A new list begins: every object of the cluster is to come. *)
LEMMA ListBegins ==
    ASSUME WatchInv, InitEvent
    PROVE  WatchInv' /\ phase' = "listing" /\ seen' = {} /\ UNCHANGED cluster
<1>1. /\ phase = "broken" /\ phase' = "listing" /\ seen' = {} /\ UNCHANGED <<cluster, queue>>
      /\ todo' = {[obj |-> o, val |-> cluster[o]] : o \in {x \in Objects : cluster[x] # NoObject}}
  BY DEF InitEvent
<1>2. \A e \in todo' : e.obj \in Objects /\ e.val = cluster[e.obj] /\ e.val \in Values
                       /\ e = [obj |-> e.obj, val |-> cluster[e.obj]]
  BY <1>1 DEF WatchInv
<1>3. todo' \subseteq [obj : Objects, val : Values]
  BY <1>1 DEF WatchInv
<1>4. \A e, f \in todo' : e.obj = f.obj => e = f
  BY <1>2
<1>5. \A o \in Objects : ToCome(o)' \/ cluster[o] = NoObject
  <2> SUFFICES ASSUME NEW o \in Objects, cluster[o] # NoObject PROVE \E e \in todo' : e.obj = o
    BY DEF ToCome
  <2>1. [obj |-> o, val |-> cluster[o]] \in todo'
    BY <1>1
  <2>2. QED
    BY <2>1
<1>6. QED
  BY <1>1, <1>2, <1>3, <1>4, <1>5 DEF WatchInv, Quiet, LastEvent

(* An object of the list comes. *)
LEMMA ListedComes ==
    ASSUME WatchInv, NEW e \in todo, TakeInitApply(e)
    PROVE  /\ WatchInv' /\ phase' = "listing" /\ UNCHANGED <<cluster, queue>>
           /\ e.obj \in Objects /\ e.val \in Values /\ e.obj \notin seen /\ seen' = seen \cup {e.obj}
           /\ Quiet(e.obj) => e.val = cluster[e.obj]
<1>1. /\ phase = "listing" /\ todo' = todo \ {e} /\ seen' = seen \cup {e.obj}
      /\ UNCHANGED <<cluster, phase, queue>>
  BY DEF TakeInitApply
<1>2. e.obj \in Objects /\ e.val \in Values /\ e.obj \notin seen
  BY DEF WatchInv
<1>3. \A f \in todo' : f.obj # e.obj
  BY <1>1 DEF WatchInv
<1>4. \A o \in Objects : ToCome(o) => ToCome(o)' \/ o \in seen'
  BY <1>1 DEF ToCome
<1>5. \A o \in Objects : Quiet(o)' <=> Quiet(o)
  BY <1>1 DEF Quiet
<1>6. QED
  BY <1>1, <1>2, <1>3, <1>4, <1>5 DEF WatchInv, Quiet, LastEvent

(* The list is complete: an object it does not have and that has no        *)
(* pending event is not in the cluster.                                    *)
LEMMA ListEnds ==
    ASSUME WatchInv, TakeInitDone
    PROVE  /\ WatchInv' /\ phase = "listing" /\ phase' = "watching" /\ UNCHANGED <<cluster, queue>>
           /\ \A o \in Objects : Quiet(o) /\ o \notin seen => cluster[o] = NoObject
BY DEF WatchInv, TakeInitDone, ToCome, Quiet, LastEvent

(* An event is taken: when it was the last one of its object, it tells the *)
(* state of the object.                                                    *)
LEMMA EventTaken ==
    ASSUME WatchInv, NEW type, NEW e, TakeEvent(type, e)
    PROVE  /\ WatchInv' /\ phase = "watching" /\ phase' = "watching" /\ UNCHANGED cluster
           /\ e \in Event /\ e.type = type
           /\ \A x \in Objects : x # e.obj => (Quiet(x)' <=> Quiet(x))
           /\ Quiet(e.obj)' => Tells(e) = cluster[e.obj]
           /\ ~Quiet(e.obj)
<1>1. /\ phase = "watching" /\ queue # <<>> /\ e = Head(queue) /\ e.type = type
      /\ queue' = Tail(queue) /\ UNCHANGED <<cluster, phase, todo, seen>>
  BY DEF TakeEvent
<1>2. queue \in Seq(Event) /\ Len(queue) \in Nat /\ todo = {}
  BY <1>1 DEF WatchInv
<1>3. /\ Len(queue) > 0 /\ e = queue[1] /\ e \in Event
      /\ queue' \in Seq(Event) /\ Len(queue') = Len(queue) - 1
      /\ \A i \in 1..Len(queue') : queue'[i] = queue[i + 1]
  BY <1>1, <1>2
<1>4. \A i \in 2..Len(queue) : i - 1 \in 1..Len(queue') /\ queue'[i - 1] = queue[i]
  BY <1>2, <1>3
<1>5. \A x \in Objects : x # e.obj => (Quiet(x)' <=> Quiet(x))
  BY <1>2, <1>3, <1>4 DEF Quiet
<1>6. Quiet(e.obj)' => LastEvent(1)
  BY <1>2, <1>3, <1>4 DEF Quiet, LastEvent
<1>7. ASSUME NEW i \in 1..Len(queue'), LastEvent(i)'
      PROVE  Tells(queue'[i]) = cluster'[queue'[i].obj]
  <2>1. i + 1 \in 1..Len(queue) /\ queue'[i] = queue[i + 1]
    BY <1>2, <1>3
  <2>2. LastEvent(i + 1)
    <3>1. \A j \in 1..Len(queue') : queue'[j].obj = queue'[i].obj => j <= i
      BY <1>7 DEF LastEvent
    <3>2. ASSUME NEW j \in 1..Len(queue), queue[j].obj = queue[i + 1].obj PROVE j <= i + 1
      <4>1. CASE j = 1
        BY <4>1
      <4>2. CASE j # 1
        <5>1. j - 1 \in 1..Len(queue') /\ queue'[j - 1] = queue[j]
          BY <1>4, <4>2
        <5>2. j - 1 <= i
          BY <2>1, <3>1, <3>2, <5>1
        <5>3. QED
          BY <5>2
      <4>3. QED
        BY <4>1, <4>2
    <3>3. QED
      BY <3>2 DEF LastEvent
  <2>3. QED
    BY <1>1, <2>1, <2>2 DEF WatchInv
<1>8. WatchInv'
  BY <1>1, <1>2, <1>3, <1>7 DEF WatchInv
<1>9. QED
  BY <1>1, <1>2, <1>3, <1>5, <1>6, <1>8 DEF WatchInv, Quiet
=============================================================================
