------------------------- MODULE KubeEndpointsProofs -------------------------
(***************************************************************************)
(* For any slices, services, addresses, labels, changes and losses of the  *)
(* stream: ep_by_ip is exactly the inverse of endpoints.  The inductive    *)
(* invariant is IndexExact with the types of the store, of the listed      *)
(* objects and of the slices still to be removed; every step that writes   *)
(* the store is a set_slice, so one lemma about set_slice carries it.      *)
(* And where labels do not change, the store has the endpoints of the      *)
(* cluster once the stream has delivered everything.                       *)
(***************************************************************************)
EXTENDS KubeEndpoints, WatchProofs

(* The store and what the watch loop still has to apply are well typed,    *)
(* and the index is exact.                                                 *)
IndexInv == TypeOK /\ IndexExact

(* set_slice keeps the types and the exactness of the index: an address    *)
(* that the slice loses leaves the index unless another slice has it.      *)
LEMMA SetSliceExact ==
    ASSUME TypeOK, IndexExact,
           NEW svc \in Services, NEW sl \in Objects, NEW ips \in SUBSET Ips,
           set_slice(svc, sl, ips)
    PROVE  /\ endpoints' \in [Services -> [Objects -> SUBSET Ips]]
           /\ ep_by_ip' \in [Ips -> SUBSET Services]
           /\ IndexExact'
<1>1. endpoints' \in [Services -> [Objects -> SUBSET Ips]]
  BY DEF TypeOK, set_slice
<1>2. ep_by_ip' \in [Ips -> SUBSET Services]
  BY DEF TypeOK, set_slice
<1>3. ASSUME NEW ip \in Ips, NEW s \in Services
      PROVE  s \in ep_by_ip'[ip] <=> \E o \in Objects : ip \in endpoints'[s][o]
  <2>1. \A t \in Services, o \in Objects :
           endpoints'[t][o] = IF t = svc /\ o = sl THEN ips ELSE endpoints[t][o]
    BY DEF TypeOK, set_slice
  <2>2. ep_by_ip'[ip] =
           IF ip \in ips THEN ep_by_ip[ip] \cup {svc}
           ELSE IF ip \in endpoints[svc][sl]
                   /\ ~\E other \in Objects \ {sl} : ip \in endpoints[svc][other]
                THEN ep_by_ip[ip] \ {svc}
           ELSE ep_by_ip[ip]
    BY DEF set_slice
  <2>3. s \in ep_by_ip[ip] <=> \E o \in Objects : ip \in endpoints[s][o]
    BY DEF IndexExact
  <2>4. CASE s # svc
    BY <2>1, <2>2, <2>3, <2>4
  <2>5. CASE s = svc
    BY <2>1, <2>2, <2>3, <2>5
  <2>6. QED
    BY <2>4, <2>5
<1>4. QED
  BY <1>1, <1>2, <1>3 DEF IndexExact

(* A slice of the watch is applied by set_slice or ignored. *)
LEMMA ApplyExact ==
    ASSUME TypeOK, IndexExact, NEW sl \in Objects, NEW v \in Values,
           apply_slice(sl, v) \/ delete_slice(sl, v)
    PROVE  /\ endpoints' \in [Services -> [Objects -> SUBSET Ips]]
           /\ ep_by_ip' \in [Ips -> SUBSET Services]
           /\ IndexExact'
<1>1. v.svc \in Services \cup {NoService} /\ v.ips \in SUBSET Ips
  BY EndpointsConstants
<1>2. CASE UNCHANGED <<endpoints, ep_by_ip>>
  BY <1>2 DEF TypeOK, IndexExact
<1>3. CASE v.svc # NoService /\ set_slice(v.svc, sl, v.ips)
  BY <1>1, <1>3, SetSliceExact
<1>4. CASE v.svc # NoService /\ set_slice(v.svc, sl, {})
  BY <1>1, <1>4, SetSliceExact
<1>5. QED
  BY <1>2, <1>3, <1>4 DEF apply_slice, delete_slice

(* The store starts empty. *)
LEMMA IndexInit == Init => IndexInv
BY DEF Init, WatchInit, IndexInv, TypeOK, IndexExact

(* Every step of the loop, of the cluster and of the stream keeps it. *)
LEMMA IndexNext == IndexInv /\ [Next]_vars => IndexInv'
<1> SUFFICES ASSUME IndexInv, [Next]_vars PROVE IndexInv'
  OBVIOUS
<1> USE DEF IndexInv
<1>1. CASE OnInit
  <2>1. todo' \subseteq [obj : Objects, val : Values]
    BY <1>1 DEF OnInit, InitEvent, TypeOK
  <2>2. UNCHANGED <<cluster, endpoints, ep_by_ip, gone>>
    BY <1>1 DEF OnInit, InitEvent, storeVars
  <2>3. QED
    BY <2>1, <2>2 DEF TypeOK, IndexExact
<1>2. CASE OnInitApply
  <2>1. PICK e \in todo : TakeInitApply(e) /\ apply_slice(e.obj, e.val) /\ UNCHANGED gone
    BY <1>2 DEF OnInitApply
  <2>2. e.obj \in Objects /\ e.val \in Values
    BY DEF TypeOK
  <2>3. /\ endpoints' \in [Services -> [Objects -> SUBSET Ips]]
        /\ ep_by_ip' \in [Ips -> SUBSET Services]
        /\ IndexExact'
    BY <2>1, <2>2, ApplyExact
  <2>4. QED
    BY <2>1, <2>3 DEF TakeInitApply, TypeOK
<1>3. CASE OnInitDone
  <2>1. gone' \subseteq Services \X Objects
    BY <1>3 DEF OnInitDone, GoneSlices
  <2>2. UNCHANGED <<cluster, todo, endpoints, ep_by_ip>>
    BY <1>3 DEF OnInitDone, TakeInitDone
  <2>3. QED
    BY <2>1, <2>2 DEF TypeOK, IndexExact
<1>4. CASE RetainOne
  <2>1. PICK p \in gone : /\ gone' = gone \ {p}
                          /\ set_slice(p[1], p[2], {})
                          /\ UNCHANGED watchVars
    BY <1>4 DEF RetainOne
  <2>2. p[1] \in Services /\ p[2] \in Objects
    BY DEF TypeOK
  <2>3. /\ endpoints' \in [Services -> [Objects -> SUBSET Ips]]
        /\ ep_by_ip' \in [Ips -> SUBSET Services]
        /\ IndexExact'
    BY <2>1, <2>2, SetSliceExact
  <2>4. QED
    BY <2>1, <2>3 DEF watchVars, TypeOK
<1>5. CASE OnApply
  <2>1. PICK sl \in Objects, v \in Values :
           /\ TakeEvent("apply", [type |-> "apply", obj |-> sl, val |-> v])
           /\ apply_slice(sl, v) /\ UNCHANGED gone
    BY <1>5 DEF OnApply
  <2>2. /\ endpoints' \in [Services -> [Objects -> SUBSET Ips]]
        /\ ep_by_ip' \in [Ips -> SUBSET Services]
        /\ IndexExact'
    BY <2>1, ApplyExact
  <2>3. QED
    BY <2>1, <2>2 DEF TakeEvent, TypeOK
<1>6. CASE OnDelete
  <2>1. PICK sl \in Objects, v \in Values :
           /\ TakeEvent("delete", [type |-> "delete", obj |-> sl, val |-> v])
           /\ delete_slice(sl, v) /\ UNCHANGED gone
    BY <1>6 DEF OnDelete
  <2>2. /\ endpoints' \in [Services -> [Objects -> SUBSET Ips]]
        /\ ep_by_ip' \in [Ips -> SUBSET Services]
        /\ IndexExact'
    BY <2>1, ApplyExact
  <2>3. QED
    BY <2>1, <2>2 DEF TakeEvent, TypeOK
<1>7. CASE External /\ UNCHANGED storeVars
  <2>1. cluster' \in [Objects -> Values \cup {NoObject}] /\ todo' \subseteq todo
    <3>1. CASE StreamBreaks
      BY <3>1 DEF StreamBreaks, TypeOK
    <3>2. CASE \E sl \in Objects, v \in Values \cup {NoObject} : ClusterChange(sl, v)
      BY <3>2 DEF ClusterChange, TypeOK
    <3>3. QED
      BY <1>7, <3>1, <3>2 DEF External
  <2>2. QED
    BY <1>7, <2>1 DEF storeVars, TypeOK, IndexExact
<1>8. CASE UNCHANGED vars
  BY <1>8 DEF vars, watchVars, storeVars, TypeOK, IndexExact
<1>9. QED
  BY <1>1, <1>2, <1>3, <1>4, <1>5, <1>6, <1>7, <1>8 DEF Next

(* The type invariant of the endpoints store. *)
THEOREM EndpointsTyped == Spec => []TypeOK
<1>1. IndexInv => TypeOK
  BY DEF IndexInv
<1>2. QED
  BY <1>1, IndexInit, IndexNext, PTL DEF Spec

(* services_by_endpoint_ip names exactly the services that have the        *)
(* address, whatever the cluster does and whenever the stream is lost.     *)
THEOREM EndpointIndexExact == Spec => []IndexExact
<1>1. IndexInv => IndexExact
  BY DEF IndexInv
<1>2. QED
  BY <1>1, IndexInit, IndexNext, PTL DEF Spec
-----------------------------------------------------------------------------
(* The service label of a slice never changes.  (KeptCurrent is false      *)
(* without it: set_slice leaves the slice with its former service.)        *)
FixedLabels == \A sl \in Objects : \A s, t \in LabelOf[sl] : s = t

(* The addresses that a slice in state v gives a service. *)
Gives(v, svc) == IF v # NoObject /\ v.svc = svc THEN v.ips ELSE {}

(* Only the service of its label has addresses of a slice.  A slice        *)
(* without pending event, once it has come in the list or the list is      *)
(* over, is stored as it is in the cluster, or is to be removed.           *)
CurrentInv ==
    /\ WatchInv
    /\ endpoints \in [Services -> [Objects -> SUBSET Ips]]
    /\ phase = "listing" => gone = {}
    /\ gone \subseteq Services \X Objects
    /\ \A sl \in Objects : Legal(sl, cluster[sl])
    /\ \A i \in 1..Len(queue) : queue[i].val.svc \in LabelOf[queue[i].obj]
    /\ \A e \in todo : e.val.svc \in LabelOf[e.obj]
    /\ \A svc \in Services, sl \in Objects : endpoints[svc][sl] # {} => svc \in LabelOf[sl]
    /\ \A sl \in Objects : Quiet(sl) => \A svc \in Services :
          /\ phase = "listing" /\ sl \in seen => endpoints[svc][sl] = Gives(cluster[sl], svc)
          /\ phase = "watching" => IF <<svc, sl>> \in gone THEN Gives(cluster[sl], svc) = {}
                                   ELSE endpoints[svc][sl] = Gives(cluster[sl], svc)

(* What apply_slice and delete_slice make of the endpoints. *)
LEMMA SliceStored ==
    ASSUME FixedLabels, CurrentInv, NEW sl \in Objects, NEW v \in Values, v.svc \in LabelOf[sl],
           NEW w \in Values \cup {NoObject},
           \/ apply_slice(sl, v) /\ w = v
           \/ delete_slice(sl, v) /\ w = NoObject
    PROVE  /\ endpoints' \in [Services -> [Objects -> SUBSET Ips]]
           /\ \A svc \in Services, o \in Objects :
                 endpoints'[svc][o] = IF o = sl THEN Gives(w, svc) ELSE endpoints[svc][o]
           /\ \A svc \in Services, o \in Objects : endpoints'[svc][o] # {} => svc \in LabelOf[o]
<1>1. v.svc \in Services \cup {NoService} /\ v.ips \in SUBSET Ips /\ v # NoObject /\ NoService \notin Services
  BY EndpointsConstants, WatchConstants
<1>2. endpoints \in [Services -> [Objects -> SUBSET Ips]]
      /\ \A svc \in Services, o \in Objects : endpoints[svc][o] # {} => svc \in LabelOf[o]
  BY DEF CurrentInv
<1>3. \A svc \in Services : svc # v.svc => endpoints[svc][sl] = {}
  BY <1>2 DEF FixedLabels
<1>4. CASE v.svc = NoService
  <2>1. endpoints' = endpoints
    BY <1>4 DEF apply_slice, delete_slice
  <2>2. \A svc \in Services : Gives(w, svc) = {}
    BY <1>1, <1>4 DEF Gives
  <2>3. QED
    BY <1>1, <1>2, <1>3, <1>4, <2>1, <2>2, Zenon
<1>5. CASE v.svc # NoService
  <2>1. PICK ips \in SUBSET Ips : /\ endpoints' = [endpoints EXCEPT ![v.svc][sl] = ips]
                                  /\ ips = Gives(w, v.svc)
    <3>1. CASE apply_slice(sl, v) /\ w = v
      <4>1. endpoints' = [endpoints EXCEPT ![v.svc][sl] = v.ips]
        BY <1>5, <3>1 DEF apply_slice, set_slice
      <4>2. v.ips = Gives(w, v.svc)
        BY <1>1, <3>1 DEF Gives
      <4>3. QED
        BY <1>1, <4>1, <4>2, Zenon
    <3>2. CASE delete_slice(sl, v) /\ w = NoObject
      <4>1. endpoints' = [endpoints EXCEPT ![v.svc][sl] = {}]
        BY <1>5, <3>2 DEF delete_slice, set_slice
      <4>2. {} = Gives(w, v.svc) /\ {} \in SUBSET Ips
        BY <3>2 DEF Gives
      <4>3. QED
        BY <4>1, <4>2, Zenon
    <3>3. QED
      BY <3>1, <3>2, Zenon
  <2>2. v.svc \in Services
    BY <1>1, <1>5
  <2>3. \A svc \in Services : svc # v.svc => Gives(w, svc) = {}
    BY <1>1 DEF Gives
  <2>4. /\ endpoints' \in [Services -> [Objects -> SUBSET Ips]]
        /\ \A svc \in Services, o \in Objects :
              endpoints'[svc][o] = IF svc = v.svc /\ o = sl THEN ips ELSE endpoints[svc][o]
    BY <1>2, <2>1, <2>2
  <2>5. \A svc \in Services, o \in Objects :
           endpoints'[svc][o] = IF o = sl THEN Gives(w, svc) ELSE endpoints[svc][o]
    BY <1>3, <2>1, <2>3, <2>4, Zenon
  <2>6. QED
    BY <1>2, <2>3, <2>4, <2>5
<1>6. QED
  BY <1>4, <1>5

(* The store starts empty, before the first list. *)
LEMMA CurrentInit == Init => CurrentInv
BY WatchStarts DEF Init, CurrentInv, WatchInit

(* Every step of the loop, of the cluster and of the stream keeps it. *)
LEMMA CurrentNext == ASSUME FixedLabels, CurrentInv, [Next]_vars PROVE CurrentInv'
<1>0. WatchInv /\ endpoints \in [Services -> [Objects -> SUBSET Ips]]
  BY DEF CurrentInv
<1>1. CASE OnInit
  <2>1. InitEvent /\ UNCHANGED <<endpoints, gone, cluster, queue>> /\ gone = {}
    BY <1>1 DEF OnInit, storeVars, InitEvent
  <2>2. WatchInv' /\ phase' = "listing" /\ seen' = {}
    BY <1>0, <2>1, ListBegins
  <2>3. \A e \in todo' : e.obj \in Objects /\ e.val = cluster[e.obj] /\ e.val # NoObject
    BY <2>1 DEF InitEvent
  <2>4. \A e \in todo' : e.val.svc \in LabelOf[e.obj]
    BY <2>3 DEF CurrentInv, Legal
  <2>5. QED
    BY <2>1, <2>2, <2>4, Zenon DEF CurrentInv
<1>2. CASE OnInitApply
  <2>1. PICK e \in todo : TakeInitApply(e) /\ apply_slice(e.obj, e.val) /\ UNCHANGED gone
    BY <1>2 DEF OnInitApply
  <2>2. /\ WatchInv' /\ phase' = "listing" /\ UNCHANGED <<cluster, queue>>
        /\ e.obj \in Objects /\ e.val \in Values /\ seen' = seen \cup {e.obj}
        /\ Quiet(e.obj) => e.val = cluster[e.obj]
    BY <1>0, <2>1, ListedComes
  <2>3. e.val.svc \in LabelOf[e.obj]
    BY DEF CurrentInv
  <2>4. /\ endpoints' \in [Services -> [Objects -> SUBSET Ips]]
        /\ \A svc \in Services, o \in Objects :
              endpoints'[svc][o] = IF o = e.obj THEN Gives(e.val, svc) ELSE endpoints[svc][o]
        /\ \A svc \in Services, o \in Objects : endpoints'[svc][o] # {} => svc \in LabelOf[o]
    BY <2>1, <2>2, <2>3, SliceStored
  <2>5. \A o \in Objects : Quiet(o)' <=> Quiet(o)
    BY <2>2 DEF Quiet
  <2>6. phase = "listing" /\ todo' \subseteq todo
    BY <2>1 DEF TakeInitApply
  <2>7. \A o \in Objects : Quiet(o)' => \A svc \in Services :
           o \in seen' => endpoints'[svc][o] = Gives(cluster'[o], svc)
    BY <2>2, <2>4, <2>5, <2>6 DEF CurrentInv
  <2>8. QED
    BY <2>1, <2>2, <2>4, <2>6, <2>7 DEF CurrentInv
<1>3. CASE OnInitDone
  <2>1. TakeInitDone /\ gone' = GoneSlices(seen) /\ UNCHANGED <<endpoints, todo>>
    BY <1>3 DEF OnInitDone, TakeInitDone
  <2>2. /\ WatchInv' /\ phase = "listing" /\ phase' = "watching" /\ UNCHANGED <<cluster, queue>>
        /\ \A o \in Objects : Quiet(o) /\ o \notin seen => cluster[o] = NoObject
    BY <1>0, <2>1, ListEnds
  <2>3. \A o \in Objects : Quiet(o)' <=> Quiet(o)
    BY <2>2 DEF Quiet
  <2>4. gone' \subseteq Services \X Objects
        /\ \A svc \in Services, o \in Objects :
              <<svc, o>> \in gone' <=> endpoints[svc][o] # {} /\ o \notin seen
    BY <2>1 DEF GoneSlices
  <2>5. ASSUME NEW o \in Objects, Quiet(o)', NEW svc \in Services
        PROVE  IF <<svc, o>> \in gone' THEN Gives(cluster[o], svc) = {}
               ELSE endpoints[svc][o] = Gives(cluster[o], svc)
    <3>1. CASE o \in seen
      BY <2>2, <2>3, <2>4, <2>5, <3>1, Zenon DEF CurrentInv
    <3>2. CASE o \notin seen
      BY <2>2, <2>3, <2>4, <2>5, <3>2, Zenon DEF Gives
    <3>3. QED
      BY <3>1, <3>2
  <2>6. QED
    BY <2>1, <2>2, <2>4, <2>5, Zenon DEF CurrentInv
<1>4. CASE RetainOne
  <2>1. PICK p \in gone : gone' = gone \ {p} /\ set_slice(p[1], p[2], {}) /\ UNCHANGED watchVars
    BY <1>4 DEF RetainOne
  <2>2. p[1] \in Services /\ p[2] \in Objects /\ p = <<p[1], p[2]>>
    BY DEF CurrentInv
  <2>3. endpoints' = [endpoints EXCEPT ![p[1]][p[2]] = {}]
    BY <2>1 DEF set_slice
  <2>4. /\ endpoints' \in [Services -> [Objects -> SUBSET Ips]]
        /\ \A svc \in Services, o \in Objects :
              endpoints'[svc][o] = IF svc = p[1] /\ o = p[2] THEN {} ELSE endpoints[svc][o]
    BY <1>0, <2>2, <2>3
  <2>5. UNCHANGED <<cluster, phase, todo, queue, seen>>
    BY <2>1 DEF watchVars
  <2>6. WatchInv' /\ \A o \in Objects : Quiet(o)' <=> Quiet(o)
    BY <1>0, <2>5 DEF WatchInv, Quiet, LastEvent, ToCome
  <2>7. phase # "listing"
    BY <2>1 DEF CurrentInv
  <2>8. \A svc \in Services, o \in Objects :
           <<svc, o>> \in gone' <=> <<svc, o>> \in gone /\ ~(svc = p[1] /\ o = p[2])
    BY <2>1, <2>2
  <2>9. ASSUME NEW o \in Objects, Quiet(o)', NEW svc \in Services, phase = "watching"
        PROVE  IF <<svc, o>> \in gone' THEN Gives(cluster[o], svc) = {}
               ELSE endpoints'[svc][o] = Gives(cluster[o], svc)
    <3>1. /\ <<svc, o>> \in gone => Gives(cluster[o], svc) = {}
          /\ <<svc, o>> \notin gone => endpoints[svc][o] = Gives(cluster[o], svc)
      BY <2>6, <2>9, Zenon DEF CurrentInv
    <3>2. CASE svc = p[1] /\ o = p[2]
      BY <2>1, <2>2, <2>4, <2>8, <3>1, <3>2, Zenon
    <3>3. CASE ~(svc = p[1] /\ o = p[2])
      BY <2>4, <2>8, <3>1, <3>3
    <3>4. QED
      BY <3>2, <3>3
  <2>10. QED
    BY <2>1, <2>4, <2>5, <2>6, <2>7, <2>9, ZenonT(60) DEF CurrentInv
<1>5. ASSUME NEW sl \in Objects, NEW v \in Values, NEW t \in {"apply", "delete"}, gone = {}, gone' = {},
             TakeEvent(t, [type |-> t, obj |-> sl, val |-> v]),
             \/ t = "apply" /\ apply_slice(sl, v)
             \/ t = "delete" /\ delete_slice(sl, v)
      PROVE  CurrentInv'
  <2> DEFINE e == [type |-> t, obj |-> sl, val |-> v]
  <2>1. /\ WatchInv' /\ phase = "watching" /\ phase' = "watching" /\ UNCHANGED cluster
        /\ \A x \in Objects : x # sl => (Quiet(x)' <=> Quiet(x))
        /\ Quiet(sl)' => Tells(e) = cluster[sl]
    BY <1>0, <1>5, EventTaken
  <2>2. queue \in Seq(Event) /\ queue # <<>> /\ queue[1] = e /\ queue' = Tail(queue) /\ UNCHANGED todo
    BY <1>0, <1>5 DEF TakeEvent, WatchInv
  <2>3. v.svc \in LabelOf[sl]
    BY <2>2, SMTT(60) DEF CurrentInv
  <2>4. \A i \in 1..Len(queue') : queue'[i].val.svc \in LabelOf[queue'[i].obj]
    BY <2>2 DEF CurrentInv
  <2>5. Tells(e) \in Values \cup {NoObject} /\ (t = "apply" => Tells(e) = v) /\ (t = "delete" => Tells(e) = NoObject)
    BY DEF Tells
  <2>6. /\ endpoints' \in [Services -> [Objects -> SUBSET Ips]]
        /\ \A svc \in Services, o \in Objects :
              endpoints'[svc][o] = IF o = sl THEN Gives(Tells(e), svc) ELSE endpoints[svc][o]
        /\ \A svc \in Services, o \in Objects : endpoints'[svc][o] # {} => svc \in LabelOf[o]
    BY <1>5, <2>3, <2>5, SliceStored
  <2>7. ASSUME NEW o \in Objects, Quiet(o)', NEW svc \in Services
        PROVE  endpoints'[svc][o] = Gives(cluster[o], svc)
    <3>1. CASE o = sl
      BY <2>1, <2>6, <2>7, <3>1, Zenon
    <3>2. CASE o # sl
      BY <1>5, <2>1, <2>6, <2>7, <3>2, Zenon DEF CurrentInv
    <3>3. QED
      BY <3>1, <3>2
  <2>8. QED
    BY <1>5, <2>1, <2>2, <2>4, <2>6, <2>7, Zenon DEF CurrentInv
<1>6. CASE OnApply
  BY <1>5, <1>6, Zenon DEF OnApply
<1>7. CASE OnDelete
  BY <1>5, <1>7, Zenon DEF OnDelete
<1>8. CASE External /\ UNCHANGED storeVars
  <2>0. UNCHANGED <<endpoints, gone>>
    BY <1>8 DEF storeVars
  <2>1. CASE StreamBreaks
    <3>1. WatchInv' /\ phase' = "broken" /\ queue' = <<>> /\ todo' = {} /\ cluster' = cluster
      BY <1>0, <2>1, StreamLost DEF StreamBreaks
    <3>2. QED
      BY <2>0, <3>1 DEF CurrentInv
  <2>2. ASSUME NEW sl \in Objects, NEW v \in Values \cup {NoObject}, Legal(sl, v), ClusterChange(sl, v)
        PROVE  CurrentInv'
    <3>1. /\ WatchInv' /\ UNCHANGED <<phase, seen, todo>>
          /\ phase # "broken" =>
                \A x \in Objects : Quiet(x)' => x # sl /\ Quiet(x) /\ cluster'[x] = cluster[x]
      BY <1>0, <2>2, ChangePending, Zenon DEF ClusterChange
    <3>2. cluster' = [cluster EXCEPT ![sl] = v] /\ cluster \in [Objects -> Values \cup {NoObject}] /\ cluster[sl] # v
      BY <1>0, <2>2 DEF ClusterChange, WatchInv
    <3>3. \A o \in Objects : Legal(o, cluster'[o])
      BY <2>2, <3>2, Zenon DEF CurrentInv
    <3>4. \A i \in 1..Len(queue') : queue'[i].val.svc \in LabelOf[queue'[i].obj]
      <4>1. PICK x : /\ queue' = queue \/ queue' = Append(queue, x)
                     /\ x.obj = sl /\ x.val = (IF v = NoObject THEN cluster[sl] ELSE v)
        BY <2>2 DEF ClusterChange
      <4>2. x.val.svc \in LabelOf[sl]
        BY <2>2, <3>2, <4>1, Zenon DEF CurrentInv, Legal
      <4>3. queue \in Seq(Event)
        BY <1>0 DEF WatchInv
      <4>4. QED
        BY <4>1, <4>2, <4>3 DEF CurrentInv
    <3>5. QED
      BY <2>0, <3>1, <3>3, <3>4, Zenon DEF CurrentInv
  <2>3. QED
    BY <1>8, <2>1, <2>2 DEF External
<1>9. CASE UNCHANGED vars
  <2>1. UNCHANGED <<cluster, phase, todo, queue, seen, endpoints, gone>>
    BY <1>9 DEF vars, watchVars, storeVars
  <2>2. QED
    BY <2>1, Zenon DEF CurrentInv, WatchInv, Quiet, LastEvent, ToCome
<1>10. QED
  BY <1>1, <1>2, <1>3, <1>4, <1>6, <1>7, <1>8, <1>9 DEF Next

(* When nothing is left to deliver or to remove, the store has the         *)
(* endpoints of the cluster, if the labels of the slices do not change.    *)
THEOREM EndpointsCurrent == ASSUME FixedLabels PROVE Spec => []KeptCurrent
<1>1. CurrentInv => KeptCurrent
  <2> SUFFICES ASSUME CurrentInv, CaughtUp, gone = {} PROVE Current
    BY DEF KeptCurrent
  <2>1. phase = "watching" /\ \A o \in Objects : Quiet(o)
    BY DEF CaughtUp, Quiet
  <2>2. /\ endpoints \in [Services -> [Objects -> SUBSET Ips]]
        /\ \A svc \in Services, o \in Objects : endpoints[svc][o] = Gives(cluster[o], svc)
    BY <2>1, Zenon DEF CurrentInv
  <2>3. \A svc \in Services : endpoints[svc] = [o \in Objects |-> Gives(cluster[o], svc)]
    BY <2>2
  <2>4. endpoints = [svc \in Services |-> [o \in Objects |-> Gives(cluster[o], svc)]]
    BY <2>2, <2>3
  <2>5. QED
    BY <2>4 DEF Current, Gives
<1>2. CurrentInv /\ [Next]_vars => CurrentInv'
  BY CurrentNext
<1>3. QED
  BY <1>1, <1>2, CurrentInit, PTL DEF Spec
=============================================================================
