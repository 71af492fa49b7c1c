--------------------------- MODULE KubeServeProofs ---------------------------
(***************************************************************************)
(* KubeServe, for any configuration, services, endpoints, pods and         *)
(* namespaces, any question and any updates of the store between the       *)
(* lookups of the query.                                                   *)
(***************************************************************************)
EXTENDS KubeServe, SequenceTheorems, TLAPS

(* The service had the address in one of the stores H. *)
OfCluster(H, key, ip) == \E st \in H :
    st.services[key] # NoSvc /\ ip \in st.services[key].cluster_ips
OfEndpoint(H, key, ip) == \E st \in H : \E e \in st.endpoints[key] :
    /\ ip \in Range(e.ips)
    /\ e.ready \/ \E u \in H : u.services[key] # NoSvc /\ u.services[key].publish_not_ready

(* An address record of the reply has one of the addresses it is made of. *)
LEMMA AddrRecord ==
    ASSUME NEW owner, NEW ips, NEW type, NEW r \in addr_records(owner, ips, type)
    PROVE  r.ip \in ips /\ r.owner = owner
  BY DEF addr_records, RR

(* Append leaves what was there. *)
LEMMA AppendShape ==
    ASSUME NEW S, NEW s \in Seq(S), NEW d \in S
    PROVE  /\ Append(s, d) \in Seq(S)
           /\ Len(Append(s, d)) = Len(s) + 1
           /\ \A i \in 1..Len(s) : Append(s, d)[i] = s[i]
           /\ Append(s, d)[Len(s) + 1] = d
  BY AppendProperties

(* Sequences of four with the same elements are the same. *)
LEMMA SameFour ==
    ASSUME NEW S, NEW s \in Seq(S), NEW t \in Seq(S), NEW d \in S,
           Len(s) = 3, Len(t) = 4, \A i \in 1..3 : t[i] = s[i], t[4] = d
    PROVE  Append(s, d) = t
<1>1. ASSUME NEW u \in Seq(S), Len(u) = Len(s) + 1, \A i \in 1..Len(s) : u[i] = s[i],
             u[Len(s) + 1] = d
      PROVE  u = t
  <2>1. Len(u) = 4 /\ \A i \in 1..4 : u[i] = t[i]
    BY <1>1
  <2>2. QED
    BY <2>1
<1>2. QED
  BY <1>1, AppendShape

(* Append to three labels. *)
LEMMA FourLabels ==
    ASSUME NEW a, NEW b, NEW c, NEW d
    PROVE  Append(<<a, b, c>>, d) = <<a, b, c, d>>
<1>1. <<a, b, c>> \in Seq({a, b, c, d}) /\ <<a, b, c, d>> \in Seq({a, b, c, d})
  OBVIOUS
<1>2. Len(<<a, b, c>>) = 3 /\ Len(<<a, b, c, d>>) = 4
      /\ (\A i \in 1..3 : <<a, b, c, d>>[i] = <<a, b, c>>[i]) /\ <<a, b, c, d>>[4] = d
  OBVIOUS
<1>3. d \in {a, b, c, d}
  OBVIOUS
<1>4. QED
  BY <1>1, <1>2, <1>3, SameFour, Zenon

(* The labels of the name of an endpoint. *)
LEMMA EpLabels ==
    ASSUME NEW c, NEW key, NEW e
    PROVE  EpName(c, key, e) = <<"svc", key[1], key[2], endpoint_hostname(c, e)>>
  BY FourLabels, Zenon DEF EpName, SvcName

(* What a ready endpoint of the lookup has, the service had. *)
LEMMA ReadyHad ==
    ASSUME NEW H, NEW v, \A s \in Slots : v[s] \in H, NEW key \in Keys, NEW u \in H,
           u.services[key] # NoSvc,
           NEW e \in ready_endpoints(v[<<"eps", key>>], key, u.services[key]),
           NEW ip \in Range(e.ips)
    PROVE  OfEndpoint(H, key, ip)
<1>1. v[<<"eps", key>>] \in H
  BY DEF Slots, Lookups
<1>2. QED
  BY <1>1, Zenon DEF ready_endpoints, OfEndpoint

(* What KeyOf finds is of the set. *)
LEMMA KeyFound ==
    ASSUME NEW S, KeyOf(S) # NoKey
    PROVE  KeyOf(S) \in S
  BY Zenon DEF KeyOf

(* A PTR record names a service that had the address as its own, or an     *)
(* endpoint of a service that had it.                                      *)
LEMMA PtrTrue ==
    ASSUME NEW H, NEW v, \A s \in Slots : v[s] \in H, NEW c, NEW ip,
           NEW t \in PtrTargets(c, v, ip)
    PROVE  LET key == <<t[2], t[3]>> IN
           IF Len(t) = 3 THEN OfCluster(H, key, ip) ELSE OfEndpoint(H, key, ip)
<1> DEFINE owner == service_by_ip(v[<<"by_ip", NoKey>>], ip)
           via(key) == {EpName(c, key, e) : e \in
             {x \in ready_endpoints(v[<<"eps", key>>], key, v[<<"svc", key>>].services[key]) :
                ip \in Range(x.ips)}}
<1>1. \/ owner # NoKey /\ t = SvcName(owner)
      \/ \E key \in Keys : v[<<"svc", key>>].services[key] # NoSvc /\ t \in via(key)
  BY Zenon DEF PtrTargets, services_by_endpoint_ip
<1>2. CASE owner # NoKey /\ t = SvcName(owner)
  <2>1. /\ owner \in Keys /\ v[<<"by_ip", NoKey>>].services[owner] # NoSvc
        /\ ip \in v[<<"by_ip", NoKey>>].services[owner].cluster_ips
    BY <1>2, KeyFound, Zenon DEF service_by_ip
  <2>2. v[<<"by_ip", NoKey>>] \in H
    BY DEF Slots, Lookups
  <2>3. OfCluster(H, owner, ip)
    BY <2>1, <2>2, Zenon DEF OfCluster
  <2>4. Len(t) = 3 /\ t[2] = owner[1] /\ t[3] = owner[2]
    BY <1>2 DEF SvcName
  <2>5. QED
    BY <2>1, <2>3, <2>4, KubeConstants, Zenon
<1>3. ASSUME NEW key \in Keys, v[<<"svc", key>>].services[key] # NoSvc, t \in via(key)
      PROVE  Len(t) # 3 /\ OfEndpoint(H, <<t[2], t[3]>>, ip)
  <2>1. PICK e \in ready_endpoints(v[<<"eps", key>>], key, v[<<"svc", key>>].services[key]) :
             ip \in Range(e.ips) /\ t = EpName(c, key, e)
    BY <1>3, Zenon
  <2>2. v[<<"svc", key>>] \in H
    BY DEF Slots, Lookups
  <2>3. OfEndpoint(H, key, ip)
    BY <1>3, <2>1, <2>2, ReadyHad, Zenon
  <2>4. Len(t) = 4 /\ t[2] = key[1] /\ t[3] = key[2]
    BY <2>1, EpLabels
  <2>5. QED
    BY <2>3, <2>4, KubeConstants
<1>4. QED
  BY <1>1, <1>2, <1>3, Zenon

(* What the endpoints of a service, ready ones eps, are answered with. *)
LEMMA EndpointTrue ==
    ASSUME NEW c, NEW key, NEW svc, NEW eps, NEW n, NEW p,
           NEW r \in EndpointRecords(c, key, svc, eps, n, p).ans
                    \cup EndpointRecords(c, key, svc, eps, n, p).ext,
           r.ip # None
    PROVE  \E e \in eps : r.ip \in Range(e.ips)
<1> DEFINE hit == {e \in eps : p.ep = None \/ is_wild(p.ep) \/ p.ep = endpoint_hostname(c, e)}
           srv == {e \in hit : \E x \in e.ports : port_matches(x, p.port, p.proto)}
           owner == IF p.ep # None THEN n.name ELSE SvcName(key)
           srvOwner == IF p.port # None THEN n.name ELSE SvcName(key)
           ans == CASE n.type = "SRV" -> {RR(srvOwner, "SRV", None, EpName(c, key, e)) : e \in srv}
                    [] n.type \in AddrTypes /\ p.port = None ->
                         UNION {addr_records(owner, Range(e.ips), n.type) : e \in hit}
                    [] OTHER -> {}
           ext == IF n.type # "SRV" THEN {}
                  ELSE UNION {addr_records(EpName(c, key, e), Range(e.ips), "ANY") : e \in srv}
<1>1. \/ EndpointRecords(c, key, svc, eps, n, p) = Result(ans, ext, TRUE)
      \/ EndpointRecords(c, key, svc, eps, n, p) = NotFound
  BY Zenon DEF EndpointRecords
<1>2. r \in ans \/ r \in ext
  BY <1>1 DEF Result, NotFound
<1>3. srv \subseteq eps /\ hit \subseteq eps
  OBVIOUS
<1>4. CASE r \in ext
  <2>1. PICK e \in srv : r \in addr_records(EpName(c, key, e), Range(e.ips), "ANY")
    BY <1>4, Zenon
  <2>2. QED
    BY <1>3, <2>1, AddrRecord, Zenon
<1>5. CASE r \in ans
  <2>1. CASE n.type = "SRV"
    <3>0. n.type \notin AddrTypes
      BY <2>1 DEF AddrTypes
    <3>1. ans = {RR(srvOwner, "SRV", None, EpName(c, key, e)) : e \in srv}
      BY <2>1, <3>0, Zenon
    <3>2. PICK e \in srv : r = RR(srvOwner, "SRV", None, EpName(c, key, e))
      BY <1>5, <3>1, Zenon
    <3>3. QED
      BY <3>2 DEF RR
  <2>2. CASE n.type # "SRV" /\ n.type \in AddrTypes /\ p.port = None
    <3>1. ans = UNION {addr_records(owner, Range(e.ips), n.type) : e \in hit}
      BY <2>2, Zenon
    <3>2. PICK e \in hit : r \in addr_records(owner, Range(e.ips), n.type)
      BY <1>5, <3>1, Zenon
    <3>3. QED
      BY <1>3, <3>2, AddrRecord, Zenon
  <2>3. CASE n.type # "SRV" /\ ~(n.type \in AddrTypes /\ p.port = None)
    <3>1. ans = {}
      BY <2>3, Zenon
    <3>2. QED
      BY <1>5, <3>1, Zenon
  <2>4. QED
    BY <2>1, <2>2, <2>3, Zenon
<1>6. QED
  BY <1>2, <1>4, <1>5, Zenon

(* What a service with a cluster address is answered with. *)
LEMMA ClusterTrue ==
    ASSUME NEW c, NEW key, NEW svc, NEW eps, NEW n, NEW p,
           NEW r \in ClusterRecords(c, key, svc, eps, n, p).ans
                    \cup ClusterRecords(c, key, svc, eps, n, p).ext,
           r.ip # None
    PROVE  r.ip \in svc.cluster_ips
<1> DEFINE srv == RR(IF p.port # None THEN n.name ELSE SvcName(key), "SRV", None, SvcName(key))
           res == ClusterRecords(c, key, svc, eps, n, p)
           add == addr_records(SvcName(key), svc.cluster_ips, "ANY")
           addrs == addr_records(SvcName(key), svc.cluster_ips, n.type)
<1>1. res \in {NotFound, Result({srv}, add, TRUE), Result({}, add, TRUE), Result({}, {}, TRUE),
               Result({}, {}, FALSE), Result(addrs, {}, TRUE)}
  BY DEF ClusterRecords, NotFound
<1>2. r = srv \/ r \in add \/ r \in addrs
  BY <1>1 DEF Result, NotFound
<1>3. r # srv
  BY DEF RR
<1>4. QED
  BY <1>2, <1>3, AddrRecord, Zenon

(* Every address in the records of a service is one the service had, but   *)
(* for what the server itself answers for an outside name.                 *)
LEMMA RecordsTrue ==
    ASSUME NEW H, NEW v, \A s \in Slots : v[s] \in H, NEW key \in Keys, NEW u \in H,
           u.services[key] # NoSvc, NEW c, NEW n, NEW p, NEW up,
           \A o \in up : o.owner = <<"outside">>,
           NEW r \in service_records(c, key, u.services[key], v, n, p, up).ans
                    \cup service_records(c, key, u.services[key], v, n, p, up).ext,
           r.ip # None, r.owner # <<"outside">>
    PROVE  OfCluster(H, key, r.ip) \/ OfEndpoint(H, key, r.ip)
<1> DEFINE svc == u.services[key]
           eps == ready_endpoints(v[<<"eps", key>>], key, svc)
           res == service_records(c, key, svc, v, n, p, up)
<1>1. CASE svc.external_name # None
  <2>1. res = ExternalRecords(svc, n, p, up)
    BY <1>1, Zenon DEF service_records
  <2> DEFINE alias == RR(n.name, "CNAME", None, <<svc.external_name>>)
  <2>2. res \in {NotFound, Result({}, {}, TRUE), Result({alias} \cup up, {}, TRUE),
                 Result({alias} \cup {}, {}, TRUE)}
    BY <2>1, Zenon DEF ExternalRecords
  <2>3. r = alias \/ r \in up
    BY <2>2 DEF Result, NotFound
  <2>4. alias.ip = None
    BY DEF RR
  <2>5. QED
    BY <2>3, <2>4, Zenon
<1>2. CASE svc.external_name = None /\ (svc.headless \/ p.ep # None)
  <2>1. res = EndpointRecords(c, key, svc, eps, n, p)
    BY <1>2, Zenon DEF service_records
  <2>2. PICK e \in eps : r.ip \in Range(e.ips)
    BY <2>1, EndpointTrue, Zenon
  <2>3. QED
    BY <2>2, ReadyHad, Zenon
<1>3. CASE svc.external_name = None /\ ~(svc.headless \/ p.ep # None)
  <2>1. res = ClusterRecords(c, key, svc, eps, n, p)
    BY <1>3, Zenon DEF service_records
  <2>2. r.ip \in svc.cluster_ips
    BY <2>1, ClusterTrue, Zenon
  <2>3. QED
    BY <2>2, Zenon DEF OfCluster
<1>4. QED
  BY <1>1, <1>2, <1>3, Zenon

(* So is every address in the answer to a question for a service, and the  *)
(* service is one the question may mean.                                   *)
LEMMA SvcTrue ==
    ASSUME NEW H, NEW v, \A s \in Slots : v[s] \in H, NEW c, NEW n, NEW p, NEW up,
           \A o \in up : o.owner = <<"outside">>,
           NEW r \in ServeSvc(c, v, n, p, up).ans \cup ServeSvc(c, v, n, p, up).add,
           r.ip # None, r.owner # <<"outside">>
    PROVE  \E key \in Keys : /\ p.ns \in {key[1], "*", "any"}
                             /\ p.svc \in {key[2], "*", "any"}
                             /\ OfCluster(H, key, r.ip) \/ OfEndpoint(H, key, r.ip)
<1> DEFINE u == v[<<"svcs", NoKey>>]
           found == Found(c, v, p)
           res == [key \in found |-> service_records(c, key, u.services[key], v, n, p, up)]
           ans == UNION {res[key].ans : key \in found}
           ext == UNION {res[key].ext : key \in found}
<1>1. ServeSvc(c, v, n, p, up) \in {NotOurs, nodata, Msg("answer", ans, ext)}
  BY Zenon DEF ServeSvc, Answered
<1> HIDE DEF ans, ext
<1>2. r \in ans \/ r \in ext
  BY <1>1 DEF NotOurs, nodata, Msg
<1> USE DEF ans, ext
<1>3. PICK key \in found : r \in res[key].ans \cup res[key].ext
  BY <1>2, Zenon
<1>4. /\ key \in Keys /\ u.services[key] # NoSvc
      /\ is_wild(p.ns) \/ key[1] = p.ns
      /\ is_wild(p.svc) \/ key[2] = p.svc
  BY Zenon DEF Found
<1>5. r \in service_records(c, key, u.services[key], v, n, p, up).ans
            \cup service_records(c, key, u.services[key], v, n, p, up).ext
  BY <1>3, Zenon
<1>6. u \in H
  BY DEF Slots, Lookups
<1>7. OfCluster(H, key, r.ip) \/ OfEndpoint(H, key, r.ip)
  BY <1>4, <1>5, <1>6, RecordsTrue, Zenon
<1>8. QED
  BY <1>4, <1>7, Zenon DEF is_wild

(* With `pods verified` an address is answered only if a pod of a          *)
(* namespace the question may mean had it.                                 *)
LEMMA PodTrue ==
    ASSUME NEW H, NEW v, \A s \in Slots : v[s] \in H, NEW c, NEW n, NEW p, c.pods = "verified",
           NEW r \in ServePod(c, v, n, p).ans
    PROVE  \E st \in H : \E o \in st.pods : o.ip = r.ip /\ p.ns \in {o.ns, "*", "any"}
<1> DEFINE u == v[<<"pod_by_ip", NoKey>>]
           ips == undash(p.svc)
           recs == addr_records(n.name, ips, n.type)
<1>1. u \in H
  BY DEF Slots, Lookups
<1>2. ServePod(c, v, n, p) \in {nodata, Msg("answer", recs, {}), NotOurs}
  BY Zenon DEF ServePod, Answered
<1>3. r \in recs /\ ServePod(c, v, n, p) # NotOurs
  BY <1>2 DEF NotOurs, nodata, Msg
<1>4. PICK ip \in ips : \E o \in u.pods : o.ip = ip /\ (is_wild(p.ns) \/ o.ns = p.ns)
  BY <1>3, Zenon DEF ServePod
<1>5. r.ip \in ips
  BY <1>3, AddrRecord, Zenon
<1>6. r.ip = ip
  BY <1>5, KubeConstants, Zenon DEF undash
<1>7. QED
  BY <1>1, <1>4, <1>6, Zenon DEF is_wild

(***************************************************************************)
(* The inductive invariant: every lookup has read a store there was since  *)
(* the query arrived, and a reply is made of what the lookups have read.   *)
(***************************************************************************)
View == [s \in Slots |-> hist[at[s]]]
Replied == \E up \in Upstream(q) : reply = Reply(config, View, q, up)
ServeInv ==
    /\ \E S : hist \in Seq(S) /\ \A st \in S : HasMaps(st)
    /\ Len(hist) > 0
    /\ at \in [Slots -> DOMAIN hist]
    /\ reply # NoReply => q # NoQuestion /\ unread = <<>> /\ Replied

(* An update of the store leaves its maps in place. *)
LEMMA ChangedMaps ==
    ASSUME NEW st, HasMaps(st), NEW t \in Changed(st)
    PROVE  HasMaps(t)
<1>1. \/ \E f : t = [st EXCEPT !.services = f]
      \/ \E f : t = [st EXCEPT !.endpoints = f]
      \/ \E f : t = [st EXCEPT !.pods = f]
      \/ \E f : t = [st EXCEPT !.namespaces = f]
  BY DEF Changed
<1>2. QED
  BY <1>1 DEF HasMaps

(* The query begins with one store. *)
LEMMA ServeInit == KubeInit => ServeInv
<1> SUFFICES ASSUME KubeInit PROVE ServeInv
  OBVIOUS
<1>1. PICK st \in Stores : hist = <<st>>
  BY DEF KubeInit
<1> DEFINE T == {st}
<1>2. hist \in Seq(T) /\ Len(hist) = 1 /\ DOMAIN hist = {1}
  BY <1>1
<1>3. \A x \in T : HasMaps(x)
  BY KubeConstants
<1> HIDE DEF T
<1>4. at \in [Slots -> DOMAIN hist]
  BY <1>2 DEF KubeInit
<1>5. Len(hist) > 0
  BY <1>2
<1>6. \E S : hist \in Seq(S) /\ \A x \in S : HasMaps(x)
  BY <1>2, <1>3, Zenon
<1>7. QED
  BY <1>4, <1>5, <1>6 DEF ServeInv, KubeInit

(* The watchers append a store, a lookup reads the current one, and after  *)
(* the reply nothing happens.                                              *)
LEMMA ServeNext == ServeInv /\ [KubeNext]_kubeVars => ServeInv'
<1> SUFFICES ASSUME ServeInv, [KubeNext]_kubeVars PROVE ServeInv'
  OBVIOUS
<1>0. PICK S : hist \in Seq(S) /\ \A st \in S : HasMaps(st)
  BY DEF ServeInv
<1>1. CASE UNCHANGED kubeVars
  BY <1>1, Zenon DEF kubeVars, ServeInv, Replied, View
<1>2. CASE Update
  <2>1. PICK st \in Changed(Newest) : hist' = Append(hist, st)
    BY <1>2, Zenon DEF Update
  <2>2. Newest \in S
    BY <1>0 DEF Newest, ServeInv
  <2>3. HasMaps(st)
    BY <1>0, <2>1, <2>2, ChangedMaps, Zenon
  <2>4. hist \in Seq(S \cup {st})
    BY <1>0
  <2>5. hist' \in Seq(S \cup {st}) /\ Len(hist') = Len(hist) + 1
    BY <2>1, <2>4, AppendShape, st \in S \cup {st}
  <2>6. DOMAIN hist \subseteq DOMAIN hist' /\ Len(hist') > 0
    BY <1>0, <2>5
  <2>7. at' \in [Slots -> DOMAIN hist']
    BY <1>2, <2>6 DEF Update, ServeInv
  <2>8. \A x \in S \cup {st} : HasMaps(x)
    BY <1>0, <2>3
  <2>9. reply' = NoReply
    BY <1>2, Zenon DEF Update
  <2>10. QED
    BY <2>5, <2>6, <2>7, <2>8, <2>9, Zenon DEF ServeInv
<1>3. CASE Ask
  BY <1>3, Zenon DEF Ask, ServeInv
<1>4. CASE ReadLock
  <2>1. hist' = hist /\ reply' = reply /\ reply = NoReply
    BY <1>4, Zenon DEF ReadLock, ServeInv
  <2>2. Len(hist) \in DOMAIN hist
    BY <1>0 DEF ServeInv
  <2>3. at' \in [Slots -> DOMAIN hist']
    BY <1>4, <2>1, <2>2 DEF ReadLock, ServeInv
  <2>4. QED
    BY <2>1, <2>3, Zenon DEF ServeInv
<1>5. CASE Answer
  BY <1>5, Zenon DEF Answer, ServeInv, Replied, View
<1>6. QED
  BY <1>1, <1>2, <1>3, <1>4, <1>5 DEF KubeNext

(* Every reply is made of stores there were while the query was answered. *)
THEOREM RepliesFromView == KubeSpec => []ServeInv
  BY ServeInit, ServeNext, PTL DEF KubeSpec

(* The stores since the query arrived. *)
Seen == {hist[i] : i \in Moments}

(* What a service had in one of them, it had at a moment of the query. *)
LEMMA HadSeen ==
    ASSUME NEW key, NEW ip
    PROVE  /\ OfCluster(Seen, key, ip) => HadCluster(key, ip)
           /\ OfEndpoint(Seen, key, ip) => HadEndpoint(key, ip)
  BY Zenon DEF Seen, OfCluster, OfEndpoint, HadCluster, HadEndpoint

(* The lookups read those. *)
LEMMA ViewSeen == ServeInv => \A s \in Slots : View[s] \in Seen
  BY DEF ServeInv, View, Seen, Moments

(* What the server answers for an outside name. *)
LEMMA UpOutside ==
    ASSUME NEW n, NEW up \in Upstream(n), NEW o \in up
    PROVE  o.owner = <<"outside">>
  BY DEF Upstream, RR

(* What serve_dns makes of the message. *)
LEMMA Served ==
    ASSUME NEW c, NEW v, NEW n, NEW up, serve_dns(c, v, n, up).kind = "answer"
    PROVE  serve_dns(c, v, n, up) =
             IF n.rev THEN serve_reverse(c, v, n) ELSE serve_forward(c, v, n, up)
<1> DEFINE m == IF n.rev THEN serve_reverse(c, v, n) ELSE serve_forward(c, v, n, up)
           r == serve_dns(c, v, n, up)
<1>1. r \in {Msg("next", {}, {}), nxdomain, m}
  BY Zenon DEF serve_dns
<1>2. r # Msg("next", {}, {}) /\ r # nxdomain
  BY DEF Msg, nxdomain
<1>3. QED
  BY <1>1, <1>2, Zenon

(* However the updates of the watchers fall between the lookups of a       *)
(* query, its answer has nothing that was not so at some moment of it.     *)
THEOREM AnswersTrueHolds == KubeSpec => []AnswersTrue
<1>1. ServeInv => AnswersTrue
  <2> SUFFICES ASSUME ServeInv, config.plugin = "kubernetes", reply.kind = "answer"
               PROVE  AnswersTrue
    BY Zenon DEF AnswersTrue
  <2> DEFINE p == parse_name(q.name)
  <2>1. reply # NoReply
    BY DEF NoReply, Msg
  <2>2. PICK up \in Upstream(q) : reply = serve_dns(k, View, q, up)
    BY <2>1, Zenon DEF ServeInv, Replied, Reply, k
  <2>3. reply = IF q.rev THEN serve_reverse(k, View, q) ELSE serve_forward(k, View, q, up)
    BY <2>2, Served, Zenon
  <2>4. \A o \in up : o.owner = <<"outside">>
    BY UpOutside, Zenon
  <2>5. \A s \in Slots : View[s] \in Seen
    BY ViewSeen, Zenon
  <2>6. ASSUME q.rev, NEW r \in reply.ans
        PROVE  LET key == <<r.target[2], r.target[3]>> IN
               IF Len(r.target) = 3 THEN HadCluster(key, q.ip) ELSE HadEndpoint(key, q.ip)
    <3>1. reply \in {NotOurs, nodata,
                     Msg("answer", {RR(<<>>, "PTR", q.ip, t) : t \in PtrTargets(k, View, q.ip)}, {})}
      BY <2>3, <2>6, Zenon DEF serve_reverse
    <3>2. PICK t \in PtrTargets(k, View, q.ip) : r = RR(<<>>, "PTR", q.ip, t)
      BY <2>6, <3>1 DEF NotOurs, nodata, Msg
    <3>3. r.target = t
      BY <3>2 DEF RR
    <3>4. QED
      BY <2>5, <3>3, PtrTrue, HadSeen, Zenon
  <2>7. ASSUME ~q.rev, p.kind = "svc", NEW r \in reply.ans \cup reply.add,
               r.ip # None, r.owner # <<"outside">>
        PROVE  \E key \in Keys : /\ p.ns \in {key[1], "*", "any"}
                                 /\ p.svc \in {key[2], "*", "any"}
                                 /\ HadCluster(key, r.ip) \/ HadEndpoint(key, r.ip)
    <3>1. reply = ServeSvc(k, View, q, p, up)
      BY <2>3, <2>7 DEF serve_forward
    <3>2. QED
      BY <2>4, <2>5, <2>7, <3>1, SvcTrue, HadSeen, Zenon
  <2>8. ASSUME ~q.rev, p.kind = "pod", k.pods = "verified", NEW r \in reply.ans
        PROVE  \E i \in Moments : \E o \in hist[i].pods : o.ip = r.ip /\ p.ns \in {o.ns, "*", "any"}
    <3>1. reply = ServePod(k, View, q, p)
      BY <2>3, <2>8 DEF serve_forward
    <3>2. \E st \in Seen : \E o \in st.pods : o.ip = r.ip /\ p.ns \in {o.ns, "*", "any"}
      <4>1. r \in ServePod(k, View, q, p).ans
        BY <2>8, <3>1, Zenon
      <4>2. QED
        BY <2>5, <2>8, <4>1, PodTrue
    <3>3. QED
      BY <3>2, Zenon DEF Seen
  <2>9. QED
    BY <2>6, <2>7, <2>8, Zenon DEF AnswersTrue
<1>2. QED
  BY <1>1, RepliesFromView, PTL

-----------------------------------------------------------------------------
(***************************************************************************)
(* StableAnswered.  A view v of the store agrees with the store st on a    *)
(* service if every lookup finds that service, its endpoints and the       *)
(* namespaces as they are in st.                                           *)
(***************************************************************************)
Agrees(v, st, key) == \A s \in Slots :
    /\ v[s].services[key] = st.services[key] /\ v[s].endpoints[key] = st.endpoints[key]
    /\ v[s].namespaces = st.namespaces

(* And it shows nothing of any other service. *)
ShowsOnly(v, st, key) ==
    /\ Agrees(v, st, key)
    /\ \A s \in Slots, o \in Keys : o # key => v[s].services[o] = NoSvc /\ v[s].endpoints[o] = {}

(* The store with one service alone. *)
LEMMA AloneStore ==
    ASSUME NEW st, HasMaps(st), NEW key \in Keys
    PROVE  /\ Alone(st, key).services[key] = st.services[key]
           /\ Alone(st, key).endpoints[key] = st.endpoints[key]
           /\ Alone(st, key).namespaces = st.namespaces
           /\ \A o \in Keys : o # key => /\ Alone(st, key).services[o] = NoSvc
                                        /\ Alone(st, key).endpoints[o] = {}
<1> DEFINE a == Alone(st, key)
<1>1. /\ a.services = [o \in Keys |-> IF o = key THEN st.services[o] ELSE NoSvc]
      /\ a.endpoints = [o \in Keys |-> IF o = key THEN st.endpoints[o] ELSE {}]
      /\ a.namespaces = st.namespaces
  BY DEF Alone, HasMaps
<1> HIDE DEF a
<1>2. /\ a.services[key] = st.services[key] /\ a.endpoints[key] = st.endpoints[key]
      /\ \A o \in Keys : o # key => a.services[o] = NoSvc /\ a.endpoints[o] = {}
  BY <1>1
<1>3. QED
  BY <1>1, <1>2, Zenon DEF a

(* A lookup in it agrees with the store on the service, and finds no other *)
(* service.                                                                *)
LEMMA AloneShows ==
    ASSUME NEW st, HasMaps(st), NEW key \in Keys
    PROVE  ShowsOnly(Everywhere(Alone(st, key)), st, key)
<1>1. \A s \in Slots : Everywhere(Alone(st, key))[s] = Alone(st, key)
  BY DEF Everywhere
<1>2. QED
  BY <1>1, AloneStore DEF ShowsOnly, Agrees

(* A service that is the same in both stores alone is the same in both. *)
LEMMA AloneEqual ==
    ASSUME NEW st, HasMaps(st), NEW t, HasMaps(t), NEW key \in Keys,
           Alone(t, key) = Alone(st, key)
    PROVE  /\ t.services[key] = st.services[key] /\ t.endpoints[key] = st.endpoints[key]
           /\ t.namespaces = st.namespaces
  BY AloneStore

(* A view that agrees with the store exposes the same namespaces. *)
LEMMA ExposedSame ==
    ASSUME NEW st, NEW key, NEW v, Agrees(v, st, key), NEW c, NEW s \in Slots, NEW ns
    PROVE  namespace_exposed(c, v[s], ns) <=> namespace_exposed(c, st, ns)
  BY Zenon DEF Agrees, namespace_exposed

(* And the service has the same ready endpoints. *)
SameReady(v, st, key) ==
    \A svc : ready_endpoints(v[<<"eps", key>>], key, svc) = ready_endpoints(st, key, svc)

LEMMA ReadySame ==
    ASSUME NEW st, NEW key \in Keys, NEW v, Agrees(v, st, key)
    PROVE  SameReady(v, st, key)
<1>1. <<"eps", key>> \in Slots
  BY DEF Slots, Lookups
<1>2. QED
  BY <1>1, Zenon DEF Agrees, ready_endpoints, SameReady

(* The results of service_records, of the service alone and of the view. *)
FewerRecords(own, all) == own.found = all.found /\ own.ans \subseteq all.ans

(* The records of the service alone are among those of the view. *)
LEMMA RecordsSame ==
    ASSUME NEW st, NEW key \in Keys, NEW a, Agrees(a, st, key), NEW v, Agrees(v, st, key),
           NEW c, NEW svc, NEW n, NEW p, NEW up
    PROVE  FewerRecords(service_records(c, key, svc, a, n, p, {}),
                        service_records(c, key, svc, v, n, p, up))
<1> DEFINE own == service_records(c, key, svc, a, n, p, {})
           all == service_records(c, key, svc, v, n, p, up)
           eps == ready_endpoints(st, key, svc)
<1>0. SameReady(v, st, key) /\ SameReady(a, st, key)
  BY ReadySame, Zenon
<1>1. /\ ready_endpoints(v[<<"eps", key>>], key, svc) = eps
      /\ ready_endpoints(a[<<"eps", key>>], key, svc) = eps
  BY <1>0, Zenon DEF SameReady
<1>2. CASE svc.external_name # None
  <2>1. own = ExternalRecords(svc, n, p, {}) /\ all = ExternalRecords(svc, n, p, up)
    BY <1>2, Zenon DEF service_records
  <2> DEFINE R(x) == Result({RR(n.name, "CNAME", None, <<svc.external_name>>)} \cup x, {}, TRUE)
  <2>2. \/ own = all
        \/ own = R({}) /\ all = R(up)
    BY <2>1, Zenon DEF ExternalRecords
  <2>3. R({}).found = R(up).found /\ R({}).ans \subseteq R(up).ans
    BY DEF Result
  <2>4. QED
    BY <2>2, <2>3, Zenon DEF FewerRecords
<1>3. CASE svc.external_name = None /\ (svc.headless \/ p.ep # None)
  <2>1. /\ own = EndpointRecords(c, key, svc, ready_endpoints(a[<<"eps", key>>], key, svc), n, p)
        /\ all = EndpointRecords(c, key, svc, ready_endpoints(v[<<"eps", key>>], key, svc), n, p)
    BY <1>3, Zenon DEF service_records
  <2>2. QED
    BY <1>1, <2>1, Zenon DEF FewerRecords
<1>4. CASE svc.external_name = None /\ ~(svc.headless \/ p.ep # None)
  <2>1. /\ own = ClusterRecords(c, key, svc, ready_endpoints(a[<<"eps", key>>], key, svc), n, p)
        /\ all = ClusterRecords(c, key, svc, ready_endpoints(v[<<"eps", key>>], key, svc), n, p)
    BY <1>4, Zenon DEF service_records
  <2>2. QED
    BY <1>1, <2>1, Zenon DEF FewerRecords
<1>5. QED
  BY <1>2, <1>3, <1>4, Zenon

(* The message of the service alone is in the message of the view. *)
Within(own, all) == \/ own = NotOurs \/ own = all
                    \/ own.ans \subseteq all.ans /\ all.kind \in {"answer", "nodata"}

(* A question for services: what the one service alone would answer is in  *)
(* the answer.                                                             *)
LEMMA SvcStable ==
    ASSUME NEW st, NEW key \in Keys, NEW a, ShowsOnly(a, st, key), NEW v, Agrees(v, st, key),
           NEW c, NEW n, NEW p, NEW up
    PROVE  Within(ServeSvc(c, a, n, p, {}), ServeSvc(c, v, n, p, up))
<1> DEFINE own == ServeSvc(c, a, n, p, {})
           all == ServeSvc(c, v, n, p, up)
           u(w) == w[<<"svcs", NoKey>>]
           res(w, x) == [o \in Found(c, w, p) |-> service_records(c, o, u(w).services[o], w, n, p, x)]
           ans(w, x) == UNION {res(w, x)[o].ans : o \in Found(c, w, p)}
           ext(w, x) == UNION {res(w, x)[o].ext : o \in Found(c, w, p)}
<1> SUFFICES ASSUME own # NotOurs
             PROVE  all.kind \in {"answer", "nodata"} /\ own.ans \subseteq all.ans
  BY Zenon DEF Within
<1>1. /\ <<"svcs", NoKey>> \in Slots /\ <<"ns", NoKey>> \in Slots
      /\ \A o \in Keys : <<"filter", o>> \in Slots
  BY DEF Slots, Lookups
<1>0. Agrees(a, st, key)
  BY Zenon DEF ShowsOnly
<1>2. /\ is_wild(p.ns) \/ namespace_exposed(c, a[<<"ns", NoKey>>], p.ns)
      /\ \E o \in Found(c, a, p) : res(a, {})[o].found
      /\ own = Answered(ans(a, {}), ext(a, {}))
  BY Zenon DEF ServeSvc
<1>3. Found(c, a, p) \subseteq {key}
  BY <1>1, Zenon DEF Found, ShowsOnly
<1>4. key \in Found(c, a, p) /\ res(a, {})[key].found
  BY <1>2, <1>3, Zenon
<1>5. key \in Found(c, v, p)
  <2>1. u(v).services[key] = u(a).services[key]
    BY <1>0, <1>1, Zenon DEF Agrees
  <2>2. namespace_exposed(c, v[<<"filter", key>>], key[1])
        <=> namespace_exposed(c, a[<<"filter", key>>], key[1])
    BY <1>0, <1>1, ExposedSame, Zenon
  <2>3. QED
    BY <1>4, <2>1, <2>2, Zenon DEF Found
<1>6. u(a).services[key] = u(v).services[key]
  BY <1>0, <1>1, Zenon DEF Agrees
<1>7. res(a, {})[key].found = res(v, up)[key].found /\ res(a, {})[key].ans \subseteq res(v, up)[key].ans
  <2> DEFINE svc == u(a).services[key]
             x == service_records(c, key, svc, a, n, p, {})
             y == service_records(c, key, svc, v, n, p, up)
  <2>1. FewerRecords(x, y)
    BY <1>0, RecordsSame, Zenon
  <2>2. res(a, {})[key] = x /\ res(v, up)[key] = y
    BY <1>4, <1>5, <1>6, Zenon
  <2>3. QED
    BY <2>1, <2>2, Zenon DEF FewerRecords
<1>8. all = Answered(ans(v, up), ext(v, up))
  <2>1. is_wild(p.ns) \/ namespace_exposed(c, v[<<"ns", NoKey>>], p.ns)
    BY <1>0, <1>1, <1>2, ExposedSame, Zenon
  <2>2. QED
    BY <1>4, <1>5, <1>7, <2>1, Zenon DEF ServeSvc
<1>9. ans(a, {}) \subseteq ans(v, up)
  BY <1>3, <1>5, <1>7, Zenon
<1>10. \A x, y : Answered(x, y).ans = x /\ Answered(x, y).kind \in {"answer", "nodata"}
  BY DEF Answered, nodata, Msg
<1> HIDE DEF own, all, ans, ext
<1>11. own.ans = ans(a, {}) /\ all.ans = ans(v, up) /\ all.kind \in {"answer", "nodata"}
  BY <1>2, <1>8, <1>10, Zenon
<1>12. own.ans \subseteq all.ans
  BY <1>9, <1>11, Zenon
<1>13. QED
  BY <1>11, <1>12, Zenon DEF own, all

(* A view in which no other service has the address as its own. *)
Sole(v, key, ip) == \A s \in Slots, o \in Keys : o # key /\ v[s].services[o] # NoSvc =>
    ip \notin v[s].services[o].cluster_ips \cup v[s].services[o].external_ips

(* A lookup by address finds the service or none, the same in both views. *)
SameOwner(v, w, key, ip) ==
    /\ service_by_ip(v[<<"by_ip", NoKey>>], ip) = service_by_ip(w[<<"by_ip", NoKey>>], ip)
    /\ service_by_ip(v[<<"by_ip", NoKey>>], ip) \in {key, NoKey}
    /\ service_by_external_ip(v[<<"by_ip", NoKey>>], ip) = service_by_external_ip(w[<<"by_ip", NoKey>>], ip)
    /\ service_by_external_ip(v[<<"by_ip", NoKey>>], ip) \in {key, NoKey}

(* So it does where no other service has the address. *)
LEMMA ByIpSame ==
    ASSUME NEW st, NEW key \in Keys, NEW ip,
           NEW a, ShowsOnly(a, st, key), NEW v, Agrees(v, st, key), Sole(v, key, ip)
    PROVE  SameOwner(a, v, key, ip)
<1> DEFINE x == a[<<"by_ip", NoKey>>]
           y == v[<<"by_ip", NoKey>>]
           C(w) == {o \in Keys : w.services[o] # NoSvc /\ ip \in w.services[o].cluster_ips}
           E(w) == {o \in Keys : w.services[o] # NoSvc /\ ip \in w.services[o].external_ips}
<1>1. <<"by_ip", NoKey>> \in Slots
  BY DEF Slots, Lookups
<1>2. x.services[key] = y.services[key]
  BY <1>1, Zenon DEF ShowsOnly, Agrees
<1>a. \A o \in Keys : o # key => x.services[o] = NoSvc
  BY <1>1, Zenon DEF ShowsOnly
<1>b. \A o \in Keys : o # key /\ y.services[o] # NoSvc =>
        ip \notin y.services[o].cluster_ips /\ ip \notin y.services[o].external_ips
  BY <1>1, Zenon DEF Sole
<1> HIDE DEF x, y
<1>3. \A w \in {x, y}, o \in Keys : o # key /\ w.services[o] # NoSvc =>
        ip \notin w.services[o].cluster_ips /\ ip \notin w.services[o].external_ips
  BY <1>a, <1>b, Zenon
<1>4. \A w \in {x, y}, o \in Keys : o # key => o \notin C(w) /\ o \notin E(w)
  BY <1>3, Zenon
<1>5. (key \in C(x) <=> key \in C(y)) /\ (key \in E(x) <=> key \in E(y))
  BY <1>2, Zenon
<1>6. C(x) \subseteq Keys /\ C(y) \subseteq Keys /\ E(x) \subseteq Keys /\ E(y) \subseteq Keys
  OBVIOUS
<1>7. /\ service_by_ip(x, ip) = KeyOf(C(x)) /\ service_by_ip(y, ip) = KeyOf(C(y))
      /\ service_by_external_ip(x, ip) = KeyOf(E(x)) /\ service_by_external_ip(y, ip) = KeyOf(E(y))
  BY Zenon DEF service_by_ip, service_by_external_ip
<1> HIDE DEF C, E
<1>8. C(x) = C(y) /\ E(x) = E(y)
  BY <1>4, <1>5, <1>6
<1>9. KeyOf(C(x)) \in {key, NoKey} /\ KeyOf(E(x)) \in {key, NoKey}
  BY <1>4, <1>6, KeyFound, Zenon
<1>10. QED
  BY <1>7, <1>8, <1>9, Zenon DEF x, y, SameOwner

(* The names that the service alone has for the address. *)
LEMMA PtrStable ==
    ASSUME NEW st, NEW key \in Keys, st.services[key] # NoSvc, NEW c, NEW ip,
           NEW a, ShowsOnly(a, st, key), NEW v, Agrees(v, st, key), Sole(v, key, ip)
    PROVE  PtrTargets(c, a, ip) \subseteq PtrTargets(c, v, ip)
<1> DEFINE owner(w) == service_by_ip(w[<<"by_ip", NoKey>>], ip)
           direct(w) == IF /\ owner(w) # NoKey /\ w[<<"svcs", NoKey>>].services[owner(w)] # NoSvc
                           /\ namespace_exposed(c, w[<<"ns", NoKey>>], owner(w)[1])
                        THEN {SvcName(owner(w))} ELSE {}
           via(w, o) == {EpName(c, o, e) : e \in
             {x \in ready_endpoints(w[<<"eps", o>>], o, w[<<"svc", o>>].services[o]) : ip \in Range(x.ips)}}
           behind(w) == {o \in services_by_endpoint_ip(w[<<"ep_by_ip", NoKey>>], ip) :
                           /\ namespace_exposed(c, w[<<"filter", o>>], o[1])
                           /\ w[<<"svc", o>>].services[o] # NoSvc}
<1>1. /\ <<"svcs", NoKey>> \in Slots /\ <<"ns", NoKey>> \in Slots /\ <<"ep_by_ip", NoKey>> \in Slots
      /\ <<"filter", key>> \in Slots /\ <<"svc", key>> \in Slots
  BY DEF Slots, Lookups
<1>0. Agrees(a, st, key)
  BY Zenon DEF ShowsOnly
<1>2. \A w : PtrTargets(c, w, ip) =
              IF direct(w) # {} THEN direct(w) ELSE UNION {via(w, o) : o \in behind(w)}
  BY Zenon DEF PtrTargets
<1>a. SameOwner(a, v, key, ip)
  BY ByIpSame, Zenon
<1>3. owner(a) = owner(v) /\ owner(a) \in {key, NoKey}
  BY <1>a, Zenon DEF SameOwner
<1>4. /\ a[<<"svcs", NoKey>>].services[key] = v[<<"svcs", NoKey>>].services[key]
      /\ a[<<"svc", key>>].services[key] = v[<<"svc", key>>].services[key]
      /\ a[<<"svc", key>>].services[key] = st.services[key]
      /\ a[<<"ep_by_ip", NoKey>>].endpoints[key] = v[<<"ep_by_ip", NoKey>>].endpoints[key]
  BY <1>0, <1>1, Zenon DEF Agrees
<1>5. /\ \A ns : namespace_exposed(c, a[<<"ns", NoKey>>], ns) <=> namespace_exposed(c, v[<<"ns", NoKey>>], ns)
      /\ namespace_exposed(c, a[<<"filter", key>>], key[1])
           <=> namespace_exposed(c, v[<<"filter", key>>], key[1])
  BY <1>0, <1>1, ExposedSame, Zenon
<1>6. direct(a) = direct(v)
  <2>1. CASE owner(a) = NoKey
    BY <1>3, <2>1, Zenon
  <2>2. CASE owner(a) = key
    BY <1>3, <1>4, <1>5, <2>2, Zenon
  <2>3. QED
    BY <1>3, <2>1, <2>2, Zenon
<1>7. \A o \in behind(a) : o = key
  BY <1>1, Zenon DEF services_by_endpoint_ip, ShowsOnly
<1>8. key \in behind(a) => key \in behind(v)
  BY <1>4, <1>5, Zenon DEF services_by_endpoint_ip
<1>9. via(a, key) = via(v, key)
  <2>1. SameReady(a, st, key) /\ SameReady(v, st, key)
    BY <1>0, ReadySame, Zenon
  <2> DEFINE x == st.services[key]
  <2>2. /\ ready_endpoints(a[<<"eps", key>>], key, x) = ready_endpoints(st, key, x)
        /\ ready_endpoints(v[<<"eps", key>>], key, x) = ready_endpoints(st, key, x)
    BY <2>1, Zenon DEF SameReady
  <2>3. QED
    BY <1>4, <2>2, Zenon
<1> HIDE DEF direct, via, behind
<1>10. CASE direct(a) # {}
  BY <1>2, <1>6, <1>10, Zenon
<1>11. CASE direct(a) = {}
  <2>1. /\ PtrTargets(c, a, ip) = UNION {via(a, o) : o \in behind(a)}
        /\ PtrTargets(c, v, ip) = UNION {via(v, o) : o \in behind(v)}
    BY <1>2, <1>6, <1>11, Zenon
  <2>2. \A t : t \in UNION {via(a, o) : o \in behind(a)} => t \in via(a, key) /\ key \in behind(a)
    BY <1>7, Zenon
  <2>3. QED
    BY <1>8, <1>9, <2>1, <2>2, Zenon
<1>12. QED
  BY <1>10, <1>11, Zenon

(* What k8s_external finds of a service is what the service alone shows,   *)
(* or the name is another service's.                                       *)
LEMMA ExtSame ==
    ASSUME NEW st, NEW key \in Keys, NEW a, ShowsOnly(a, st, key), NEW v, Agrees(v, st, key),
           NEW c, NEW name
    PROVE  external_addrs(c, a, name) = Absent \/ external_addrs(c, a, name) = external_addrs(c, v, name)
<1>1. <<"svcs", NoKey>> \in Slots /\ <<"ns", NoKey>> \in Slots
  BY DEF Slots, Lookups
<1>2. Agrees(a, st, key)
  BY Zenon DEF ShowsOnly
<1>3. CASE name # key
  <2>1. name \in Keys => a[<<"svcs", NoKey>>].services[name] = NoSvc
    BY <1>1, <1>3, Zenon DEF ShowsOnly
  <2>2. QED
    BY <2>1, Zenon DEF external_addrs
<1>4. CASE name = key
  <2> DEFINE svc == st.services[key]
  <2>1. a[<<"svcs", NoKey>>].services[key] = svc /\ v[<<"svcs", NoKey>>].services[key] = svc
    BY <1>1, <1>2, Zenon DEF Agrees
  <2>2. namespace_exposed(c, a[<<"ns", NoKey>>], key[1]) <=> namespace_exposed(c, v[<<"ns", NoKey>>], key[1])
    BY <1>1, <1>2, ExposedSame, Zenon
  <2>3. SameReady(a, st, key) /\ SameReady(v, st, key)
    BY <1>2, ReadySame, Zenon
  <2>4. /\ ready_endpoints(a[<<"eps", key>>], key, svc) = ready_endpoints(st, key, svc)
        /\ ready_endpoints(v[<<"eps", key>>], key, svc) = ready_endpoints(st, key, svc)
    BY <2>3, Zenon DEF SameReady
  <2>5. QED
    BY <1>4, <2>1, <2>2, <2>4, Zenon DEF external_addrs
<1>5. QED
  BY <1>3, <1>4, Zenon

(* What the server answers for outside names only adds to the answer of    *)
(* k8s_external.                                                           *)
LEMMA ServiceGrows ==
    ASSUME NEW x, NEW ext, NEW n, NEW p, NEW up
    PROVE  Within(ServeService(x, ext, n, p, {}), ServeService(x, ext, n, p, up))
<1> DEFINE own == ServeService(x, ext, n, p, {})
           all == ServeService(x, ext, n, p, up)
           eps == IF x.headless THEN ext.eps ELSE {}
           ips == ext.ips \cup UNION {e.ips : e \in eps}
           R(y) == Answered(ExternalAddrs(n, ips, ext.hosts, y), {})
<1>1. CASE ~ext.found
  BY <1>1, Zenon DEF ServeService, Within
<1>2. CASE ext.found /\ p.ep # None
  BY <1>2, Zenon DEF ServeService, Within
<1>3. CASE ext.found /\ p.ep = None /\ ips = {} /\ ext.hosts = {}
  BY <1>3, Zenon DEF ServeService, Within
<1>4. CASE ext.found /\ p.ep = None /\ ~(ips = {} /\ ext.hosts = {})
  <2>1. CASE p.port # None /\ n.type = "SRV"
    BY <1>4, <2>1, Zenon DEF ServeService, Within
  <2>0. CASE p.port # None /\ n.type # "SRV"
    BY <1>4, <2>0, Zenon DEF ServeService, Within
  <2>2. CASE p.port = None /\ n.type = "SRV"
    <3>1. n.type \notin AddrTypes \cup {"CNAME"}
      BY <2>2 DEF AddrTypes
    <3>2. QED
      BY <1>4, <2>2, <3>1, Zenon DEF ServeService, Within
  <2>3. CASE p.port = None /\ n.type # "SRV" /\ n.type \notin AddrTypes \cup {"CNAME"}
    BY <1>4, <2>3, Zenon DEF ServeService, Within
  <2>4. CASE p.port = None /\ n.type # "SRV" /\ n.type \in AddrTypes \cup {"CNAME"}
    <3>1. own = R({}) /\ all = R(up)
      BY <1>4, <2>4, Zenon DEF ServeService
    <3>2. ExternalAddrs(n, ips, ext.hosts, {}) \subseteq ExternalAddrs(n, ips, ext.hosts, up)
      BY Zenon DEF ExternalAddrs
    <3>3. \A y, z : Answered(y, z).ans = y /\ Answered(y, z).kind \in {"answer", "nodata"}
      BY DEF Answered, nodata, Msg
    <3> DEFINE less == ExternalAddrs(n, ips, ext.hosts, {})
               more == ExternalAddrs(n, ips, ext.hosts, up)
    <3> HIDE DEF own, all, less, more
    <3>4. own.ans = less /\ all.ans = more /\ all.kind \in {"answer", "nodata"}
      BY <3>1, <3>3, Zenon DEF less, more
    <3>5. less \subseteq more
      BY <3>2, Zenon DEF less, more
    <3>6. QED
      BY <3>4, <3>5, Zenon DEF own, all, Within
  <2>5. QED
    BY <2>0, <2>1, <2>2, <2>3, <2>4, Zenon
<1>5. QED
  BY <1>1, <1>2, <1>3, <1>4, Zenon

(* What serve of k8s_external makes of the service alone is in its answer. *)
LEMMA ExternalStable ==
    ASSUME NEW st, NEW key \in Keys, NEW a, ShowsOnly(a, st, key), NEW v, Agrees(v, st, key),
           NEW c, NEW x, NEW n, n.rev => Sole(v, key, n.ip), NEW up
    PROVE  Within(serve(x, c, a, n, {}), serve(x, c, v, n, up))
<1> DEFINE own == serve(x, c, a, n, {})
           all == serve(x, c, v, n, up)
           p == Shape(x, n.name)
           name == <<p.ns, p.svc>>
           E(w, y) == ServeService(x, external_addrs(c, w, name), n, p, y)
<1>1. CASE n.rev
  <2>1. own = ServeReverse(a, n) /\ all = ServeReverse(v, n)
    BY <1>1, Zenon DEF serve
  <2>2. SameOwner(a, v, key, n.ip)
    BY <1>1, ByIpSame, Zenon
  <2>3. <<"svcs", NoKey>> \in Slots
    BY DEF Slots, Lookups
  <2>4. a[<<"svcs", NoKey>>].services[key] = v[<<"svcs", NoKey>>].services[key]
    BY <2>3, Zenon DEF ShowsOnly, Agrees
  <2> DEFINE o == service_by_external_ip(a[<<"by_ip", NoKey>>], n.ip)
  <2>5. o = service_by_external_ip(v[<<"by_ip", NoKey>>], n.ip) /\ o \in {key, NoKey}
    BY <2>2, Zenon DEF SameOwner
  <2>6. CASE o = NoKey
    BY <2>1, <2>5, <2>6, Zenon DEF ServeReverse, Within
  <2>7. CASE o = key /\ o # NoKey
    BY <2>1, <2>4, <2>5, <2>7, Zenon DEF ServeReverse, Within
  <2>8. QED
    BY <2>5, <2>6, <2>7, Zenon
<1>2. CASE ~n.rev
  <2> DEFINE s == n.name
  <2>0. s = <<>> => Len(s) # 1
    OBVIOUS
  <2>1. own = all \/ (own = E(a, {}) /\ all = E(v, up))
    <3>1. CASE s = <<>>
      BY <1>2, <2>0, <3>1, Zenon DEF serve
    <3>2. CASE s # <<>> /\ s[1] = x.apex
      <4>1. s = <<x.apex, "ns1">> => Len(s) # 1
        OBVIOUS
      <4>2. CASE Len(s) = 1
        BY <1>2, <3>2, <4>1, <4>2, Zenon DEF serve
      <4>3. CASE s = <<x.apex, "ns1">>
        BY <1>2, <3>2, <4>1, <4>3, Zenon DEF serve
      <4>4. CASE Len(s) # 1 /\ s # <<x.apex, "ns1">>
        BY <1>2, <3>2, <4>4, Zenon DEF serve
      <4>5. QED
        BY <4>2, <4>3, <4>4, Zenon
    <3>3. CASE s # <<>> /\ s[1] # x.apex /\ Len(s) = 1
      BY <1>2, <3>3, Zenon DEF serve
    <3>4. CASE s # <<>> /\ s[1] # x.apex /\ Len(s) # 1
      BY <1>2, <3>4, Zenon DEF serve
    <3>5. QED
      BY <3>1, <3>2, <3>3, <3>4, Zenon
  <2>2. CASE own = E(a, {}) /\ all = E(v, up)
    <3>1. CASE external_addrs(c, a, name) = Absent
      <4>1. ~Absent.found
        BY DEF Absent
      <4>2. own = NotOurs
        BY <2>2, <3>1, <4>1, Zenon DEF ServeService
      <4>3. QED
        BY <4>2, Zenon DEF Within
    <3>2. CASE external_addrs(c, a, name) = external_addrs(c, v, name)
      BY <2>2, <3>2, ServiceGrows, Zenon
    <3>3. external_addrs(c, a, name) = Absent \/ external_addrs(c, a, name) = external_addrs(c, v, name)
      BY ExtSame
    <3>4. QED
      BY <3>1, <3>2, <3>3, Zenon
  <2>3. QED
    BY <2>1, <2>2, Zenon DEF Within
<1>3. QED
  BY <1>1, <1>2, Zenon

(* The last step of serve_dns, of either plugin. *)
Final(out, fallthrough, m) ==
    CASE out                   -> Msg("next", {}, {})
      [] ~out /\ m.kind = "none" -> IF fallthrough THEN Msg("next", {}, {}) ELSE nxdomain
      [] OTHER                 -> m

(* It keeps what the service alone would answer. *)
Kept(own, all) ==
    /\ own.ans \subseteq all.ans
    /\ own.kind \in {"answer", "nodata"} => all.kind \in {"answer", "nodata"}

LEMMA FinalStable ==
    ASSUME NEW own, NEW all, Within(own, all), NEW out, NEW ft
    PROVE  Kept(Final(out, ft, own), Final(out, ft, all))
<1>1. /\ Msg("next", {}, {}).ans = {} /\ nxdomain.ans = {} /\ NotOurs.kind = "none"
      /\ Msg("next", {}, {}).kind \notin {"answer", "nodata"}
      /\ nxdomain.kind \notin {"answer", "nodata"}
  BY DEF Msg, nxdomain, NotOurs
<1>2. CASE out
  <2>1. Final(out, ft, own) = Final(out, ft, all)
    BY <1>2, Zenon DEF Final
  <2>2. QED
    BY <2>1, Zenon DEF Kept
<1>3. CASE ~out /\ own.kind = "none"
  <2>1. Final(out, ft, own) \in {Msg("next", {}, {}), nxdomain}
    BY <1>3, Zenon DEF Final
  <2>2. QED
    BY <1>1, <2>1, Zenon DEF Kept
<1>4. CASE ~out /\ own.kind # "none"
  <2>1. Final(out, ft, own) = own
    BY <1>4, Zenon DEF Final
  <2>2. CASE own = all
    BY <2>2, Zenon DEF Kept
  <2>3. CASE own.ans \subseteq all.ans /\ all.kind \in {"answer", "nodata"}
    <3>1. all.kind # "none"
      BY <2>3
    <3>2. Final(out, ft, all) = all
      BY <1>4, <3>1, Zenon DEF Final
    <3>3. QED
      BY <2>1, <2>3, <3>2, Zenon DEF Kept
  <2>4. QED
    BY <1>1, <1>4, <2>2, <2>3, Zenon DEF Within
<1>5. QED
  BY <1>2, <1>3, <1>4, Zenon

(* A reverse question to the kubernetes plugin. *)
LEMMA ReverseStable ==
    ASSUME NEW st, NEW key \in Keys, st.services[key] # NoSvc, NEW c, NEW n,
           NEW a, ShowsOnly(a, st, key), NEW v, Agrees(v, st, key), Sole(v, key, n.ip)
    PROVE  Within(serve_reverse(c, a, n), serve_reverse(c, v, n))
<1> DEFINE A == PtrTargets(c, a, n.ip)
           V == PtrTargets(c, v, n.ip)
           M(T) == Msg("answer", {RR(<<>>, "PTR", n.ip, t) : t \in T}, {})
<1>1. A \subseteq V
  BY PtrStable, Zenon
<1> HIDE DEF A, V
<1>2. CASE A = {}
  <2>1. serve_reverse(c, a, n) = NotOurs
    BY <1>2, Zenon DEF serve_reverse, A
  <2>2. QED
    BY <2>1, Zenon DEF Within
<1>3. CASE A # {} /\ n.type \notin {"PTR", "ANY"}
  <2>1. serve_reverse(c, a, n) = nodata /\ serve_reverse(c, v, n) = nodata
    BY <1>1, <1>3, Zenon DEF serve_reverse, A, V
  <2>2. QED
    BY <2>1, Zenon DEF Within
<1>4. CASE A # {} /\ n.type \in {"PTR", "ANY"}
  <2>1. serve_reverse(c, a, n) = M(A) /\ serve_reverse(c, v, n) = M(V)
    BY <1>1, <1>4, Zenon DEF serve_reverse, A, V
  <2>2. M(A).ans \subseteq M(V).ans /\ M(V).kind = "answer"
    BY <1>1 DEF Msg
  <2>3. QED
    BY <2>1, <2>2, Zenon DEF Within
<1>5. QED
  BY <1>2, <1>3, <1>4, Zenon

(* A service that does not change while a query is answered is served from *)
(* what it is, whatever happens to the others meanwhile.                   *)
THEOREM StableAnsweredHolds == KubeSpec => []StableAnswered
<1>1. ServeInv => StableAnswered
  <2> SUFFICES ASSUME ServeInv, reply # NoReply, NEW key \in Keys,
                      \A i \in Moments : Alone(hist[i], key) = Alone(hist[1], key),
                      hist[1].services[key] # NoSvc,
                      q.rev => \A i \in Moments, o \in Keys \ {key} : hist[i].services[o] # NoSvc =>
                        q.ip \notin hist[i].services[o].cluster_ips \cup hist[i].services[o].external_ips,
                      parse_name(q.name).kind = "svc" \/ config.plugin = "k8s_external" \/ q.rev
               PROVE  Kept(Reply(config, Everywhere(Alone(hist[1], key)), q, {}), reply)
    BY Zenon DEF StableAnswered, Kept
  <2> DEFINE st == hist[1]
             a == Everywhere(Alone(st, key))
             own == Reply(config, a, q, {})
  <2>1. /\ \A i \in Moments : HasMaps(hist[i])
        /\ 1 \in Moments
        /\ \A s \in Slots : \E i \in Moments : View[s] = hist[i]
    BY DEF ServeInv, Moments, View
  <2>0. HasMaps(st)
    BY <2>1
  <2>2. ShowsOnly(a, st, key)
    BY <2>0, AloneShows
  <2>3. Agrees(View, st, key)
    <3>1. ASSUME NEW i \in Moments
          PROVE  /\ hist[i].services[key] = st.services[key] /\ hist[i].endpoints[key] = st.endpoints[key]
                 /\ hist[i].namespaces = st.namespaces
      <4>1. HasMaps(hist[i]) /\ Alone(hist[i], key) = Alone(st, key)
        BY <2>1, Zenon
      <4> DEFINE t == hist[i]
      <4> HIDE DEF t, st
      <4>2. QED
        BY <2>0, <4>1, AloneEqual, Zenon DEF t
    <3> HIDE DEF st
    <3>2. ASSUME NEW s \in Slots
          PROVE  /\ View[s].services[key] = st.services[key] /\ View[s].endpoints[key] = st.endpoints[key]
                 /\ View[s].namespaces = st.namespaces
      <4>1. PICK i \in Moments : View[s] = hist[i]
        BY <2>1, Zenon
      <4>2. QED
        BY <3>1, <4>1, Zenon
    <3>3. QED
      BY <3>2, Zenon DEF Agrees
  <2>4. q.rev => Sole(View, key, q.ip)
    <3> SUFFICES ASSUME q.rev, NEW s \in Slots, NEW o \in Keys, o # key, View[s].services[o] # NoSvc
                 PROVE  q.ip \notin View[s].services[o].cluster_ips \cup View[s].services[o].external_ips
      BY Zenon DEF Sole
    <3>1. PICK i \in Moments : View[s] = hist[i]
      BY <2>1, Zenon
    <3>2. o \in Keys \ {key}
      OBVIOUS
    <3>3. QED
      BY <3>1, <3>2, Zenon
  <2>5. PICK up : reply = Reply(config, View, q, up)
    BY Zenon DEF ServeInv, Replied
  <2>6. CASE config.plugin = "kubernetes"
    <3> DEFINE m(v, y) == IF q.rev THEN serve_reverse(k, v, q) ELSE serve_forward(k, v, q, y)
    <3>1. own = Final(q.out, k.fallthrough, m(a, {})) /\ reply = Final(q.out, k.fallthrough, m(View, up))
      BY <2>5, <2>6, Zenon DEF Reply, serve_dns, Final, k
    <3>2. Within(m(a, {}), m(View, up))
      <4>1. CASE q.rev
        BY <2>2, <2>3, <2>4, <4>1, ReverseStable, Zenon
      <4>2. CASE ~q.rev
        <5> DEFINE p == parse_name(q.name)
        <5>1. p.kind = "svc"
          BY <2>6, <4>2
        <5>2. /\ m(a, {}) = ServeSvc(k, a, q, p, {})
              /\ m(View, up) = ServeSvc(k, View, q, p, up)
          BY <4>2, <5>1 DEF serve_forward
        <5>3. QED
          BY <2>2, <2>3, <5>2, SvcStable, Zenon
      <4>3. QED
        BY <4>1, <4>2, Zenon
    <3>3. QED
      BY <3>1, <3>2, FinalStable, Zenon
  <2>7. CASE config.plugin # "kubernetes"
    <3> DEFINE m(v, y) == serve(config.x, k, v, q, y)
    <3>1. /\ own = Final(q.out, config.x.fallthrough, m(a, {}))
          /\ reply = Final(q.out, config.x.fallthrough, m(View, up))
      BY <2>5, <2>7, Zenon DEF Reply, serve_external, Final, k
    <3>2. Within(m(a, {}), m(View, up))
      BY <2>2, <2>3, <2>4, ExternalStable, Zenon
    <3>3. QED
      BY <3>1, <3>2, FinalStable, Zenon
  <2>8. QED
    BY <2>6, <2>7, Zenon
<1>2. QED
  BY <1>1, RepliesFromView, PTL

=============================================================================
