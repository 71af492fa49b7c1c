----------------------------- MODULE KubeAnswer -----------------------------
(***************************************************************************)
(* How the kubernetes and k8s_external plugins make an answer out of the   *)
(* store (src/plugins/kubernetes/mod.rs, src/plugins/k8s_external.rs).     *)
(*                                                                         *)
(* A name is the sequence of its labels below the zone, from the zone      *)
(* down, as parse_name and serve look at it.  The store is a record of     *)
(* what its maps say: `services`, `endpoints` (slices merged), `pods` and  *)
(* `namespaces`; the reverse indexes are read as the lookups that          *)
(* KubeIndex and KubeEndpoints show them to be.  The handlers take one     *)
(* lock per lookup, so the store may differ from one to the next: `at[w]`  *)
(* is the store at the lookup that Slots names w.                          *)
(*                                                                         *)
(* TTLs, SRV weights and port numbers are left out, and what an SOA or TXT *)
(* record holds.                                                           *)
(***************************************************************************)
EXTENDS Naturals, FiniteSets, Sequences, Functions

CONSTANTS
    Keys,           \* <<namespace, name>> of the services
    NoKey, NoSvc,
    Family,         \* address -> "A" or "AAAA"
    Dashed,         \* address -> the label dashed() makes of it
    Strip,          \* "_http" -> "http": the labels that start with '_'
    Outside         \* names outside the zone (ExternalName, hostnames)

None == ""          \* an absent name, host, port or protocol

Addrs == DOMAIN Family
AddrTypes == {"A", "AAAA", "ANY"}

RR(owner, type, ip, target) ==
    [owner |-> owner, type |-> type, ip |-> ip, target |-> target]

is_wild(s) == s \in {"*", "any"}
undash(l)  == {ip \in Addrs : Dashed[ip] = l}
-----------------------------------------------------------------------------
(* parse_name *)
P(kind, ns, svc, ep, port, proto) ==
    [kind |-> kind, ns |-> ns, svc |-> svc, ep |-> ep, port |-> port, proto |-> proto]
Root(kind, ns) == P(kind, ns, None, None, None, None)

parse_name(s) ==
    LET n == Len(s)
        under(i) == s[i] \in DOMAIN Strip
    IN CASE n = 0                       -> Root("apex", None)
         [] s = <<"dns">>               -> Root("root", None)
         [] s = <<"dns", "ns">>         -> Root("nsdns", None)
         [] s = <<"dns-version">>       -> Root("version", None)
         [] n = 1 /\ s[1] \in {"svc", "pod"} -> Root("root", None)
         [] n = 2 /\ s[1] \in {"svc", "pod"} -> Root("nsroot", s[2])
         [] n = 3 /\ s[1] = "pod"       -> P("pod", s[2], s[3], None, None, None)
         [] n = 3 /\ s[1] = "svc"       -> P("svc", s[2], s[3], None, None, None)
         [] n = 4 /\ s[1] = "svc" /\ ~under(4) -> P("svc", s[2], s[3], s[4], None, None)
         [] n = 5 /\ s[1] = "svc" /\ under(4) /\ under(5) ->
              P("svc", s[2], s[3], None, Strip[s[5]], Strip[s[4]])
         [] n = 5 /\ s[1] = "svc" /\ under(4) /\ is_wild(s[5]) ->
              P("svc", s[2], s[3], None, "*", Strip[s[4]])
         [] OTHER                       -> Root("invalid", None)

port_matches(p, port, proto) ==
    port # None =>
        /\ is_wild(port) \/ p.name = port
        /\ proto = None \/ is_wild(proto) \/ p.proto = proto
-----------------------------------------------------------------------------
(* The messages: what serve_forward and serve_reverse return; "none" is    *)
(* Ok(None), on which serve_dns falls through or says NXDOMAIN.            *)
Msg(kind, ans, add) == [kind |-> kind, ans |-> ans, add |-> add]
nodata   == Msg("nodata", {}, {})
nxdomain == Msg("nxdomain", {}, {})
NotOurs  == Msg("none", {}, {})
Answered(ans, add) == IF ans = {} THEN nodata ELSE Msg("answer", ans, add)

addr_records(owner, ips, qtype) ==
    {RR(owner, Family[ip], ip, <<>>) : ip \in {i \in ips : qtype \in {Family[i], "ANY"}}}

endpoint_hostname(k, e) ==
    CASE e.host # None -> e.host
      [] e.host = None /\ k.endpoint_pod_names /\ e.pod # None -> e.pod
      [] OTHER -> Dashed[e.ips[1]]

namespace_exposed(k, st, ns) ==
    /\ k.namespaces = {} \/ ns \in k.namespaces
    /\ ns \in st.namespaces

ReadyIgnored(st, key, svc) == st.endpoints[key]     \* mutant: not ready is answered too

ready_endpoints(st, key, svc) == {e \in st.endpoints[key] : e.ready \/ svc.publish_not_ready}

SvcName(key)    == <<"svc", key[1], key[2]>>
EpName(k, key, e) == Append(SvcName(key), endpoint_hostname(k, e))

(* service_by_ip, service_by_external_ip: the key, or NoKey *)
KeyOf(keys) == IF keys = {} THEN NoKey ELSE CHOOSE key \in keys : TRUE
service_by_ip(st, ip) ==
    KeyOf({key \in Keys : st.services[key] # NoSvc /\ ip \in st.services[key].cluster_ips})
service_by_external_ip(st, ip) ==
    KeyOf({key \in Keys : st.services[key] # NoSvc /\ ip \in st.services[key].external_ips})
OneServicePerIp(st, ip) ==      \* mutant: ep_by_ip keeps the last service of an address
    LET all == {key \in Keys : \E e \in st.endpoints[key] : ip \in Range(e.ips)}
    IN IF all = {} THEN {} ELSE {CHOOSE key \in all : TRUE}

services_by_endpoint_ip(st, ip) ==
    {key \in Keys : \E e \in st.endpoints[key] : ip \in Range(e.ips)}

(* ns_addrs: the cluster addresses of the services in front of this server, *)
(* or its own.                                                             *)
ns_addrs(k, at, qtype) ==
    LET fronts == UNION {services_by_endpoint_ip(at[<<"ep_by_ip", NoKey>>], lip) : lip \in k.local_ips}
        ips == UNION {at[<<"svc", key>>].services[key].cluster_ips :
                        key \in {f \in fronts : at[<<"svc", f>>].services[f] # NoSvc}}
    IN addr_records(<<"dns", "ns">>, IF ips = {} THEN k.local_ips ELSE ips, qtype)
-----------------------------------------------------------------------------
(* service_records: (answers, extras, found).  `up` is what a lookup of an *)
(* outside name through the server returned.                               *)
Result(ans, ext, found) == [ans |-> ans, ext |-> ext, found |-> found]
NotFound == Result({}, {}, FALSE)

ExternalRecords(svc, q, p, up) ==
    IF p.ep # None \/ p.port # None THEN NotFound
    ELSE IF q.type \notin AddrTypes \cup {"CNAME"} THEN Result({}, {}, TRUE)
    ELSE Result({RR(q.name, "CNAME", None, <<svc.external_name>>)}
                \cup (IF q.type \in {"A", "AAAA"} /\ svc.external_name \in Outside
                      THEN up ELSE {}), {}, TRUE)

EndpointRecords(k, key, svc, eps, q, p) ==
    LET hit == {e \in eps : p.ep = None \/ is_wild(p.ep) \/ p.ep = endpoint_hostname(k, e)}
        srv == {e \in hit : \E x \in e.ports : port_matches(x, p.port, p.proto)}
        owner == IF p.ep # None THEN q.name ELSE SvcName(key)
        srvOwner == IF p.port # None THEN q.name ELSE SvcName(key)
        ans == CASE q.type = "SRV" -> {RR(srvOwner, "SRV", None, EpName(k, key, e)) : e \in srv}
                 [] q.type \in AddrTypes /\ p.port = None ->
                      UNION {addr_records(owner, Range(e.ips), q.type) : e \in hit}
                 [] OTHER -> {}
        ext == IF q.type # "SRV" THEN {}
               ELSE UNION {addr_records(EpName(k, key, e), Range(e.ips), "ANY") : e \in srv}
    IN IF \/ k.ignore_empty_service /\ eps = {} /\ svc.headless
          \/ p.ep # None /\ hit = {}
          \/ p.port # None /\ ans = {} /\ q.type = "SRV"
       THEN NotFound ELSE Result(ans, ext, TRUE)

ClusterRecords(k, key, svc, eps, q, p) ==
    LET some == \E x \in svc.ports : port_matches(x, p.port, p.proto)
        srvOwner == IF p.port # None THEN q.name ELSE SvcName(key)
    IN IF k.ignore_empty_service /\ eps = {} THEN NotFound
       ELSE CASE q.type = "SRV" /\ some ->
                   Result({RR(srvOwner, "SRV", None, SvcName(key))},
                          addr_records(SvcName(key), svc.cluster_ips, "ANY"), TRUE)
              [] q.type = "SRV" /\ ~some ->
                   IF p.port # None THEN NotFound
                   ELSE Result({}, addr_records(SvcName(key), svc.cluster_ips, "ANY"), TRUE)
              [] q.type # "SRV" /\ p.port # None -> Result({}, {}, some)
              [] q.type \in AddrTypes /\ p.port = None ->
                   Result(addr_records(SvcName(key), svc.cluster_ips, q.type), {}, TRUE)
              [] OTHER -> Result({}, {}, TRUE)

service_records(k, key, svc, at, q, p, up) ==
    LET eps == ready_endpoints(at[<<"eps", key>>], key, svc) IN
    CASE svc.external_name # None -> ExternalRecords(svc, q, p, up)
      [] svc.external_name = None /\ (svc.headless \/ p.ep # None) ->
           EndpointRecords(k, key, svc, eps, q, p)
      [] OTHER -> ClusterRecords(k, key, svc, eps, q, p)
-----------------------------------------------------------------------------
(* serve_forward, by what the name means *)
Found(k, at, p) ==
    LET st == at[<<"svcs", NoKey>>] IN
    {key \in Keys : /\ st.services[key] # NoSvc
                    /\ is_wild(p.ns) \/ key[1] = p.ns
                    /\ is_wild(p.svc) \/ key[2] = p.svc
                    /\ (is_wild(p.ns) \/ is_wild(p.svc)) =>
                         namespace_exposed(k, at[<<"filter", key>>], key[1])}

ServeSvc(k, at, q, p, up) ==
    LET found == Found(k, at, p)
        res == [key \in found |->
                  service_records(k, key, at[<<"svcs", NoKey>>].services[key], at, q, p, up)]
    IN IF \/ ~is_wild(p.ns) /\ ~namespace_exposed(k, at[<<"ns", NoKey>>], p.ns)
          \/ \A key \in found : ~res[key].found
       THEN NotOurs
       ELSE Answered(UNION {res[key].ans : key \in found}, UNION {res[key].ext : key \in found})

ServePod(k, at, q, p) ==
    LET stored == {[ns |-> o.ns, name |-> o.name] : o \in at[<<"pods", NoKey>>].pods}
        owners(ip) == {o \in at[<<"pod_by_ip", NoKey>>].pods :
                         o.ip = ip /\ [ns |-> o.ns, name |-> o.name] \in stored}
        ips == undash(p.svc)
    IN IF \/ k.pods = "disabled"
          \/ ~is_wild(p.ns) /\ k.namespaces # {} /\ p.ns \notin k.namespaces
          \/ ips = {}
          \/ k.pods = "verified" /\ ~\E ip \in ips : \E o \in owners(ip) : is_wild(p.ns) \/ o.ns = p.ns
       THEN NotOurs
       ELSE Answered(addr_records(q.name, ips, q.type), {})

serve_forward(k, at, q, up) ==
    LET p == parse_name(q.name) IN
    CASE p.kind = "apex" ->
           CASE q.type \in {"SOA", "ANY"} -> Msg("answer", {RR(<<>>, "SOA", None, <<>>)}, {})
             [] q.type = "NS" -> Msg("answer", {RR(<<>>, "NS", None, <<"dns", "ns">>)},
                                     ns_addrs(k, at, "ANY"))
             [] OTHER -> nodata
      [] p.kind = "root"    -> nodata
      [] p.kind = "nsdns"   -> Answered(ns_addrs(k, at, q.type), {})
      [] p.kind = "version" -> IF q.type \in {"TXT", "ANY"}
                               THEN Msg("answer", {RR(q.name, "TXT", None, <<>>)}, {}) ELSE nodata
      [] p.kind = "nsroot"  -> IF is_wild(p.ns) \/ namespace_exposed(k, at[<<"ns", NoKey>>], p.ns)
                               THEN nodata ELSE NotOurs
      [] p.kind = "svc"     -> ServeSvc(k, at, q, p, up)
      [] p.kind = "pod"     -> ServePod(k, at, q, p)
      [] p.kind = "invalid" -> NotOurs

(* serve_reverse: the name is the address. *)
PtrOfHidden(k, at, ip) ==       \* mutant: a service that is not exposed has a PTR too
    LET via(key) == {EpName(k, key, e) : e \in
            {x \in ready_endpoints(at[<<"eps", key>>], key, at[<<"svc", key>>].services[key]) :
               ip \in Range(x.ips)}}
    IN UNION {via(key) : key \in
              {x \in services_by_endpoint_ip(at[<<"ep_by_ip", NoKey>>], ip) :
                 at[<<"svc", x>>].services[x] # NoSvc}}

PtrTargets(k, at, ip) ==
    LET owner == service_by_ip(at[<<"by_ip", NoKey>>], ip)
        direct == IF owner # NoKey /\ at[<<"svcs", NoKey>>].services[owner] # NoSvc
                     /\ namespace_exposed(k, at[<<"ns", NoKey>>], owner[1])
                  THEN {SvcName(owner)} ELSE {}
        via(key) == {EpName(k, key, e) : e \in
            {x \in ready_endpoints(at[<<"eps", key>>], key, at[<<"svc", key>>].services[key]) :
               ip \in Range(x.ips)}}
    IN IF direct # {} THEN direct
       ELSE UNION {via(key) : key \in
              {x \in services_by_endpoint_ip(at[<<"ep_by_ip", NoKey>>], ip) :
                 /\ namespace_exposed(k, at[<<"filter", x>>], x[1])
                 /\ at[<<"svc", x>>].services[x] # NoSvc}}

serve_reverse(k, at, q) ==
    LET targets == PtrTargets(k, at, q.ip) IN
    IF targets = {} THEN NotOurs
    ELSE IF q.type \notin {"PTR", "ANY"} THEN nodata
    ELSE Msg("answer", {RR(<<>>, "PTR", q.ip, t) : t \in targets}, {})

(* serve_dns of the kubernetes plugin: what is not in its zones or not of  *)
(* class IN goes to the next plugin.                                       *)
serve_dns(k, at, q, up) ==
    LET m == IF q.rev THEN serve_reverse(k, at, q) ELSE serve_forward(k, at, q, up) IN
    CASE q.out             -> Msg("next", {}, {})
      [] ~q.out /\ m.kind = "none" -> IF k.fallthrough THEN Msg("next", {}, {}) ELSE nxdomain
      [] OTHER             -> m
=============================================================================
