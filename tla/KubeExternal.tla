---------------------------- MODULE KubeExternal ----------------------------
(***************************************************************************)
(* The k8s_external plugin (src/plugins/k8s_external.rs): the services     *)
(* under an external zone, as <service>.<namespace>.<zone>, looked up      *)
(* through external_addrs and external_reverse of the kubernetes plugin.   *)
(* Names are sequences of labels below the zone, as in KubeAnswer.         *)
(***************************************************************************)
EXTENDS KubeAnswer

CONSTANTS HostIps       \* the addresses of the interfaces, loopback left out

(* external_addrs of the kubernetes plugin *)
Absent == [found |-> FALSE, ips |-> {}, hosts |-> {}, eps |-> {}, ports |-> {}]
external_addrs(k, at, key) ==
    LET svc == at[<<"svcs", NoKey>>].services[key] IN
    IF \/ key \notin Keys
       \/ ~namespace_exposed(k, at[<<"ns", NoKey>>], key[1])
       \/ svc = NoSvc
    THEN Absent
    ELSE [found |-> TRUE, ips |-> svc.external_ips, hosts |-> svc.external_hosts,
          eps |-> IF ~svc.headless THEN {}
                  ELSE {[host |-> endpoint_hostname(k, e), ips |-> Range(e.ips)] :
                          e \in ready_endpoints(at[<<"eps", key>>], key, svc)},
          ports |-> svc.ports]

(* The shape of the name: service, port and protocol, or endpoint. *)
Shape(x, s) ==
    LET under(i) == s[i] \in DOMAIN Strip IN
    CASE Len(s) = 2 -> P("svc", s[1], s[2], None, None, None)
      [] Len(s) = 3 /\ x.headless /\ ~under(3) -> P("svc", s[1], s[2], s[3], None, None)
      [] Len(s) = 4 /\ under(3) /\ under(4) ->
           P("svc", s[1], s[2], None, Strip[s[4]], Strip[s[3]])
      [] OTHER -> Root("invalid", None)

(* A and AAAA records, or the CNAMEs of a load balancer's host names with  *)
(* what the server itself answers for them.                                *)
ExternalAddrs(q, ips, hosts, up) ==
    addr_records(q.name, ips, q.type)
    \cup (IF ips = {} \/ q.type = "CNAME"
          THEN {RR(q.name, "CNAME", None, <<h>>) : h \in hosts}
               \cup (IF q.type \in {"A", "AAAA"} /\ hosts # {} THEN up ELSE {})
          ELSE {})

(* The answer, from what external_addrs found of the service. *)
ServeService(x, ext, q, p, up) ==
    LET base == <<p.ns, p.svc>>
        eps == IF x.headless THEN ext.eps ELSE {}
        named == {e \in ext.eps : e.host = p.ep}
        ips == ext.ips \cup UNION {e.ips : e \in eps}
        targets == IF eps = {} THEN {[name |-> base, ips |-> ips]}
                   ELSE {[name |-> Append(base, e.host), ips |-> e.ips] : e \in eps}
        srv == {RR(q.name, "SRV", None, t.name) : t \in targets}
        add == UNION {addr_records(t.name, t.ips, "ANY") : t \in targets}
        name == {y \in ext.ports : p.port \in {"*", y.name}}
        port == {y \in name : p.proto \in {"*", y.proto}}
    IN CASE ~ext.found -> NotOurs
         [] ext.found /\ p.ep # None ->
              IF named = {} THEN NotOurs
              ELSE Answered(addr_records(q.name, (CHOOSE e \in named : TRUE).ips, q.type), {})
         [] ext.found /\ p.ep = None /\ ips = {} /\ ext.hosts = {} -> NotOurs
         [] OTHER ->
              CASE p.port # None /\ q.type = "SRV" ->
                     IF port # {} THEN Answered(srv, add) ELSE NotOurs
                [] p.port # None /\ q.type # "SRV" -> IF name # {} THEN nodata ELSE NotOurs
                [] p.port = None /\ q.type = "SRV" ->
                     Msg("answer", IF ext.ports = {} THEN {} ELSE srv, add)
                [] p.port = None /\ q.type \in AddrTypes \cup {"CNAME"} ->
                     Answered(ExternalAddrs(q, ips, ext.hosts, up), {})
                [] OTHER -> nodata

ServeReverse(at, q) ==
    LET key == service_by_external_ip(at[<<"by_ip", NoKey>>], q.ip) IN
    CASE key = NoKey \/ at[<<"svcs", NoKey>>].services[key] = NoSvc -> NotOurs
      [] q.type \in {"PTR", "ANY"} -> Msg("answer", {RR(<<>>, "PTR", q.ip, key)}, {})
      [] OTHER -> nodata

serve(x, k, at, q, up) ==
    LET s == q.name
        p == Shape(x, s)
    IN CASE q.rev -> ServeReverse(at, q)
         [] ~q.rev /\ s = <<>> ->
              CASE q.type \in {"SOA", "ANY"} -> Msg("answer", {RR(<<>>, "SOA", None, <<>>)}, {})
                [] q.type = "NS" -> Msg("answer", {RR(<<>>, "NS", None, <<x.apex, "ns1">>)}, {})
                [] OTHER -> nodata
         [] ~q.rev /\ s # <<>> /\ s[1] = x.apex ->
              CASE Len(s) = 1 -> nodata
                [] s = <<x.apex, "ns1">> -> Answered(addr_records(s, HostIps, q.type), {})
                [] OTHER -> NotOurs
         [] ~q.rev /\ Len(s) = 1 /\ s[1] # x.apex -> nodata
         [] OTHER -> IF p.kind = "invalid" THEN NotOurs
                     ELSE ServeService(x, external_addrs(k, at, <<p.ns, p.svc>>), q, p, up)

serve_external(x, k, at, q, up) ==
    LET m == serve(x, k, at, q, up) IN
    CASE q.out -> Msg("next", {}, {})
      [] ~q.out /\ m.kind = "none" -> IF x.fallthrough THEN Msg("next", {}, {}) ELSE nxdomain
      [] OTHER -> m
=============================================================================
