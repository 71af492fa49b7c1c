----------------------------- MODULE MCKubeServe -----------------------------
(* Queries over a store with two namespaces that have a service of the     *)
(* same name each, and three addresses; at rest an ExternalName service    *)
(* has no endpoints.  Beside them, the index of the endpoints under its    *)
(* watcher, as MCKubeEndpoints sets it up: a behaviour follows one of the  *)
(* two.                                                                    *)
EXTENDS KubeServe, MCKubeEndpoints, TLC
VARIABLE part

K1 == <<"n1", "a">>
K2 == <<"n2", "a">>
MCKeys   == {K1, K2}
MCFamily == [i4 |-> "A", j4 |-> "A", i6 |-> "AAAA"]
MCDashed == [i4 |-> "1-1", j4 |-> "2-2", i6 |-> "3-3"]
MCStrip  == [_http |-> "http", _tcp |-> "tcp", _none |-> "none"]
MCOutside == {"out"}

Http == [name |-> "http", proto |-> "tcp"]
Raw(type, ips, name, ext, hosts) ==
    [type |-> type, cluster_ips |-> ips, external_name |-> name, ports |-> {Http},
     publish_not_ready |-> FALSE, external_ips |-> ext, ingress_ips |-> {}, ingress_hosts |-> hosts]
Early == [Raw("ClusterIP", {"None"}, "", {}, {}) EXCEPT !.publish_not_ready = TRUE]
MCRaw == {Raw("ClusterIP", {"i4"}, "", {}, {}), Raw("ClusterIP", {"None"}, "", {"i4"}, {}), Early,
          Raw("ExternalName", {}, "out", {}, {}), Raw("LoadBalancer", {"j4", "i6"}, "", {"i4"}, {}),
          Raw("LoadBalancer", {"j4"}, "", {}, {"out"})}

E1 == [ips |-> <<"j4">>, host |-> "pg", pod |-> "p1", ready |-> TRUE, ports |-> {Http}]
E2 == [ips |-> <<"i6">>, host |-> "", pod |-> "p2", ready |-> FALSE, ports |-> {}]
MCEndpointSets == {{}, {E1}, {E1, E2}, {E2}}
MCEndpointUpdates == {{}, {E1, E2}}
MCPods == {[ip |-> "i4", ns |-> "n1", name |-> "p1"]}
MCNamespaces == {"n1", "n2"}

St(v1, v2, e1, e2, ns, ps) ==
    [services |-> K1 :> v1 @@ K2 :> v2, endpoints |-> K1 :> e1 @@ K2 :> e2,
     namespaces |-> ns, pods |-> ps]
Svcs == {convert_service(s) : s \in MCRaw} \cup {NoSvc}
Cluster == convert_service(Raw("ClusterIP", {"i4"}, "", {}, {}))
Headless == convert_service(Raw("ClusterIP", {"None"}, "", {"i4"}, {}))
MCStores == {st \in {St(v1, v2, e1, e2, ns, MCPods) : v1 \in Svcs, v2 \in Svcs,
                        e1 \in MCEndpointSets, e2 \in {{}, {E1}},
                        ns \in {MCNamespaces, {"n1"}}} :
               \A key \in Keys : st.services[key] # NoSvc =>
                 /\ Free(st, key, st.services[key].cluster_ips)
                 /\ st.services[key].external_name # None => st.endpoints[key] = {}}
MCUpdates == {Early, Raw("ExternalName", {}, "out", {}, {})}

Kube(pods, epn, ign, nss) ==
    [namespaces |-> nss, pods |-> pods, endpoint_pod_names |-> epn, fallthrough |-> FALSE,
     ignore_empty_service |-> ign, local_ips |-> {"j4"}]
Ext(headless) == [apex |-> "dns", headless |-> headless, fallthrough |-> headless]
Plain == [plugin |-> "kubernetes", k |-> Kube("verified", FALSE, FALSE, {}), x |-> Ext(FALSE)]
Outer == [plugin |-> "k8s_external", k |-> Kube("disabled", FALSE, FALSE, {}), x |-> Ext(TRUE)]
MCConfigs == {Plain, Outer,
              [plugin |-> "kubernetes", k |-> [Kube("insecure", TRUE, TRUE, {"n1"}) EXCEPT !.fallthrough = TRUE],
               x |-> Ext(FALSE)],
              [plugin |-> "k8s_external", k |-> Kube("disabled", TRUE, FALSE, {}), x |-> Ext(FALSE)]}
Exposed == St(Headless, Headless, {E1, E2}, {E1}, MCNamespaces, MCPods)
MCBusy == [config : {Plain}, store : {St(Cluster, NoSvc, {E1}, {}, MCNamespaces, MCPods), Exposed}]
          \cup [config : {Outer}, store : {Exposed}]

Q(name, type) == [name |-> name, rev |-> FALSE, ip |-> None, type |-> type, out |-> FALSE]
R(ip, type)   == [name |-> <<>>, rev |-> TRUE, ip |-> ip, type |-> type, out |-> FALSE]
MCNames == {<<"svc", "n1", "a">>, <<"svc", "*", "a">>, <<"svc", "n1", "a", "pg">>,
            <<"svc", "n1", "a", "_tcp", "_http">>, <<"svc", "n1", "a", "_tcp", "_none">>,
            <<"svc", "n1">>, <<"pod", "n1", "1-1">>, <<"dns", "ns">>, <<>>,
            <<"n1", "a">>, <<"n1", "a", "pg">>, <<"n1", "a", "_tcp", "_http">>}
MCQuestions == {Q(n, t) : n \in MCNames, t \in {"A", "SRV", "ANY"}} \cup {Q(<<>>, "NS")}
               \cup {R(ip, t) : ip \in Addrs, t \in {"PTR", "A"}}
Elsewhere == [Q(<<"x">>, "A") EXCEPT !.out = TRUE]
MCAsked == {n \in MCQuestions : n.type \in {"A", "SRV", "PTR"} /\ Len(n.name) \notin {1, 5} /\ "*" \notin Range(n.name)}
           \cup {Q(<<"svc", "n1", "a", "_tcp", "_http">>, "SRV"), Elsewhere}
-----------------------------------------------------------------------------
queriesVars == <<part, kubeVars, vars>>

IndexRests == cluster = [sl \in Objects |-> NoObject] /\ Init
QueriesRest ==          \* a name that is not the plugin's was asked for
    /\ config = Plain /\ hist = <<St(Cluster, NoSvc, {E1}, {}, MCNamespaces, MCPods)>>
    /\ q = Elsewhere /\ unread = <<>> /\ reply = NoReply /\ at = [l \in Slots |-> 1]

QueriesInit ==
    \/ part = "queries" /\ KubeInit /\ IndexRests
    \/ part = "index" /\ QueriesRest /\ Init

QueriesNext ==
    \/ part = "queries" /\ KubeNext /\ UNCHANGED <<part, vars>>
    \/ part = "index" /\ Next /\ UNCHANGED <<part, kubeVars>>

QueriesSpec == QueriesInit /\ [][QueriesNext]_queriesVars
=============================================================================
