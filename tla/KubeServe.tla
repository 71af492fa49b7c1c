------------------------------ MODULE KubeServe ------------------------------
(***************************************************************************)
(* A query to the kubernetes or k8s_external plugin while the watchers     *)
(* change the store.  Every lookup in the store takes its lock anew, and   *)
(* the runtime has several threads, so an update may come between any two  *)
(* lookups of one query.                                                   *)
(***************************************************************************)
EXTENDS KubeExternal

CONSTANTS
    Configs,        \* what setup can make of a Corefile: [plugin, k, x]
    Stores,         \* contents of the store at rest
    Questions,
    Busy,           \* [config, store]: where a query is followed lookup by lookup
    Asked,          \* the questions it may be
    RawServices,    \* Service objects the API server may report meanwhile
    EndpointSets,   \* endpoints a service may get
    Pods, Namespaces,
    MaxUpdates      \* bound: updates of the store during the query

(* A store is its four maps, and dashed() writes no two addresses the same *)
(* way.                                                                    *)
HasMaps(st) == st = [services |-> st.services, endpoints |-> st.endpoints,
                     pods |-> st.pods, namespaces |-> st.namespaces]

ASSUME KubeConstants ==
    /\ \A key \in Keys : key = <<key[1], key[2]>>
    /\ NoKey \notin Keys
    /\ \A a, b \in Addrs : Dashed[a] = Dashed[b] => a = b
    /\ \A st \in Stores : HasMaps(st)

VARIABLES
    config,
    hist,           \* the stores since the query arrived, the last one current
    q,              \* the question, or NoQuestion
    unread,         \* the lookups still to be made, in the order of the code
    at,             \* lookup -> which store of hist it has read
    reply

kubeVars == <<config, hist, q, unread, at, reply>>

NoQuestion == [name |-> <<>>, rev |-> FALSE, ip |-> None, type |-> None, out |-> TRUE]
NoReply    == Msg("waiting", {}, {})

Lookups == {"ns", "svcs", "svc", "filter", "eps", "by_ip", "ep_by_ip", "pod_by_ip", "pods"}
Slots   == Lookups \X (Keys \cup {NoKey})
Newest  == hist[Len(hist)]
-----------------------------------------------------------------------------
(* convert_service *)
convert_service(s) ==
    LET ips == s.cluster_ips \ {"None"} IN
    [cluster_ips       |-> ips,
     headless          |-> "None" \in s.cluster_ips \/ (ips = {} /\ s.type # "ExternalName"),
     external_name     |-> IF s.type = "ExternalName" THEN s.external_name ELSE None,
     ports             |-> s.ports,
     publish_not_ready |-> s.publish_not_ready,
     external_ips      |-> s.external_ips \cup s.ingress_ips,
     external_hosts    |-> s.ingress_hosts]

(* What the watchers do: apply_service and delete_service, set_slice,      *)
(* apply_pod and delete_pod, apply_namespace and delete_namespace.  The    *)
(* API server gives a cluster address to one service at a time.            *)
Free(st, key, ips) == \A other \in Keys \ {key} :
    st.services[other] # NoSvc => ips \cap st.services[other].cluster_ips = {}

Changed(st) ==
    {[st EXCEPT !.services[p[1]] = convert_service(p[2])] :
        p \in {x \in Keys \X RawServices : Free(st, x[1], x[2].cluster_ips)}}
    \cup {[st EXCEPT !.services[key] = NoSvc] : key \in Keys}
    \cup {[st EXCEPT !.endpoints[key] = eps] : key \in Keys, eps \in EndpointSets}
    \cup {[st EXCEPT !.pods = ps] : ps \in SUBSET Pods}
    \cup {[st EXCEPT !.namespaces = ns] : ns \in SUBSET Namespaces}

Update == /\ q # NoQuestion /\ reply = NoReply
          /\ Len(hist) <= MaxUpdates
          /\ \E st \in Changed(Newest) \ {Newest} : hist' = Append(hist, st)
          /\ UNCHANGED <<config, q, unread, at, reply>>
-----------------------------------------------------------------------------
(* The lookups of a query in the order of the code.  HashMap and HashSet   *)
(* give the keys in some order.                                            *)
Each(names, order) ==
    LET n == Len(names) IN
    [i \in 1..n * Len(order) |-> <<names[1 + ((i - 1) % n)], order[1 + ((i - 1) \div n)]>>]
Once(names) == [i \in DOMAIN names |-> <<names[i], NoKey>>]

Reads(plugin, n, order) ==
    LET kind == parse_name(n.name).kind IN
    CASE n.out -> <<>>
      [] plugin = "k8s_external" /\ n.rev  -> Once(<<"by_ip", "svcs">>)
      [] plugin = "k8s_external" /\ ~n.rev -> Once(<<"ns", "svcs">>) \o Each(<<"eps">>, order)
      [] plugin = "kubernetes" /\ n.rev ->
           Once(<<"by_ip", "svcs", "ns", "ep_by_ip">>) \o Each(<<"filter", "svc", "eps">>, order)
      [] OTHER ->
           CASE kind = "svc" -> Once(<<"ns", "svcs">>) \o Each(<<"filter">>, order)
                                  \o Each(<<"eps">>, order)
             [] kind \in {"apex", "nsdns"} -> Once(<<"ep_by_ip">>) \o Each(<<"svc">>, order)
             [] kind = "nsroot" -> Once(<<"ns">>)
             [] kind = "pod" -> Once(<<"pod_by_ip", "pods">>)
             [] OTHER -> <<>>

(* What a lookup through the server returns: records, or an error. *)
Upstream(n) == {{}, {RR(<<"outside">>, n.type, CHOOSE ip \in Addrs : TRUE, <<>>)}}

Reply(c, view, n, up) ==
    IF c.plugin = "kubernetes" THEN serve_dns(c.k, view, n, up)
    ELSE serve_external(c.x, c.k, view, n, up)

ReadLock ==
    /\ unread # <<>>
    /\ at' = [at EXCEPT ![Head(unread)] = Len(hist)]
    /\ unread' = Tail(unread)
    /\ UNCHANGED <<config, hist, q, reply>>

Ask == /\ q = NoQuestion
       /\ [config |-> config, store |-> hist[1]] \in Busy
       /\ \E n \in Asked, order \in Injection(1..Cardinality(Keys), Keys) :
            /\ q' = n
            /\ unread' = Reads(config.plugin, n, order)
       /\ UNCHANGED <<config, hist, at, reply>>

Answer ==
    /\ q # NoQuestion /\ unread = <<>> /\ reply = NoReply
    /\ \E up \in Upstream(q) :
         reply' = Reply(config, [w \in Slots |-> hist[at[w]]], q, up)
    /\ UNCHANGED <<config, hist, q, unread, at>>

KubeInit ==
    /\ config \in Configs
    /\ \E st \in Stores : hist = <<st>>
    /\ q = NoQuestion /\ unread = <<>> /\ reply = NoReply
    /\ at = [w \in Slots |-> 1]

KubeNext == Update \/ Ask \/ ReadLock \/ Answer
KubeSpec == KubeInit /\ [][KubeNext]_kubeVars
-----------------------------------------------------------------------------
k == config.k
Moments == DOMAIN hist

(* The service had the address as an endpoint at one moment, and it was    *)
(* ready then or the service published addresses that are not ready.       *)
HadEndpoint(key, ip) == \E i \in Moments : \E e \in hist[i].endpoints[key] :
    /\ ip \in Range(e.ips)
    /\ e.ready \/ \E j \in Moments :
         hist[j].services[key] # NoSvc /\ hist[j].services[key].publish_not_ready
HadCluster(key, ip) == \E i \in Moments :
    hist[i].services[key] # NoSvc /\ ip \in hist[i].services[key].cluster_ips

(* However the updates of the watchers fall between its lookups, a query   *)
(* for a service, an address or a pod is answered with nothing that was    *)
(* not so at some moment while it was being answered: the address belonged *)
(* to a service of that name, the service or endpoint had the address, the *)
(* pod was in that namespace (serve_forward, serve_reverse).               *)
AnswersTrue ==
    config.plugin = "kubernetes" /\ reply.kind = "answer" =>
    LET p == parse_name(q.name) IN
    /\ q.rev => \A r \in reply.ans :
         LET key == <<r.target[2], r.target[3]>> IN
         IF Len(r.target) = 3 THEN HadCluster(key, q.ip) ELSE HadEndpoint(key, q.ip)
    /\ ~q.rev /\ p.kind = "svc" =>
         \A r \in reply.ans \cup reply.add : r.ip # None /\ r.owner # <<"outside">> =>
           \E key \in Keys : /\ p.ns \in {key[1], "*", "any"}
                             /\ p.svc \in {key[2], "*", "any"}
                             /\ HadCluster(key, r.ip) \/ HadEndpoint(key, r.ip)
    /\ ~q.rev /\ p.kind = "pod" /\ k.pods = "verified" => \A r \in reply.ans :
         \E i \in Moments : \E o \in hist[i].pods : o.ip = r.ip /\ p.ns \in {o.ns, "*", "any"}

(* The store with nothing of any other service. *)
Alone(st, key) ==
    [st EXCEPT !.services = [o \in Keys |-> IF o = key THEN st.services[o] ELSE NoSvc],
               !.endpoints = [o \in Keys |-> IF o = key THEN st.endpoints[o] ELSE {}]]
Everywhere(st) == [w \in Slots |-> st]

(* A service that does not change while a query is answered is served from *)
(* what it is, whatever happens to the other services meanwhile: all that  *)
(* the query would get from it alone is in the answer, and the name is not *)
(* denied.  An address that another service has as cluster address too is  *)
(* that service's.                                                         *)
StableAnswered ==
    reply # NoReply => \A key \in Keys :
    LET own == Reply(config, Everywhere(Alone(hist[1], key)), q, {}) IN
    /\ \A i \in Moments : Alone(hist[i], key) = Alone(hist[1], key)
    /\ hist[1].services[key] # NoSvc
    /\ q.rev => \A i \in Moments, o \in Keys \ {key} : hist[i].services[o] # NoSvc =>
                  q.ip \notin hist[i].services[o].cluster_ips \cup hist[i].services[o].external_ips
    /\ parse_name(q.name).kind = "svc" \/ config.plugin = "k8s_external" \/ q.rev
    => /\ own.ans \subseteq reply.ans
       /\ own.kind \in {"answer", "nodata"} => reply.kind \in {"answer", "nodata"}
-----------------------------------------------------------------------------
(* The one below is about a store at rest. *)
Now(n) == Reply(config, Everywhere(hist[1]), n, {})
AddrsOf(name) == {r.ip : r \in Now([NoQuestion EXCEPT !.name = name, !.type = "ANY", !.out = FALSE]).ans}

(* Every name that an answer points to resolves, through the same plugin,  *)
(* to the addresses the answer gave for it: the service or endpoint a PTR  *)
(* names has the address asked for, and the targets of SRV and NS records  *)
(* have the addresses of the additional section.  (With `ignore            *)
(* empty_service` the name of a service without endpoints does not exist.) *)
NamesResolve == q = NoQuestion => \A n \in Questions :
    LET m == Now(n) IN
    /\ \A r \in m.ans : r.type = "PTR" =>
         \/ n.ip \in AddrsOf(r.target)
         \/ k.ignore_empty_service
         \/ config.plugin = "k8s_external" /\ r.target[1] \notin hist[1].namespaces
    /\ \A r \in m.ans, a \in m.add : r.type \in {"SRV", "NS"} /\ a.owner = r.target =>
         a.ip \in AddrsOf(r.target)
    /\ \A a \in m.add : \E r \in m.ans : a.owner = r.target
=============================================================================
