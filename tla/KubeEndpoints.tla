---------------------------- MODULE KubeEndpoints ----------------------------
(***************************************************************************)
(* The endpoints of the kubernetes store                                   *)
(* (src/plugins/kubernetes/store.rs): per service the addresses of each of *)
(* its EndpointSlices, and the index ep_by_ip from an address to the       *)
(* services that have it.  Every update goes through set_slice, also the   *)
(* removal of the slices that a new list no longer has, one at a time.     *)
(*                                                                         *)
(* An object of the watch is an EndpointSlice of one namespace; its value  *)
(* is the service its label names (NoService without label) and the        *)
(* addresses of its endpoints.  Core Endpoints are the special case of one *)
(* slice per service.                                                      *)
(***************************************************************************)
EXTENDS Watch

CONSTANTS
    Services, Ips, NoService,
    LabelOf             \* slice -> the services its label may name in its life

VARIABLES
    endpoints,          \* service -> slice -> addresses, {} when absent
    ep_by_ip,           \* address -> services
    gone                \* slices that retain_slices has still to remove

storeVars == <<endpoints, ep_by_ip, gone>>
vars == <<watchVars, storeVars>>

ASSUME EndpointsConstants ==
    /\ NoService \notin Services
    /\ Values \subseteq [svc : Services \cup {NoService}, ips : SUBSET Ips]
    /\ LabelOf \in [Objects -> SUBSET (Services \cup {NoService})]

(* set_slice: an address of the old slice leaves the index of the service  *)
(* unless another of its slices or the new one has it.                     *)
SetSliceForgetsOthers(svc, sl, ips) ==    \* mutant: `still` is not looked at
    /\ endpoints' = [endpoints EXCEPT ![svc][sl] = ips]
    /\ ep_by_ip' = [ip \in Ips |->
         IF ip \in ips THEN ep_by_ip[ip] \cup {svc}
         ELSE IF ip \in endpoints[svc][sl] THEN ep_by_ip[ip] \ {svc}
         ELSE ep_by_ip[ip]]

set_slice(svc, sl, ips) ==
    LET still(ip) == \E other \in Objects \ {sl} : ip \in endpoints[svc][other] IN
    /\ endpoints' = [endpoints EXCEPT ![svc][sl] = ips]
    /\ ep_by_ip' = [ip \in Ips |->
         IF ip \in ips THEN ep_by_ip[ip] \cup {svc}
         ELSE IF ip \in endpoints[svc][sl] /\ ~still(ip) THEN ep_by_ip[ip] \ {svc}
         ELSE ep_by_ip[ip]]

(* apply_slice, delete_slice: a slice without label is ignored. *)
apply_slice(sl, v) ==
    \/ v.svc # NoService /\ set_slice(v.svc, sl, v.ips)
    \/ v.svc = NoService /\ UNCHANGED <<endpoints, ep_by_ip>>

delete_slice(sl, v) ==
    \/ v.svc # NoService /\ set_slice(v.svc, sl, {})
    \/ v.svc = NoService /\ UNCHANGED <<endpoints, ep_by_ip>>

(* retain_slices: which slices go is read first *)
GoneSlices(kept) ==
    {p \in Services \X Objects : endpoints[p[1]][p[2]] # {} /\ p[2] \notin kept}
-----------------------------------------------------------------------------
Legal(sl, v) == v # NoObject => v.svc \in LabelOf[sl]

Init == /\ WatchInit
        /\ endpoints = [svc \in Services |-> [sl \in Objects |-> {}]]
        /\ ep_by_ip = [ip \in Ips |-> {}]
        /\ gone = {}
        /\ \A sl \in Objects : Legal(sl, cluster[sl])

OnInit      == gone = {} /\ InitEvent /\ UNCHANGED storeVars
OnInitApply == \E e \in todo :
                  TakeInitApply(e) /\ apply_slice(e.obj, e.val) /\ UNCHANGED gone
OnInitDone  == /\ TakeInitDone
               /\ gone' = GoneSlices(seen)
               /\ UNCHANGED <<endpoints, ep_by_ip>>
RetainOne   == \E p \in gone :
                  /\ gone' = gone \ {p}
                  /\ set_slice(p[1], p[2], {})
                  /\ UNCHANGED watchVars
OnApply     == gone = {} /\ \E sl \in Objects, v \in Values :
                  /\ TakeEvent("apply", [type |-> "apply", obj |-> sl, val |-> v])
                  /\ apply_slice(sl, v) /\ UNCHANGED gone
OnDelete    == gone = {} /\ \E sl \in Objects, v \in Values :
                  /\ TakeEvent("delete", [type |-> "delete", obj |-> sl, val |-> v])
                  /\ delete_slice(sl, v) /\ UNCHANGED gone

External == \/ \E sl \in Objects, v \in Values \cup {NoObject} :
                  Legal(sl, v) /\ ClusterChange(sl, v)
            \/ StreamBreaks

Next == \/ OnInit \/ OnInitApply \/ OnInitDone \/ RetainOne \/ OnApply \/ OnDelete
        \/ External /\ UNCHANGED storeVars

Spec == Init /\ [][Next]_vars
-----------------------------------------------------------------------------
(* The maps have their types, and what retain_slices still has to remove   *)
(* is a slice of a service.                                                *)
TypeOK ==
    /\ cluster \in [Objects -> Values \cup {NoObject}]
    /\ endpoints \in [Services -> [Objects -> SUBSET Ips]]
    /\ ep_by_ip \in [Ips -> SUBSET Services]
    /\ gone \subseteq Services \X Objects
    /\ todo \subseteq [obj : Objects, val : Values]

(* services_by_endpoint_ip names exactly the services one of whose slices  *)
(* has the address, when several slices or services share it, and between  *)
(* any two of the removals after a relist.                                 *)
IndexExact == \A ip \in Ips, svc \in Services :
    svc \in ep_by_ip[ip] <=> \E sl \in Objects : ip \in endpoints[svc][sl]

(* What the cluster says. *)
Current == endpoints = [svc \in Services |-> [sl \in Objects |->
    IF cluster[sl] # NoObject /\ cluster[sl].svc = svc THEN cluster[sl].ips ELSE {}]]

(* The watchers keep the store current: when there is nothing left to      *)
(* deliver or to remove, the store has the endpoints of the cluster.       *)
KeptCurrent == CaughtUp /\ gone = {} => Current
=============================================================================
