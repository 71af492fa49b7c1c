--------------------------- MODULE MCKubeEndpoints ---------------------------
(* Two services whose slices share an address. *)
EXTENDS KubeEndpoints
CONSTANTS s1, s2, x, y, z, w, ip1, ip2

FourSlices  == {x, y, z, w}
TwoServices == {s1, s2}
TwoIps      == {ip1, ip2}

(* Two slices of one service, one of the other and one without label; the  *)
(* labels never change.                                                    *)
FixedValues == [svc : TwoServices, ips : {{}, {ip1}, {ip1, ip2}}]
               \cup [svc : {NoService}, ips : {{ip1}}]
FixedLabel  == [sl \in FourSlices |-> CASE sl = z -> {s2} [] sl = w -> {NoService}
                                        [] OTHER -> {s1}]

(* Labels that do change. *)
AnyLabel == [sl \in FourSlices |-> TwoServices \cup {NoService}]
=============================================================================
