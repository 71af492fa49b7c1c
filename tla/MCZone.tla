------------------------------- MODULE MCZone -------------------------------
(* Small zones, an apex and up to MaxOwners names below it, and transfers  *)
(* of zones of up to five records whose sizes fill a message exactly, or   *)
(* overfill it alone.  A behaviour follows a zone or a transfer.           *)
EXTENDS ZoneServe, Transfer
CONSTANTS MaxOwners, c1, c2
VARIABLE part

MCOrigin  == <<9>>
Out     == <<8>>
N(s)      == MCOrigin \o s
Owners    == {N(<<0>>), N(<<1>>), N(<<1, 0>>), N(<<1, 2>>), N(<<2, 1>>), N(<<2, 1, 1>>)}
Targets   == {N(<<1>>), N(<<3, 3>>), Out}

Contents ==
    {{<<"A", Out>>}, {<<"NS", N(<<2, 1>>)>>}, {<<"NS", Out>>, <<"DS", Out>>},
     {<<"MX", N(<<1>>)>>, <<"A", Out>>}}
    \cup {{<<"CNAME", g>>} : g \in Targets} \cup {{<<"DNAME", g>>} : g \in {N(<<1>>), N(<<2, 1, 1>>)}}

Apex == {RR(MCOrigin, "SOA", MCOrigin, {}), RR(MCOrigin, "NS", N(<<2, 1>>), {})}

ZoneOf(f) == Apex \cup UNION {{RR(n, c[1], c[2], {}) : c \in f[n]} : n \in DOMAIN f}

MCFiles ==
    UNION {{ZoneOf(f) : f \in [d -> Contents]} : d \in {x \in SUBSET Owners : Cardinality(x) <= MaxOwners}}
    \cup {{RR(N(<<1>>), "A", Out, {})},
          Apex \cup {RR(Out, "A", Out, {}), RR(N(<<1>>), "A", Out, {})}}

Names == {MCOrigin} \cup {N(s) : s \in {<<1>>, <<2>>, <<3>>, <<1, 2>>, <<1, 1>>, <<2, 1>>, <<2, 1, 1>>, <<3, 3, 3>>}}
MCQuestions == {<<n, t>> : n \in Names, t \in {"A", "CNAME", "DS", "ANY"}}

(* a permutation of the names, unlike their order *)
MCHash(n) == 100 + ((37 * FoldLeft(LAMBDA a, l : 5 * a + l + 1, 0, SubSeq(n, 2, Len(n)))) % 10007)
-----------------------------------------------------------------------------
MCZones == UNION {{<<1>> \o s : s \in [1..n -> {1, 2, 5}]} : n \in 0..4}
MCClients == {c1, c2}
Listed == {c1}

zonesVars == <<part, zoneVars, transferVars>>
OneRecord == source.sizes = <<1>>       \* when no transfer is looked at
ZonesInit ==
    \/ part = "zone" /\ ZoneInit /\ TransferInit /\ OneRecord
    \/ part = "transfer" /\ TransferInit /\ ZoneInit /\ file = Apex

ZonesNext ==
    \/ part = "zone" /\ ZoneNext /\ UNCHANGED <<part, transferVars>>
    \/ part = "transfer" /\ TransferNext /\ UNCHANGED <<part, zoneVars>>

ZonesSpec == ZonesInit /\ [][ZonesNext]_zonesVars
=============================================================================
