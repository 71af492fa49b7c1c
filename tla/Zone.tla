-------------------------------- MODULE Zone --------------------------------
(***************************************************************************)
(* An authoritative zone held in memory (src/plugins/file/zone.rs): what   *)
(* Zone::from_records keeps of the records of a file or a transfer, and    *)
(* Zone::lookup with its referrals, DNAMEs, CNAME chains, wildcards,       *)
(* negative answers and DNSSEC denial proofs.                              *)
(*                                                                         *)
(* A name is the sequence of its labels from the root down, so an ancestor *)
(* is a prefix and the canonical order is the lexicographic one; a label   *)
(* is a number and the asterisk is the smallest.  Records carry what       *)
(* lookup looks at: the target of a CNAME, DNAME, NS, MX or of the next    *)
(* name in a chain, and the types an NSEC lists or an RRSIG covers.        *)
(* Sections of a message are sets of records; TTLs are left out.           *)
(***************************************************************************)
EXTENDS Naturals, SequencesExt, FiniteSetsExt

CONSTANTS
    Origin,         \* the apex
    Hash(_),        \* the NSEC3 hash of a name, as a label
    MaxName,        \* longest name that can be put on the wire
    MaxHops         \* aliases followed for one question (8)

Star == 0
RR(n, t, g, ts) == [owner |-> n, type |-> t, target |-> g, types |-> ts]
-----------------------------------------------------------------------------
(* names *)
is_subdomain(z, n) == IsPrefix(z, n)
parent(n)          == Front(n)
wildcard_of(n)     == Append(n, Star)
next_closer(n, ce) == SubSeq(n, 1, Len(ce) + 1)

(* the canonical order of names (Name::cmp) *)
Before(a, b) ==
    \/ IsStrictPrefix(a, b)
    \/ \E i \in 1..Min({Len(a), Len(b)}) :
          a[i] < b[i] /\ SubSeq(a, 1, i - 1) = SubSeq(b, 1, i - 1)

LastOf(ns) == CHOOSE n \in ns : \A o \in ns : o = n \/ Before(o, n)

(* The element of a sorted chain at or before n; before the first, the     *)
(* last (binary_search_by and its Err cases).                              *)
ChainAt(chain, n) ==
    LET upTo == {o \in chain : o = n \/ Before(o, n)}
    IN  IF upTo = {} THEN LastOf(chain) ELSE LastOf(upTo)
-----------------------------------------------------------------------------
(* Zone::from_records: records outside the zone are ignored, and a zone    *)
(* without a SOA at its apex is an error.  Every owner exists, and so do   *)
(* its ancestors up to the apex.                                           *)
InZone(recs)  == {r \in recs : is_subdomain(Origin, r.owner)}
Valid(recs)   == \E r \in InZone(recs) : r.owner = Origin /\ r.type = "SOA"

from_recordsFlat(recs) ==       \* mutant: empty non-terminals do not exist
    LET in == InZone(recs)
        names == {r.owner : r \in in}
    IN  [data  |-> [n \in names |-> {r \in in : r.owner = n}],
         nodes |-> names,
         nsec_chain |-> {r.owner : r \in {x \in in : x.type = "NSEC"}},
         nsec3 |-> {r.owner : r \in {x \in in : x.type = "NSEC3"}}]

from_records(recs) ==
    LET in == InZone(recs)
        names == {r.owner : r \in in}
    IN  [data  |-> [n \in names |-> {r \in in : r.owner = n}],
         nodes |-> UNION {{SubSeq(n, 1, i) : i \in Len(Origin)..Len(n)} : n \in names},
         nsec_chain |-> {r.owner : r \in {x \in in : x.type = "NSEC"}},
         nsec3 |-> {r.owner : r \in {x \in in : x.type = "NSEC3"}}]

all_records(z) == UNION {z.data[n] : n \in DOMAIN z.data}

has(z, n, t) == n \in DOMAIN z.data /\ \E r \in z.data[n] : r.type = t

with_sigs(z, n, t, do) ==
    IF ~has(z, n, t) THEN {}
    ELSE {r \in z.data[n] : r.type = t \/ (do /\ r.type = "RRSIG" /\ t \in r.types)}

negative_soa(z, do) == with_sigs(z, Origin, "SOA", do)

(* glue for the targets of NS and MX records (SRV is alike) *)
additional(z, recs, do) ==
    UNION {with_sigs(z, r.target, "A", do) : r \in {x \in recs : x.type \in {"NS", "MX"}}}
-----------------------------------------------------------------------------
(* The cut at or above q: going down from below the apex, the first NS,    *)
(* unless a DNAME comes before it.  The parent answers for the DS.         *)
Between(q, lo, hi) == {SubSeq(q, 1, i) : i \in lo..hi}
Highest(ns) == CHOOSE n \in ns : \A o \in ns : Len(n) <= Len(o)

delegation(z, q, t) ==
    LET marks == {c \in Between(q, Len(Origin) + 1, Len(q)) :
                     has(z, c, "NS") \/ (c # q /\ has(z, c, "DNAME"))}
    IN  IF q = Origin \/ has(z, Origin, "DNAME") \/ marks = {} THEN {}
        ELSE LET c == Highest(marks)
             IN  IF has(z, c, "NS") /\ ~(c = q /\ t = "DS") THEN {c} ELSE {}

dname_for(z, n) ==
    LET owners == {c \in Between(n, Len(Origin), Len(n) - 1) : has(z, c, "DNAME")}
    IN  IF owners = {} THEN {} ELSE {Highest(owners)}

closest_encloser(z, n) ==
    LET k == Max({i \in Len(Origin)..(Len(n) - 1) : SubSeq(n, 1, i) \in z.nodes})
    IN  SubSeq(n, 1, k)

wildcard_forAny(z, n) ==        \* mutant: a wildcard further up is taken too
    IF n \in z.nodes THEN {}
    ELSE {c \in Between(n, Len(Origin), Len(n) - 1) : wildcard_of(c) \in DOMAIN z.data}

wildcard_for(z, n) ==
    IF n \in z.nodes THEN {}
    ELSE {closest_encloser(z, n)} \cap {ce \in z.nodes : wildcard_of(ce) \in DOMAIN z.data}
-----------------------------------------------------------------------------
(* denial proofs, from the NSEC3 chain if there is one *)
nsec_name(z, n) ==
    IF z.nsec_chain = {} THEN {} ELSE with_sigs(z, ChainAt(z.nsec_chain, n), "NSEC", TRUE)

nsec3_owner(n) == Append(Origin, Hash(n))
nsec3_match(z, n) ==
    IF nsec3_owner(n) \in z.nsec3 THEN with_sigs(z, nsec3_owner(n), "NSEC3", TRUE) ELSE {}
nsec3_cover(z, n) == with_sigs(z, ChainAt(z.nsec3, nsec3_owner(n)), "NSEC3", TRUE)

prove_nxdomainNoStar(z, n, ce) ==   \* mutant: the wildcard is not denied
    IF z.nsec3 # {} THEN nsec3_match(z, ce) \cup nsec3_cover(z, next_closer(n, ce))
    ELSE nsec_name(z, n)

prove_nxdomain(z, n, ce) ==
    IF z.nsec3 # {}
    THEN nsec3_match(z, ce) \cup nsec3_cover(z, next_closer(n, ce)) \cup nsec3_cover(z, wildcard_of(ce))
    ELSE nsec_name(z, n) \cup nsec_name(z, wildcard_of(ce))

(* When the name has no NSEC3 (opt-out): its closest encloser that has     *)
(* one, and the next closer name.                                          *)
prove_nodata(z, n) ==
    IF z.nsec3 = {} THEN nsec_name(z, n)
    ELSE IF nsec3_match(z, n) # {} THEN nsec3_match(z, n)
    ELSE LET up == {c \in Between(n, Len(Origin), Len(n) - 1) : c = Origin \/ nsec3_owner(c) \in z.nsec3}
             ce == CHOOSE c \in up : \A d \in up : Len(d) <= Len(c)
         IN  nsec3_match(z, ce) \cup nsec3_cover(z, next_closer(n, ce))

prove_wildcard_answer(z, n, ce) ==
    IF z.nsec3 # {} THEN nsec3_cover(z, next_closer(n, ce)) ELSE nsec_name(z, n)

prove_wildcard_nodata(z, n, ce) ==
    IF z.nsec3 # {}
    THEN nsec3_match(z, ce) \cup nsec3_cover(z, next_closer(n, ce)) \cup nsec3_match(z, wildcard_of(ce))
    ELSE nsec_name(z, n) \cup nsec_name(z, wildcard_of(ce))
-----------------------------------------------------------------------------
(* replies *)
Reply(rcode, aa, ans, auth, extra) ==
    [rcode |-> rcode, aa |-> aa, answer |-> ans, authority |-> auth, additional |-> extra]

Referral(z, cut, do) ==
    LET ns == with_sigs(z, cut, "NS", FALSE)
              \cup (IF ~do THEN {}
                    ELSE IF has(z, cut, "DS") THEN with_sigs(z, cut, "DS", TRUE)
                    ELSE prove_nodata(z, cut))
    IN  Reply("NOERROR", FALSE, {}, ns, additional(z, ns, do))

(* NXDOMAIN, or NODATA for an empty non-terminal *)
negative(z, n, do) ==
    LET ent == n \in z.nodes
        proof == IF ~do THEN {}
                 ELSE IF ent THEN prove_nodata(z, n)
                 ELSE prove_nxdomain(z, n, closest_encloser(z, n))
    IN  Reply(IF ent THEN "NOERROR" ELSE "NXDOMAIN", TRUE, {}, negative_soa(z, do) \cup proof, {})

NoData(z, s, do) ==
    LET proof == IF ~do THEN {}
                 ELSE IF s.synth = {} THEN prove_nodata(z, s.current)
                 ELSE UNION {prove_wildcard_nodata(z, w[1], w[2]) : w \in s.synth}
    IN  Reply("NOERROR", TRUE, {}, negative_soa(z, do) \cup proof, {})

Answer(z, s, do) ==
    LET proof == IF ~do THEN {} ELSE UNION {prove_wildcard_answer(z, w[1], w[2]) : w \in s.synth}
    IN  Reply("NOERROR", TRUE, s.answers, proof, additional(z, s.answers, do))
-----------------------------------------------------------------------------
(* The loop of lookup.  st says how it stands: "on", or how it ended;      *)
(* synth is the last wildcard expansion, a name and its closest encloser.  *)

(* Follow a CNAME, given or made from a DNAME.  ext is what self_lookup    *)
(* finds for a target outside the zone.                                    *)
Follow(s, target, ext) ==
    IF is_subdomain(Origin, target) THEN [s EXCEPT !.current = target]
    ELSE [s EXCEPT !.answers = @ \cup ext, !.st = "break"]

(* DNAME substitution (RFC 6672 2.2) *)
Substitute(z, s, t, do, ext, d) ==
    LET dn  == with_sigs(z, d, "DNAME", do)
        new == (CHOOSE r \in dn : r.type = "DNAME").target \o SubSeq(s.current, Len(d) + 1, Len(s.current))
        cn  == RR(s.current, "CNAME", new, {})
    IN  IF Len(new) > MaxName THEN [s EXCEPT !.answers = @ \cup dn, !.st = "yxdomain"]
        ELSE LET r == [s EXCEPT !.answers = @ \cup dn \cup {cn}]
             IN  IF t = "CNAME" THEN [r EXCEPT !.st = "break"] ELSE Follow(r, new, ext)

(* The data of the name, or of the wildcard that stands for it; records of *)
(* the wildcard are renamed.                                               *)
FromNode(z, s, t, do, ext, src) ==
    LET Renamed(rs) == {[r EXCEPT !.owner = s.current] : r \in rs}
        types == IF t = "ANY" THEN {r.type : r \in z.data[src]} \ {"RRSIG"} ELSE {t}
        found == Renamed(UNION {with_sigs(z, src, x, do) : x \in types})
        cn    == Renamed(with_sigs(z, src, "CNAME", do))
    IN  IF t # "CNAME" /\ has(z, src, "CNAME")
        THEN Follow([s EXCEPT !.answers = @ \cup cn], (CHOOSE r \in cn : r.type = "CNAME").target, ext)
        ELSE IF found = {} /\ s.answers = {} THEN [s EXCEPT !.st = "nodata"]
        ELSE [s EXCEPT !.answers = @ \cup found, !.st = "break"]

Hop(z, s, t, do, ext) ==
    LET d  == dname_for(z, s.current)
        ce == wildcard_for(z, s.current)
    IN  IF d # {} THEN Substitute(z, s, t, do, ext, CHOOSE c \in d : TRUE)
        ELSE IF s.current \in DOMAIN z.data THEN FromNode(z, s, t, do, ext, s.current)
        ELSE IF ce # {}
        THEN LET c == CHOOSE c \in ce : TRUE
             IN  FromNode(z, [s EXCEPT !.synth = {<<s.current, c>>}], t, do, ext, wildcard_of(c))
        ELSE [s EXCEPT !.st = IF s.answers = {} THEN "negative" ELSE "break"]

Chase(z, q, t, do, ext) ==
    FoldLeft(LAMBDA s, i : IF s.st = "on" THEN Hop(z, s, t, do, ext) ELSE s,
             [current |-> q, answers |-> {}, synth |-> {}, st |-> "on"],
             [i \in 1..MaxHops |-> i])

lookup(z, q, t, do, ext) ==
    LET cut == delegation(z, q, t)
        s   == Chase(z, q, t, do, ext)
    IN  IF cut # {} THEN Referral(z, CHOOSE c \in cut : TRUE, do)
        ELSE IF s.st = "negative" THEN negative(z, s.current, do)
        ELSE IF s.st = "nodata" THEN NoData(z, s, do)
        ELSE IF s.st = "yxdomain" THEN Reply("YXDOMAIN", TRUE, s.answers, {}, {})
        ELSE Answer(z, s, do)
=============================================================================
