----------------------------- MODULE ZoneServe ------------------------------
(***************************************************************************)
(* A zone from its file to its answers.  The records of a file are loaded  *)
(* as they are, or are signed first by the sign plugin (Signer::sign_once, *)
(* src/plugins/sign.rs), or were signed with NSEC3 by another program;     *)
(* then the file plugin (src/plugins/file/mod.rs) answers queries from     *)
(* them.  The answers are checked against what RFC 1034, 4592, 6672, 4035  *)
(* and 5155 ask, stated over the records and not over the lookup.          *)
(***************************************************************************)
EXTENDS Zone

CONSTANTS
    Files,          \* record sets a zone file may hold
    Questions       \* <<name, type>> pairs that are asked

VARIABLES
    file,           \* the records of the zone file
    denial,         \* "none", "nsec" or "nsec3": how the loaded file denies
    zone,           \* the Zone in memory
    query, reply    \* the question being answered and its answer

zoneVars == <<file, denial, zone, query, reply>>

NoZone  == from_records({})
NoQuery == [name |-> Origin, type |-> "none", do |-> FALSE]
NoReply == Reply("none", FALSE, {}, {}, {})

ZoneInit ==
    /\ file \in Files
    /\ denial = "none" /\ zone = NoZone
    /\ query = NoQuery /\ reply = NoReply
-----------------------------------------------------------------------------
(* Signer::sign_once *)
DnssecTypes == {"RRSIG", "NSEC", "NSEC3", "DNSKEY"}

CutsOf(recs) == {r.owner : r \in {x \in recs : x.type = "NS" /\ x.owner # Origin}}

TypesAt(recs, n) == {r.type : r \in {x \in recs : x.owner = n}}

(* the NSEC chain over every owner name; the last one points to the apex *)
NsecsOf(recs) ==
    LET names == {r.owner : r \in recs}
        next(n) == LET after == {o \in names : Before(n, o)}
                   IN  IF after = {} THEN Origin
                       ELSE CHOOSE o \in after : \A p \in after : p = o \/ Before(o, p)
    IN  {RR(n, "NSEC", next(n), TypesAt(recs, n) \cup {"NSEC", "RRSIG"}) : n \in names}

(* records at or below a cut are not signed, but for its DS and its NSEC *)
SigsOf(recs) ==
    LET cuts == CutsOf(recs)
        Skip(r) == \E c \in cuts : \/ IsStrictPrefix(c, r.owner)
                                   \/ c = r.owner /\ r.type \notin {"DS", "NSEC"}
    IN  {RR(r.owner, "RRSIG", Origin, {r.type}) : r \in {x \in recs : ~Skip(x)}}

sign_once(recs) ==
    LET plain == {r \in InZone(recs) : r.type \notin DnssecTypes}
                 \cup {RR(Origin, "DNSKEY", Origin, {})}
        whole == plain \cup NsecsOf(plain)
    IN  whole \cup SigsOf(whole)

(* Another signer's NSEC3 chain (RFC 5155): every name that exists and is  *)
(* not below a cut, but for unsigned cuts when it opts out.                *)
PreSigned(recs, optout) ==
    LET cuts  == CutsOf(recs)
        nodes == from_records(recs).nodes
        kept  == {n \in nodes : /\ ~\E c \in cuts : IsStrictPrefix(c, n)
                                /\ ~(optout /\ n \in cuts /\ "DS" \notin TypesAt(recs, n))}
        hs    == {Hash(n) : n \in kept}
        next(h) == LET after == {g \in hs : g > h} IN IF after = {} THEN Min(hs) ELSE Min(after)
        chain == {RR(nsec3_owner(n), "NSEC3", Append(Origin, next(Hash(n))), TypesAt(recs, n)) : n \in kept}
    IN  InZone(recs) \cup chain \cup SigsOf(InZone(recs) \cup chain)
-----------------------------------------------------------------------------
Loaded(recs, how) ==
    /\ zone = NoZone
    /\ Valid(recs)
    /\ zone' = from_records(recs) /\ denial' = how
    /\ UNCHANGED <<file, query, reply>>

LoadFile == Loaded(file, "none")
SignAndLoad == Valid(file) /\ Loaded(sign_once(file), "nsec")
LoadPreSigned == Valid(file) /\ \E o \in BOOLEAN : Loaded(PreSigned(file, o), "nsec3")

(* a file that is not a zone is refused, and setup fails *)
LoadFails ==
    /\ zone = NoZone /\ ~Valid(file)
    /\ denial # "refused" /\ denial' = "refused"
    /\ UNCHANGED <<file, zone, query, reply>>

(* what self_lookup may find for a name outside the zone *)
SelfLookup(n, t) == {{}, {RR(n, t, n, {})}}

(* File::serve_dns *)
ServeDns(n, t, do) ==
    /\ zone # NoZone /\ query = NoQuery
    /\ is_subdomain(Origin, n)
    /\ query' = [name |-> n, type |-> t, do |-> do]
    /\ \E ext \in SelfLookup(<<Star>>, t) : reply' = lookup(zone, n, t, do, ext)
    /\ UNCHANGED <<file, denial, zone>>

Sent ==
    /\ query # NoQuery
    /\ query' = NoQuery /\ reply' = NoReply
    /\ UNCHANGED <<file, denial, zone>>

ZoneNext ==
    \/ LoadFile \/ SignAndLoad \/ LoadPreSigned \/ LoadFails \/ Sent
    \/ \E q \in Questions, do \in BOOLEAN : ServeDns(q[1], q[2], do)

ZoneSpec == ZoneInit /\ [][ZoneNext]_zoneVars
-----------------------------------------------------------------------------
(* What exists, stated over the records of the zone. *)
Records    == all_records(zone)
Owns(n, t) == \E r \in Records : r.owner = n /\ r.type = t
Exists(n)  == \E r \in Records : IsPrefix(n, r.owner)

IsEncloser(c, n) == IsStrictPrefix(c, n) /\ Exists(c) /\ ~Exists(SubSeq(n, 1, Len(c) + 1))
Above(n, lo) == {SubSeq(n, 1, i) : i \in lo..(Len(n) - 1)}

Occluded(n) == \E c \in Above(n, Len(Origin)) : Owns(c, "DNAME")
IsCut(c)    == /\ Owns(c, "NS") /\ c # Origin /\ ~Occluded(c)
               /\ ~\E d \in Above(c, Len(Origin) + 1) : Owns(d, "NS")
Delegated(n, t) == \E c \in Above(n, Len(Origin) + 1) \cup {n} : IsCut(c) /\ ~(c = n /\ t = "DS")

Wildcards(n) == {w \in {r.owner : r \in Records} : IsEncloser(parent(w), n) /\ w = wildcard_of(parent(w))}

Replied == query # NoQuery /\ reply # NoReply

(* Zone::lookup answers with the kind of reply the records call for (RFC   *)
(* 1034 4.3.2): a referral exactly at or below a cut that no DNAME hides,  *)
(* NXDOMAIN exactly when the name, redirections and wildcards fail, all    *)
(* the data when there is some and nobody redirects, and an empty answer   *)
(* with the SOA only when there is none.                                   *)
RightKind == Replied =>
    LET n == query.name
        t == query.type
        src == IF Exists(n) THEN {n} ELSE Wildcards(n)
        data == {r \in Records : r.owner \in src /\ r.type = t}
        alias == t # "CNAME" /\ \E s \in src : Owns(s, "CNAME")
    IN  IF Delegated(n, t)
        THEN ~reply.aa /\ reply.answer = {} /\ \E r \in reply.authority : r.type = "NS" /\ IsPrefix(r.owner, n)
        ELSE /\ reply.aa
             /\ reply.rcode = "NXDOMAIN" <=> ~Occluded(n) /\ src = {}
             /\ reply.answer = {} <=> ~Occluded(n) /\ ~alias /\ (IF t = "ANY" THEN ~\E s \in src : \E r \in Records : r.owner = s ELSE data = {})
             /\ reply.answer = {} => \E r \in reply.authority : r.type = "SOA"
             /\ ~Occluded(n) /\ ~alias /\ t # "ANY" =>
                   {r.target : r \in data} = {r.target : r \in {x \in reply.answer : x.owner = n /\ x.type = t}}

(* Every record Zone::lookup answers with is one of the zone, is copied    *)
(* from the wildcard that stands for its owner (RFC 4592: the owner does   *)
(* not exist, and the wildcard is right below its closest encloser), or is *)
(* the CNAME of a DNAME that is in the answer too (RFC 6672); and its      *)
(* owner is the question's name or a target of another answer.             *)
AnswerJustified == Replied => \A r \in reply.answer :
    LET CopyOf(o) == \E x \in Records : x = [r EXCEPT !.owner = o]
    IN  \/ ~is_subdomain(Origin, r.owner)
        \/ /\ \/ r \in Records
              \/ ~Exists(r.owner) /\ \E w \in Wildcards(r.owner) : CopyOf(w)
              \/ /\ r.type = "CNAME"
                 /\ \E d \in reply.answer :
                       /\ d.type = "DNAME" /\ IsStrictPrefix(d.owner, r.owner)
                       /\ r.target = d.target \o SubSeq(r.owner, Len(d.owner) + 1, Len(r.owner))
           /\ r.type \in {query.type, "CNAME", "DNAME", "RRSIG"} \/ query.type = "ANY"
           /\ LET asked == {query.name} \cup {x.target : x \in {y \in reply.answer : y.type = "CNAME"}}
              IN  \/ r.owner \in asked
                  \/ "DNAME" \in {r.type} \cup r.types /\ \E a \in asked : IsStrictPrefix(r.owner, a)
-----------------------------------------------------------------------------
(* A validator's view of a reply. *)
CoversName(r, n) == /\ r.type = "NSEC" /\ Before(r.owner, n)
                    /\ r.target = Origin \/ Before(n, r.target)
                    /\ ~(IsStrictPrefix(r.owner, n) /\ ("DNAME" \in r.types \/ {"NS", "SOA"} \cap r.types = {"NS"}))
Covered(n) == \E r \in reply.authority : CoversName(r, n)
Lacks(n, t) == \E r \in reply.authority : r.type = "NSEC" /\ r.owner = n /\ {t, "CNAME"} \cap r.types = {}
EmptyNode(n) == \E r \in reply.authority : CoversName(r, n) /\ IsStrictPrefix(n, r.target)

Nsec3At(n) == {r \in reply.authority : r.type = "NSEC3" /\ r.owner = nsec3_owner(n)}
Covered3(n) == \E r \in reply.authority :
    LET o == r.owner[Len(r.owner)]
        x == r.target[Len(r.target)]
    IN  /\ r.type = "NSEC3"
        /\ IF o < x THEN o < Hash(n) /\ Hash(n) < x ELSE o < Hash(n) \/ Hash(n) < x
Lacks3(n, t) == \E r \in Nsec3At(n) : {t, "CNAME"} \cap r.types = {}

ProvesAbsent(n, ce) == IF denial = "nsec" THEN Covered(n) ELSE Covered3(next_closer(n, ce))
ProvesNoType(n, t) ==
    IF denial = "nsec" THEN Lacks(n, t) \/ EmptyNode(n)
    ELSE \/ Lacks3(n, t)
         \/ \E c \in Above(n, Len(Origin)) : Nsec3At(c) # {} /\ Covered3(next_closer(n, c))
(* the names that a wildcard stood for *)
Expanded == LET asked == {query.name} \cup {r.target : r \in {x \in reply.answer : x.type = "CNAME"}}
            IN  {n \in asked : /\ reply.answer # {} /\ is_subdomain(Origin, n)
                              /\ ~Occluded(n) /\ ~Exists(n) /\ Wildcards(n) # {}}
ProvesEncloser(ce) == denial = "nsec" \/ Nsec3At(ce) # {}

(* With the DO bit and a signed zone the authority section proves what the *)
(* reply denies, as a validator checks it (RFC 4035 5.4, RFC 5155 8): an   *)
(* NXDOMAIN, the missing type of a NODATA or of an unsigned referral, and  *)
(* that the name a wildcard answered does not exist.                       *)
DenialProven == Replied /\ query.do /\ denial # "none" =>
    LET n == query.name
        t == query.type
    IN  \A ce \in Above(n, Len(Origin)) \cup {n} :
        /\ reply.rcode = "NXDOMAIN" /\ IsEncloser(ce, n) =>
              ProvesEncloser(ce) /\ ProvesAbsent(n, ce) /\ ProvesAbsent(wildcard_of(ce), ce)
        /\ reply.aa /\ reply.rcode = "NOERROR" /\ reply.answer = {} /\ Exists(n) => ProvesNoType(n, t)
        /\ reply.aa /\ reply.rcode = "NOERROR" /\ reply.answer = {} /\ IsEncloser(ce, n) =>
              ProvesEncloser(ce) /\ ProvesAbsent(n, ce) /\ ProvesNoType(wildcard_of(ce), t)
        /\ ~reply.aa /\ IsCut(ce) /\ ~Owns(ce, "DS") => ProvesNoType(ce, "DS")
        /\ IsEncloser(ce, n) /\ Expanded = {n} => ProvesAbsent(n, ce)
-----------------------------------------------------------------------------
(* Said by prove_wildcard_answer ("A wildcard answered `name`: prove       *)
(* `name` itself does not exist") and not so when a CNAME chain goes       *)
(* through two wildcards: lookup remembers only the last.                  *)
EveryExpansionProven == Replied /\ query.do /\ denial # "none" =>
    \A n \in Expanded : \A ce \in Above(n, Len(Origin)) : IsEncloser(ce, n) => ProvesAbsent(n, ce)
=============================================================================
