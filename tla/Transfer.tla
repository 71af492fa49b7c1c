------------------------------ MODULE Transfer ------------------------------
(***************************************************************************)
(* An outgoing zone transfer (src/plugins/transfer.rs) and the client of   *)
(* it that this program is too (axfr in src/plugins/secondary.rs): what    *)
(* Transfer::serve_dns answers an AXFR or IXFR with, how build_messages    *)
(* cuts the records into messages, and how axfr puts them together, while  *)
(* the zone is replaced and the connection may break.                      *)
(*                                                                         *)
(* A record is a SOA or not, has a size, the version of the zone it is     *)
(* from and its place in all_records.                                      *)
(***************************************************************************)
EXTENDS Naturals, SequencesExt

CONSTANTS
    Zones,          \* a zone is the sequence of the sizes of its records, the SOA first
    Overhead,       \* what an empty message is counted as (12 + 64)
    MsgLimit,       \* MSG_LIMIT
    Clients,        \* addresses that may ask
    To,             \* those listed after `to`
    AnyClient,      \* is one of them "*"?
    MaxVersions

ASSUME TransferConstants ==
    /\ {Overhead, MsgLimit, MaxVersions} \subseteq Nat /\ Overhead < MsgLimit
    /\ To \subseteq Clients /\ AnyClient \in BOOLEAN

VARIABLES
    source,         \* what Handler::transfer gives: a version and its sizes, or expired
    ask,            \* the request that is answered, and when it was
    wire,           \* messages on their way
    reader          \* locals of axfr

transferVars == <<source, ask, wire, reader>>

Rec(v, i, size) == [soa |-> i = 1, version |-> v, place |-> i, size |-> size]
RecordsOf(s)  == [i \in DOMAIN s.sizes |-> Rec(s.version, i, s.sizes[i])]
SoaOf(s)    == RecordsOf(s)[1]
Msg(code, tc, recs) == [rcode |-> code, tc |-> tc, answers |-> recs]

TransferInit ==
    /\ \E z \in Zones : source = [version |-> 1, sizes |-> z, expired |-> FALSE]
    /\ ask = [type |-> "none", version |-> 0, sizes |-> <<>>]
    /\ wire = <<>>
    /\ reader = [pc |-> "idle", soas |-> 0, records |-> <<>>]
-----------------------------------------------------------------------------
allowed(c) == AnyClient \/ c \in To

(* build_messages: a message is closed when the next record would make it  *)
(* too large and it is not empty; the SOA comes first and last.            *)
PushDrops(b, r) ==      \* mutant: the record that does not fit is lost
    IF b.size + r.size > MsgLimit /\ b.cur # <<>>
    THEN [out |-> Append(b.out, Msg("NOERROR", FALSE, b.cur)), cur |-> <<>>, size |-> Overhead]
    ELSE [b EXCEPT !.cur = Append(@, r), !.size = @ + r.size]

Push(b, r) ==
    IF b.size + r.size > MsgLimit /\ b.cur # <<>>
    THEN [out |-> Append(b.out, Msg("NOERROR", FALSE, b.cur)), cur |-> <<r>>, size |-> Overhead + r.size]
    ELSE [b EXCEPT !.cur = Append(@, r), !.size = @ + r.size]

build_messages(s) ==
    LET recs == Append(RecordsOf(s), SoaOf(s))
        b == FoldLeft(Push, [out |-> <<>>, cur |-> <<>>, size |-> Overhead], recs)
    IN  Append(b.out, Msg("NOERROR", FALSE, b.cur))

(* Transfer::serve_dns; an expired zone is not offered, and the query goes *)
(* on down the chain, where the expired zone answers SERVFAIL.             *)
AnswerTo(type, proto, serial, c) ==
    IF ~allowed(c) THEN <<Msg("REFUSED", FALSE, <<>>)>>
    ELSE IF source.expired THEN <<Msg("SERVFAIL", FALSE, <<>>)>>
    ELSE IF type = "IXFR" /\ serial = source.version THEN <<Msg("NOERROR", FALSE, <<SoaOf(source)>>)>>
    ELSE IF proto = "udp" THEN <<Msg("NOERROR", TRUE, <<SoaOf(source)>>)>>
    ELSE build_messages(source)

Ask(type, proto, serial, c) ==
    /\ ask.type = "none"
    /\ ask' = [type |-> IF type = "AXFR" /\ proto = "tcp" THEN "axfr" ELSE "other",
               version |-> source.version, sizes |-> source.sizes]
    /\ wire' = AnswerTo(type, proto, serial, c)
    /\ reader' = [pc |-> "read", soas |-> 0, records |-> <<>>]
    /\ UNCHANGED source

(* the zone is reloaded, or expires, while a transfer is under way *)
Swap ==
    /\ source.version < MaxVersions
    /\ \E z \in Zones, x \in BOOLEAN :
          source' = [version |-> source.version + 1, sizes |-> z, expired |-> x]
    /\ UNCHANGED <<ask, wire, reader>>
-----------------------------------------------------------------------------
(* axfr: one message.  The second SOA ends the transfer. *)
UpToSoa(recs, seen) ==
    LET soas == {i \in DOMAIN recs : recs[i].soa}
        ends == {i \in soas : seen + Cardinality({j \in soas : j <= i}) = 2}
    IN  [done |-> ends # {},
         recs |-> IF ends = {} THEN recs ELSE SubSeq(recs, 1, (CHOOSE i \in ends : TRUE) - 1),
         soas |-> Cardinality(soas)]

Read ==
    /\ ask.type = "axfr" /\ reader.pc = "read" /\ wire # <<>>
    /\ wire' = Tail(wire)
    /\ LET m == Head(wire)
           u == UpToSoa(m.answers, reader.soas)
       IN  reader' = IF m.rcode # "NOERROR" THEN [reader EXCEPT !.pc = "failed"]
                     ELSE IF u.done THEN [reader EXCEPT !.pc = "done", !.records = @ \o u.recs]
                     ELSE IF m.answers = <<>> THEN [reader EXCEPT !.pc = "failed"]
                     ELSE [reader EXCEPT !.soas = @ + u.soas, !.records = @ \o u.recs]
    /\ UNCHANGED <<source, ask>>

(* the connection breaks, or the deadline passes *)
Broken ==
    /\ ask.type = "axfr" /\ reader.pc = "read"
    /\ reader' = [reader EXCEPT !.pc = "failed"]
    /\ wire' = <<>>
    /\ UNCHANGED <<source, ask>>

Over ==
    /\ reader.pc \in {"done", "failed"} \/ ask.type = "other"
    /\ ask' = [type |-> "none", version |-> 0, sizes |-> <<>>]
    /\ wire' = <<>>
    /\ reader' = [pc |-> "idle", soas |-> 0, records |-> <<>>]
    /\ UNCHANGED source

TransferNext ==
    \/ \E type \in {"AXFR", "IXFR"}, proto \in {"udp", "tcp"}, serial \in 1..MaxVersions, c \in Clients :
          Ask(type, proto, serial, c)
    \/ Swap \/ Read \/ Broken \/ Over

TransferSpec == TransferInit /\ [][TransferNext]_transferVars
-----------------------------------------------------------------------------
(* A transfer that axfr ends with a success has every record of one        *)
(* version of the zone, the one that was current when it was asked for,    *)
(* each once and in order, however it was cut and whatever replaced the    *)
(* zone meanwhile; and no message is over the limit, unless one record     *)
(* alone is.                                                               *)
WholeTransfer ==
    /\ reader.pc = "done" =>
          reader.records = [i \in DOMAIN ask.sizes |-> Rec(ask.version, i, ask.sizes[i])]
    /\ \A i \in DOMAIN wire :
          \/ Len(wire[i].answers) <= 1
          \/ FoldLeft(LAMBDA n, r : n + r.size, Overhead, wire[i].answers) <= MsgLimit
=============================================================================
