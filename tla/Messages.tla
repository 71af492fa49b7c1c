----------------------------- MODULE Messages -----------------------------
(***************************************************************************)
(* Requests, replies and what handlers do with them (src/plugin/mod.rs,    *)
(* src/plugin/request.rs, src/dnsutil/mod.rs).                             *)
(*                                                                         *)
(* A name is the sequence of its labels, leftmost first; a record's value  *)
(* is a sequence too (a target's labels, or one address).  A message       *)
(* carries at most one question; opcodes are left out.                     *)
(***************************************************************************)
EXTENDS Integers, FiniteSets, SequencesExt

UDP_BUFFER_SIZE == 4096
ROOT == <<>>

is_subdomain(zone, name) == IsSuffix(zone, name)
trim_zone(name, zone)    == SubSeq(name, 1, Len(name) - Len(zone))

(* zones_match: the longest zone the name is in, or none *)
zones_match(zones, name) ==
    LET in == {i \in DOMAIN zones : is_subdomain(zones[i], name)}
    IN  {zones[i] : i \in {i \in in : \A j \in in :
            Len(zones[i]) > Len(zones[j]) \/ (Len(zones[i]) = Len(zones[j]) /\ i <= j)}}
matched(zones, name) == zones_match(zones, name) # {}

RR(name, type, val, ttl) == [name |-> name, type |-> type, val |-> val, ttl |-> ttl]
Question(name, type, class) == [name |-> name, type |-> type, class |-> class]
Edns(size, do, opts) == [on |-> TRUE, ver |-> 0, size |-> size, do |-> do, opts |-> opts]
NoEdns == [on |-> FALSE, ver |-> 0, size |-> 0, do |-> FALSE, opts |-> {}]
AnAddress == {"A", "AAAA"}
OfType(recs, types) == SelectSeq(recs, LAMBDA r : r.type \in types)
-----------------------------------------------------------------------------
(* Request: the accessors take the first question *)
qname(req)  == IF req.q = <<>> THEN ROOT ELSE req.q[1].name
qtype(req)  == IF req.q = <<>> THEN "A" ELSE req.q[1].type
qclass(req) == IF req.q = <<>> THEN "IN" ELSE req.q[1].class

Message(id, q, flags, rcode, edns) ==
    [id |-> id, q |-> q, flags |-> flags, rcode |-> rcode, edns |-> edns,
     ans |-> <<>>, auth |-> <<>>, add |-> <<>>]

OurEdns(req) == IF req.edns.on THEN Edns(UDP_BUFFER_SIZE, req.edns.do, {}) ELSE NoEdns
new_reply(req) == Message(req.id, req.q, req.flags \cap {"rd", "cd"}, "NOERROR", OurEdns(req))
error_reply(req, rcode) == Message(req.id, req.q, req.flags \cap {"rd"}, rcode, OurEdns(req))

(* the id is random: no client's *)
new_with_question(req, name, type) ==
    [req EXCEPT !.id = "random", !.q = <<Question(name, type, "IN")>>, !.flags = {"rd"},
                !.edns = IF @.on THEN Edns(@.size, @.do, {}) ELSE NoEdns]

size(req) ==
    CASE req.proto # "udp" -> 65535
      [] req.proto = "udp" /\ req.edns.on -> IF req.edns.size < 512 THEN 512 ELSE req.edns.size
      [] OTHER -> 512
-----------------------------------------------------------------------------
(* Reply, and a PluginError; "hang" is a future that is never ready again, *)
(* "panic" an unwinding one and "exit" the end of the process.             *)
Reply(kind, ms, rcode, plugin) == [kind |-> kind, ms |-> ms, rcode |-> rcode, plugin |-> plugin]
Msg(m)     == Reply("msg", <<m>>, m.rcode, "")
Multi(ms)  == Reply("multi", ms, IF ms = <<>> THEN "NOERROR" ELSE ms[1].rcode, "")
Rcode(c)   == Reply("rcode", <<>>, c, "")
Drop       == Reply("drop", <<>>, "NOERROR", "")
Err(p, c)  == Reply("err", <<>>, c, p)
Ended(how) == Reply(how, <<>>, "", "")

Out(r, w)  == [r |-> r, w |-> w]
HasMsg(o)  == o.r.kind \in {"msg", "multi"} /\ o.r.ms # <<>>
EditMsg(o, Edit(_)) ==                    \* if let Some(m) = r.msg_mut()
    IF ~HasMsg(o) THEN o
    ELSE LET m == Edit(o.r.ms[1])
         IN  [o EXCEPT !.r.ms[1] = m, !.r.rcode = m.rcode]
Observe(w, by) == [w EXCEPT !.seen = Append(@, [by |-> by, id |-> w.req.id, q |-> w.req.q])]
=============================================================================
