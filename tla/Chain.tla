------------------------------- MODULE Chain -------------------------------
(***************************************************************************)
(* The plugin chain and the server around it (src/server/mod.rs and the    *)
(* handlers of src/plugins): one operator per Handler::serve_dns.          *)
(*                                                                         *)
(* What a query changes on its way is `w`: the request itself, erratic's   *)
(* counter, what log, prometheus and errors wrote, and the errors counted  *)
(* per pattern.  What it reads of the world is `e`: the zone table of the  *)
(* server it came to, the table CURRENT holds, what the plugins below and  *)
(* the upstreams answer, the hosts map at each of its two reads, and what  *)
(* the random generators choose.  A handler gives the reply and w.         *)
(***************************************************************************)
EXTENDS Rewrite, Folds

CONSTANTS
    V4,                 \* the addresses that are IPv4
    ReverseOf,          \* address -> its name under in-addr.arpa or ip6.arpa
    MaxDepth            \* the nesting self_lookup allows (8)

(* Next::serve, below *)
RECURSIVE next_serve(_, _, _)

(* Server::lookup: the longest zone, in it the first whose filter accepts *)
lookup(zones, req) ==
    LET ok == {i \in DOMAIN zones : is_subdomain(zones[i].zone, qname(req)) /\ req.ip \in zones[i].filter}
        deeper(i, j) == Len(zones[i].zone) > Len(zones[j].zone)
    IN  {zones[i] : i \in {i \in ok : \A j \in ok :
            deeper(i, j) \/ (i <= j /\ ~deeper(j, i))}}

(* serve_request_inner: a sequence of messages, empty when nothing is sent *)
Finish(o, debug) ==
    LET req == o.w.req
        own(m) == [m EXCEPT !.id = req.id]
        err(c) == <<error_reply(req, c)>>
    IN  CASE o.r.kind = "msg"   -> <<[own(o.r.ms[1]) EXCEPT !.q = IF @ = <<>> THEN req.q ELSE @]>>
          [] o.r.kind = "multi" -> IF o.r.ms = <<>> THEN err("SERVFAIL")
                                   ELSE [i \in DOMAIN o.r.ms |-> own(o.r.ms[i])]
          [] o.r.kind \in {"rcode", "err"} -> err(o.r.rcode)
          [] o.r.kind = "panic" /\ ~debug -> err("SERVFAIL")
          [] OTHER -> <<>>                       \* drop, hang, exit

Served(o, debug) == [ms |-> Finish(o, debug), w |-> o.w,
                     how |-> IF o.r.kind = "panic" /\ debug THEN "exit" ELSE o.r.kind]
serve_request_inner(w, e) ==
    LET req == w.req
        hit == lookup(e.zones, req)
        plain(c) == [ms |-> <<error_reply(req, c)>>, how |-> "refused", w |-> w]
        z == CHOOSE z \in hit : TRUE
    IN  IF req.edns.on /\ req.edns.ver # 0 THEN plain("BADVERS")
        ELSE IF req.q = <<>> \/ hit = {} THEN plain("REFUSED")
        ELSE Served(next_serve(z.chain, w, e), z.debug)

(* self_lookup: the same chain from the top, in the table CURRENT holds    *)
(* now.  The caller's request is its own; the rest of w is shared.         *)
Failed(w) == [ok |-> FALSE, how |-> "err", ms |-> <<>>, w |-> w]
LookedUp(s, req) == [ok |-> s.ms # <<>>, how |-> s.how, ms |-> s.ms, w |-> [s.w EXCEPT !.req = req]]
self_lookup(w, name, type, e) ==
    IF w.req.depth >= MaxDepth \/ e.current = <<>> THEN Failed(w)
    ELSE LET same == SelectInSeq(e.current, LAMBDA s : s.label = w.req.server)
             srv == e.current[IF same = 0 THEN 1 ELSE same]
             r == [new_with_question(w.req, name, type) EXCEPT !.depth = @ + 1, !.server = srv.label]
         IN  LookedUp(serve_request_inner([w EXCEPT !.req = r], [e EXCEPT !.zones = srv.zones]), w.req)

(* self_lookups awaited one after the other; the answers of each, none     *)
(* where it failed.  One that hangs (or ends the process) ends them all.   *)
RECURSIVE Resolve(_, _, _, _)
ResolveAfter(l, names, type, e) ==
    IF l.how \in {"hang", "exit"} THEN [how |-> l.how, answers |-> <<>>, tc |-> FALSE, w |-> l.w]
    ELSE [Resolve(l.w, names, type, e) EXCEPT
            !.answers = <<IF l.ok THEN l.ms[1].ans ELSE <<>> >> \o @,
            !.tc = @ \/ (l.ok /\ "tc" \in l.ms[1].flags)]
Resolve(w, names, type, e) ==
    IF names = <<>> THEN [how |-> "ok", answers |-> <<>>, tc |-> FALSE, w |-> w]
    ELSE ResolveAfter(self_lookup(w, names[1], type, e), Tail(names), type, e)
-----------------------------------------------------------------------------
(* handlers that act on the request *)
bufsize(h, next, w, e) ==
    next_serve(next, IF w.req.edns.on /\ w.req.edns.size > h.size
                     THEN [w EXCEPT !.req.edns.size = h.size] ELSE w, e)

(* the first rule with a policy for the query decides; allow lets it on *)
PolicyMatches(p, req) == (p.types = {} \/ qtype(req) \in p.types) /\ req.ip \in p.nets
acl(h, next, w, e) ==
    LET m == new_reply(w.req)
        ede == [m EXCEPT !.edns = Edns(4096, TRUE, @.opts \cup {"ede"})]
        decides(r) == {i \in DOMAIN r.policies : PolicyMatches(r.policies[i], w.req)}
        ruling == {i \in DOMAIN h.rules : matched(h.rules[i].zones, qname(w.req)) /\ decides(h.rules[i]) # {}}
        first == h.rules[Min(ruling)]
        action == IF ruling = {} THEN "allow" ELSE first.policies[Min(decides(first))].action
    IN  CASE action = "allow"  -> next_serve(next, w, e)
          [] action = "block"  -> Out(Msg([ede EXCEPT !.rcode = "REFUSED"]), w)
          [] action = "filter" -> Out(Msg(ede), w)
          [] action = "drop"   -> Out(Drop, w)

any(h, next, w, e) ==
    IF qtype(w.req) # "ANY" THEN next_serve(next, w, e)
    ELSE Out(Msg([new_reply(w.req) EXCEPT !.flags = @ \cup {"aa"},
                    !.ans = <<RR(qname(w.req), "HINFO", <<"RFC 8482">>, 8482)>>]), w)

chaos(h, next, w, e) ==
    IF qclass(w.req) # "CH" \/ qtype(w.req) # "TXT" \/ qname(w.req) \notin DOMAIN h.texts
    THEN next_serve(next, w, e)
    ELSE Out(Msg([new_reply(w.req) EXCEPT !.flags = @ \cup {"aa"},
               !.ans = LET t == h.texts[qname(w.req)]
                       IN  [i \in DOMAIN t |-> RR(qname(w.req), "TXT", <<t[i]>>, 0)]]), w)

(* Local: the zones every resolver answers itself *)
LocalZones == << <<"localhost">>, <<"0", "in-addr", "arpa">>, <<"127", "in-addr", "arpa">>, <<"255", "in-addr", "arpa">> >>
local(h, next, w, e) ==
    LET n == qname(w.req)
        t == qtype(w.req)
        z == zones_match(LocalZones, n)
        soa(o) == RR(o, "SOA", <<"localhost">>, 604800)
        yes(v) == Out(Msg([new_reply(w.req) EXCEPT !.ans = <<RR(n, t, v, 604800)>>]), w)
        no(o, c) == Out(Msg([new_reply(w.req) EXCEPT !.auth = <<soa(o)>>, !.rcode = c]), w)
        home == IF t = "A" THEN yes(<<"127.0.0.1">>) ELSE IF t = "AAAA" THEN yes(<<"::1">>) ELSE no(n, "NOERROR")
        zone == CHOOSE o \in z : TRUE
    IN  IF Len(n) > 1 /\ n[1] = "localhost" THEN home
        ELSE IF z = {} THEN next_serve(next, w, e)
        ELSE IF n = zone THEN IF t \in {"SOA", "NS"} THEN yes(<<"localhost">>)
                              ELSE IF n = <<"localhost">> THEN home ELSE no(n, "NOERROR")
        ELSE IF n # <<"1", "0", "0", "127", "in-addr", "arpa">> THEN no(zone, "NXDOMAIN")
        ELSE IF t = "PTR" THEN yes(<<"localhost">>) ELSE no(zone, "NOERROR")
-----------------------------------------------------------------------------
(* handlers that act on the reply.  An error (the code's `?`) passes them, *)
(* and so does what never returns.                                         *)
cancelWaits(h, next, w, e) == next_serve(next, w, e)
cancel(h, next, w, e) ==
    LET o == next_serve(next, w, e)
    IN  IF o.r.kind = "hang" THEN Out(Err("cancel", "SERVFAIL"), o.w) ELSE o

nsid(h, next, w, e) ==
    LET o == next_serve(next, w, e)
        put(m) == [m EXCEPT !.edns = IF @.on THEN [@ EXCEPT !.opts = @ \cup {"nsid"}]
                                     ELSE Edns(UDP_BUFFER_SIZE, FALSE, {"nsid"})]
    IN  IF w.req.edns.on /\ "nsid" \in w.req.edns.opts THEN EditMsg(o, put) ELSE o

SetFlags(flags, bits) == FoldLeft(LAMBDA f, b : IF b.on THEN f \cup {b.flag} ELSE f \ {b.flag}, flags, bits)
header(h, next, w, e) ==
    LET o == next_serve(next, [w EXCEPT !.req.flags = SetFlags(@, h.query)], e)
        put(m) == [m EXCEPT !.flags = SetFlags(@, h.response)]
    IN  EditMsg(o, put)

minimal(h, next, w, e) ==
    LET cut(m) == IF m.rcode = "NOERROR" /\ m.ans # <<>> THEN [m EXCEPT !.auth = <<>>, !.add = <<>>] ELSE m
    IN  EditMsg(next_serve(next, w, e), cut)

(* errors: an error is counted for the first pattern it is like, else      *)
(* written; the count is written when the period ends (Summary)            *)
errors(h, next, w, e) ==
    LET o == next_serve(next, w, e)
        like == {i \in DOMAIN h.patterns : o.r.plugin \in h.patterns[i]}
    IN  IF o.r.kind # "err" THEN o
        ELSE IF like # {} THEN [o EXCEPT !.w.counted[Min(like)] = @ + 1]
        ELSE [o EXCEPT !.w = Observe(@, "errors")]

classify(o) ==
    CASE o.r.rcode = "NOERROR"  -> IF HasMsg(o) /\ o.r.ms[1].ans = <<>> THEN "denial" ELSE "success"
      [] o.r.rcode = "NXDOMAIN" -> "denial"
      [] OTHER -> "error"

Returned(o) == o.r.kind \notin {"hang", "panic", "exit"}
log(h, next, w, e) ==
    LET o == next_serve(next, w, e)
        z(i) == zones_match(h.rules[i].zones, qname(w.req))
        depth(i) == Len(CHOOSE x \in z(i) : TRUE)
        in == {i \in DOMAIN h.rules : z(i) # {}}
        best == CHOOSE i \in in : \A j \in in : depth(i) > depth(j) \/ (depth(i) = depth(j) /\ i >= j)
    IN  IF in # {} /\ Returned(o) /\ h.rules[best].classes \cap {"all", classify(o)} # {}
        THEN [o EXCEPT !.w = Observe(@, "log")] ELSE o

prometheus(h, next, w, e) ==
    LET o == next_serve(next, w, e)
    IN  IF Returned(o) THEN [o EXCEPT !.w = Observe(@, "prometheus")] ELSE o
-----------------------------------------------------------------------------
(* loadbalance: CNAMEs, then the addresses shuffled with the weighted      *)
(* choice swapped to the front, then MX shuffled, then the rest            *)
Shuffle(s, perm) == LET at == SelectSeq(perm, LAMBDA i : i <= Len(s)) IN [i \in DOMAIN s |-> s[at[i]]]
SwapFirst(s, f) ==
    IF f = {} \/ ~\E i \in DOMAIN s : s[i] \in f THEN s
    ELSE LET pos == Min({i \in DOMAIN s : s[i] \in f})
         IN  [s EXCEPT ![1] = s[pos], ![pos] = s[1]]
shuffle_section(recs, first, perm) ==
    OfType(recs, {"CNAME"}) \o SwapFirst(Shuffle(OfType(recs, AnAddress), perm), first)
      \o Shuffle(OfType(recs, {"MX"}), perm) \o SelectSeq(recs, LAMBDA r : r.type \notin AnAddress \cup {"CNAME", "MX"})

weighted_firstUpTo(table, recs, pick) ==
    LET addrs == OfType(recs, AnAddress)
        weight(r) == IF r.val[1] \in DOMAIN table THEN table[r.val[1]] ELSE 1
        upto(k) == FoldLeft(LAMBDA s, r : s + weight(r), 0, SubSeq(addrs, 1, k))
        total == upto(Len(addrs))
    IN  IF total = 0 THEN {} ELSE {addrs[Min({k \in DOMAIN addrs : pick % total <= upto(k)})]}
weighted_first(table, recs, pick) ==
    LET addrs == OfType(recs, AnAddress)
        weight(r) == IF r.val[1] \in DOMAIN table THEN table[r.val[1]] ELSE 1
        upto(k) == FoldLeft(LAMBDA s, r : s + weight(r), 0, SubSeq(addrs, 1, k))
        total == upto(Len(addrs))
    IN  IF total = 0 THEN {} ELSE {addrs[Min({k \in DOMAIN addrs : pick % total < upto(k)})]}

loadbalance(h, next, w, e) ==
    LET n == qname(w.req)
        o == next_serve(next, w, e)
        first(m) == IF h.policy = "weighted" /\ n \in DOMAIN e.weights
                    THEN weighted_first(e.weights[n], m.ans, e.pick) ELSE {}
        balance(m) == [m EXCEPT !.ans = shuffle_section(@, first(m), e.perm),
                                !.add = shuffle_section(@, {}, e.perm)]
    IN  IF o.r.kind = "msg" THEN EditMsg(o, balance) ELSE o

(* rewrite: down with the rewritten question, up through apply_response;   *)
(* only the name of the request's question is put back, and only when a    *)
(* reply came up                                                           *)
RECURSIVE RewriteCnames(_, _, _, _)
CnamesAfter(res, m, rules, e) ==
    LET kept == OfType([i \in DOMAIN m.ans |-> Retarget(m.ans[i], rules[1])], {"CNAME"})
    IN  IF res.how # "ok" THEN [how |-> res.how, m |-> m, w |-> res.w]
        ELSE RewriteCnames(res.w, [m EXCEPT !.ans = kept \o FlattenSeq(res.answers)], Tail(rules), e)
RewriteCnames(w, m, rules, e) ==
    IF rules = <<>> THEN [how |-> "ok", m |-> m, w |-> w]
    ELSE LET to == Retargeted(m.ans, rules[1])
         IN  IF to = <<>> THEN RewriteCnames(w, m, Tail(rules), e)
             ELSE CnamesAfter(Resolve(w, to, qtype(w.req), e), m, rules, e)

PutName(o, u) == IF u.name = <<>> THEN o ELSE [o EXCEPT !.w.req.q[1].name = u.name[1]]
WithCnames(o, c, u) ==
    LET up(m) == c.m
    IN  IF c.how # "ok" THEN Out(Ended(c.how), c.w) ELSE PutName([EditMsg(o, up) EXCEPT !.w = c.w], u)
apply_response(o, u, e) ==
    LET m == RestoreAnswers(RestoreQuestion(o.r.ms[1], u), qname(o.w.req), u)
    IN  IF o.r.kind = "err" \/ ~Returned(o) THEN o
        ELSE IF ~HasMsg(o) THEN PutName(o, u)
        ELSE IF ClampPanics(m, u) THEN Out(Ended("panic"), o.w)
        ELSE WithCnames(o, RewriteCnames(o.w, RestoreRcode(ClampTtl(m, u), u), u.cname, e), u)
rewrite_name(h, next, w, e) ==
    LET a == apply_request(h.rules, w.req)
    IN  apply_response(next_serve(next, [w EXCEPT !.req = a.req], e), a.undo, e)

(* dns64: AAAA out of A, asked of this server when there is no AAAA *)
Synthesized(h, o, a) ==
    LET m == o.r.ms[1]
        soa == OfType(m.auth, {"SOA"})
        cap(t) == IF soa = <<>> \/ t < soa[1].ttl THEN t ELSE soa[1].ttl
        synth(r) == IF r.type = "A" THEN [r EXCEPT !.type = "AAAA", !.val = <<"64:ff9b::">> \o @, !.ttl = cap(@)] ELSE r
        usable == OfType(a.answers[1], {"A", "CNAME"})
        kept == IF h.translate_all THEN SelectSeq(m.ans, LAMBDA r : r.type # "AAAA") ELSE <<>>
        up(x) == [x EXCEPT !.rcode = "NOERROR", !.auth = <<>>,
                           !.ans = kept \o [i \in DOMAIN usable |-> synth(usable[i])]]
    IN  IF a.how # "ok" THEN Out(Ended(a.how), a.w)
        ELSE IF usable = <<>> THEN [o EXCEPT !.w = a.w]
        ELSE [EditMsg(o, up) EXCEPT !.w = a.w]
dns64(h, next, w, e) ==
    LET n == qname(w.req)
        o == next_serve(next, w, e)
        m == o.r.ms[1]
        ours == /\ qtype(w.req) = "AAAA" /\ matched(h.zones, n)
                /\ h.allow_ipv4 \/ w.req.ip \notin V4
    IN  IF ~ours \/ ~HasMsg(o) THEN o
        ELSE IF m.rcode = "NXDOMAIN" \/ (OfType(m.ans, {"AAAA"}) # <<>> /\ ~h.translate_all) THEN o
        ELSE Synthesized(h, o, Resolve(o.w, <<qname(o.w.req)>>, "A", e))
-----------------------------------------------------------------------------
(* autopath: the search path is tried here, with requests of its own *)
RECURSIVE TryPath(_, _, _, _, _, _)
TryPath(path, base, kept, next, w, e) ==
    LET req == w.req
        to == base \o path[1]
        o == next_serve(next, [w EXCEPT !.req = new_with_question(req, to, qtype(req))], e)
        w2 == [o.w EXCEPT !.req = req]
        m == o.r.ms[1]
        ttls == {m.ans[i].ttl : i \in DOMAIN m.ans}
        alias == RR(qname(req), "CNAME", to, IF ttls = {} THEN 0 ELSE Min(ttls))
        out == [new_reply(req) EXCEPT !.flags = @ \cup (m.flags \cap {"aa", "ra"}),
                  !.ans = <<alias>> \o m.ans, !.auth = m.auth, !.add = m.add]
    IN  IF path = <<>>
        THEN IF kept = <<>> THEN next_serve(next, w, e)
             ELSE Out(IF kept[1].kind = "msg" THEN [kept[1] EXCEPT !.ms[1].id = req.id] ELSE kept[1], w)
        ELSE IF o.r.kind = "msg" /\ m.rcode = "NOERROR"
        THEN Out(IF to = qname(req) THEN o.r ELSE Msg(out), w2)
        ELSE IF o.r.kind = "err" \/ ~Returned(o) THEN Out(o.r, w2)
        ELSE TryPath(Tail(path), base, IF kept = <<>> /\ to = qname(req) THEN <<o.r>> ELSE kept, next, w2, e)

autopath(h, next, w, e) ==
    LET n == qname(w.req)
    IN  IF /\ matched(h.zones, n) /\ h.search # <<>>
           /\ h.search[1] # ROOT /\ is_subdomain(h.search[1], n) /\ n # h.search[1]
        THEN TryPath(h.search, trim_zone(n, h.search[1]), <<>>, next, w, e)
        ELSE next_serve(next, w, e)

(* template: an answer template makes one record or fails; a CNAME it made *)
(* for an address query is resolved through the server                     *)
TemplateApplies(t, req) ==
    /\ matched(t.zones, qname(req))
    /\ qclass(req) = "ANY" \/ t.class \in {"ANY", qclass(req)}
    /\ qtype(req) = "ANY" \/ t.type \in {"ANY", qtype(req)}
RegexMatch(t, req) == t.regex = {} \/ \E re \in t.regex : qname(req) \in re
render(t, req) == RR(IF t.own THEN qname(req) ELSE t.name, t.type, t.val, 3600)

Chased(recs, req) == IF qtype(req) \in AnAddress THEN OfType(recs, {"CNAME"}) ELSE <<>>
made(ts, req) == [i \in DOMAIN ts |-> render(ts[i], req)]
Templated(t, recs, up, req) ==
    LET nth(i) == Len(OfType(SubSeq(recs, 1, i), {"CNAME"}))
        with(i) == <<recs[i]>> \o (IF Chased(<<recs[i]>>, req) # <<>> THEN up.answers[nth(i)] ELSE <<>>)
        bad(ts) == \E i \in DOMAIN ts : ts[i].bad
    IN  IF up.how # "ok" THEN Out(Ended(up.how), up.w)
        ELSE IF bad(t.answer) \/ bad(t.additional) \/ bad(t.authority) THEN Out(Err("template", "SERVFAIL"), up.w)
        ELSE Out(Msg([new_reply(req) EXCEPT
                        !.flags = @ \cup {"aa"} \cup (IF up.tc THEN {"tc"} ELSE {}), !.rcode = t.rcode,
                        !.ans = FlattenSeq([i \in DOMAIN recs |-> with(i)]),
                        !.add = made(t.additional, req), !.auth = made(t.authority, req),
                        !.edns = IF t.ede THEN Edns(4096, TRUE, @.opts \cup {"ede"}) ELSE @]), up.w)
ChaseTemplate(t, recs, w, e) ==
    LET chase == Chased(recs, w.req)
    IN  Templated(t, recs, Resolve(w, [i \in DOMAIN chase |-> chase[i].val], qtype(w.req), e), w.req)

template(h, next, w, e) ==
    LET req == w.req
        through(t) == matched(t.fallthrough, qname(req))
        stops(s) == TemplateApplies(s, req) /\ (RegexMatch(s, req) \/ ~through(s))
        at == {i \in DOMAIN h.templates : stops(h.templates[i])}
        t == h.templates[Min(at)]
        good == SelectInSeq(t.answer, LAMBDA a : a.bad) - 1
    IN  IF at = {} THEN next_serve(next, w, e)
        ELSE IF ~RegexMatch(t, req) \/ t.rcode = "SERVFAIL" THEN Out(Rcode("SERVFAIL"), w)
        ELSE ChaseTemplate(t, made(IF good < 0 THEN t.answer ELSE SubSeq(t.answer, 1, good), req), w, e)
-----------------------------------------------------------------------------
(* handlers that answer.  A hosts map is the sequence of its lines, the    *)
(* inline ones first; v4, v6 and reverse are what parse makes of it.       *)
Dedup(s) == FoldLeft(LAMBDA d, x : IF Contains(d, x) THEN d ELSE Append(d, x), <<>>, s)
Addresses(map, n, four) ==
    LET own == SelectSeq(map, LAMBDA l : l.name = n /\ (l.ip \in V4) = four)
    IN  Dedup([i \in DOMAIN own |-> own[i].ip])
Reverse_(map, n) ==
    LET own == SelectSeq(map, LAMBDA l : ReverseOf[l.ip] = n)
    IN  Dedup([i \in DOMAIN own |-> own[i].name])
has_address(map, n) == Addresses(map, n, TRUE) \o Addresses(map, n, FALSE) # <<>>

hosts_lookup(h, map, n, t) ==
    LET ips == IF t \in AnAddress THEN Addresses(map, n, t = "A") ELSE <<>>
        ptr == IF t = "PTR" /\ ~h.no_reverse THEN Reverse_(map, n) ELSE <<>>
    IN  [i \in DOMAIN ips |-> RR(n, t, <<ips[i]>>, h.ttl)] \o [i \in DOMAIN ptr |-> RR(n, t, ptr[i], h.ttl)]

hosts(h, next, w, e) ==
    LET n == qname(w.req)
        t == qtype(w.req)
        ans == hosts_lookup(h, e.hosts.early, n, t)
    IN  IF t # "PTR" /\ ~matched(h.zones, n) THEN next_serve(next, w, e)
        ELSE IF t = "PTR" /\ ans = <<>> THEN next_serve(next, w, e)
        ELSE IF ans = <<>> /\ ~has_address(e.hosts.late, n)
        THEN IF matched(h.fallthrough, n) THEN next_serve(next, w, e) ELSE Out(Rcode("SERVFAIL"), w)
        ELSE Out(Msg([new_reply(w.req) EXCEPT !.flags = @ \cup {"aa"}, !.ans = ans]), w)

xfr_records(zone, close) ==
    LET soa == RR(zone, "SOA", <<"sns", "dns", "icann", "org">>, 0)
        sub(l) == <<l>> \o zone
    IN  <<soa, RR(zone, "NS", sub("b"), 0), RR(zone, "NS", sub("a"), 0),
          RR(sub("a"), "AAAA", <<"2001:bd8::53">>, 0), RR(sub("b"), "AAAA", <<"2001:500::54">>, 0)>>
        \o (IF close THEN <<soa>> ELSE <<>>)

erratic(h, next, w, e) ==
    LET every(k) == k > 0 /\ w.n % k = 0
        t == qtype(w.req)
        n == qname(w.req)
        m == [new_reply(w.req) EXCEPT !.flags = @ \cup {"aa"}]
        tc(x) == IF every(h.truncate) THEN [x EXCEPT !.flags = @ \cup {"tc"}] ELSE x
        r == CASE t = "A"    -> Msg(tc([m EXCEPT !.ans = [i \in 1 .. (IF h.large THEN 30 ELSE 1) |->
                                                            RR(n, "A", <<"192.0.2.53">>, 0)]]))
               [] t = "AAAA" -> Msg(tc([m EXCEPT !.ans = <<RR(n, "AAAA", <<"2001:db8::53">>, 0)>>]))
               [] t = "AXFR" -> Multi(<<[m EXCEPT !.ans = xfr_records(n, ~every(h.truncate))]>>)
               [] OTHER      -> Rcode("SERVFAIL")
    IN  Out(IF every(h.drop) THEN Drop ELSE r, [w EXCEPT !.n = @ + 1])

whoami(h, next, w, e) ==
    Out(Msg([new_reply(w.req) EXCEPT !.flags = @ \cup {"aa"},
          !.add = <<RR(qname(w.req), IF w.req.ip \in V4 THEN "A" ELSE "AAAA", <<w.req.ip>>, 0),
                    RR(<<IF w.req.proto = "udp" THEN "_udp" ELSE "_tcp">> \o qname(w.req), "SRV", <<>>, 0)>>]), w)

(* a plugin that the other modules model (file, forward, kubernetes...):   *)
(* e.up says how its future ends for a question, or that there is no such  *)
(* name                                                                    *)
backend(h, next, w, e) ==
    LET k == <<qname(w.req), qtype(w.req)>>
        m == new_reply(w.req)
        u == e.up[k]
    IN  IF k \notin DOMAIN e.up
        THEN Out(Msg([m EXCEPT !.rcode = "NXDOMAIN", !.auth = <<RR(ROOT, "SOA", <<>>, 30)>>]), w)
        ELSE CASE u.kind = "msg" -> Out(Msg([m EXCEPT !.ans = u.ans, !.rcode = u.rcode]), w)
               [] u.kind \in {"err", "rcode"} -> Out(Reply(u.kind, <<>>, u.rcode, "backend"), w)
               [] OTHER -> Out(Ended(u.kind), w)

serve_dns(h, next, w, e) ==
    CASE h.h = "bufsize"     -> bufsize(h, next, w, e)
      [] h.h = "nsid"        -> nsid(h, next, w, e)
      [] h.h = "cancel"      -> cancel(h, next, w, e)
      [] h.h = "prometheus"  -> prometheus(h, next, w, e)
      [] h.h = "errors"      -> errors(h, next, w, e)
      [] h.h = "log"         -> log(h, next, w, e)
      [] h.h = "local"       -> local(h, next, w, e)
      [] h.h = "dns64"       -> dns64(h, next, w, e)
      [] h.h = "acl"         -> acl(h, next, w, e)
      [] h.h = "any"         -> any(h, next, w, e)
      [] h.h = "chaos"       -> chaos(h, next, w, e)
      [] h.h = "loadbalance" -> loadbalance(h, next, w, e)
      [] h.h = "rewrite"     -> rewrite_name(h, next, w, e)
      [] h.h = "header"      -> header(h, next, w, e)
      [] h.h = "autopath"    -> autopath(h, next, w, e)
      [] h.h = "minimal"     -> minimal(h, next, w, e)
      [] h.h = "template"    -> template(h, next, w, e)
      [] h.h = "hosts"       -> hosts(h, next, w, e)
      [] h.h = "erratic"     -> erratic(h, next, w, e)
      [] h.h = "whoami"      -> whoami(h, next, w, e)
      [] h.h = "backend"     -> backend(h, next, w, e)

next_serve(chain, w, e) ==
    IF chain = <<>> THEN Out(Err("plugin", "SERVFAIL"), w) ELSE serve_dns(chain[1], Tail(chain), w, e)
=============================================================================
