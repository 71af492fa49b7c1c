------------------------------ MODULE Rewrite ------------------------------
(***************************************************************************)
(* The rules of the rewrite plugin (src/plugins/rewrite.rs): what they do  *)
(* to a request, what of it is remembered, and what the reply gets back.   *)
(* Prefixes, suffixes and substrings are of whole labels; a regex is given *)
(* by the names it maps.  A rewrite gives the set of its result, empty     *)
(* when the name does not match.                                           *)
(***************************************************************************)
EXTENDS Messages

(* Matcher::rewrite, matches and inverse *)
rewrite(m, n, to) ==
    CASE m.kind = "exact"  -> IF n = m.p THEN {to} ELSE {}
      [] m.kind = "prefix" -> IF IsPrefix(m.p, n) THEN {to \o SubSeq(n, Len(m.p) + 1, Len(n))} ELSE {}
      [] m.kind = "suffix" -> IF IsSuffix(m.p, n) THEN {trim_zone(n, m.p) \o to} ELSE {}
      [] m.kind = "substring" -> IF \E i \in DOMAIN n : m.p = <<n[i]>>
                                 THEN {FlattenSeq([i \in DOMAIN n |-> IF m.p = <<n[i]>> THEN to ELSE <<n[i]>>])}
                                 ELSE {}
      [] m.kind = "regex"  -> IF n \in DOMAIN m.map THEN {m.map[n]} ELSE {}

matches(m, n) == rewrite(m, n, n) # {}
Matcher(kind, p) == [kind |-> kind, p |-> p]
inverse(m, to) == IF m.kind = "regex" THEN {} ELSE {[m |-> Matcher(m.kind, to), to |-> m.p]}

(* apply_edns0, and the subnet rule, which is the same with its own option *)
apply_edns0(req, action, code) ==
    LET opt == IF req.edns.on THEN req.edns ELSE Edns(UDP_BUFFER_SIZE, FALSE, {})
        put == \/ action = "set"
               \/ action = "append" /\ code \notin opt.opts
               \/ action = "replace" /\ code \in opt.opts
    IN  [req EXCEPT !.edns = [opt EXCEPT !.opts = IF put THEN @ \cup {code} ELSE @]]
-----------------------------------------------------------------------------
(* apply_request: the rules in order, up to one that matches and stops *)
NoUndo == [name |-> <<>>, type |-> <<>>, class |-> <<>>,
           answers |-> <<>>, ttl |-> <<>>, rcode |-> <<>>, cname |-> <<>>]
Keep(old, v) == IF old = <<>> THEN <<v>> ELSE old           \* is_none(): the first one

ApplyRule(s, r) ==
    LET req == s.req
        hit(new, undo) == [req |-> new, undo |-> undo, done |-> r.mode = "stop"]
        noted(field, v) == [s.undo EXCEPT ![field] = Append(@, v)]
        to == IF r.kind = "name" THEN rewrite(r.m, qname(req), r.to) \ {qname(req)} ELSE {}
    IN  CASE s.done -> s
          [] r.kind = "name" /\ ~s.done /\ to # {} ->
               hit([req EXCEPT !.q[1].name = CHOOSE n \in to : TRUE],
                   [s.undo EXCEPT !.name = Keep(@, qname(req)),
                      !.answers = @ \o [i \in DOMAIN r.answers |->
                                         [rule |-> r.answers[i], m |-> r.m, to |-> r.to]]])
          [] r.kind = "type" /\ ~s.done /\ qtype(req) = r.from ->
               hit([req EXCEPT !.q[1].type = r.to], [s.undo EXCEPT !.type = Keep(@, r.from)])
          [] r.kind = "class" /\ ~s.done /\ qclass(req) = r.from ->
               hit([req EXCEPT !.q[1].class = r.to], [s.undo EXCEPT !.class = Keep(@, r.from)])
          [] r.kind \in {"ttl", "rcode"} /\ ~s.done /\ matches(r.m, qname(req)) -> hit(req, noted(r.kind, r))
          [] r.kind = "cname" /\ ~s.done -> [s EXCEPT !.undo = noted("cname", r)]
          [] r.kind = "edns0" /\ ~s.done -> hit(apply_edns0(req, r.action, r.code), s.undo)
          [] OTHER -> s

apply_request(rules, req) == FoldLeft(ApplyRule, [req |-> req, undo |-> NoUndo, done |-> FALSE], rules)
-----------------------------------------------------------------------------
(* apply_response: the question, the names in the answers, TTLs, rcode *)
RestoreQuestion(m, undo) ==
    IF m.q = <<>> THEN m
    ELSE [m EXCEPT !.q[1] = Question(IF undo.name = <<>> THEN @.name ELSE undo.name[1],
                                     IF undo.type = <<>> THEN @.type ELSE undo.type[1],
                                     IF undo.class = <<>> THEN @.class ELSE undo.class[1])]

Else(set, old) == IF set = {} THEN old ELSE CHOOSE x \in set : TRUE
Back(m, to, n) ==
    IF inverse(m, to) = {} THEN n
    ELSE LET inv == CHOOSE i \in inverse(m, to) : TRUE IN Else(rewrite(inv.m, n, inv.to), n)

AnswerRule(a, r, asked, undo) ==
    CASE a.rule.kind = "auto" /\ r.name = asked -> [r EXCEPT !.name = undo.name[1]]
      [] a.rule.kind = "auto" /\ r.name # asked -> [r EXCEPT !.name = Back(a.m, a.to, @)]
      [] a.rule.kind = "name"  -> [r EXCEPT !.name = Else(rewrite(a.rule.m, @, a.rule.to), @)]
      [] a.rule.kind = "value" /\ r.type \in {"CNAME", "PTR"} ->
           [r EXCEPT !.val = Else(rewrite(a.rule.m, @, a.rule.to), @)]
      [] OTHER -> r

EachAnswer(m, F(_)) == [m EXCEPT !.ans = [i \in DOMAIN @ |-> F(@[i])]]
RestoreNoAnswers(m, asked, undo) == m
RestoreAnswers(m, asked, undo) ==
    FoldLeft(LAMBDA b, a : EachAnswer(b, LAMBDA r : AnswerRule(a, r, asked, undo)), m, undo.answers)

(* u32::clamp panics when min > max *)
ClampPanics(m, undo) ==
    \E i \in DOMAIN undo.ttl, j \in DOMAIN m.ans :
        undo.ttl[i].min > undo.ttl[i].max /\ matches(undo.ttl[i].m, m.ans[j].name)
Clamp(t, lo, hi) == IF t < lo THEN lo ELSE IF t > hi THEN hi ELSE t
ClampTtl(m, undo) ==
    FoldLeft(LAMBDA b, t : EachAnswer(b, LAMBDA r :
               IF matches(t.m, r.name) THEN [r EXCEPT !.ttl = Clamp(@, t.min, t.max)] ELSE r), m, undo.ttl)

RestoreRcode(m, undo) ==
    [m EXCEPT !.rcode = FoldLeft(LAMBDA c, r : IF c = r.from THEN r.to ELSE c, @, undo.rcode)]

(* the CNAMEs a cname rule changes, and the answer with them changed *)
Retarget(r, c) == IF r.type = "CNAME" THEN [r EXCEPT !.val = Else(rewrite(c.m, @, c.to), @)] ELSE r
Retargeted(ans, c) ==
    LET hit == SelectSeq(ans, LAMBDA r : r.type = "CNAME" /\ rewrite(c.m, r.val, c.to) # {})
    IN  [i \in DOMAIN hit |-> Retarget(hit[i], c).val]
=============================================================================
