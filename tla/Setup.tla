------------------------------- MODULE Setup -------------------------------
(***************************************************************************)
(* From a Corefile to the servers: the setup functions of the plugins of   *)
(* Chain, build and group_servers (src/server/build.rs,                    *)
(* src/server/config.rs, src/plugin/controller.rs).                        *)
(*                                                                         *)
(* What a word is converted to is a table, undefined where the conversion  *)
(* fails: NameOf a zone or name, NumOf a number or duration, NetOf the     *)
(* clients in a network, and so on.  A setup gives the handlers it adds;   *)
(* an error in any of them is the error of the whole.                      *)
(***************************************************************************)
EXTENDS Chain, Corefile

CONSTANTS
    Everyone,                       \* all client addresses
    NameOf, NumOf, NetOf, RangeOf,  \* RangeOf: a TTL "a-b" or "a"
    ExprOf,                         \* a view's expression: the clients it accepts
    RegexOf, LikeOf,                \* the names, the plugins' errors, a regex matches
    RecordOf,                       \* a record template
    SearchOf,                       \* a resolv.conf's search path
    KeyOf                           \* a server block's key

Word(text) == IF Len(text) = 1 THEN text[1] ELSE ""
Words(ts)  == [i \in DOMAIN ts |-> Word(ts[i])]
All(s, ok) == \A i \in DOMAIN s : s[i] \in ok
Each(s, f) == [i \in DOMAIN s |-> f[s[i]]]

Result(how, hs) == [how |-> how, hs |-> hs]
Fail == Result("error", <<>>)
AddIf(ok, h) == IF ok THEN Result("ok", <<h>>) ELSE Fail
One(us) == Len(us) = 1                     \* "only be used once per Server Block"

OriginsOk(args) == All(args, DOMAIN NameOf)
Origins(args, zones) == IF args = <<>> THEN zones ELSE Each(args, NameOf)
Fallthrough(a) == IF a = <<>> THEN <<ROOT>> ELSE Each(a, NameOf)

(* the lines of a block with one of these properties, the last one, and    *)
(* whether each has a property that is known; a property without arguments *)
(* leaves the rest of its line to be read as more properties               *)
Having(ls, p) == SelectSeq(ls, LAMBDA l : l[1] = p)
Known(ls, ps) == \A i \in DOMAIN ls : ls[i][1] \in ps
ArgsOf(ls, p) == FlattenSeq([i \in DOMAIN Having(ls, p) |-> Tail(Having(ls, p)[i])])
LastArg(ls, p, f, default) == IF Having(ls, p) = <<>> THEN default ELSE f[Last(Having(ls, p))[2]]
EachTakes(ls, p, n, ok) == \A i \in DOMAIN Having(ls, p) :
    LET l == Having(ls, p)[i] IN Len(l) - 1 \in n /\ All(Tail(l), ok)
RECURSIVE Split(_, _)
Split(ls, bare) ==
    IF ls = <<>> THEN <<>>
    ELSE LET l == ls[1] IN
         IF l[1] \in bare /\ Len(l) > 1 THEN << <<l[1]>> >> \o Split(<<Tail(l)>> \o Tail(ls), bare)
         ELSE <<l>> \o Split(Tail(ls), bare)
-----------------------------------------------------------------------------
(* setups without a block *)
plain_setup(name, us) == AddIf(One(us) /\ us[1].args = <<>>, [h |-> name])
whoami_setup(us)      == AddIf(us[1].args = <<>>, [h |-> "whoami"])
nsid_setup(us)        == AddIf(One(us), [h |-> "nsid"])
bufsize_setup(us) ==
    LET a == us[1].args
        n == IF a = <<>> THEN 1232 ELSE NumOf[a[1]]
    IN  AddIf(One(us) /\ Len(a) <= 1 /\ All(a, DOMAIN NumOf) /\ n \in 512 .. 4096, [h |-> "bufsize", size |-> n])
cancel_setup(us) ==
    LET a == us[1].args
    IN  AddIf(One(us) /\ Len(a) <= 1 /\ All(a, DOMAIN NumOf) /\ (a # <<>> => NumOf[a[1]] > 0), [h |-> "cancel"])
chaos_setup(us) ==
    LET a == us[1].args
        v == <<IF a = <<>> THEN "CoreDNS" ELSE a[1]>>
        who == SetToSeq(IF a = <<>> THEN {"Miek Gieben"} ELSE ToSet(Tail(a)))
        bind(n) == <<n, "bind">>
        server(n) == <<n, "server">>
        text(q) == IF q[1] = "version" THEN v ELSE IF q[1] = "authors" THEN who ELSE <<"host">>
    IN  AddIf(One(us), [h |-> "chaos", texts |->
            [q \in {bind("version"), server("version"), bind("hostname"), server("id"), bind("authors")} |-> text(q)]])
(* a search path is the file's with the empty one, or the one erratic has  *)
autopath_setup(us, zones, beside) ==
    LET a == us[1].args
        src == Last(a)
        erratic_path == << <<"a", "example", "org">>, <<"b", "example", "org">>, ROOT >>
        path == IF src # "@erratic" THEN Append(SearchOf[src], ROOT)
                ELSE IF "erratic" \in beside THEN erratic_path ELSE <<>>
    IN  AddIf(/\ One(us) /\ a # <<>> /\ src \in DOMAIN SearchOf \cup {"@erratic"} /\ OriginsOk(Front(a)),
              [h |-> "autopath", zones |-> Origins(Front(a), zones), search |-> path])
-----------------------------------------------------------------------------
(* setups with a block; a block that is left open ends in an unknown       *)
(* property, except in rewrite                                             *)
Closed(us) == \A i \in DOMAIN us : ~us[i].open

header_setup(us) ==
    LET ls == us[1].block
        rest(l) == IF l[1] \in {"query", "response"} THEN Tail(l) ELSE l
        bits(l) == [j \in 1 .. (Len(rest(l)) - 1) |-> [flag |-> rest(l)[j + 1], on |-> rest(l)[1] = "set"]]
        side(q) == LET own == SelectSeq(ls, LAMBDA l : (l[1] = "query") = q)
                   IN  FlattenSeq([i \in DOMAIN own |-> bits(own[i])])
        ok(l) == /\ Len(rest(l)) >= 2 /\ rest(l)[1] \in {"set", "clear"}
                 /\ All(Tail(rest(l)), {"aa", "ra", "rd", "ad", "cd", "tc"})
    IN  AddIf(One(us) /\ Closed(us) /\ us[1].args = <<>> /\ \A i \in DOMAIN ls : ok(ls[i]),
              [h |-> "header", query |-> side(TRUE), response |-> side(FALSE)])

errors_setup(us) ==
    LET ls == Split(us[1].block, {"stacktrace"})
        cs == Having(ls, "consolidate")
        ok(l) == /\ Len(l) \in 3 .. 4 /\ l[2] \in DOMAIN NumOf /\ l[3] \in DOMAIN LikeOf
                 /\ Len(l) = 4 => l[4] \in {"error", "warning", "info", "debug"}
    IN  AddIf(/\ One(us) /\ Closed(us) /\ us[1].args \in {<<>>, <<"stdout">>}
              /\ Known(ls, {"stacktrace", "consolidate"}) /\ \A i \in DOMAIN cs : ok(cs[i]),
              [h |-> "errors", patterns |-> [i \in DOMAIN cs |-> LikeOf[cs[i][3]]]])

erratic_setup(us) ==
    LET ls == Split(us[1].block, {"large"})
        amount(l) == IF Len(l) = 1 THEN 2 ELSE NumOf[l[2]]
        of(p) == IF Having(ls, p) = <<>> THEN 0 ELSE amount(Last(Having(ls, p)))
        ok(l) == \/ l = <<"large">>
                 \/ /\ l[1] \in {"drop", "truncate", "delay"} /\ All(Tail(l), DOMAIN NumOf)
                    /\ Len(l) <= (IF l[1] = "delay" THEN 3 ELSE 2) /\ amount(l) > 0
    IN  AddIf(One(us) /\ Closed(us) /\ us[1].args = <<>> /\ \A i \in DOMAIN ls : ok(ls[i]),
              [h |-> "erratic", drop |-> of("drop"), truncate |-> of("truncate"), large |-> Having(ls, "large") # <<>>])

log_setup(us, zones) ==
    LET format == {"common", "combined", "{type}"}
        args(u) == IF u.args # <<>> /\ Last(u.args) \in format THEN Front(u.args) ELSE u.args
        classes(u) == ToSet(ArgsOf(u.block, "class"))
        ok(u) == /\ Known(u.block, {"class"}) /\ OriginsOk(args(u))
                 /\ \A i \in DOMAIN u.block : Len(u.block[i]) > 1
                 /\ classes(u) \subseteq {"all", "success", "denial", "error"}
        rule(u) == [zones |-> Origins(args(u), zones), classes |-> IF classes(u) = {} THEN {"all"} ELSE classes(u)]
    IN  AddIf(Closed(us) /\ \A i \in DOMAIN us : ok(us[i]), [h |-> "log", rules |-> [i \in DOMAIN us |-> rule(us[i])]])

dns64_setup(us, zones) ==
    LET ls == Split(us[1].block, {"translate_all", "allow_ipv4"})
    IN  AddIf(/\ One(us) /\ Closed(us) /\ OriginsOk(us[1].args)
              /\ Known(ls, {"translate_all", "allow_ipv4", "prefix"}) /\ EachTakes(ls, "prefix", {1}, DOMAIN NumOf)
              /\ \A i \in DOMAIN Having(ls, "prefix") : NumOf[Having(ls, "prefix")[i][2]] \in {32, 40, 48, 56, 64, 96},
              [h |-> "dns64", zones |-> Origins(us[1].args, zones),
               translate_all |-> Having(ls, "translate_all") # <<>>, allow_ipv4 |-> Having(ls, "allow_ipv4") # <<>>])

(* acl: `type T...` and `net N...` in turn; no net is every client *)
PolicyOf(l) ==
    LET t == Tail(l)
        kw == {i \in DOMAIN t : t[i] \in {"type", "net"}}
        under(w) == {t[i] : i \in {i \in DOMAIN t \ kw : \E k \in kw : k < i /\ t[k] = w /\ kw \cap (k + 1) .. i = {}}}
        ok == /\ l[1] \in {"allow", "block", "filter", "drop"} /\ t # <<>> => 1 \in kw
              /\ \A i \in kw : i + 1 \in DOMAIN t \ kw
              /\ \A i, j \in kw : (i < j /\ t[i] = t[j]) => \E k \in kw : i < k /\ k < j
              /\ kw # {} => under("net") \subseteq DOMAIN NetOf
    IN  [ok |-> ok, p |-> [action |-> l[1], types |-> under("type"),
                           nets |-> IF under("net") = {} THEN Everyone ELSE UNION {NetOf[w] : w \in under("net") \cap DOMAIN NetOf}]]
acl_setup(us, zones) ==
    LET lines(u) == [i \in DOMAIN u.block |-> PolicyOf(u.block[i])]
        rule(u) == [zones |-> Origins(u.args, zones), policies |-> [i \in DOMAIN u.block |-> lines(u)[i].p]]
    IN  AddIf(/\ Closed(us)
              /\ \A i \in DOMAIN us : OriginsOk(us[i].args) /\ \A j \in DOMAIN us[i].block : lines(us[i])[j].ok,
              [h |-> "acl", rules |-> [i \in DOMAIN us |-> rule(us[i])]])

(* template CLASS TYPE [ZONE...] *)
TemplateOk(u) ==
    LET ls == u.block
    IN  /\ Len(u.args) >= 2 /\ OriginsOk(SubSeq(u.args, 3, Len(u.args)))
        /\ Known(ls, {"match", "answer", "additional", "authority", "rcode", "fallthrough", "upstream", "ederror"})
        /\ All(ArgsOf(ls, "match"), DOMAIN RegexOf) /\ EachTakes(ls, "rcode", {1}, {"NOERROR", "NXDOMAIN", "SERVFAIL", "REFUSED"})
        /\ OriginsOk(ArgsOf(ls, "fallthrough"))
        /\ \A i \in DOMAIN Having(ls, "ederror") : LET l == Having(ls, "ederror")[i] IN Len(l) \in 2 .. 3 /\ l[2] \in DOMAIN NumOf
        /\ \/ ArgsOf(ls, "answer") \o ArgsOf(ls, "additional") \o ArgsOf(ls, "authority") # <<>>
           \/ Having(ls, "rcode") # <<>> /\ Last(Having(ls, "rcode"))[2] # "NOERROR"
TemplateOf(u, zones) ==
    LET ls == u.block
        part(p) == Each(ArgsOf(ls, p), RecordOf)
        falls == Having(ls, "fallthrough")
    IN  [class |-> u.args[1], type |-> u.args[2], zones |-> Origins(SubSeq(u.args, 3, Len(u.args)), zones),
         regex |-> ToSet(Each(ArgsOf(ls, "match"), RegexOf)),
         answer |-> part("answer"), additional |-> part("additional"), authority |-> part("authority"),
         rcode |-> IF Having(ls, "rcode") = <<>> THEN "NOERROR" ELSE Last(Having(ls, "rcode"))[2],
         fallthrough |-> IF falls = <<>> THEN <<>> ELSE Fallthrough(Tail(Last(falls))),
         ede |-> Having(ls, "ederror") # <<>>]
template_setup(us, zones) ==
    AddIf(Closed(us) /\ \A i \in DOMAIN us : TemplateOk(us[i]),
          [h |-> "template", templates |-> [i \in DOMAIN us |-> TemplateOf(us[i], zones)]])

(* hosts [FILE [ZONE...]]: a line of the block that is no property is an   *)
(* inline entry                                                            *)
hosts_setup(us, zones) ==
    LET u == us[1]
        props == {"ttl", "no_reverse", "reload", "fallthrough"}
        ls == Split(u.block, {"no_reverse"})
        entries == SelectSeq(ls, LAMBDA l : l[1] \notin props)
        lines(l) == [i \in 1 .. (Len(l) - 1) |-> [ip |-> l[1], name |-> NameOf[l[i + 1]]]]
        falls == Having(ls, "fallthrough")
        at == IF u.args = <<>> THEN <<>> ELSE Tail(u.args)
    IN  AddIf(/\ One(us) /\ Closed(us) /\ OriginsOk(at)
              /\ EachTakes(ls, "ttl", {1}, DOMAIN NumOf) /\ EachTakes(ls, "reload", {1}, DOMAIN NumOf)
              /\ OriginsOk(ArgsOf(ls, "fallthrough"))
              /\ \A i \in DOMAIN entries : entries[i][1] \in Everyone \cup DOMAIN ReverseOf /\ Len(entries[i]) > 1,
              [h |-> "hosts", zones |-> Origins(at, zones), inline |-> FlattenSeq([i \in DOMAIN entries |-> lines(entries[i])]),
               ttl |-> LastArg(ls, "ttl", NumOf, 3600), no_reverse |-> Having(ls, "no_reverse") # <<>>,
               fallthrough |-> IF falls = <<>> THEN <<>> ELSE Fallthrough(Tail(Last(falls)))])

(* loadbalance [round_robin | weighted FILE { reload D }]: round_robin     *)
(* reads no block, so its lines are read as more uses                      *)
loadbalance_setup(us) ==
    LET u == us[1]
        weighted == u.args # <<>> /\ u.args[1] = "weighted"
    IN  AddIf(/\ One(us) /\ Closed(us)
              /\ IF weighted THEN /\ Len(u.args) >= 2 /\ Known(u.block, {"reload"})
                                  /\ EachTakes(u.block, "reload", {1}, DOMAIN NumOf)
                 ELSE u.args \in {<<>>, <<"round_robin">>} /\ ~u.braced,
              [h |-> "loadbalance", policy |-> IF weighted THEN "weighted" ELSE "round_robin"])

view_ok(us) ==
    LET ls == us[1].block
    IN  /\ One(us) /\ Closed(us) /\ Len(us[1].args) = 1 /\ ls # <<>> /\ Known(ls, {"expr"})
        /\ \A i \in DOMAIN ls : Len(ls[i]) = 2 /\ ls[i][2] \in DOMAIN ExprOf
view_filter(us) == {c \in Everyone : \A i \in DOMAIN us[1].block : c \in ExprOf[us[1].block[i][2]]}
-----------------------------------------------------------------------------
(* rewrite [continue|stop] FIELD ...: parse_rule *)
Kinds == {"exact", "prefix", "suffix", "substring", "regex"}
KindOf(a, default) == IF a # <<>> /\ a[1] \in Kinds THEN [kind |-> a[1], rest |-> Tail(a)] ELSE [kind |-> default, rest |-> a]
MatcherOk(kind, w) == w \in IF kind = "regex" THEN DOMAIN RegexOf ELSE DOMAIN NameOf
MatcherOf(kind, w) ==
    IF kind = "regex" THEN [kind |-> kind, map |-> [n \in RegexOf[w] |-> n]] ELSE Matcher(kind, NameOf[w])

NoRule == [kind |-> "none"]
AnswerOf(l, kind) ==
    LET k == KindOf(SubSeq(l, 3, Len(l)), kind)
    IN  IF Len(l) < 2 \/ l[1] # "answer" THEN NoRule
        ELSE IF l[2] = "auto" THEN [kind |-> "auto"]
        ELSE IF l[2] \in {"name", "value"} /\ Len(k.rest) = 2 /\ MatcherOk(k.kind, k.rest[1])
        THEN [kind |-> l[2], m |-> MatcherOf(k.kind, k.rest[1]), to |-> NameOf[k.rest[2]]]
        ELSE NoRule

NameRule(a, block, mode) ==
    LET k == KindOf(a, "exact")
        r == k.rest
        lines == (IF Len(r) > 2 THEN <<SubSeq(r, 3, Len(r))>> ELSE <<>>) \o block
        answers == [i \in DOMAIN lines |-> AnswerOf(lines[i], k.kind)]
    IN  IF Len(r) < 2 \/ ~MatcherOk(k.kind, r[1]) \/ (\E i \in DOMAIN answers : answers[i].kind = "none") THEN NoRule
        ELSE [kind |-> "name", mode |-> mode, m |-> MatcherOf(k.kind, r[1]), to |-> NameOf[r[2]], answers |-> answers]

Edns0Rule(a, mode) ==
    LET takes == [local |-> 4, nsid |-> 2, subnet |-> 4]
        code == IF a[1] = "local" THEN a[3] ELSE a[1]
    IN  IF a = <<>> \/ a[1] \notin DOMAIN takes THEN NoRule
        ELSE IF Len(a) # takes[a[1]] \/ a[2] \notin {"set", "append", "replace"} THEN NoRule
        ELSE IF a[1] = "subnet" /\ ~(NumOf[a[3]] <= 32 /\ NumOf[a[4]] <= 128) THEN NoRule
        ELSE [kind |-> "edns0", mode |-> mode, action |-> a[2], code |-> code]

parse_rule(args, block) ==
    LET cut == args[1] \in {"continue", "stop"}
        mode == IF args[1] = "continue" THEN "continue" ELSE "stop"
        a == IF cut THEN Tail(args) ELSE args
        field == a[1]
        r == Tail(a)
        k == KindOf(r, "exact")
        m == MatcherOf(k.kind, k.rest[1])
        known == k.rest # <<>> /\ MatcherOk(k.kind, k.rest[1])
    IN  IF a = <<>> THEN NoRule
        ELSE CASE field = "name" -> NameRule(r, block, mode)
               [] field \in {"type", "class"} ->
                    IF Len(r) # 2 THEN NoRule ELSE [kind |-> field, mode |-> mode, from |-> r[1], to |-> r[2]]
               [] field = "ttl" ->
                    IF Len(k.rest) # 2 \/ ~known \/ k.rest[2] \notin DOMAIN RangeOf THEN NoRule
                    ELSE [kind |-> "ttl", mode |-> mode, m |-> m, min |-> RangeOf[k.rest[2]][1], max |-> RangeOf[k.rest[2]][2]]
               [] field = "rcode" ->
                    IF Len(k.rest) # 3 \/ ~known THEN NoRule
                    ELSE [kind |-> "rcode", mode |-> mode, m |-> m, from |-> k.rest[2], to |-> k.rest[3]]
               [] field = "cname" ->
                    IF Len(k.rest) # 2 \/ ~known THEN NoRule
                    ELSE [kind |-> "cname", mode |-> mode, m |-> m, to |-> NameOf[k.rest[2]]]
               [] field = "edns0" -> Edns0Rule(r, mode)
               [] OTHER -> NoRule

(* an open block, always the last, never ends: its lines are collected for *)
(* ever, once the rules before it are parsed                               *)
AddRules(rules, closed) ==
    LET ok(i) == rules[i].kind # "none"
    IN  IF ~closed /\ (\A i \in 1 .. (Len(rules) - 1) : ok(i)) THEN Result("hang", <<>>)
        ELSE AddIf(\A i \in DOMAIN rules : ok(i), [h |-> "rewrite", rules |-> rules])
rewrite_setup(us) ==
    AddRules([i \in DOMAIN us |-> IF us[i].args = <<>> THEN NoRule ELSE parse_rule(us[i].args, us[i].block)], Closed(us))
-----------------------------------------------------------------------------
(* registry::ORDER, of the plugins modelled here; forward stands for all   *)
(* that answer from elsewhere                                              *)
ORDER == <<"cancel", "nsid", "bufsize", "debug", "prometheus", "errors", "log", "local", "dns64", "acl", "any",
           "chaos", "loadbalance", "rewrite", "header", "autopath", "minimal", "template", "hosts", "forward",
           "erratic", "whoami", "view">>
NoBlock == {"cancel", "nsid", "bufsize", "debug", "local", "any", "chaos", "autopath", "minimal", "whoami"}

(* what a setup reads of the tokens it is given *)
WordsOf(us) == [i \in DOMAIN us |-> [us[i] EXCEPT !.args = Words(@), !.block = [j \in DOMAIN @ |-> Words(@[j])]]]
Reads(name, toks) == WordsOf(Uses(Dispenser(toks), name \notin NoBlock))

setup(name, us, zones, beside) ==
    CASE name \in {"local", "any", "minimal"} -> plain_setup(name, us)
      [] name = "debug"       -> [plain_setup(name, us) EXCEPT !.hs = <<>>]
      [] name = "view"        -> IF view_ok(us) THEN Result("ok", <<>>) ELSE Fail
      [] name = "cancel"      -> cancel_setup(us)
      [] name = "nsid"        -> nsid_setup(us)
      [] name = "bufsize"     -> bufsize_setup(us)
      [] name = "prometheus"  -> AddIf(TRUE, [h |-> "prometheus"])
      [] name = "errors"      -> errors_setup(us)
      [] name = "log"         -> log_setup(us, zones)
      [] name = "dns64"       -> dns64_setup(us, zones)
      [] name = "acl"         -> acl_setup(us, zones)
      [] name = "chaos"       -> chaos_setup(us)
      [] name = "loadbalance" -> loadbalance_setup(us)
      [] name = "rewrite"     -> rewrite_setup(us)
      [] name = "header"      -> header_setup(us)
      [] name = "autopath"    -> autopath_setup(us, zones, beside)
      [] name = "template"    -> template_setup(us, zones)
      [] name = "hosts"       -> hosts_setup(us, zones)
      [] name = "forward"     -> AddIf(TRUE, [h |-> "backend"])
      [] name = "erratic"     -> erratic_setup(us)
      [] name = "whoami"      -> whoami_setup(us)

(* build: every directive known, one config per key; the setups see all    *)
(* the tokens of a block's directives of their name, one after the other   *)
TokensOf(b, name) ==
    FlattenSeq([i \in DOMAIN b.directives |-> IF Word(b.directives[i].name) = name THEN b.directives[i].tokens ELSE <<>>])
ZonesOf(b) == LET ks == SelectSeq(Words(b.keys), LAMBDA k : k \in DOMAIN KeyOf) IN [i \in DOMAIN ks |-> KeyOf[ks[i]].zone]
SetupsOf(b) ==
    LET names == {Word(b.directives[i].name) : i \in DOMAIN b.directives}
    IN  [i \in DOMAIN ORDER |-> IF ORDER[i] \in names THEN setup(ORDER[i], Reads(ORDER[i], TokensOf(b, ORDER[i])), ZonesOf(b), names)
                                 ELSE Result("ok", <<>>)]
Configs(b, rs, us) ==
    [k \in DOMAIN b.keys |->
       [at |-> KeyOf[Word(b.keys[k])].at, zone |-> KeyOf[Word(b.keys[k])].zone,
        view |-> IF us = <<>> THEN "" ELSE us[1].args[1],
        filter |-> IF us = <<>> THEN Everyone ELSE view_filter(us),
        chain |-> FlattenSeq([i \in DOMAIN rs |-> rs[i].hs]), debug |-> TokensOf(b, "debug") # <<>>]]
ConfigsOf(b, rs) == Configs(b, rs, Reads("view", TokensOf(b, "view")))

(* the setups run directive by directive, and in it block by block: the    *)
(* first that does not return ok decides                                   *)
Built(blocks, rs) ==
    LET known(b) == /\ \A i \in DOMAIN b.directives : Word(b.directives[i].name) \in ToSet(ORDER)
                    /\ b.keys # <<>> /\ All(Words(b.keys), DOMAIN KeyOf)
        failed(j) == {i \in DOMAIN blocks : rs[i][j].how # "ok"}
        at == {j \in DOMAIN ORDER : failed(j) # {}}
    IN  IF \E i \in DOMAIN blocks : ~known(blocks[i]) THEN [how |-> "error", configs |-> <<>>]
        ELSE IF at # {} THEN [how |-> rs[Min(failed(Min(at)))][Min(at)].how, configs |-> <<>>]
        ELSE [how |-> "ok", configs |-> FlattenSeq([i \in DOMAIN blocks |-> ConfigsOf(blocks[i], rs[i])])]
build(blocks) == Built(blocks, [i \in DOMAIN blocks |-> SetupsOf(blocks[i])])

(* group_servers: one server per address; a zone twice on one only with    *)
(* views of different names, and the one without a filter last             *)
group_servers(cs) ==
    LET ats == Dedup([i \in DOMAIN cs |-> cs[i].at])
        on(a) == SelectSeq(cs, LAMBDA c : c.at = a)
        dup == \E i, j \in DOMAIN cs : i < j /\ cs[i].at = cs[j].at /\ cs[i].zone = cs[j].zone /\ cs[i].view = cs[j].view
        ordered(s) == SelectSeq(s, LAMBDA c : c.view # "") \o SelectSeq(s, LAMBDA c : c.view = "")
    IN  [ok |-> ~dup, servers |-> [i \in DOMAIN ats |-> [label |-> ats[i], zones |-> ordered(on(ats[i]))]]]

(* what was parsed to the servers of an instance *)
Serving(how, g) ==
    IF how # "ok" THEN [how |-> how, servers |-> <<>>]
    ELSE IF ~g.ok \/ g.servers = <<>> THEN [how |-> "error", servers |-> <<>>]
    ELSE [how |-> "ok", servers |-> g.servers]
Grouped(b) == Serving(b.how, group_servers(b.configs))
Load(p) == IF p.ok THEN Grouped(build(p.out)) ELSE [how |-> "error", servers |-> <<>>]
=============================================================================
