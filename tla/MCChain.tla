------------------------------ MODULE MCChain ------------------------------
(***************************************************************************)
(* Small Corefiles, each in several layouts, and the clients' queries.     *)
(***************************************************************************)
EXTENDS ChainServe

D(name, args, block) == [name |-> name, args |-> args, block |-> block]
Block(keys, dirs) == [keys |-> keys, dirs |-> dirs]

(* names are rewritten and answers balanced; errors are consolidated *)
MCRewriting == <<Block(<<".:53">>, <<
    D("errors", <<>>, << <<"consolidate", "5", "backend">> >>),
    D("log", <<>>, <<>>),
    D("prometheus", <<>>, <<>>),
    D("cancel", <<"5">>, <<>>),
    D("loadbalance", <<"weighted", "weights">>, <<>>),
    D("rewrite", <<"continue", "name", "exact", "a.ex", "b.ex">>, << <<"answer", "auto">> >>),
    D("rewrite", <<"continue", "type", "TXT", "A">>, <<>>),
    D("rewrite", <<"continue", "ttl", "exact", "a.ex", "9-5">>, <<>>),
    D("rewrite", <<"cname", "exact", "c.ex", "d.ex">>, <<>>),
    D("forward", <<".", "up">>, <<>>) >>)>>

(* plugins that ask the server itself *)
MCAsking == <<Block(<<".:53">>, <<
    D("cancel", <<>>, <<>>),
    D("dns64", <<>>, << <<"allow_ipv4">> >>),
    D("autopath", <<"ex", "resolv">>, <<>>),
    D("minimal", <<>>, <<>>),
    D("template", <<"IN", "ANY", "t.ex">>, << <<"answer", "alias">>, <<"fallthrough">> >>),
    D("hosts", <<"hostsfile", "ex">>, << <<"10.0.0.1", "h.ex">>, <<"fallthrough">> >>),
    D("forward", <<".", "up">>, <<>>) >>)>>

(* two views of a zone, and a zone below it; answers that are too large *)
MCViews == <<
    Block(<<"ex:53">>, << D("view", <<"inside">>, << <<"expr", "from-in">> >>),
                          D("acl", <<>>, << <<"drop", "type", "MX", "net", "in">>, <<"block", "type", "TXT">> >>),
                          D("header", <<>>, << <<"query", "set", "cd">>, <<"response", "set", "ra">> >>),
                          D("whoami", <<>>, <<>>) >>),
    Block(<<"ex:53">>, << D("nsid", <<"host">>, <<>>), D("bufsize", <<"1232">>, <<>>), D("any", <<>>, <<>>),
                          D("erratic", <<>>, << <<"large">>, <<"truncate", "2">>, <<"drop", "3">> >>) >>),
    Block(<<"d.ex:53">>, << D("chaos", <<>>, <<>>), D("local", <<>>, <<>>), D("debug", <<>>, <<>>),
                            D("forward", <<".", "up">>, <<>>) >>) >>

MCBroken == <<Block(<<".:53">>, << D("bufsize", <<"9">>, <<>>) >>)>>

MCTwoFiles == <<Block(<<".:53">>, << D("log", <<>>, <<>>), D("whoami", <<>>, <<>>) >>)>>

MCConfs == [twofiles |-> MCTwoFiles, rewriting |-> MCRewriting, asking |-> MCAsking, views |-> MCViews, broken |-> MCBroken]
-----------------------------------------------------------------------------
(* the layouts.  A style says how an argument is written, what separates   *)
(* two words, and what ends a line.                                        *)
Joined(parts, sep) == FlattenSeq([i \in DOMAIN parts |-> IF i = 1 THEN parts[i] ELSE sep \o parts[i]])
Arg(w, style) ==
    CASE style = "quoted" -> <<"\"", w, "\"">>
      [] style = "ticked" -> <<"tick", w, "tick">>
      [] style = "env"    -> <<"{$" \o w>>
      [] OTHER            -> <<w>>
Sep(style) == IF style = "continued" THEN <<" ", "\\", "\n", " ">> ELSE <<" ">>
Eol(style) == IF style = "commented" THEN <<" ", "#", " ", "{", "\n", "\n">> ELSE <<"\n">>

Words_(first, args, style) == Joined(<< <<first>> >> \o [i \in DOMAIN args |-> Arg(args[i], style)], Sep(style))
DirText(d, style) ==
    Words_(d.name, d.args, style)
      \o (IF d.block = <<>> THEN <<>>
          ELSE <<" ", "{">> \o Eol(style)
                 \o FlattenSeq([i \in DOMAIN d.block |-> Words_(d.block[i][1], Tail(d.block[i]), style) \o Eol(style)])
                 \o <<"}">>)
      \o Eol(style)
Body(b, style) == FlattenSeq([i \in DOMAIN b.dirs |-> DirText(b.dirs[i], style)])
Braced(b, body, style) == Joined([i \in DOMAIN b.keys |-> <<b.keys[i]>>], <<" ">>) \o <<" ", "{">> \o Eol(style) \o body \o <<"}">> \o Eol(style)

Text(conf, style) ==
    CASE style = "nobrace" -> <<conf[1].keys[1], "\n">> \o Body(conf[1], style)
      [] style \in {"file", "globbed"} -> Braced(conf[1], <<"import", " ", style, "\n">>, style)
      [] style = "snippet" -> <<"(", "s", ")", " ", "{", "\n">> \o Body(conf[1], style) \o <<"}", "\n">>
                                \o Braced(conf[1], <<"import", " ", "s", "\n">>, style)
      [] OTHER -> FlattenSeq([i \in DOMAIN conf |-> Braced(conf[i], Body(conf[i], style), style)])
Disk(conf, style) ==
    [f \in {<<style>>} \cap {<<"file">>, <<"globbed">>} |->
        IF style = "file" THEN <<Body(conf[1], style)>>
        ELSE [i \in DOMAIN conf[1].dirs |-> DirText(conf[1].dirs[i], style)]]

ArgsIn(conf) == UNION {UNION {ToSet(conf[i].dirs[j].args) \cup UNION {ToSet(l) : l \in ToSet(conf[i].dirs[j].block)}
                                : j \in DOMAIN conf[i].dirs} : i \in DOMAIN conf}
MCEnv(conf) == [s \in {"{$" \o w : w \in ArgsIn(conf)} |-> <<CHOOSE w \in ArgsIn(conf) : "{$" \o w = s>>]

File(conf, style) ==
    [text |-> Text(MCConfs[conf], style), disk |-> Disk(MCConfs[conf], style),
     env |-> MCEnv(MCConfs[conf]), names |-> [n \in {<<"(", "s", ")">>} |-> <<"s">>]]

MCPlain == {"rewriting", "asking", "views", "broken"} \X {"plain"}
MCLayouts == {<<"asking", "quoted">>, <<"views", "ticked">>, <<"rewriting", "env">>, <<"rewriting", "continued">>,
              <<"views", "commented">>, <<"asking", "nobrace">>, <<"rewriting", "file">>, <<"asking", "snippet">>}
MCCorefiles == [c \in MCPlain \cup MCLayouts |-> File(c[1], c[2])]
MCConfOf == [c \in DOMAIN MCCorefiles |-> MCConfs[c[1]]]
MCStarts == DOMAIN MCCorefiles \ {<<"broken", "plain">>}
MCGlobbed == [c \in {<<"twofiles", "globbed">>} |-> File(c[1], c[2])]
MCGlobbedConf == [c \in DOMAIN MCGlobbed |-> MCConfs[c[1]]]
MCGlobbedStart == DOMAIN MCGlobbed
-----------------------------------------------------------------------------
MCV4 == {"10.0.0.1", "10.0.0.2", "10.0.0.3"}
MCEveryone == {"10.0.0.1", "fd00::1"}
MCReverse == [ip \in MCV4 \cup {"fd00::1"} |-> <<ip, "arpa">>]
MCNames == [n \in {".", "ex", "a.ex", "b.ex", "c.ex", "d.ex", "h.ex", "t.ex", "whoami"} |->
              CASE n = "." -> ROOT [] n = "ex" -> <<"ex">> [] n = "a.ex" -> <<"a", "ex">> [] n = "b.ex" -> <<"b", "ex">>
                [] n = "c.ex" -> <<"c", "ex">> [] n = "d.ex" -> <<"d", "ex">> [] n = "h.ex" -> <<"h", "ex">>
                [] n = "t.ex" -> <<"t", "ex">>
                [] n = "whoami" -> <<"whoami">>]
MCNums == [w \in {"2", "3", "5", "9", "1232"} |->
             CASE w = "2" -> 2 [] w = "3" -> 3 [] w = "5" -> 5 [] w = "9" -> 9 [] w = "1232" -> 1232]
MCNets == [in |-> {"fd00::1"}]
MCRanges == [r \in {"9-5", "5-9"} |-> IF r = "9-5" THEN <<9, 5>> ELSE <<5, 9>>]
MCExprs == [e \in {"from-in"} |-> {"fd00::1"}]
MCRegexes == [r \in {"all"} |-> {}]
MCLikes == [backend |-> {"backend"}]
MCRecords == [alias |-> [own |-> TRUE, name |-> <<>>, type |-> "CNAME", val |-> <<"a", "ex">>, bad |-> FALSE]]
MCSearch == [resolv |-> << <<"s", "ex">>, <<"ex">> >>]
MCKeys == [k \in {".:53", "ex:53", "d.ex:53"} |->
             [at |-> ":53", zone |-> CASE k = ".:53" -> ROOT [] k = "ex:53" -> <<"ex">> [] k = "d.ex:53" -> <<"d", "ex">>]]
MCGlobs == {<<"globbed">>}

MCHosts == { <<>>, <<[ip |-> "10.0.0.2", name |-> <<"a", "ex">>]>> }
MCWeights == [n \in {<<"a", "ex">>} |-> [ip \in {"10.0.0.1", "10.0.0.2"} |-> IF ip = "10.0.0.1" THEN 0 ELSE 2]]
MCDraws == {[pick |-> 0, perm |-> <<1, 2, 3>>], [pick |-> 1, perm |-> <<2, 1, 3>>], [pick |-> 1, perm |-> <<1, 2, 3>>]}

Yes(recs) == [kind |-> "msg", rcode |-> "NOERROR", ans |-> recs]
Ends(kind) == [kind |-> kind, rcode |-> "SERVFAIL", ans |-> <<>>]
MCUp(k) ==
    LET n == k[1]
        a(ip, ttl) == RR(n, "A", <<ip>>, ttl)
    IN  CASE k[2] \notin {"A"} -> Yes(<<>>)
          [] n = <<"b", "ex">> -> Yes(<<a("10.0.0.1", 3), a("10.0.0.2", 30)>>)
          [] n = <<"x", "ex">> -> Yes(<<RR(n, "CNAME", <<"c", "ex">>, 30), RR(<<"c", "ex">>, "A", <<"10.0.0.3">>, 30)>>)
          [] n = <<"d", "ex">> -> Yes(<<a("10.0.0.2", 3)>>)
          [] n = <<"a", "ex">> -> Yes(<<a("10.0.0.1", 3)>>)
MCKnown == {<<"a", "ex">>, <<"b", "ex">>, <<"d", "ex">>, <<"x", "ex">>} \X {"A", "AAAA"}
MCUps == {[k \in MCKnown |-> MCUp(k)]}
           \cup {[k \in MCKnown |-> IF k[1] = <<"b", "ex">> THEN Ends(how) ELSE MCUp(k)] : how \in {"err", "hang", "panic"}}

Query(id, name, type, edns, ip, proto) ==
    [id |-> id, q |-> <<Question(name, type, "IN")>>, flags |-> {"rd"}, edns |-> edns,
     ip |-> ip, proto |-> proto, depth |-> 0, server |-> ":53"]
MCQueries ==
    {Query("q1", n, t, NoEdns, "10.0.0.1", "udp") :
        n \in {<<"a", "ex">>, <<"d", "ex">>, <<"x", "ex">>, <<"t", "ex">>, <<"b", "s", "ex">>, <<"h", "ex">>}, t \in {"A", "AAAA"}}
    \cup {Query("q2", <<"a", "ex">>, t, Edns(4096, FALSE, {"nsid"}), ip, "udp") : t \in {"A", "TXT", "MX"}, ip \in MCEveryone}
    \cup {Query("q3", <<"a", "ex">>, "A", Edns(512, FALSE, {}), "10.0.0.1", "udp")}
=============================================================================
