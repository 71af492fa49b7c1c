----------------------------- MODULE ChainServe -----------------------------
(***************************************************************************)
(* A server over its life: the Corefile is edited and reloaded, the hosts  *)
(* file is edited and polled, and queries go down the chain meanwhile.     *)
(*                                                                         *)
(* A query is two steps, Ask and Answer, so that a reload or a poll can    *)
(* come between the first and the second read of what it reads twice: the  *)
(* hosts map, and the table of servers (its own on arrival, CURRENT's in a *)
(* self_lookup).  What upstreams answer and what the random generators     *)
(* choose is chosen with the query.                                        *)
(***************************************************************************)
EXTENDS Setup

CONSTANTS
    Corefiles,          \* id -> [text, disk, env, names], see parse_str
    Confs,              \* id -> what it is meant to say: [keys, dirs] per server block
    Starts, Edits,      \* those the server starts with, those it is given later
    HostsFiles,         \* what the hosts file may hold: sequences of lines
    Queries,            \* the requests of clients
    Ups,                \* what the plugins below answer, see backend
    Weights,            \* the weight file
    Draws,              \* what the generators may choose: [pick, perm]
    MaxQueries, MaxEdits, MaxReloads

VARIABLES
    corefile,           \* the Corefile on disk
    hostsfile,          \* [lines, mtime]
    inst,               \* the running instance: what it read, its servers, its hosts map
    work,               \* its counters: [n, counted]
    query,              \* the query in flight or last answered
    done                \* queries so far

chainVars == <<corefile, hostsfile, inst, work, query, done>>

(* Hosts::load: the inline entries, and the file's when it can be read *)
HandlersOf(servers) ==
    UNION {UNION {ToSet(servers[i].zones[j].chain) : j \in DOMAIN servers[i].zones} : i \in DOMAIN servers}
load(servers, lines) ==
    LET hs == {h \in HandlersOf(servers) : h.h = "hosts"}
    IN  IF hs = {} THEN <<>> ELSE (CHOOSE h \in hs : TRUE).inline \o lines

(* an instance: what its setups read, by block and name, and what they     *)
(* made of it; `last` is the time of the hosts file its task has seen      *)
NoStat == -1
ArgsAndBlock(us) == [k \in DOMAIN us |-> [args |-> us[k].args, block |-> us[k].block]]
ReadBy(blocks) ==
    [i \in DOMAIN blocks |->
       [keys |-> Words(blocks[i].keys),
        dirs |-> [name \in {Word(blocks[i].directives[j].name) : j \in DOMAIN blocks[i].directives} |->
                    ArgsAndBlock(Reads(name, TokensOf(blocks[i], name)))]]]
Instance(gen, c, blocks, l, lines) ==
    [gen |-> gen, conf |-> c, how |-> l.how, servers |-> l.servers, read |-> ReadBy(blocks),
     map |-> load(l.servers, lines), last |-> NoStat]
Start(gen, c, lines) ==
    LET f == Corefiles[c]
        parsed == parse_str(f.text, f.disk, f.env, f.names)
    IN  Instance(gen, c, parsed.out, Load(parsed), lines)

Fresh == [n |-> 0, counted |-> <<0, 0>>]
NoQuery == [pc |-> "none"]

ChainInit ==
    /\ corefile \in Starts
    /\ hostsfile = [lines |-> <<>>, mtime |-> 0]
    /\ inst = Start(0, corefile, hostsfile.lines)
    /\ work = Fresh
    /\ query = NoQuery
    /\ done = 0
-----------------------------------------------------------------------------
EditCorefile(c) ==
    /\ c # corefile /\ inst.how = "ok" /\ inst.gen < MaxReloads
    /\ corefile' = c
    /\ UNCHANGED <<hostsfile, inst, work, query, done>>

(* a reload: the new instance takes over; an error leaves the old one as it *)
(* is, which is no step                                                    *)
Reload ==
    /\ inst.conf # corefile
    /\ inst' = Start(inst.gen + 1, corefile, hostsfile.lines)
    /\ inst'.how = "ok"
    /\ work' = Fresh
    /\ UNCHANGED <<corefile, hostsfile, query, done>>

Watching == \E h \in HandlersOf(inst.servers) : h.h = "hosts"
EditHosts(lines) ==
    /\ hostsfile.mtime < MaxEdits /\ Watching
    /\ lines # hostsfile.lines
    /\ hostsfile' = [lines |-> lines, mtime |-> hostsfile.mtime + 1]
    /\ UNCHANGED <<corefile, inst, work, query, done>>

(* the task hosts starts: it takes the file's time, then reloads whenever  *)
(* it finds another                                                        *)
HostsStat ==
    /\ inst.last = NoStat /\ Watching
    /\ inst' = [inst EXCEPT !.last = hostsfile.mtime]
    /\ UNCHANGED <<corefile, hostsfile, work, query, done>>
HostsPoll ==
    /\ inst.last \notin {NoStat, hostsfile.mtime}
    /\ inst' = [inst EXCEPT !.last = hostsfile.mtime, !.map = load(inst.servers, hostsfile.lines)]
    /\ UNCHANGED <<corefile, hostsfile, work, query, done>>

(* the end of an errors pattern's period: its count is written and reset *)
Summary(i) ==
    /\ work.counted[i] > 0
    /\ work' = [work EXCEPT !.counted[i] = 0]
    /\ UNCHANGED <<corefile, hostsfile, inst, query, done>>
-----------------------------------------------------------------------------
Ask(req) ==
    /\ query.pc # "asked"
    /\ done < MaxQueries
    /\ done' = done + 1
    /\ \E s \in ToSet(inst.servers) :
          /\ s.label = req.server
          /\ query' = [pc |-> "asked", req |-> req, gen |-> inst.gen, zones |-> s.zones, early |-> inst.map]
    /\ UNCHANGED <<corefile, hostsfile, inst, work>>

(* encode_with_limit: records are dropped from the end, and TC is set *)
RecordSize == 40
Bytes(m) == RecordSize * (1 + Len(m.ans) + Len(m.auth) + Len(m.add))
encode_with_limit(m, max) ==
    LET room == max \div RecordSize - 1
        cut(s, k) == SubSeq(s, 1, IF k > Len(s) THEN Len(s) ELSE k)
    IN  IF Bytes(m) <= max THEN m
        ELSE [m EXCEPT !.flags = @ \cup {"tc"}, !.ans = cut(@, room),
                       !.auth = cut(@, room - Len(m.ans)), !.add = cut(@, room - Len(m.ans) - Len(m.auth))]

(* serve_bytes_all.  The counters are the running instance's: a query that *)
(* a reload has overtaken counts in the old one's, which nobody reads.     *)
Encoded(s) ==
    LET max == size(s.w.req)
    IN  [ms |-> [i \in DOMAIN s.ms |-> encode_with_limit(s.ms[i], max)], how |-> s.how, w |-> s.w]
Serve(w, e) == Encoded(serve_request_inner(w, e))

Answer(up, draw) ==
    /\ query.pc = "asked"
    /\ LET w == [req |-> query.req, n |-> work.n, counted |-> work.counted, seen |-> <<>>]
           kept == query.gen = inst.gen
           e == [zones |-> query.zones, current |-> inst.servers, up |-> up, weights |-> Weights,
                 hosts |-> [early |-> query.early, late |-> IF kept THEN inst.map ELSE query.early],
                 pick |-> draw.pick, perm |-> draw.perm]
       IN  \E s \in {Serve(w, e)} :
           /\ query' = [pc |-> "answered", req |-> query.req, zones |-> query.zones,
                        ms |-> s.ms, how |-> s.how, seen |-> s.w.seen]
           /\ work' = IF kept THEN [n |-> s.w.n, counted |-> s.w.counted] ELSE work
    /\ UNCHANGED <<corefile, hostsfile, inst, done>>

ChainNext ==
    \/ \E c \in Edits : EditCorefile(c)
    \/ Reload
    \/ \E f \in HostsFiles : EditHosts(f)
    \/ HostsStat
    \/ HostsPoll
    \/ \E i \in DOMAIN work.counted : Summary(i)
    \/ \E r \in Queries : Ask(r)
    \/ \E u \in Ups, d \in Draws : Answer(u, d)

ChainSpec == ChainInit /\ [][ChainNext]_chainVars
-----------------------------------------------------------------------------
(* what the file says, whatever its layout *)
Written(block) ==
    [keys |-> block.keys,
     dirs |-> [name \in {d.name : d \in ToSet(block.dirs)} |->
                 LET own == SelectSeq(block.dirs, LAMBDA d : d.name = name)
                 IN  [i \in DOMAIN own |-> [args |-> own[i].args, block |-> own[i].block]]]]

(* Whatever the layout of a Corefile (comments, continued lines, quotes,   *)
(* variables, a snippet, an imported file, no braces), every setup of the  *)
(* running instance has read the arguments and the blocks that were        *)
(* written, through lex, parse_directives and the Dispenser.               *)
ReadsAsWritten ==
    /\ inst.how = "ok"
    /\ inst.read = [i \in DOMAIN Confs[inst.conf] |-> Written(Confs[inst.conf][i])]

Replies == IF query.pc = "answered" THEN ToSet(query.ms) ELSE {}
ZoneHit == lookup(query.zones, query.req)
Has(name) == \E z \in ZoneHit : \E i \in DOMAIN z.chain : z.chain[i].h = name

(* A reply that came up the chain answers what the client asked.  It       *)
(* carries the client's id and question (serve_request_inner: "make sure   *)
(* the id and question match"), and its answer section hangs together:     *)
(* each record belongs to that name or to the target of a CNAME in the     *)
(* same answer.  So after rewrite has renamed owners, and autopath,        *)
(* template, dns64 and rewrite's cname rule have put in what their nested  *)
(* lookups found.                                                          *)
ReplyAnswersQuery ==
    /\ (query.pc = "answered" /\ query.how = "msg") =>
          \A m \in Replies : m.id = query.req.id /\ m.q = query.req.q
    /\ \A m \in Replies : \A i \in DOMAIN m.ans :
          \/ m.ans[i].name = qname(query.req)
          \/ \E j \in DOMAIN m.ans : m.ans[j].type = "CNAME" /\ m.ans[j].val = m.ans[i].name

(* With cancel in the chain and no debug, a query is answered unless a     *)
(* plugin dropped it: a handler, or a nested lookup, that hangs, panics or *)
(* fails still ends in a reply.  And the reply fits what the client said   *)
(* it can take: plugins that change the request's buffer size on the way   *)
(* never raise it above the client's.                                      *)
EveryQueryAnswered ==
    /\ (query.pc = "answered" /\ Has("cancel") /\ query.how # "drop") => query.ms # <<>>
    /\ \A m \in Replies : Bytes(m) <= size(query.req)

(* An address with weight 0 is the first of an answer only when no address *)
(* of it has a weight, although the choice is made before the shuffle      *)
(* (weighted_first) and swapped to the front after it (shuffle_section).   *)
WeightedFirst ==
    LET n == qname(query.req)
        weight(r) == IF r.val[1] \in DOMAIN Weights[n] THEN Weights[n][r.val[1]] ELSE 1
    IN  \A m \in Replies :
            LET addrs == OfType(m.ans, {"A"})
            IN  (addrs # <<>> /\ n \in DOMAIN Weights /\ Has("loadbalance") /\ weight(addrs[1]) = 0)
                  => \A i \in DOMAIN addrs : weight(addrs[i]) = 0

(* dispenser.rs, next_arg: "Advance only if the next token is on the same  *)
(* line as the current one"; parser.rs: "each directive starts a new line".*)
(* Lines of different imported files are different lines.                  *)
DirectivesKeepTheirLines == ReadsAsWritten

(* rewrite.rs: the request is handed back with its original question, "so  *)
(* later observers (log, metrics) see what the client asked".              *)
ObserversSeeClientQuestion ==
    query.pc = "answered" =>
        \A i \in DOMAIN query.seen : query.seen[i].id = query.req.id => query.seen[i].q = query.req.q
=============================================================================
