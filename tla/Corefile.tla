------------------------------ MODULE Corefile ------------------------------
(***************************************************************************)
(* Reading a Corefile (src/corefile/lexer.rs, parser.rs, dispenser.rs):    *)
(* text to tokens, tokens to server blocks and directives, and the cursor  *)
(* the plugins' setups read their directives with.                         *)
(*                                                                         *)
(* A text is a sequence of symbols: "\n", " ", "#", "\\", "\"" stand for    *)
(* themselves and "tick" for a backtick, anything else is a run of         *)
(* ordinary characters; keys are not comma separated.  `disk`              *)
(* maps an import's argument to the texts of the files it matches, in      *)
(* order; `env` maps a symbol {$X} to what X holds.                        *)
(***************************************************************************)
EXTENDS Integers, SequencesExt

CONSTANTS
    MaxImport,      \* MAX_IMPORT_DEPTH
    Globs           \* the import arguments that are patterns

Blank == {"\n", " "}
Token(file, line, text, quoted) == [file |-> file, line |-> line, text |-> text, quoted |-> quoted]
Lf(s) == Len(SelectSeq(s, LAMBDA c : c = "\n"))

(* where a run that starts at i ends: the first place at or after i where  *)
(* Stop holds, or past the end                                             *)
Upto(s, i, Stop(_)) ==
    LET at == {j \in i .. Len(s) : Stop(j)} IN IF at = {} THEN Len(s) + 1 ELSE Min(at)

(* the text between quotes: \" is a quote *)
RECURSIVE Unescape(_)
Unescape(s) ==
    IF Len(s) < 2 THEN s
    ELSE IF s[1] = "\\" /\ s[2] = "\"" THEN <<"\"">> \o Unescape(SubSeq(s, 3, Len(s)))
    ELSE <<s[1]>> \o Unescape(Tail(s))

(* lex: one turn of its loop, and n turns *)
LexStep(s, file, x) ==
    LET i == x.i
        eol(j)   == s[j] = "\n"
        blank(j) == s[j] \in Blank
        close(j) == s[j] = s[i] /\ ~(s[i] = "\"" /\ s[j - 1] = "\\")
        q == Upto(s, i + 1, close)
        in == SubSeq(s, i + 1, q - 1)
        b == Upto(s, i, blank)
    IN  IF i > Len(s) THEN x
        ELSE IF s[i] = "\n" THEN [x EXCEPT !.i = i + 1, !.line = @ + 1]
        ELSE IF s[i] = " " THEN [x EXCEPT !.i = i + 1]
        ELSE IF s[i] = "#" THEN [x EXCEPT !.i = Upto(s, i, eol)]
        ELSE IF s[i] = "\\" /\ i < Len(s) /\ s[i + 1] = "\n" THEN [x EXCEPT !.i = i + 2]
        ELSE IF s[i] \in {"\"", "tick"}
        THEN [i |-> q + 1, line |-> x.line + Lf(in),
              out |-> Append(x.out, Token(file, x.line, IF s[i] = "\"" THEN Unescape(in) ELSE in, TRUE))]
        ELSE [x EXCEPT !.i = b, !.out = Append(@, Token(file, x.line, SubSeq(s, i, b - 1), FALSE))]

RECURSIVE LexTurns(_, _, _, _)
LexTurns(s, file, x, n) ==
    IF x.i > Len(s) \/ n = 0 THEN x
    ELSE IF n = 1 THEN LexStep(s, file, x)
    ELSE LexTurns(s, file, LexTurns(s, file, x, n \div 2), n - n \div 2)
lex(s, file) == LexTurns(s, file, [i |-> 1, line |-> 1, out |-> <<>>], Len(s)).out

expand_envNever(toks, env) == toks
expand_env(toks, env) ==
    [i \in DOMAIN toks |-> [toks[i] EXCEPT !.text =
        FlattenSeq([j \in DOMAIN @ |-> IF @[j] \in DOMAIN env THEN env[@[j]] ELSE <<@[j]>>])]]
-----------------------------------------------------------------------------
(* the parser.  A result is [ok, ...]: Bad is the error of any of them.    *)
Bad == [ok |-> FALSE, out |-> <<>>, rest |-> <<>>]
Good(out, rest) == [ok |-> TRUE, out |-> out, rest |-> rest]
Is(t, c) == ~t.quoted /\ t.text = <<c>>

(* collect_block_body, after the opening brace: up to the one that closes  *)
Depth(toks, k) ==
    Len(SelectSeq(SubSeq(toks, 1, k), LAMBDA t : Is(t, "{"))) - Len(SelectSeq(SubSeq(toks, 1, k), LAMBDA t : Is(t, "}")))
CloseAt(toks, open) == {k \in DOMAIN toks : Is(toks[k], "}") /\ Depth(toks, k) + open = 0
                           /\ \A j \in 1 .. (k - 1) : Depth(toks, j) + open > 0}
collect_block_body(toks) ==
    IF CloseAt(toks, 1) = {} THEN Bad
    ELSE LET k == Min(CloseAt(toks, 1)) IN Good(SubSeq(toks, 1, k - 1), SubSeq(toks, k + 1, Len(toks)))

RECURSIVE parse_directives(_, _)
(* do_import: a snippet's tokens, or those of all the files that match, as *)
(* one body                                                                *)
do_import(dir, x) ==
    LET arg == dir[2].text
        files == x.disk[arg]
        toks == IF arg \in DOMAIN x.snippets THEN x.snippets[arg]
                ELSE FlattenSeq([i \in DOMAIN files |-> expand_env(lex(files[i], <<arg, i>>), x.env)])
    IN  IF Len(dir) # 2 \/ x.depth >= MaxImport THEN Bad
        ELSE IF arg \notin DOMAIN x.snippets /\ arg \notin DOMAIN x.disk
        THEN IF arg \in Globs THEN Good(<<>>, <<>>) ELSE Bad
        ELSE parse_directives(toks, [x EXCEPT !.depth = @ + 1])

(* parse_directives: a name, what follows on its line, and the block that  *)
(* opens there                                                             *)
Before(mine, toks, x) == IF mine.ok THEN [parse_directives(toks, x) EXCEPT !.out = mine.out \o @] ELSE Bad
DirectiveTo(end, toks, x) ==
    LET dir == SubSeq(toks, 1, end)
    IN  Before(IF Is(toks[1], "import") THEN do_import(dir, x)
               ELSE Good(<<[name |-> toks[1].text, tokens |-> dir]>>, <<>>),
               SubSeq(toks, end + 1, Len(toks)), x)
DirectiveLine(a, toks, x) ==
    LET open == a <= Len(toks) /\ toks[a].line = toks[1].line /\ Is(toks[a], "{")
        k == CloseAt(SubSeq(toks, a, Len(toks)), 0)
    IN  IF Is(toks[1], "{") \/ (\E j \in 1 .. (a - 1) : Is(toks[j], "}")) \/ (open /\ k = {}) THEN Bad
        ELSE DirectiveTo(IF open THEN a + Min(k) - 1 ELSE a - 1, toks, x)
LineEnd(toks) == LET stop(j) == toks[j].line # toks[1].line \/ Is(toks[j], "{") IN Upto(toks, 2, stop)
parse_directives(toks, x) == IF toks = <<>> THEN Good(<<>>, <<>>) ELSE DirectiveLine(LineEnd(toks), toks, x)

(* parse_server_block: keys on the first line up to the brace; without one *)
(* the rest of the file is the body, in the first block only               *)
ServerBlock(keys, body, dirs) ==
    IF Is(keys[1], "{") \/ (\E j \in 2 .. Len(keys) : Is(keys[j], "}")) \/ ~body.ok \/ ~dirs.ok THEN Bad
    ELSE Good(<<[keys |-> [j \in DOMAIN keys |-> keys[j].text], directives |-> dirs.out]>>, body.rest)
WithBody(keys, body, x) == ServerBlock(keys, body, parse_directives(body.out, x))
parse_server_block(toks, first, x) ==
    LET a == LineEnd(toks)
        brace == a <= Len(toks) /\ toks[a].line = toks[1].line
        after == SubSeq(toks, IF brace THEN a + 1 ELSE a, Len(toks))
        body == IF brace THEN collect_block_body(after) ELSE IF first THEN Good(after, <<>>) ELSE Bad
    IN  WithBody(SubSeq(toks, 1, a - 1), body, x)

(* parse_all: snippets and server blocks; x.names tells the words (name)   *)
RECURSIVE parse_all(_, _, _)
AfterBlock(b, blocks, x) == IF b.ok THEN parse_all(b.rest, blocks \o b.out, x) ELSE Bad
parse_all(toks, blocks, x) ==
    LET snip == ~toks[1].quoted /\ toks[1].text \in DOMAIN x.names
        body == collect_block_body(SubSeq(toks, 3, Len(toks)))
    IN  IF toks = <<>> THEN Good(blocks, <<>>)
        ELSE IF snip /\ (Len(toks) < 2 \/ ~Is(toks[2], "{") \/ ~body.ok) THEN Bad
        ELSE IF snip
        THEN LET n == x.names[toks[1].text]
             IN  parse_all(body.rest, blocks, [x EXCEPT !.snippets =
                     [s \in DOMAIN @ \cup {n} |-> IF s = n THEN body.out ELSE @[s]]])
        ELSE AfterBlock(parse_server_block(toks, blocks = <<>>, x), blocks, x)

parse_str(text, disk, env, names) ==
    parse_all(expand_env(lex(text, <<>>), env), <<>>,
              [disk |-> disk, env |-> env, names |-> names, snippets |-> [s \in {} |-> <<>>], depth |-> 0])
-----------------------------------------------------------------------------
(* the Dispenser: cur = 0 is not started, Len + 1 parked past the end.     *)
(* Lines and braces are told by the number and the text alone.             *)
Dispenser(toks) == [toks |-> toks, cur |-> 0, nesting |-> 0, ok |-> TRUE]
Val(d) == IF d.cur \in DOMAIN d.toks THEN d.toks[d.cur].text ELSE <<>>
Step(d) == [d EXCEPT !.cur = IF @ < Len(d.toks) THEN @ + 1 ELSE Len(d.toks) + 1, !.ok = d.cur < Len(d.toks)]
next_arg(d) ==
    IF d.cur = 0 THEN Step(d)
    ELSE IF d.cur < Len(d.toks) /\ d.toks[d.cur + 1].line = d.toks[d.cur].line THEN Step(d)
    ELSE [d EXCEPT !.ok = FALSE]

next_block(d) ==
    LET n == Step(d)
        a == next_arg(d)
        b == Step(a)
    IN  IF d.nesting > 0
        THEN IF Val(n) = <<"}">> THEN [n EXCEPT !.nesting = @ - 1, !.ok = FALSE] ELSE [n EXCEPT !.ok = TRUE]
        ELSE IF ~a.ok \/ Val(a) # <<"{">> THEN [d EXCEPT !.ok = FALSE]
        ELSE IF Val(b) = <<"}">> THEN [b EXCEPT !.ok = FALSE]
        ELSE [b EXCEPT !.nesting = 1, !.ok = TRUE]

(* remaining_args, and remaining_args_until_brace when `brace` is set *)
RECURSIVE remaining_args(_, _, _)
remaining_args(d, brace, got) ==
    LET a == next_arg(d)
    IN  IF ~a.ok \/ (brace /\ Val(a) = <<"{">>) THEN [args |-> got, d |-> d]
        ELSE remaining_args(a, brace, Append(got, Val(a)))

(* the loop of a setup over a block: `while next_block { val, args }`.     *)
(* At the end of the tokens next_block keeps saying yes: the block is      *)
(* `open`.                                                                 *)
RECURSIVE BlockLines(_, _)
LinesAfter(b, got) ==
    LET a == remaining_args(b, FALSE, <<Val(b)>>)
    IN  IF ~b.ok THEN [lines |-> got, open |-> FALSE, d |-> b]
        ELSE IF b.cur > Len(b.toks) THEN [lines |-> got, open |-> TRUE, d |-> b]
        ELSE BlockLines(a.d, Append(got, a.args))
BlockLines(d, got) == LinesAfter(next_block(d), got)

(* the loop of a setup over its directive: `while next { args; block }`,   *)
(* in a setup that reads no block without the last part                    *)
RECURSIVE Uses(_, _)
UsesFrom(a, b, block) ==
    <<[args |-> a.args, block |-> b.lines, open |-> b.open, braced |-> b.d.cur # a.d.cur]>>
      \o (IF b.open THEN <<>> ELSE Uses(b.d, block))
UsesAfter(a, block) ==
    UsesFrom(a, IF block THEN BlockLines(a.d, <<>>) ELSE [lines |-> <<>>, open |-> FALSE, d |-> a.d], block)
Uses(d, block) == IF Step(d).ok THEN UsesAfter(remaining_args(Step(d), block, <<>>), block) ELSE <<>>
=============================================================================
