------------------------------- MODULE PyLang -------------------------------
(***************************************************************************)
(* The reader of the Python interpreter: py/lex.c and py/parse.c.  A       *)
(* source is a sequence of lines [ind |-> spaces, ws |-> words]; a blank   *)
(* line has no words, a comment is the word "#".  A word is what the       *)
(* scanner of mp_lex cuts out of the characters of a line.  Tokens and     *)
(* nodes are records of one shape each, as MpToken and MpNode are.         *)
(***************************************************************************)
EXTENDS Integers, Sequences, FiniteSets
LOCAL INSTANCE SequencesExt
CONSTANTS Half,        \* integers are in -Half .. Half - 1 (2^31 in the code)
          Numerals,    \* [word -> Nat]: the words that are numbers
          Literals,    \* [word -> Seq(char)]: the words that are strings
          MaxTokens,   \* MP_MAX_TOKENS
          MaxIndent    \* entries of indent_stack (32)

Keywords == {"if", "in", "and", "or", "not", "def", "for", "elif", "else",
             "True", "None", "pass", "False", "while", "return", "import"}
Marks == {"+", "-", "*", "/", "%", "(", ")", "[", "]", ":", ",", "=",
          "==", "!=", "<", "<=", ">", ">="}

\* Two's complement in the width of the model.
Wrap(x) == ((x + Half) % (2 * Half)) - Half

-----------------------------------------------------------------------------
(* lex.c *)

\* keyword and the scanner: one word.  "//" is the same token as "/".
Token(w) ==
    CASE w \in Keywords \cup Marks -> [k |-> w, s |-> <<>>, n |-> 0]
      [] w = "//"                  -> [k |-> "/", s |-> <<>>, n |-> 0]
      [] w \in DOMAIN Numerals     -> [k |-> "NUMBER", s |-> <<>>, n |-> Wrap(Numerals[w])]
      [] w \in DOMAIN Literals     -> [k |-> "STRING", s |-> Literals[w], n |-> 0]
      [] OTHER                     -> [k |-> "NAME", s |-> <<w>>, n |-> 0]
Layout(k) == [k |-> k, s |-> <<>>, n |-> 0]

\* Words no token begins with: a lone "!", a string without its end.
Invalid == {"!", "?", "'"}

\* emit_indent: the INDENT or the DEDENTs before the words of a line.
emit_indent(x, line) ==
    LET deeper == SelectSeq(x.stack, LAMBDA i : i > line.ind)
        outer  == SelectSeq(x.stack, LAMBDA i : i <= line.ind) IN
    CASE line.ws = <<>> \/ line.ws[1] = "#" -> x
      [] line.ws # <<>> /\ line.ws[1] = "\t" -> [x EXCEPT !.err = TRUE]
      [] line.ws # <<>> /\ line.ws[1] \notin {"#", "\t"} ->
           IF line.ind > x.stack[Len(x.stack)]
           THEN [x EXCEPT !.err = Len(x.stack) >= MaxIndent,
                          !.stack = Append(@, line.ind),
                          !.toks = Append(@, Layout("INDENT"))]
           ELSE [x EXCEPT !.err = outer[Len(outer)] # line.ind,
                          !.stack = outer,
                          !.toks = @ \o [i \in DOMAIN deeper |-> Layout("DEDENT")]]

\* One round of mp_lex's loop over a line: its layout, its words, its end.
LexLine(x, line, end) ==
    LET y     == emit_indent(x, line)
        words == SelectSeq(line.ws, LAMBDA w : w \notin {"\t", "#"}) IN
    IF x.err \/ y.err \/ \E i \in DOMAIN words : words[i] \in Invalid
    THEN [x EXCEPT !.err = TRUE]
    ELSE [y EXCEPT !.toks = @ \o [i \in DOMAIN words |-> Token(words[i])]
                              \o (IF end THEN <<Layout("NEWLINE")>> ELSE <<>>)]

\* mp_lex.  nl: the last line ends with a newline too.
mp_lex(lines, nl) ==
    LET x == FoldLeftDomain(LAMBDA a, i : LexLine(a, lines[i], nl \/ i < Len(lines)),
                            [toks |-> <<>>, stack |-> <<0>>, err |-> FALSE], lines)
        toks == x.toks \o [i \in 1..Len(x.stack) - 1 |-> Layout("DEDENT")]
                       \o <<Layout("EOF")>>
    IN  [toks |-> toks, err |-> x.err \/ Len(toks) > MaxTokens]

-----------------------------------------------------------------------------
(* parse.c.  A parser takes the tokens and a position and answers          *)
(* [ok, err, p, n]: without ok there is no node, and err says whether      *)
(* p->err was written (parse_stmt returns NULL without it at a DEDENT).    *)

Nil == [k |-> "NIL", op |-> "", s |-> <<>>, n |-> 0,
        a |-> <<>>, b |-> <<>>, body |-> <<>>, orelse |-> <<>>]
node_new(kind) == [Nil EXCEPT !.k = kind]
Got(n, p) == [ok |-> TRUE, err |-> FALSE, p |-> p, n |-> n]
Err  == [ok |-> FALSE, err |-> TRUE, p |-> 0, n |-> Nil]
NULL(p) == [ok |-> FALSE, err |-> FALSE, p |-> p, n |-> Nil]

cur(t, p) == t[IF p > Len(t) THEN Len(t) ELSE p]
check(t, p, k) == cur(t, p).k = k

RECURSIVE skip_newlines(_, _)
skip_newlines(t, p) == IF check(t, p, "NEWLINE") THEN skip_newlines(t, p + 1) ELSE p
\* match(p, TOK_NEWLINE) after a simple statement.
EndOfLine(t, p) == IF check(t, p, "NEWLINE") THEN p + 1 ELSE p

\* The parsers call one another through parse, which names the rule and
\* hands on what it has read so far.
RECURSIVE parse(_, _, _, _)
parse_expr(t, p) == parse("left", t, p, 1)

\* The loop over elements and arguments: parse_expr, then a comma or not.
Items(t, p, got) ==
    LET e == parse_expr(t, p) IN
    IF ~e.ok THEN Err
    ELSE IF check(t, e.p, ",") THEN parse("items", t, e.p + 1, Append(got, e.n))
    ELSE Got(Append(got, e.n), e.p)
\* Elements up to the closing mark, which may come at once.
Closed(t, p, close) ==
    LET es == IF check(t, p, close) THEN Got(<<>>, p) ELSE parse("items", t, p, <<>>) IN
    IF es.ok /\ check(t, es.p, close) THEN Got(es.n, es.p + 1) ELSE Err

\* The indices after a primary expression.
Indexed(t, r) ==
    IF ~r.ok \/ ~check(t, r.p, "[") THEN r
    ELSE LET i == parse_expr(t, r.p + 1) IN
         IF i.ok /\ check(t, i.p, "]")
         THEN parse("indexed", t, i.p + 1, [node_new("INDEX") EXCEPT !.a = <<r.n>>, !.b = <<i.n>>])
         ELSE Err

NameOf(tok) == [node_new("NAME") EXCEPT !.s = tok.s]
parse_primary(t, p) ==
    LET c == cur(t, p)
        inner == parse_expr(t, p + 1)
        items == Closed(t, p + 1, "]")
        args  == Closed(t, p + 2, ")") IN
    Indexed(t,
      CASE c.k = "NUMBER" -> Got([node_new("INT") EXCEPT !.n = c.n], p + 1)
        [] c.k = "STRING" -> Got([node_new("STR") EXCEPT !.s = c.s], p + 1)
        [] c.k \in {"True", "False"} ->
             Got([node_new("BOOL") EXCEPT !.n = IF c.k = "True" THEN 1 ELSE 0], p + 1)
        [] c.k = "None" -> Got(node_new("NONE"), p + 1)
        [] c.k = "["    -> IF items.ok
                           THEN Got([node_new("LIST") EXCEPT !.a = items.n], items.p)
                           ELSE Err
        [] c.k = "NAME" /\ ~check(t, p + 1, "(") -> Got(NameOf(c), p + 1)
        [] c.k = "NAME" /\ check(t, p + 1, "(") ->
             IF args.ok
             THEN Got([node_new("CALL") EXCEPT !.a = <<NameOf(c)>>, !.b = args.n], args.p)
             ELSE Err
        [] c.k = "(" -> IF inner.ok /\ check(t, inner.p, ")") THEN Got(inner.n, inner.p + 1)
                        ELSE Err
        [] OTHER -> Err)

parse_unary(t, p) ==
    IF cur(t, p).k \in {"not", "-", "+"}
    THEN LET r == parse("left", t, p + 1, 6) IN
         IF r.ok THEN Got([node_new("UNARY") EXCEPT !.op = cur(t, p).k, !.a = <<r.n>>], r.p)
         ELSE Err
    ELSE parse_primary(t, p)

\* parse_or, parse_and, parse_compare, parse_arith, parse_term: levels 1..5.
\* Each loops over its operators, but a comparison is not continued.
Operators == << {"or"}, {"and"}, {"==", "!=", "<", ">", "<=", ">="}, {"+", "-"},
                {"*", "/", "%"} >>
More(t, left, l) ==
    IF ~left.ok \/ cur(t, left.p).k \notin Operators[l] THEN left
    ELSE LET right == parse("left", t, left.p + 1, l + 1)
             n == [node_new(IF l = 3 THEN "COMPARE" ELSE "BINOP") EXCEPT
                     !.op = cur(t, left.p).k, !.a = <<left.n>>, !.b = <<right.n>>] IN
         IF ~right.ok THEN Err
         ELSE IF l = 3 THEN Got(n, right.p) ELSE parse("more", t, right.p, <<n, l>>)
parse_left(t, p, l) ==
    IF l = 6 THEN parse_unary(t, p) ELSE More(t, parse("left", t, p, l + 1), l)

\* The body after a colon: an indented block or one statement on the line.
parse_suite(t, p) ==
    LET block == parse("block", t, p + 3, <<>>)
        one   == parse("stmt", t, p + 1, <<>>) IN
    IF ~check(t, p, ":") THEN Err
    ELSE IF check(t, p + 1, "NEWLINE")
    THEN IF check(t, p + 2, "INDENT") /\ block.ok /\ check(t, block.p, "DEDENT")
         THEN Got(block.n, block.p + 1) ELSE Err
    ELSE IF one.ok THEN Got([node_new("BLOCK") EXCEPT !.body = <<one.n>>], one.p)
    ELSE one

suite(t, p) == parse("suite", t, p, <<>>)
parse_if_body(t, p) ==
    LET cond == parse_expr(t, p)
        then == suite(t, cond.p)
        q    == skip_newlines(t, then.p)
        else == IF check(t, q, "elif") THEN parse("elif", t, q + 1, <<>>)
                ELSE suite(t, q + 1)
        n    == [node_new("IF") EXCEPT !.a = <<cond.n>>, !.body = <<then.n>>] IN
    IF ~cond.ok THEN Err
    ELSE IF ~then.ok THEN then
    ELSE IF cur(t, q).k \notin {"elif", "else"} THEN Got(n, q)
    ELSE IF else.ok THEN Got([n EXCEPT !.orelse = <<else.n>>], else.p)
    ELSE else

\* The condition or the list of a loop, and its body.
parse_loop(t, p, n) ==
    LET e == parse_expr(t, p)
        s == suite(t, e.p) IN
    IF ~e.ok THEN Err
    ELSE IF s.ok THEN Got([n EXCEPT !.a = <<e.n>>, !.body = <<s.n>>], s.p)
    ELSE s

parse_for(t, p) ==
    IF check(t, p, "NAME") /\ check(t, p + 1, "in")
    THEN parse_loop(t, p + 2, [node_new("FOR") EXCEPT !.s = cur(t, p).s])
    ELSE Err

RECURSIVE Params(_, _, _)
Params(t, p, got) ==
    IF ~check(t, p, "NAME") THEN Err
    ELSE IF check(t, p + 1, ",") THEN Params(t, p + 2, Append(got, NameOf(cur(t, p))))
    ELSE Got(Append(got, NameOf(cur(t, p))), p + 1)

parse_def(t, p) ==
    LET ps == IF check(t, p + 2, ")") THEN Got(<<>>, p + 2) ELSE Params(t, p + 2, <<>>)
        s  == suite(t, ps.p + 1) IN
    IF ~(check(t, p, "NAME") /\ check(t, p + 1, "(") /\ ps.ok /\ check(t, ps.p, ")")) THEN Err
    ELSE IF s.ok
    THEN Got([node_new("FUNC") EXCEPT !.s = cur(t, p).s, !.a = ps.n, !.body = <<s.n>>], s.p)
    ELSE s

parse_stmt(t, p0) ==
    LET p == skip_newlines(t, p0)
        k == cur(t, p).k
        e == parse_expr(t, IF k = "return" THEN p + 1
                           ELSE IF check(t, p + 1, "=") THEN p + 2 ELSE p) IN
    CASE k \in {"EOF", "DEDENT"} -> NULL(p)
      [] k = "pass"   -> Got(node_new("PASS"), EndOfLine(t, p + 1))
      [] k = "return" -> IF cur(t, p + 1).k \in {"NEWLINE", "EOF", "DEDENT"}
                         THEN Got(node_new("RETURN"), EndOfLine(t, p + 1))
                         ELSE IF e.ok
                         THEN Got([node_new("RETURN") EXCEPT !.a = <<e.n>>], EndOfLine(t, e.p))
                         ELSE Err
      [] k = "if"     -> parse_if_body(t, p + 1)
      [] k = "while"  -> parse_loop(t, p + 1, node_new("WHILE"))
      [] k = "for"    -> parse_for(t, p + 1)
      [] k = "def"    -> parse_def(t, p + 1)
      [] k = "import" -> IF check(t, p + 1, "NAME")
                         THEN Got([node_new("IMPORT") EXCEPT !.s = cur(t, p + 1).s],
                                  EndOfLine(t, p + 2))
                         ELSE Err
      [] k = "NAME" /\ check(t, p + 1, "=") ->
           IF e.ok THEN Got([node_new("ASSIGN") EXCEPT !.a = <<NameOf(cur(t, p))>>,
                                                       !.b = <<e.n>>], EndOfLine(t, e.p))
           ELSE Err
      [] OTHER -> IF e.ok THEN Got([node_new("EXPR") EXCEPT !.a = <<e.n>>], EndOfLine(t, e.p))
                  ELSE Err

\* Statements up to a DEDENT or the end; a NULL without an error ends the
\* block as if it ended there.
parse_block(t, p0, got) ==
    LET p == skip_newlines(t, p0)
        s == parse("stmt", t, p, <<>>)
        n == [node_new("BLOCK") EXCEPT !.body = got] IN
    IF cur(t, p).k \in {"DEDENT", "EOF"} THEN Got(n, p)
    ELSE IF s.ok THEN parse("block", t, s.p, Append(got, s.n))
    ELSE IF s.err THEN Err
    ELSE Got(n, s.p)

\* The statements of a module, up to EOF.
parse_module(t, p0, got) ==
    LET p == skip_newlines(t, p0)
        s == parse("stmt", t, p, <<>>) IN
    IF check(t, p, "EOF") THEN Got([node_new("MODULE") EXCEPT !.body = got], p)
    ELSE IF s.ok THEN parse("module", t, s.p, Append(got, s.n))
    ELSE IF s.err THEN Err
    ELSE Got([node_new("MODULE") EXCEPT !.body = got], p)

parse(rule, t, p, x) ==
    CASE rule = "left"    -> parse_left(t, p, x)
      [] rule = "more"    -> More(t, Got(x[1], p), x[2])
      [] rule = "items"   -> Items(t, p, x)
      [] rule = "indexed" -> Indexed(t, Got(x, p))
      [] rule = "suite"   -> parse_suite(t, p)
      [] rule = "elif"    -> parse_if_body(t, p)
      [] rule = "stmt"    -> parse_stmt(t, p)
      [] rule = "block"   -> parse_block(t, p, x)
      [] rule = "module"  -> parse_module(t, p, x)

mp_parse(t) == parse("module", t, 1, <<>>)

\* A source read as mp_runtime_exec reads it: its module, or none.
ParseLexed(l) == IF l.err THEN Err ELSE mp_parse(l.toks)
Read(lines, nl) == ParseLexed(mp_lex(lines, nl))
=============================================================================
