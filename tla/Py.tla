--------------------------------- MODULE Py ---------------------------------
(***************************************************************************)
(* A session with the Python interpreter (py/repl.c): lines are typed, and *)
(* mp_buffer_complete decides after each one whether what was typed so far *)
(* is run or waits for more.  The editing of a line is left out.           *)
(***************************************************************************)
EXTENDS PyEval
LOCAL INSTANCE SequencesExt
CONSTANTS Menus,       \* sets of lines: a session keeps to one of them
          MaxLines     \* bound: lines typed in a session
VARIABLES c,           \* rt.eval, and mpfs
          src,         \* the lines of the buffer that waits
          echo,        \* the result written after the last run
          menu,        \* which lines this session types
          typed,       \* history: all lines so far
          failed       \* history: some run ended with an error
vars == <<c, src, echo, menu, typed, failed>>

\* Words outside strings, comments included, as count_open sees them.
Words(lines) == FlattenSeq([i \in DOMAIN lines |-> lines[i].ws])
Times(ws, w) == Len(SelectSeq(ws, LAMBDA x : x = w))
count_open(lines) ==
    LET ws == Words(lines) IN
    Times(ws, "(") > Times(ws, ")") \/ \E i \in DOMAIN ws : ws[i] = "'"

ends_with_colon_line(lines) ==
    LET ws == Words(lines) IN ws # <<>> /\ ws[Len(ws)] = ":"

ColonOnly(lines) == ~count_open(lines) /\ ~ends_with_colon_line(lines)   \* mutant
\* The text waits while a bracket or a string is open, after a colon, and
\* while its last line that is not blank is indented: a blank line does not
\* end a block.
mp_buffer_complete(lines) ==
    LET full == SelectSeq(lines, LAMBDA l : l.ws # <<>>) IN
    /\ ~count_open(lines)
    /\ ~ends_with_colon_line(lines)
    /\ full # <<>> => full[Len(full)].ind = 0

\* What is written after a run: the value of a single expression that is
\* not a call.
Result(mod, v) ==
    IF mod.ok /\ Len(mod.n.body) = 1 /\ mod.n.body[1].k = "EXPR" /\ mod.n.body[1].a[1].k # "CALL"
    THEN CASE v.t = "str" -> <<"'">> \o v.s \o <<"'">>
           [] v.t \in {"int", "bool"} -> obj_to_buf(v)
           [] OTHER -> <<>>
    ELSE <<>>
print_result(lines, v) == Result(Read(lines, TRUE), v)

\* Enter is pressed: a round of mp_repl_run's loop after the line was read.
Enter(line) ==
    /\ Len(typed) < MaxLines
    /\ typed' = Append(typed, line)
    /\ UNCHANGED menu
    /\ IF src = <<>> /\ line.ws = <<>> /\ line.ind = 0
       THEN UNCHANGED <<c, src, echo, failed>>
       ELSE IF ~mp_buffer_complete(Append(src, line))
       THEN src' = Append(src, line) /\ UNCHANGED <<c, echo, failed>>
       ELSE \E r \in {mp_runtime_exec([c EXCEPT !.err = ""], Append(src, line), TRUE)} :
              /\ c' = r.c
              /\ src' = <<>>
              /\ echo' = IF r.c.err = "" THEN print_result(Append(src, line), r.v) ELSE <<>>
              /\ failed' = (failed \/ r.c.err # "")

\* mp_repl_run before the first prompt; the seed of the standard library is
\* left to the programs.
Init == /\ menu \in Menus
        /\ c = Fresh(FALSE)
        /\ src = <<>> /\ echo = <<>> /\ typed = <<>> /\ failed = FALSE
Next == \E line \in menu : Enter(line)
Spec == Init /\ [][Next]_vars

-----------------------------------------------------------------------------
(* Properties *)

\* A session means what a file with the same lines means: the prompt refuses
\* something if and only if the file has an error, and otherwise names,
\* objects, files and output are those of running all of it at once, however
\* the prompt cuts the lines into runs and whatever it makes of blank lines
\* and comments.  (The sessions do not return at the top, and have no "else"
\* after an "if" of one line, which the prompt has run by then.)
SessionIsScript ==
    src = <<>> =>
        \E r \in {mp_runtime_exec(Fresh(FALSE), typed, TRUE)} :
            /\ failed <=> r.c.err # ""
            /\ ~failed => <<r.c.env, r.c.heap, r.c.fs, r.c.out>> = <<c.env, c.heap, c.fs, c.out>>

\* The nodes below a node, itself included.
RECURSIVE Below(_)
Below(n) == {n} \cup UNION {Below(m) : m \in ToSet(n.a \o n.b \o n.body \o n.orelse)}
Program == Read(typed, TRUE)
NamesIn(n) == {m.s[1] : m \in {x \in Below(n) : x.k = "NAME"}}
\* Every call of a function whose later arguments neither call anything nor
\* name a parameter that is bound before them.
ArgumentsApart ==
    \A call \in {n \in Below(Program.n) : n.k = "CALL"} :
    \A def \in {n \in Below(Program.n) : n.k = "FUNC" /\ n.s = call.a[1].s} :
    \A j \in DOMAIN call.b : \A i \in DOMAIN def.a :
        i < j => /\ def.a[i].s[1] \notin NamesIn(call.b[j])
                 /\ \A n \in Below(call.b[j]) : n.k # "CALL"

\* Binding the parameters one after the other in the one table of names, and
\* putting the old values back afterwards, is the same as a call that
\* evaluates all arguments first: recursive calls included, unless an
\* argument reads a parameter bound before it, as f(b, a) inside f(a, b).
CallsAgree ==
    (~failed /\ src = <<>> /\ Program.ok /\ ArgumentsApart) =>
        \E r \in {mp_runtime_exec(Fresh(TRUE), typed, TRUE)} :
            <<r.c.env, r.c.heap, r.c.out>> = <<c.env, c.heap, c.out>>

=============================================================================
