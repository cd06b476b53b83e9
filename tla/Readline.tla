------------------------------ MODULE Readline -------------------------------
(* The line editor of user/shell/msh.c: the line, the history and its         *)
(* expansion, completion, and what one key does, in a console that a terminal *)
(* hosts and on the text screen.  A byte is its code; other keys have codes   *)
(* from 256.  Positions count from 0, as in the code.                         *)
EXTENDS Integers, SequencesExt, FiniteSetsExt

CONSTANTS
    LineMax,    \* LINE_MAX
    HistMax,    \* HIST_MAX
    NamesMax,   \* names[32] of try_complete_path
    Builtins,   \* builtins[]
    Bins,       \* bins[]
    Cd,         \* external, chdir: working directory -> path as written -> directory
    Names       \* external, listdir: directory -> the names in it

Text == Seq(Nat)

ASSUME ReadlineAssumption ==
    /\ {LineMax, HistMax, NamesMax} \subseteq Nat /\ LineMax >= 1 /\ HistMax >= 1
    /\ Builtins \in Seq(Text) /\ Bins \in Seq(Text)
    /\ \A d \in DOMAIN Names : Names[d] \in Seq(Text)
    /\ \A d \in DOMAIN Cd : /\ d \in Text /\ d \in DOMAIN Names
                           /\ \A p \in DOMAIN Cd[d] : Cd[d][p] \in DOMAIN Cd

NL == 10
SP == 32
BS == 8
CR == 13
ACK == 6
INTR == 3
Tab == 9
Bang == 33
Caret == 94
Slash == 47
GT == 62
Up == 256
Down == 257
Left == 258
Right == 259
Home == 260
End == 261
Delete == 262
CtrlA == 1
CtrlD == 4
CtrlE == 5
CtrlG == 7
CtrlK == 11
CtrlL == 12
CtrlR == 18
CtrlU == 21
CtrlW == 23
CtrlY == 25
MetaB == 610
MetaD == 612
MetaF == 614
Del == 127
Digit == 48 .. 57
Printable(k) == k \in 32 .. 255

\* FoldLeft, with every step evaluated before the next
Steps(op(_, _), v, s) ==
    LET after[i \in 0 .. Len(s)] ==
            IF i = 0 THEN v ELSE CHOOSE r \in {op(x, s[i]) : x \in {after[i - 1]}} : TRUE
    IN  after[Len(s)]

At(line, i) == line[i + 1]
From(line, i) == SubSeq(line, i + 1, Len(line))
Before(line, i) == SubSeq(line, 1, i)

\* What readline keeps while it edits; hp is hist_pos + 1.
Fresh == [line |-> <<>>, cursor |-> 0, hp |-> 0, tab |-> FALSE, yank |-> <<>>,
          rev |-> FALSE, rq |-> <<>>, shown |-> 0, draw |-> 0]

\* static hist[] and hist_base
NoHistory == [cmds |-> <<>>, base |-> 0]

-----------------------------------------------------------------------------
(* Editing.                                                                    *)
Insert(r, text) == [r EXCEPT !.line = Before(r.line, r.cursor) \o text \o From(r.line, r.cursor),
                             !.cursor = r.cursor + Len(text)]

Fits(r, n) == Len(r.line) + n + 1 < LineMax
Room(r) == Len(r.line) + 1 < LineMax

Show(r, line) == [r EXCEPT !.line = line, !.cursor = Len(line)]

Erase(r, i) == [r EXCEPT !.line = Before(r.line, i) \o From(r.line, i + 1), !.cursor = i]

Word_left(line, c) ==
    LET i == IF c > 0 THEN c - 1 ELSE 0
        j == Max({0} \cup {k \in 1 .. i : At(line, k) # SP})
    IN  Max({0} \cup {k \in 1 .. j : At(line, k - 1) = SP})

Word_right(line, c) ==
    LET n == Len(line)
        i == Min({n} \cup {k \in c .. n - 1 : At(line, k) = SP})
    IN  Min({n} \cup {k \in i .. n - 1 : At(line, k) # SP})

\* mutant: the text is cut but not kept for Ctrl+Y
DeleteNoYank(r, from, to) ==
    IF to <= from THEN r
    ELSE [r EXCEPT !.line = Before(r.line, from) \o From(r.line, to), !.cursor = from]

DeleteRange(r, from, to) ==
    IF to <= from THEN r
    ELSE [r EXCEPT !.line = Before(r.line, from) \o From(r.line, to), !.cursor = from,
                   !.yank = SubSeq(r.line, from + 1, to)]

\* An older or a newer command in place of the line.
Older(r, h) ==
    LET hp == IF r.hp = 0 THEN Len(h.cmds) ELSE Max({1, r.hp - 1})
    IN  [Show(r, h.cmds[hp]) EXCEPT !.hp = hp]

Newer(r, h) ==
    IF r.hp = 0 \/ r.hp = Len(h.cmds) THEN [Show(r, <<>>) EXCEPT !.hp = 0]
    ELSE [Show(r, h.cmds[r.hp + 1]) EXCEPT !.hp = r.hp + 1]

-----------------------------------------------------------------------------
(* The history: HIST_MAX commands; hist_base counts those that fell out, so   *)
(* that a command keeps its number.                                           *)

\* mutant: the numbers of the commands shift when the oldest falls out
HistAddNoBase(h, s) ==
    IF s = <<>> \/ (h.cmds # <<>> /\ Last(h.cmds) = s) THEN h
    ELSE [h EXCEPT !.cmds = IF Len(@) < HistMax THEN Append(@, s) ELSE Append(Tail(@), s)]

HistAdd(h, s) ==
    IF s = <<>> \/ (h.cmds # <<>> /\ Last(h.cmds) = s) THEN h
    ELSE IF Len(h.cmds) < HistMax THEN [h EXCEPT !.cmds = Append(@, s)]
    ELSE [cmds |-> Append(Tail(h.cmds), s), base |-> h.base + 1]

MatchPrefix(name, pref) == Len(pref) <= Len(name) /\ SubSeq(name, 1, Len(pref)) = pref

\* atoi_u: the digits at the start
Number(s) ==
    LET n == Min({Len(s)} \cup {i \in 0 .. Len(s) - 1 : At(s, i) \notin Digit})
        value[i \in 0 .. n] == IF i = 0 THEN 0 ELSE 10 * value[i - 1] + s[i] - 48
    IN  value[n]

NotFound == [r |-> -1, s |-> <<>>]
Unchanged(s) == [r |-> 0, s |-> s]
Expanded(s) == [r |-> 1, s |-> s]

HistExpand(h, s) ==
    LET n == Len(h.cmds)
        rest == From(s, 1)
        i == Number(rest) - h.base
        some == {k \in 1 .. n : MatchPrefix(h.cmds[k], rest)}
        b == Min({Len(rest)} \cup {k \in 0 .. Len(rest) - 1 : At(rest, k) = Caret})
        old == Before(rest, b)
        at == {k \in 0 .. Len(Last(h.cmds)) - 1 : MatchPrefix(From(Last(h.cmds), k), old)}
        new == Before(Last(h.cmds), Min(at)) \o From(rest, b + 1)
               \o From(Last(h.cmds), Min(at) + b)
    IN  IF s = <<>> THEN Unchanged(s)
        ELSE IF s = <<Bang, Bang>> THEN IF n = 0 THEN NotFound ELSE Expanded(Last(h.cmds))
        ELSE IF s[1] = Bang /\ Len(s) > 1
             THEN IF s[2] \in Digit
                  THEN IF i \in 1 .. n THEN Expanded(h.cmds[i]) ELSE NotFound
                  ELSE IF some = {} THEN NotFound ELSE Expanded(h.cmds[Max(some)])
        ELSE IF s[1] = Caret
             THEN IF b = Len(rest) \/ n = 0 THEN NotFound
                  ELSE IF at = {} THEN NotFound
                  ELSE Expanded(SubSeq(new, 1, Min({LineMax - 1, Len(new)})))
        ELSE Unchanged(s)

-----------------------------------------------------------------------------
(* Completion: r is 1 and the word's new form, 2 and the names to list, or 0. *)
None0 == [r |-> 0, out |-> <<>>, names |-> <<>>]

Completion(found, force, out) ==
    IF Len(found) = 1 /\ ~force THEN [r |-> 1, out |-> out, names |-> <<>>]
    ELSE IF found # <<>> THEN [r |-> 2, out |-> <<>>, names |-> found]
    ELSE None0

\* the words of a list that are in a set
Only(list, set) ==
    LET kept[i \in 0 .. Len(list)] ==
            IF i = 0 THEN <<>>
            ELSE IF list[i] \in set THEN Append(kept[i - 1], list[i]) ELSE kept[i - 1]
    IN  kept[Len(list)]

TryList(list, pref, force) ==
    LET found == Only(list, {w \in ToSet(list) : MatchPrefix(w, pref)})
    IN  Completion(found, force, found[1])

JoinPath(dir, name) == IF dir = <<Slash>> THEN <<Slash>> \o name
                       ELSE IF dir = <<>> THEN name
                       ELSE dir \o <<Slash>> \o name

IsDir(cwd, path) == path \in DOMAIN Cd[cwd]

TryPath(cwd, pref, dirsOnly, force) ==
    LET slash == Max({0} \cup {i \in 1 .. Len(pref) : pref[i] = Slash})
        dir == IF slash = 1 THEN <<Slash>> ELSE Before(pref, Max({0, slash - 1}))
        base == From(pref, slash)
    IN  IF ~IsDir(cwd, dir) THEN None0
        ELSE LET list == Names[Cd[cwd][dir]]
             all == Only(list, {w \in ToSet(list) :
                            /\ MatchPrefix(w, base)
                            /\ dirsOnly => IsDir(cwd, JoinPath(dir, w))})
                 found == SubSeq(all, 1, Min({NamesMax, Len(all)}))
                 out == Before(pref, slash) \o found[1]
             IN  Completion(found, force,
                            IF dirsOnly \/ IsDir(cwd, out) THEN out \o <<Slash>> ELSE out)

\* split: the words of a line
Starts(s) == {i \in 1 .. Len(s) : s[i] # SP /\ (i = 1 \/ s[i - 1] = SP)}
WordAt(s, i) == SubSeq(s, i, Min({Len(s)} \cup {j \in i .. Len(s) - 1 : s[j + 1] = SP}))
Split(s) == LET p == Only([i \in 1 .. Len(s) |-> i], Starts(s))
            IN  [k \in 1 .. Len(p) |-> WordAt(s, p[k])]

FirstWordIs(name, line) == Split(line) # <<>> /\ Split(line)[1] = name

CdWord == <<99, 100>>

\* do_tab; the result, the names to list and what readline keeps
OrElse(a, b) == IF a.r # 0 THEN a ELSE b

\* what completes "pref", the word of the line that starts at "start"
Candidate(line, start, pref, force, cwd) ==
    LET path(dirs) == TryPath(cwd, pref, dirs, force)
        bin == TryList(Bins, pref, force)
    IN  IF start = 0
        THEN OrElse(IF pref = <<>> THEN None0 ELSE OrElse(TryList(Builtins, pref, force), bin),
                    path(FALSE))
        ELSE IF FirstWordIs(CdWord, Before(line, start)) THEN path(TRUE)
        ELSE OrElse(path(FALSE), IF pref # <<>> THEN bin ELSE None0)

InsertMore(r, more) ==
    IF Fits(r, Len(more))
    THEN [r |-> 1, names |-> <<>>, rl |-> [Insert(r, more) EXCEPT !.tab = FALSE]]
    ELSE [r |-> 0, names |-> <<>>, rl |-> r]

Tabbed(r, pref, c) ==
    IF c.r = 1 THEN InsertMore(r, From(c.out, Len(pref)))
    ELSE [r |-> c.r, names |-> c.names, rl |-> [r EXCEPT !.tab = c.r # 2]]

DoTabAt(r, start, pref, cwd) ==
    CHOOSE t \in {Tabbed(r, pref, c) : c \in {Candidate(r.line, start, pref, r.tab, cwd)}} : TRUE

DoTab(r, cwd) ==
    LET start == Max({0} \cup {k \in 1 .. r.cursor : At(r.line, k - 1) = SP})
    IN  DoTabAt(r, start, SubSeq(r.line, start + 1, r.cursor), cwd)

-----------------------------------------------------------------------------
(* One key.  "act" says what readline does about it: it paints the line, lists *)
(* names, clears the screen, or returns: the line, ^C or the end of the input. *)
Act(r, act) == [rl |-> r, act |-> act, names |-> <<>>]
Quiet(r) == Act(r, "none")
Paint(r) == Act(r, "paint")
PaintIf(changed, r, r2) == IF changed THEN Paint(r2) ELSE Quiet(r)

Completed(t) == [rl |-> t.rl, names |-> t.names,
                 act |-> CASE t.r = 0 -> "none" [] t.r = 1 -> "paint" [] t.r = 2 -> "list"]

Complete(r, cwd) == CHOOSE s \in {Completed(t) : t \in {DoTab(r, cwd)}} : TRUE

\* the keys that both consoles treat alike
EditKey(r, h, k) ==
    CASE k \in {BS, Del} -> PaintIf(r.cursor > 0, r, Erase(r, r.cursor - 1))
      [] k = Left -> PaintIf(r.cursor > 0, r, [r EXCEPT !.cursor = @ - 1])
      [] k = Right -> PaintIf(r.cursor < Len(r.line), r, [r EXCEPT !.cursor = @ + 1])
      [] k = Delete -> PaintIf(r.cursor < Len(r.line), r, Erase(r, r.cursor))
      [] k = Up -> PaintIf(h.cmds # <<>>, r, Older(r, h))
      [] OTHER -> PaintIf(Printable(k) /\ Room(r), r, Insert(r, <<k>>))

HostedKey(r, h, cwd, k) ==
    LET r1 == [r EXCEPT !.tab = FALSE] IN
    CASE k = INTR -> Act([r EXCEPT !.line = <<>>], "intr")
      [] k \in {NL, CR} -> Act(r, "commit")
      [] k = Home -> PaintIf(r.cursor # 0, r, [r EXCEPT !.cursor = 0])
      [] k = End -> PaintIf(r.cursor # Len(r.line), r, [r EXCEPT !.cursor = Len(r.line)])
      [] k = Down -> Paint(Newer(r, h))
      [] k = Tab -> Complete(r, cwd)
      [] k \in {BS, Del, Left, Right, Delete, Up} -> EditKey(r, h, k)
      [] OTHER -> EditKey(r1, h, k)

\* the newest command that holds the query
Search(r, h) ==
    LET has(c) == r.rq = <<>> \/ \E i \in 0 .. Len(c) - 1 : MatchPrefix(From(c, i), r.rq)
        hits == {i \in 1 .. Len(h.cmds) : has(h.cmds[i])}
    IN  Paint(Show(r, IF hits = {} THEN <<>> ELSE h.cmds[Max(hits)]))

SearchKey(r, h, k) ==
    CASE k \in {INTR, CtrlG} -> Act([r EXCEPT !.line = <<>>], "intr")
      [] k \in {NL, CR} -> Act(r, "commit")
      [] k \in {BS, Del} -> Search([r EXCEPT !.rq = Before(@, Max({0, Len(@) - 1}))], h)
      [] Printable(k) /\ k # Del -> Search([r EXCEPT !.rq = Append(@, k)], h)
      [] k = CtrlR -> Search(r, h)
      [] OTHER -> Quiet(r)

TtyKey(r, h, cwd, k) ==
    LET r1 == [r EXCEPT !.tab = FALSE] IN
    CASE r.rev -> SearchKey(r, h, k)
      [] ~r.rev /\ k = CtrlR -> Paint([r EXCEPT !.rev = TRUE, !.rq = <<>>])
      [] ~r.rev /\ k = INTR -> Act([r EXCEPT !.line = <<>>], "intr")
      [] ~r.rev /\ k = CtrlD -> Act(r, IF r.line = <<>> THEN "eof" ELSE "none")
      [] ~r.rev /\ k = CtrlL -> Act(r, "clear")
      [] ~r.rev /\ k \in {NL, CR} -> Act(r1, "commit")
      [] ~r.rev /\ k = Tab -> Complete(r, cwd)
      [] ~r.rev /\ k \in {Home, CtrlA} -> Paint([r1 EXCEPT !.cursor = 0])
      [] ~r.rev /\ k \in {End, CtrlE} -> Paint([r1 EXCEPT !.cursor = Len(r.line)])
      [] ~r.rev /\ k = MetaB -> Paint([r1 EXCEPT !.cursor = Word_left(r.line, r.cursor)])
      [] ~r.rev /\ k = MetaF -> Paint([r1 EXCEPT !.cursor = Word_right(r.line, r.cursor)])
      [] ~r.rev /\ k = MetaD -> Paint(DeleteRange(r1, r.cursor, Word_right(r.line, r.cursor)))
      [] ~r.rev /\ k = CtrlW -> Paint(DeleteRange(r1, Word_left(r.line, r.cursor), r.cursor))
      [] ~r.rev /\ k = CtrlU -> Paint(DeleteRange(r1, 0, r.cursor))
      [] ~r.rev /\ k = CtrlK -> Paint(DeleteRange(r1, r.cursor, Len(r.line)))
      [] ~r.rev /\ k = CtrlY -> PaintIf(Fits(r, Len(r.yank)), r1, Insert(r1, r.yank))
      [] ~r.rev /\ k = Down -> PaintIf(r.hp # 0, r1, Newer(r1, h))
      [] OTHER -> EditKey(r1, h, k)
=============================================================================
