-------------------------------- MODULE Term ---------------------------------
(* A terminal session: the terminal program user/gui/gterm.c with             *)
(* user/gui/termrun.c, the console rings of kernel/proc/proc.c, and in them    *)
(* the shell user/shell/msh.c with the programs it runs; or the same shell on  *)
(* the text screen of kernel/drivers/vga.c, without a terminal.  One of them   *)
(* runs at a time: whoever waits gives the processor to its child, which keeps *)
(* it until it yields.                                                         *)
EXTENDS Readline

CONSTANTS
    InMax,      \* PROC_CONS_IN
    OutMax,     \* PROC_CONS_OUT
    Slack,      \* what a write leaves free in it before it yields
    ReadMax,    \* bytes flush_cons reads at once
    AccMax,     \* sizeof(TermSession.acc)
    TermRows,   \* TERM_ROWS
    ColMax,     \* col_max of gterm
    SpinMax,    \* pumps in one drain_child
    Width,      \* VGA_WIDTH
    Height,     \* VGA_HEIGHT
    Banner, Finished, Missing, Help,    \* texts
    Home0,      \* home_dir()
    Shell,      \* the word that starts msh in gterm
    Programs,   \* the words for which there is a program
    KeysFor,    \* hosted or not -> the keys the user may hit
    Chunks,     \* what programs write
    Consoles,   \* subset of BOOLEAN: whether a terminal hosts the shell
    MaxKeys,    \* bound: hosted or not -> keys hit
    MaxFaults,  \* bound: writes that the timer makes yield, and programs that cannot be started
    MaxParts    \* bound: writes of programs without a newline

ASSUME TermAssumption ==
    /\ {InMax, OutMax, Slack, ReadMax, AccMax, TermRows, ColMax, SpinMax, Width} \subseteq Nat
    /\ ReadMax # 0
    /\ {Banner, Finished, Missing, Help, Shell} \cup Programs \cup Chunks \subseteq Text
    /\ Home0 \in DOMAIN Cd
    /\ Consoles \subseteq BOOLEAN /\ \A h \in BOOLEAN : KeysFor[h] \subseteq Nat

VARIABLES
    hosted,     \* the shell runs in gterm
    turn,       \* who runs: "gterm", "main" (gterm's child, or msh on the text screen), "sub"
    gt, sess,   \* gterm's variables, its TermSession
    keys, out,  \* the console rings: of keys for main and sub, of bytes for the session
    typed,      \* keys in gterm's window, or in the keyboard's buffer
    proc,       \* main and sub: "none", "run", "zombie"; kind is what main runs
    msh,        \* the shell
    scr,        \* the text screen
    want,       \* history: what the session's screen should show
    budget      \* what is left of the bounds

vars == <<hosted, turn, gt, sess, keys, out, typed, proc, msh, scr, want, budget>>

Lo(a, b) == IF a < b THEN a ELSE b
Prompt(cwd) == cwd \o <<GT, SP>>
RevPrompt(q) == <<96>> \o q \o <<39>>
Spaces(n) == [i \in 1 .. n |-> SP]
KeepLast(s, n) == SubSeq(s, Max({1, Len(s) - n + 1}), Len(s))

-----------------------------------------------------------------------------
(* What a perfect terminal would show.  "blur" is set where the code is known   *)
(* to lose track: a line too long for it, a caret cut off from its mark.       *)
WCut(s) == Before(s, Lo(Len(s), AccMax - 1))
WPut(w, s) == [w EXCEPT !.cur = IF hosted THEN WCut(@ \o s) ELSE @ \o s]
WSet(w, s) == [w EXCEPT !.cur = s]
WNl(w) == [lines |-> KeepLast(Append(w.lines, w.cur), TermRows), cur |-> <<>>,
           blur |-> w.blur \/ (~hosted /\ Len(w.cur) >= Width)]
WLine(w, s) == WNl(WPut(w, s))
WText(w, s) == Steps(LAMBDA v, b : IF b = NL THEN WNl(v) ELSE WPut(v, <<b>>), w, s)

\* The longest line that readline can keep on the screen.
Short(plen) == IF hosted THEN AccMax - 1 - plen ELSE Width - 2 - plen

-----------------------------------------------------------------------------
(* gterm.c: the scrollback, the text of its one widget, and the drawing of it. *)
RunMode == 1
PromptMode == 0
DoneMode == 2

\* rebuild_entry: the lines and the live line, with the caret in the latter
Rebuild(g, s) ==
    LET live == IF g.mode = RunMode THEN g.live
                ELSE IF g.mode = PromptMode THEN <<125, SP>> \o g.input ELSE <<>>
        caret == IF g.mode = RunMode
                 THEN IF live = <<>> THEN -1
                      ELSE IF s.caret > Len(s.acc) \/ s.caret > Len(live) THEN Len(live) ELSE s.caret
                 ELSE IF g.mode = PromptMode THEN 2 + Len(g.input) ELSE -1
    IN  [g EXCEPT !.buf = [text |-> IF live = <<>> THEN g.lines ELSE Append(g.lines, live),
                           caret |-> caret],
                  !.dirty = TRUE]

PushLine(g, s, l) == Rebuild([g EXCEPT !.lines = KeepLast(Append(@, l), TermRows), !.live = <<>>], s)

(* termrun.c: flush_cons.  One byte of the chunk that sys_cons_read gave:      *)
(* "mark" is set after a byte 6 that another byte of the chunk follows, "split" *)
(* when none does: then the caret in the next chunk is taken for text.         *)
FlushByte(f, b, last) ==
    IF f.mark THEN [f EXCEPT !.mark = FALSE, !.s.caret = b]
    ELSE CASE b = ACK -> [f EXCEPT !.mark = ~last, !.split = @ \/ last]
           [] b = CR -> [f EXCEPT !.s.acc = <<>>, !.s.caret = 0]
           [] b \in {BS, Del} -> [f EXCEPT !.s.acc = Before(@, Max({0, Len(@) - 1}))]
           [] b = NL -> [f EXCEPT !.g = PushLine(f.g, f.s, f.s.acc), !.s.acc = <<>>, !.s.caret = 0]
           [] OTHER -> [f EXCEPT !.s.acc = IF Len(@) + 1 < AccMax THEN Append(@, b) ELSE @]

Flush(g, s, bytes) ==
    LET n == Len(bytes)
        f == Steps(LAMBDA a, i : FlushByte(a, bytes[i], i = n \/ i % ReadMax = 0),
                   [g |-> g, s |-> s, mark |-> FALSE, split |-> FALSE], [i \in 1 .. n |-> i])
    IN  f

-----------------------------------------------------------------------------
(* proc.c: the rings.                                                          *)
\* cons_input_target: the deepest child that lives
InputTarget == IF proc.sub = "run" THEN "sub" ELSE "main"

\* proc_cons_putkey: a key that finds no room is lost
PutKey(ks, k) == [ks EXCEPT ![InputTarget] = IF Len(@) + 1 < InMax THEN Append(@, k) ELSE @]

\* proc_cons_write, and when SYS_WRITE yields after it
Written(o, s) == o \o Before(s, Lo(Len(s), OutMax - 1 - Len(o)))
Bytes(s) == {s[i] : i \in DOMAIN s}
Yields(o, s) == NL \in Bytes(s) \/ Len(o) + Slack >= OutMax

-----------------------------------------------------------------------------
(* vga.c: vga_putchar on the cells, with the cursor at row and col from 0.     *)
Blank == [cells |-> [i \in 1 .. Height |-> Spaces(Width)], row |-> 0, col |-> 0]

Newline(v) ==
    IF v.row + 1 < Height THEN [v EXCEPT !.row = @ + 1, !.col = 0]
    ELSE [v EXCEPT !.col = 0, !.cells = Append(Tail(@), Spaces(Width))]

PutChar(v, c) ==
    LET set(w, b) == [w EXCEPT !.cells[w.row + 1][w.col + 1] = b]
        back == IF v.col > 0 THEN [v EXCEPT !.col = @ - 1]
                ELSE IF v.row > 0 THEN [v EXCEPT !.row = @ - 1, !.col = Width - 1] ELSE v
        next == [set(v, c) EXCEPT !.col = @ + 1]
    IN  CASE c = NL -> Newline(v)
          [] c = CR -> [v EXCEPT !.col = 0]
          [] c = BS -> set(back, SP)
          [] c < 32 /\ c \notin {NL, CR, BS} -> v
          [] c >= 32 -> IF next.col >= Width THEN Newline(next) ELSE next

PutAll(v, s) == Steps(PutChar, v, s)

-----------------------------------------------------------------------------
(* msh.c: what the shell writes.  "todo" are the calls of write it has yet to  *)
(* make.                                                                       *)

\* mutant: the line is painted over what is there
RepaintOver(r, plen, shown) ==
    (IF r.line = <<>> THEN <<>> ELSE <<r.line>>) \o << <<ACK, Lo(plen + r.cursor, 255)>> >>

\* hosted_repaint: the line that is shown goes, the new one comes, then the caret
Repaint(r, plen, shown) ==
    [i \in 1 .. shown |-> <<BS, SP, BS>>] \o (IF r.line = <<>> THEN <<>> ELSE <<r.line>>)
    \o << <<ACK, Lo(plen + r.cursor, 255)>> >>

\* hosted_commit_echo and the newline
CommitEcho(r) ==
    [i \in 1 .. r.shown |-> <<BS, SP, BS>>] \o (IF r.line = <<>> THEN <<>> ELSE <<r.line>>) \o << <<NL>> >>

\* mutant: as many cells are blanked as the new line has
RedrawShort(prompt, r) ==
    << <<CR>> \o Spaces(Len(prompt) + Len(r.line)) \o <<CR>> \o prompt \o r.line
       \o <<CR>> \o prompt \o Before(r.line, r.cursor) >>

\* redraw on the text screen
Redraw(prompt, r) ==
    LET need == Len(prompt) + Len(r.line)
        clear == Lo(Max({r.draw, need}), Width - 2)
    IN  << <<CR>> \o Spaces(clear) \o <<CR>> \o prompt \o r.line
           \o <<CR>> \o prompt \o Before(r.line, r.cursor) >>

ReadPrompt(m, r) == IF r.rev THEN RevPrompt(r.rq) ELSE Prompt(m.cwd)

\* The shell m after readline decided on "step"; w is what the screen should show then.
Painted(m, r) ==
    LET p == ReadPrompt(m, r) IN
    IF hosted
    THEN [m EXCEPT !.rl = [r EXCEPT !.shown = Len(r.line)], !.todo = Repaint(r, Len(p), r.shown)]
    ELSE [m EXCEPT !.rl = [r EXCEPT !.draw = Len(p) + Len(r.line)], !.todo = Redraw(p, r)]
WPainted(m, w, r) ==
    [w EXCEPT !.cur = ReadPrompt(m, r) \o r.line,
              !.blur = @ \/ Len(r.line) > Short(Len(ReadPrompt(m, r)))]

Listing(names) == FlattenSeq([i \in DOMAIN names |-> names[i] \o <<SP, SP>>])

Shown(m, step) ==
    LET r == step.rl
        p == Prompt(m.cwd)
        list == << <<NL>>, Listing(step.names), <<NL>> >>
    IN  CASE step.act = "none" -> [m EXCEPT !.rl = r]
          [] step.act = "paint" -> Painted(m, r)
          [] step.act = "list" ->
                LET q == Painted(m, [r EXCEPT !.shown = 0])
                IN  [q EXCEPT !.todo = (IF hosted THEN list \o <<p>> ELSE list) \o @]
          [] step.act = "clear" -> Painted(m, r)
          [] step.act = "commit" ->
                [m EXCEPT !.rl = r, !.pc = "run", !.todo = IF hosted THEN CommitEcho(r) ELSE << <<NL>> >>]
          [] step.act = "intr" ->
                [m EXCEPT !.rl = Fresh, !.pc = "prompt", !.todo = << <<Caret, 67, NL>> >>]
          [] step.act = "eof" -> [m EXCEPT !.rl = r, !.pc = "exit", !.todo = << <<101, NL>> >>]

\* on the text screen ^C is written where the cursor is
Over(s, i, t) == Before(s, i) \o t \o From(s, Lo(Len(s), i + Len(t)))

WShown(m, w, step) ==
    LET r == step.rl
        p == ReadPrompt(m, m.rl)
        at == Len(p) + m.rl.cursor
        list == Listing(step.names)
    IN  CASE step.act = "none" -> w
          [] step.act = "paint" -> WPainted(m, w, r)
          [] step.act = "list" -> WPainted(m, WLine(WNl(w), list), r)
          [] step.act = "clear" -> WPainted(m, [w EXCEPT !.lines = <<>>], r)
          [] step.act = "commit" -> WNl(w)
          [] step.act = "intr" -> WNl(IF hosted THEN WPut(w, <<Caret, 67>>)
                                      ELSE WSet(w, Over(w.cur, at, <<Caret, 67>>)))
          [] step.act = "eof" -> WNl(WSet(w, Over(w.cur, at, <<101>>)))

\* main() with a line: what it prints and does.  "cmd" is the program to run.
PutInt(n) ==
    LET digits[i \in 0 .. n] == IF i < 10 THEN <<48 + i>>
                               ELSE Append(digits[i \div 10], 48 + (i % 10))
    IN  digits[n]
Lines(ls) == FlattenSeq([i \in DOMAIN ls |-> Append(ls[i], NL)])
HistoryText(h) == Lines([i \in DOMAIN h.cmds |-> PutInt(h.base + i) \o <<SP, SP>> \o h.cmds[i]])

Say(m, text) == [m EXCEPT !.todo = IF text = <<>> THEN <<>> ELSE <<text>>, !.pc = "prompt"]

Word_exit == <<120>>
Word_help == <<104, 112>>
Word_history == <<104>>

Chdir(m, words) ==
    LET to == IF Len(words) < 2 THEN Home0
              ELSE IF words[2] = <<45>> THEN m.old
              ELSE IF words[2] = <<126>> THEN Home0 ELSE words[2]
    IN  IF IsDir(m.cwd, to) THEN [Say(m, <<>>) EXCEPT !.cwd = Cd[m.cwd][to], !.old = m.cwd]
        ELSE Say(m, Lines(<<Missing>>))

\* what a line does that came out of the history's expansion
Echoed(q, text) == [q EXCEPT !.todo = IF text = <<>> THEN @ ELSE <<text>> \o @]

Command(m, words) ==
    IF words = <<>> THEN Say(m, <<>>)
    ELSE CASE words[1] = Word_exit -> [Say(m, <<>>) EXCEPT !.pc = "exit"]
           [] words[1] = Word_help -> Say(m, Lines(<<Help>>))
           [] words[1] = Word_history -> Say(m, HistoryText(m.hist))
           [] words[1] = CdWord -> Chdir(m, words)
           [] words[1] \in Programs -> [Say(m, <<>>) EXCEPT !.pc = "spawn"]
           [] OTHER -> Say(m, Lines(<<Missing \o words[1], <<>> >>))

RunExpanded(m, h, e) ==
    IF e.r < 0 THEN Say(m, Lines(<<Missing>>))
    ELSE Echoed(Command([m EXCEPT !.hist = HistAdd(h, e.s),
                                  !.ran = IF e.s = <<>> \/ (@ # <<>> /\ Last(@) = e.s) THEN @
                                          ELSE Append(@, e.s)],
                        Split(e.s)),
                IF e.r = 1 THEN Lines(<<e.s>>) ELSE <<>>)

Run(m, h) == RunExpanded(m, h, HistExpand(h, m.rl.line))

-----------------------------------------------------------------------------
NewShell == [pc |-> "start", todo |-> <<>>, rl |-> Fresh, hist |-> NoHistory,
             cwd |-> Home0, old |-> <<Slash>>, ran |-> <<>>]
NewSession == [alive |-> FALSE, acc |-> <<>>, caret |-> 0, painted |-> FALSE]

InitGt == [mode |-> PromptMode, lines |-> <<>>, live |-> <<>>, input |-> <<>>,
           buf |-> [text |-> <<>>, caret |-> -1], drawn |-> [text |-> <<>>, caret |-> -1],
           dirty |-> TRUE, at |-> "start", spins |-> 0, fed |-> 0, changed |-> FALSE,
           prev |-> <<>>, after |-> "poll"]

Init ==
    /\ hosted \in Consoles
    /\ turn = IF hosted THEN "gterm" ELSE "main"
    /\ gt = InitGt /\ sess = NewSession
    /\ keys = [main |-> <<>>, sub |-> <<>>] /\ out = <<>>
    /\ typed = <<>>
    /\ proc = [main |-> IF hosted THEN "none" ELSE "run", sub |-> "none",
               kind |-> IF hosted THEN "none" ELSE "msh"]
    /\ msh = NewShell
    /\ scr = Blank
    /\ want = [lines |-> <<>>, cur |-> <<>>, blur |-> FALSE]
    /\ budget = [keys |-> MaxKeys[hosted], faults |-> MaxFaults, parts |-> MaxParts]

\* The user hits a key.  Nobody looks at the queue but gterm between two frames, or who
\* waits for the keyboard, so nothing is lost if keys arrive only then.
Hit(k) ==
    /\ budget.keys > 0 /\ typed = <<>>
    /\ IF hosted THEN turn = "gterm" /\ gt.at = "poll" ELSE turn # "gterm"
    /\ typed' = <<k>>
    /\ budget' = [budget EXCEPT !.keys = @ - 1]
    /\ UNCHANGED <<hosted, turn, gt, sess, keys, out, proc, msh, scr, want>>

-----------------------------------------------------------------------------
(* gterm.                                                                      *)
Kernel == <<hosted, keys, out, msh, scr>>

\* submit: the command leaves the prompt, and its program starts, or does not
Submit(g, quiet, ok) ==
    LET run == [g EXCEPT !.mode = RunMode, !.live = <<>>]
        word == Split(g.input)
        g1 == IF quiet THEN Rebuild(run, sess) ELSE PushLine(run, sess, <<125, SP>> \o g.input)
        w1 == IF quiet THEN want ELSE WLine(want, <<125, SP>> \o g.input)
        back(q) == Rebuild([q EXCEPT !.mode = PromptMode, !.input = <<>>, !.at = "poll"], sess)
        known == word # <<>> /\ word[1] \in Programs \cup {Shell}
    IN  IF word = <<>>
        THEN /\ gt' = back(g1) /\ want' = w1
             /\ UNCHANGED <<sess, proc, budget>>
        ELSE IF ~known \/ ~ok
        THEN /\ gt' = back(PushLine([g1 EXCEPT !.input = <<>>], sess, Missing))
             /\ want' = WLine(w1, Missing)
             /\ sess' = NewSession
             /\ budget' = IF known THEN [budget EXCEPT !.faults = @ - 1] ELSE budget
             /\ UNCHANGED proc
        ELSE /\ gt' = [g1 EXCEPT !.input = <<>>, !.at = "drain", !.after = "poll", !.spins = 0,
                                 !.fed = 0, !.changed = FALSE, !.prev = g1.live]
             /\ want' = w1
             /\ sess' = [NewSession EXCEPT !.alive = TRUE]
             /\ proc' = [proc EXCEPT !.main = "run", !.kind = IF word[1] = Shell THEN "msh" ELSE "prog"]
             /\ UNCHANGED budget

Ok == {TRUE} \cup (IF budget.faults > 0 THEN {FALSE} ELSE {})

\* main() up to its loop: a command from /sys/run/argv, or the prompt
GtStart ==
    /\ turn = "gterm" /\ gt.at = "start"
    /\ \/ /\ gt' = [PushLine(gt, sess, Help) EXCEPT !.at = "poll"]
          /\ want' = WLine(want, Help)
          /\ UNCHANGED <<sess, proc, budget>>
       \/ \E w \in {Shell} \cup Programs : Submit([gt EXCEPT !.input = w], TRUE, TRUE)
    /\ UNCHANGED <<turn, typed, Kernel>>

KillMain == [proc EXCEPT !.main = "zombie", !.sub = "none"]
Drain(g, k) == [g EXCEPT !.at = "drain", !.after = "frame", !.spins = 0, !.fed = k,
                         !.changed = FALSE, !.prev = g.live]

\* one key of gui_poll's loop; a key for the session ends the loop
GtKey ==
    /\ turn = "gterm" /\ gt.at = "poll" /\ typed # <<>>
    /\ LET k == typed[1] IN
       /\ typed' = Tail(typed)
       /\ \/ /\ gt.mode = RunMode /\ k # INTR
             /\ gt' = Drain(gt, IF k = CR THEN NL ELSE k)
             /\ UNCHANGED <<sess, proc, budget, keys, out, want>>
          \/ /\ gt.mode = RunMode /\ k = INTR
             /\ gt' = [Drain(gt, 0) EXCEPT !.dirty = TRUE]
             /\ proc' = KillMain
             /\ keys' = [main |-> <<>>, sub |-> <<>>] /\ out' = <<>>
             /\ want' = [want EXCEPT !.blur = @ \/ (proc.kind = "msh" /\ msh.todo # <<>>)]
             /\ UNCHANGED <<sess, budget>>
          \/ /\ gt.mode = DoneMode
             /\ UNCHANGED <<gt, sess, proc, budget, keys, out, want>>
          \/ /\ gt.mode = PromptMode /\ k \in {NL, CR} /\ gt.input # <<>>
             /\ \E ok \in Ok : Submit(gt, FALSE, ok)
             /\ UNCHANGED <<keys, out>>
          \/ /\ gt.mode = PromptMode /\ (k \in {NL, CR} => gt.input = <<>>)
             /\ gt' = IF k \in {BS, Del} /\ gt.input # <<>>
                      THEN Rebuild([gt EXCEPT !.input = Before(@, Len(@) - 1)], sess)
                      ELSE IF k \in 32 .. 126 /\ Len(gt.input) + 1 < ColMax
                      THEN Rebuild([gt EXCEPT !.input = Append(@, k)], sess)
                      ELSE gt
             /\ UNCHANGED <<sess, proc, budget, keys, out, want>>
    /\ UNCHANGED <<hosted, turn, msh, scr>>

\* the end of the loop: drain_child(-1) while a program runs
GtPolled ==
    /\ turn = "gterm" /\ gt.at = "poll" /\ typed = <<>>
    /\ gt' = IF gt.mode = RunMode THEN Drain(gt, 0) ELSE [gt EXCEPT !.at = "frame"]
    /\ UNCHANGED <<turn, sess, typed, proc, want, budget, Kernel>>

\* term_session_pump up to sys_wait: the child runs, unless it is dead
GtPump ==
    /\ turn = "gterm" /\ gt.at = "drain"
    /\ gt' = [gt EXCEPT !.at = "waiting", !.spins = @ + 1, !.fed = 0]
    /\ keys' = IF gt.fed # 0 /\ proc.main = "run" THEN PutKey(keys, gt.fed) ELSE keys
    /\ turn' = IF proc.main = "run" THEN "main" ELSE "gterm"
    /\ UNCHANGED <<hosted, sess, out, typed, proc, msh, scr, want, budget>>

\* mutant: only another text is a change
ChangedText(g, painted) == g.changed

\* what drain_child remembers of its rounds: any byte is a change, the caret's too
Changed(g, painted) == g.changed \/ painted

\* the rest of it, and of the round in drain_child
GtPumped ==
    /\ turn = "gterm" /\ gt.at = "waiting"
    /\ \E f \in {Flush(gt, sess, out)} :
       LET painted == out # <<>>
           wn == [want EXCEPT !.blur = @ \/ f.split]
           s == [f.s EXCEPT !.painted = painted]
           g == [f.g EXCEPT !.live = s.acc, !.changed = Changed(f.g, painted)]
           more == painted /\ gt.spins < SpinMax
           end == [g EXCEPT !.at = gt.after, !.changed = FALSE]
           last == IF s.acc = <<>> THEN f.g ELSE PushLine(f.g, s, s.acc)
           done == PushLine([last EXCEPT !.live = <<>>], NewSession, Finished)
       IN  IF proc.main = "zombie"
           THEN /\ gt' = [done EXCEPT !.mode = DoneMode, !.at = gt.after, !.changed = FALSE]
                /\ sess' = NewSession
                /\ proc' = [proc EXCEPT !.main = "none", !.kind = "none"]
                /\ msh' = NewShell
                /\ want' = WLine(IF wn.cur = <<>> THEN wn ELSE WNl(wn), Finished)
           ELSE /\ gt' = IF more THEN [g EXCEPT !.at = "drain"]
                         ELSE IF g.changed \/ g.live # g.prev THEN Rebuild(end, s) ELSE end
                /\ sess' = s /\ want' = wn
                /\ UNCHANGED <<proc, msh>>
    /\ out' = <<>>
    /\ UNCHANGED <<hosted, turn, keys, typed, scr, budget>>

\* the end of a frame: draw what changed, or yield
GtFrame ==
    /\ turn = "gterm" /\ gt.at = "frame"
    /\ gt' = [gt EXCEPT !.at = "poll", !.dirty = FALSE, !.drawn = IF gt.dirty THEN gt.buf ELSE @]
    /\ UNCHANGED <<turn, sess, typed, proc, want, budget, Kernel>>

\* Alt+F4 or the window's close: term_session_stop
GtQuit ==
    /\ turn = "gterm" /\ gt.at = "poll" /\ typed = <<>> /\ budget.keys = 0
    /\ gt' = [gt EXCEPT !.at = "gone"]
    /\ sess' = NewSession
    /\ proc' = [main |-> "none", sub |-> "none", kind |-> "none"]
    /\ keys' = [main |-> <<>>, sub |-> <<>>] /\ out' = <<>>
    /\ UNCHANGED <<hosted, turn, typed, msh, scr, want, budget>>

-----------------------------------------------------------------------------
(* System calls of the programs.                                               *)
Parent(p) == IF p = "sub" THEN "main" ELSE "gterm"

\* write to the console, to the screen if there is no terminal
Write(p, s, preempt) ==
    IF hosted
    THEN /\ out' = Written(out, s)
         /\ turn' = IF Yields(out', s) \/ preempt THEN Parent(p) ELSE turn
         /\ UNCHANGED scr
    ELSE /\ scr' = PutAll(scr, s)
         /\ UNCHANGED <<out, turn>>

\* read a key: the ring's, or the keyboard's; k is its action
ReadKey(p) == IF hosted THEN keys[p] # <<>> ELSE typed # <<>>
NextKey(p) == IF hosted THEN keys[p][1] ELSE typed[1]
Taken(p) == IF hosted THEN keys' = [keys EXCEPT ![p] = Tail(@)] /\ UNCHANGED typed
            ELSE typed' = Tail(typed) /\ UNCHANGED keys

Exit(p) ==
    /\ proc' = [proc EXCEPT ![p] = "zombie"]
    /\ turn' = IF hosted \/ p = "sub" THEN Parent(p) ELSE "off"

-----------------------------------------------------------------------------
(* msh.                                                                        *)
IsShell == turn = "main" /\ proc.kind = "msh"

MshStart ==
    /\ IsShell /\ msh.pc = "start" /\ msh.todo = <<>>
    /\ msh' = Say(msh, Lines(<<Banner>>))
    /\ want' = WLine(want, Banner)
    /\ UNCHANGED <<hosted, turn, gt, sess, keys, out, typed, proc, scr, budget>>

\* the first of the writes that makes the shell yield, or the last
ForcedAt ==
    LET n == Len(msh.todo)
        upto(i) == FlattenSeq(SubSeq(msh.todo, 1, i))
    IN  IF hosted THEN Min({n} \cup {i \in 1 .. n : Yields(out \o upto(i), msh.todo[i])}) ELSE n

\* it makes its writes; the timer may make any of them yield
MshWrite ==
    /\ IsShell /\ msh.todo # <<>>
    /\ \E last \in {ForcedAt} : \E j \in 1 .. last, preempt \in BOOLEAN :
       /\ preempt => hosted /\ budget.faults > 0
       /\ ~preempt => j = last
       /\ Write("main", FlattenSeq(SubSeq(msh.todo, 1, j)), preempt)
       /\ msh' = [msh EXCEPT !.todo = SubSeq(@, j + 1, Len(@))]
       /\ budget' = IF preempt THEN [budget EXCEPT !.faults = @ - 1] ELSE budget
    /\ UNCHANGED <<hosted, gt, sess, keys, typed, proc, want>>

\* readline up to its loop
MshPrompt ==
    /\ IsShell /\ msh.pc = "prompt" /\ msh.todo = <<>>
    /\ LET p == Prompt(msh.cwd)
           fresh == IF ~hosted /\ scr.col > 0 THEN << <<NL>> >> ELSE <<>>
           m == [msh EXCEPT !.pc = "read", !.rl = [Fresh EXCEPT !.draw = Len(p)]]
       IN  /\ msh' = [m EXCEPT !.todo = fresh \o <<p>>
                                        \o (IF hosted THEN Repaint(Fresh, Len(p), 0) ELSE <<>>)]
           /\ want' = WPut(IF fresh = <<>> THEN want ELSE WNl(want), p)
    /\ UNCHANGED <<hosted, turn, gt, sess, keys, out, typed, proc, scr, budget>>

MshKey ==
    /\ IsShell /\ msh.pc = "read" /\ msh.todo = <<>> /\ ReadKey("main")
    /\ \E step \in {IF hosted THEN HostedKey(msh.rl, msh.hist, msh.cwd, NextKey("main"))
                    ELSE TtyKey(msh.rl, msh.hist, msh.cwd, NextKey("main"))} :
       /\ msh' = Shown(msh, step)
       /\ want' = WShown(msh, want, step)
       /\ scr' = IF step.act = "clear" THEN Blank ELSE scr
    /\ Taken("main")
    /\ UNCHANGED <<hosted, turn, gt, sess, out, proc, budget>>

\* an empty ring: SYS_READ yields
MshBlock ==
    /\ hosted /\ IsShell /\ msh.pc = "read" /\ msh.todo = <<>> /\ ~ReadKey("main")
    /\ turn' = "gterm"
    /\ UNCHANGED <<hosted, gt, sess, keys, out, typed, proc, msh, scr, want, budget>>

MshRun ==
    /\ IsShell /\ msh.pc = "run" /\ msh.todo = <<>>
    /\ \E m \in {Run(msh, msh.hist)} :
       /\ msh' = m
       /\ want' = WText(want, FlattenSeq(m.todo))
    /\ UNCHANGED <<hosted, turn, gt, sess, keys, out, typed, proc, scr, budget>>

\* spawn_cmd up to sys_wait
MshSpawn ==
    /\ IsShell /\ msh.pc = "spawn" /\ msh.todo = <<>>
    /\ \E ok \in Ok :
       /\ msh' = IF ok THEN [msh EXCEPT !.pc = "wait"] ELSE Say(msh, Lines(<<Missing, <<>> >>))
       /\ proc' = IF ok THEN [proc EXCEPT !.sub = "run"] ELSE proc
       /\ want' = IF ok THEN want ELSE WText(want, Lines(<<Missing, <<>> >>))
       /\ budget' = IF ok THEN budget ELSE [budget EXCEPT !.faults = @ - 1]
       /\ keys' = [keys EXCEPT !.sub = <<>>]
    /\ UNCHANGED <<hosted, turn, gt, sess, out, typed, scr>>

\* mutant: the shell waits again at once when its program has yielded
NeverYields == FALSE

\* spawn_cmd yields between two waits if it is hosted
YieldsBetween == hosted

\* sys_wait: the program runs, or is dead; the shell yields when it has yielded
MshWait ==
    /\ IsShell /\ msh.todo = <<>> /\ msh.pc \in {"wait", "yield"}
    /\ \/ /\ proc.sub = "zombie"
          /\ msh' = [Say(msh, <<NL>>) EXCEPT !.pc = "prompt"]
          /\ proc' = [proc EXCEPT !.sub = "none"]
          /\ want' = WNl(want)
          /\ UNCHANGED turn
       \/ /\ proc.sub = "run" /\ msh.pc = "wait"
          /\ turn' = "sub"
          /\ msh' = [msh EXCEPT !.pc = "yield"]
          /\ UNCHANGED <<proc, want>>
       \/ /\ proc.sub = "run" /\ msh.pc = "yield"
          /\ msh' = [msh EXCEPT !.pc = "wait"]
          /\ turn' = IF YieldsBetween THEN "gterm" ELSE turn
          /\ UNCHANGED <<proc, want>>
    /\ UNCHANGED <<hosted, gt, sess, keys, out, typed, scr, budget>>

MshExit ==
    /\ IsShell /\ msh.pc = "exit" /\ msh.todo = <<>>
    /\ Exit("main")
    /\ UNCHANGED <<hosted, gt, sess, keys, out, typed, msh, scr, want, budget>>

-----------------------------------------------------------------------------
(* A program that writes, reads keys, yields and ends as it likes.             *)
Runs(p) == turn = p /\ proc[p] = "run" /\ (p = "main" => proc.kind = "prog")

ProgWrite(p) ==
    /\ Runs(p)
    /\ \E s \in Chunks :
       /\ NL \notin Bytes(s) => budget.parts > 0
       /\ Write(p, s, FALSE)
       /\ want' = WText(want, s)
       /\ budget' = IF NL \in Bytes(s) THEN budget ELSE [budget EXCEPT !.parts = @ - 1]
    /\ UNCHANGED <<hosted, gt, sess, keys, typed, proc, msh>>

ProgRead(p) ==
    /\ Runs(p)
    /\ IF ReadKey(p) THEN Taken(p) /\ UNCHANGED turn
       ELSE hosted /\ turn' = Parent(p) /\ UNCHANGED <<keys, typed>>
    /\ UNCHANGED <<hosted, gt, sess, out, proc, msh, scr, want, budget>>

ProgYield(p) ==
    /\ Runs(p) /\ hosted
    /\ turn' = Parent(p)
    /\ UNCHANGED <<hosted, gt, sess, keys, out, typed, proc, msh, scr, want, budget>>

ProgExit(p) ==
    /\ Runs(p)
    /\ Exit(p)
    /\ UNCHANGED <<hosted, gt, sess, keys, out, typed, msh, scr, want, budget>>

User == \E k \in KeysFor[hosted] : Hit(k)

System ==
    \/ GtStart \/ GtKey \/ GtPolled \/ GtPump \/ GtPumped \/ GtFrame
    \/ MshStart \/ MshWrite \/ MshPrompt \/ MshKey \/ MshBlock \/ MshRun \/ MshSpawn \/ MshWait \/ MshExit
    \/ \E p \in {"main", "sub"} : ProgWrite(p) \/ ProgRead(p) \/ ProgYield(p) \/ ProgExit(p)

Next == User \/ System \/ GtQuit

\* Whoever has the processor goes on.
Spec == Init /\ [][Next]_vars /\ WF_vars(System)

-----------------------------------------------------------------------------
\* The shell and the terminal never agree on more than the bytes between them: the shell
\* counts what it has shown, erases that many characters and writes its line again, the
\* terminal rebuilds a line from the bytes it read, in chunks.  Still, whenever gterm has
\* the processor and the shell has nothing more to write, gterm's lines and its live line
\* are what was printed, and its caret stands where the shell's cursor is (msh.c:66,
\* termrun.c:8, gterm.c:166) - as long as no line got too long for the terminal, and no
\* caret byte was cut off from the byte 6 before it by the end of a chunk (termrun.c:20).
ScreenIsTrue ==
    (hosted /\ turn = "gterm" /\ gt.at \in {"poll", "frame"} /\ msh.todo = <<>> /\ ~want.blur) =>
        /\ gt.lines = want.lines
        /\ gt.mode = RunMode =>
              /\ gt.live = want.cur
              /\ msh.pc = "read" => sess.caret = Len(Prompt(msh.cwd)) + msh.rl.cursor

\* On the text screen, where the shell blanks the line and writes it twice (redraw), the
\* screen shows what was printed and the cursor stands in the line where the shell's does.
TtyIsTrue ==
    (~hosted /\ msh.pc = "read" /\ msh.todo = <<>> /\ ~want.blur) =>
        /\ scr.cells[scr.row + 1] = want.cur \o Spaces(Width - Len(want.cur))
        /\ scr.col = Len(ReadPrompt(msh, msh.rl)) + msh.rl.cursor
        /\ \A i \in 1 .. Lo(scr.row, Len(want.lines)) :
              LET l == want.lines[Len(want.lines) + 1 - i]
              IN  scr.cells[scr.row + 1 - i] = l \o Spaces(Width - Len(l))

\* gterm draws only when something set "dirty": when it has done a frame, what it drew last
\* is what its lines, its live line or its prompt are now, with the caret in place.
DrawnIsCurrent ==
    (hosted /\ turn = "gterm" /\ gt.at = "poll" /\ typed = <<>> /\ ~gt.dirty) =>
        gt.drawn = Rebuild(gt, sess).buf

\* A command keeps its number while older ones fall out of the history, repeated commands
\* are not counted, and those still there can be run again by number (hist_base).
HistoryNumbers ==
    \A n \in 1 .. Len(msh.ran) :
        n > Len(msh.ran) - HistMax =>
            HistExpand(msh.hist, <<Bang>> \o PutInt(n)) = Expanded(msh.ran[n])

\* Ctrl+Y puts back what Ctrl+U, Ctrl+K, Ctrl+W or Alt+D took out, where it was; only a
\* line that fills the buffer does not come back (msh.c:780 asks for one byte too many).
YankRestores ==
    (msh.pc = "read" /\ msh.todo = <<>>) => \A k \in {CtrlU, CtrlK, CtrlW, MetaD} :
        \A cut \in {TtyKey([msh.rl EXCEPT !.rev = FALSE], msh.hist, msh.cwd, k).rl} :
            (cut.line # msh.rl.line /\ Room(msh.rl)) =>
                TtyKey(cut, msh.hist, msh.cwd, CtrlY).rl.line = msh.rl.line

\* However much a program writes and however deep it runs, the terminal comes back, again
\* and again, to its keys, and leaves none untaken: the 64 rounds of drain_child end, and
\* spawn_cmd yields to the terminal between two waits for its program.
KeysAreTaken ==
    []<>(hosted => turn = "gterm" /\ gt.at \in {"poll", "gone"} /\ typed = <<>>)
=============================================================================
