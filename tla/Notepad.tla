------------------------------- MODULE Notepad -------------------------------
(***************************************************************************)
(* Notepad (user/gui/notepad.c) with the widgets it is made of: the text   *)
(* entry (module Entry), the scroll bar (guic/wscroll.c), the two tool     *)
(* buttons (guic/wbutton.c) and the Open and Save As dialogs               *)
(* (guic/wfiledlg.c, guic/wlist.c).                                        *)
(*                                                                         *)
(* The program is a loop, and a step is a turn of it: what has come is     *)
(* handled (KeyEvent, Paste, Pointer, WheelEvent, or the window's height   *)
(* was changed while the program had yielded: Resized), every widget is    *)
(* given the pointer, the window is drawn if something asked for it, and   *)
(* the program yields.  A turn handles one event; where the code takes     *)
(* several, of the pointer's it acts on the last only.                     *)
(*                                                                         *)
(* np is the state of the program, screen what its window shows.  Places   *)
(* stand for points of the window: a cell of the text, a point y of the    *)
(* scroll bar, a button; "dlg" is what is there while a dialog, which is   *)
(* drawn over the text, is open.  A file or directory is named by itself   *)
(* and its path is not spelled out.  Nobody else changes the files.        *)
(***************************************************************************)
EXTENDS Entry

CONSTANTS
    Places,    \* where the pointer can be: [at, row, col, y, dlg]
    Moves,     \* what it does: [place, down], down if the button is
    Wheels,    \* the places where the wheel is turned
    Rows,      \* the heights of the window, in rows of text
    WideCols,  \* the columns of the text without the scroll bar
    BarCols,   \* the columns the scroll bar takes
    Cap,       \* TEXT_MAX, the size of the buffer
    Top,       \* the directory of a file that does not exist
    Listing,   \* what a directory holds, in order
    Contents,  \* the bytes of each file
    Missing,   \* the path given to Notepad when there is no such file
    Clips,     \* what other programs leave on the clipboard
    Keys,      \* the keys that are struck
    Bytes      \* what texts are made of

Dirs == DOMAIN Listing
Files == DOMAIN Contents

Kinds == {"open", "save"}       \* the two dialogs, and their two tool buttons
DlgButtons == {"ok", "cancel"}
NoDrag == -1

\* What is where in the window, and where the dialog is while it is open.
Spots == {"text", "bar", "out"} \cup Kinds
DlgSpots == {"none", "row1", "row2", "path"} \cup DlgButtons

\* A window has a row at least (wentry_vis_rows), every file is in a directory.
ASSUME NotepadAssumption ==
    /\ {NL, SP} \subseteq Bytes
    /\ Cap \in Nat \ {0} /\ Rows \subseteq Nat \ {0}
    /\ BarCols \in Nat /\ WideCols \in Nat /\ BarCols <= WideCols
    /\ Places \subseteq [at : Spots, row : Nat, col : Nat, y : Int, dlg : DlgSpots]
    /\ \E p \in Places : p.at = "out"
    /\ Moves \subseteq [place : Places, down : BOOLEAN] /\ Wheels \subseteq Places
    /\ Contents \in [Files -> Seq(Bytes)] /\ Clips \subseteq Seq(Bytes)
    /\ Listing \in [Dirs -> Seq(Dirs \cup Files)] /\ Top \in Dirs
    /\ \A f \in Files : \E d \in Dirs : \E i \in DOMAIN Listing[d] : Listing[d][i] = f

VARIABLES
    np,      \* the program: see Init
    screen   \* what the window shows

vars == <<np, screen>>

-----------------------------------------------------------------------------
(* The layout                                                              *)

\* What the text entry can show.
TextBox(n) == [multi |-> TRUE, rows |-> n.size, cols |-> n.cols, cap |-> Cap]

InText(n, p) == p.at \in {"text", "bar"} /\ p.row < n.size /\ p.col < n.cols

InBar(n, p) == p.at = "bar" /\ n.bar.shown /\ p.y < 2 * n.size + 2

BarMax(bar) == IF bar.range > bar.page THEN bar.range - bar.page ELSE 0

SetRange(bar, range, page) ==
    LET to == [bar EXCEPT !.range = range, !.page = page,
                          !.shown = range > page]
    IN  [to EXCEPT !.value = AtMost(@, BarMax(to))]

SetValue(bar, v) == [bar EXCEPT !.value = Clamp(v, 0, BarMax(bar))]

\* The bar follows the text: its length, and where the view of it is.
FollowText(n) ==
    [n EXCEPT !.bar = SetValue(SetRange(@, LineCount(n.ed.text), n.size),
                               n.ed.scroll)]

\* The text gives way to the bar when it has more lines than the entry has rows.
Width(n) == IF LineCount(n.ed.text) > n.size THEN WideCols - BarCols ELSE WideCols

\* layout_chrome
Layout(n) == FollowText([n EXCEPT !.cols = Width(n)])

-----------------------------------------------------------------------------
(* Files and dialogs                                                       *)

Redraw(n) == [n EXCEPT !.dirty = TRUE]

\* load: the text is the file, as far as the buffer holds it.
Load(n, f) ==
    [n EXCEPT !.file = f, !.star = FALSE,
              !.ed = SetText(@, TextBox(n),
                             IF f \in Files THEN Contents[f] ELSE <<>>)]

\* refresh: the list of a directory.  What the path field shows is left out:
\* only the buttons' handlers read it.
Refresh(d, dir) == [d EXCEPT !.dir = dir, !.sel = 0]

DirOf(f) == IF f \in Files
            THEN CHOOSE d \in Dirs : \E i \in DOMAIN Listing[d] : Listing[d][i] = f
            ELSE Top

Show(n, kind) ==
    Redraw([n EXCEPT !.dlg = [Refresh(@, DirOf(n.file)) EXCEPT !.kind = kind],
                     !.focus = "field"])

\* wfiledlg_hide.  What a hidden dialog lists is never seen again:
\* wfiledlg_show fills it anew.
Hide(n) == [n EXCEPT !.dlg.kind = "none", !.dlg.dir = Top, !.dlg.sel = 0]

\* on_list: entry i of the list is chosen.
Choose(n, i) ==
    LET c == Listing[n.dlg.dir][i]
    IN  IF c \in Dirs THEN [n EXCEPT !.dlg = Refresh(@, c)]
        ELSE IF n.dlg.kind = "save" THEN n
        ELSE Hide(Redraw(Load(n, c)))

\* wlist_key
ListKey(n, k) ==
    LET last == Len(Listing[n.dlg.dir])
    IN  IF last = 0 THEN n
        ELSE CASE k = "up"    -> [n EXCEPT !.dlg.sel = IF @ > 1 THEN @ - 1 ELSE 1]
               [] k = "down"  -> [n EXCEPT !.dlg.sel = AtMost(@ + 1, last)]
               [] k = "enter" -> IF n.dlg.sel > 0 THEN Choose(n, n.dlg.sel) ELSE n
               [] OTHER       -> n

\* wfiledlg_key: every key goes to the list, and to the path field.
DialogKey(n, k) == IF k = "esc" THEN Hide(n) ELSE ListKey(n, k)

\* wlist_input: the entry under the pointer is selected, and chosen when the
\* button goes down.
ListInput(n, p, down) ==
    LET i == IF p.dlg \in {"row1", "row2"}
             THEN IF p.dlg = "row1" THEN 1 ELSE 2 ELSE 0
        over == i \in 1..Len(Listing[n.dlg.dir])
        at == IF over THEN [n EXCEPT !.dlg.sel = i] ELSE n
        chosen == IF over /\ down /\ ~n.dlg.was THEN Choose(at, i) ELSE at
    IN  [chosen EXCEPT !.dlg.was = down]

\* wbutton_input, for a button in stage s.
ButtonStage(s, hit, down) ==
    CASE s = "idle" /\ hit /\ down  -> "held"
      [] s = "held" /\ ~down        -> IF hit THEN "clicked" ELSE "idle"
      [] OTHER                      -> s

\* wfiledlg_input: list, path field and both buttons are given the pointer.
DialogInput(n, p, down) ==
    LET kind == n.dlg.kind
        l == ListInput(n, p, down)
        f == IF down /\ p.dlg = "path" THEN [l EXCEPT !.focus = "field"] ELSE l
        Take(x, b) ==
            LET to == ButtonStage(x.dlg.stage[kind][b], p.dlg = b, down)
            IN  [x EXCEPT !.focus = IF to = "held" /\ x.dlg.stage[kind][b] = "idle"
                                    THEN "button" ELSE @,
                          !.dlg.stage[kind][b] = to]
    IN  Redraw(Take(Take(f, "ok"), "cancel"))

-----------------------------------------------------------------------------
(* The tool buttons and the scroll bar                                     *)

ToolInput(n, b, p, down) ==
    LET hit == p.at = b
        to == ButtonStage(n.btn[b].stage, hit, down)
        pressed == to = "held" /\ n.btn[b].stage = "idle"
        taken == [n EXCEPT !.focus = IF pressed THEN "button" ELSE @,
                           !.btn[b] = [hot |-> hit, stage |-> to]]
    IN  IF to = "clicked" THEN [Show(taken, b) EXCEPT !.btn[b].stage = "idle"]
        ELSE taken

\* The Save button asks for a redraw when it changes, the Open button only
\* while it is hot or down.
ToolsInput(n, p, down) ==
    LET o == ToolInput(n, "open", p, down)
        s == ToolInput(o, "save", p, down)
    IN  IF s.btn["save"] # n.btn["save"] \/ s.btn["open"].hot
           \/ s.btn["open"].stage # "idle"
        THEN Redraw(s) ELSE s

\* The thumb of the bar: where it begins and how long it is.
Track(n) == 2 * n.size

ThumbLen(n) ==
    IF n.bar.range <= n.bar.page THEN Track(n)
    ELSE LET h == (n.bar.page * Track(n)) \div n.bar.range
         IN  AtMost(IF h < 1 THEN 1 ELSE h, Track(n))

ThumbTop(n) ==
    1 + (IF BarMax(n.bar) > 0
         THEN (n.bar.value * (Track(n) - ThumbLen(n))) \div BarMax(n.bar)
         ELSE 0)

\* set_value and the handler it calls (on_scroll).
BarTo(n, v) ==
    LET to == SetValue(n.bar, v).value
    IN  IF to = n.bar.value THEN n
        ELSE Redraw([n EXCEPT !.bar.value = to, !.bar.changed = TRUE,
                              !.ed = SetScroll(@, TextBox(n), to)])

Armed(bar) == bar.drag # NoDrag \/ bar.arrow # 0 \/ bar.track # 0

\* The button goes down over an arrow, the thumb or the track.
BarPress(n, p) ==
    LET top == ThumbTop(n)
        thumb == p.y \in top..(top + ThumbLen(n) - 1)
        way == IF p.y < top THEN -1 ELSE 1
        onTrack == p.y \in 1..Track(n)
    IN  CASE p.y < 1 -> BarTo([n EXCEPT !.bar.arrow = -1], n.bar.value - 1)
          [] p.y > Track(n) -> BarTo([n EXCEPT !.bar.arrow = 1], n.bar.value + 1)
          [] onTrack /\ thumb ->
                [n EXCEPT !.bar.drag = p.y - top, !.bar.changed = TRUE]
          [] onTrack /\ ~thumb ->
                BarTo([n EXCEPT !.bar.track = way], n.bar.value + way * n.bar.page)

\* The button stays down: the thumb follows it, an arrow or the track repeats
\* after a while.  "again" says whether it does in this turn.
BarHold(n, p, again) ==
    LET travel == IF Track(n) - ThumbLen(n) < 1 THEN 1 ELSE Track(n) - ThumbLen(n)
        to == CASE n.bar.drag # NoDrag ->
                     ((p.y - n.bar.drag - 1) * BarMax(n.bar)) \div travel
                [] n.bar.drag = NoDrag /\ n.bar.arrow # 0 ->
                     n.bar.value + n.bar.arrow
                [] n.bar.drag = NoDrag /\ n.bar.arrow = 0 ->
                     n.bar.value + n.bar.track * n.bar.page
    IN  IF n.bar.drag # NoDrag \/ again THEN BarTo(n, to) ELSE n

\* wscroll_input
BarInput(n, p, down, again) ==
    CASE ~down /\ Armed(n.bar) ->
            [n EXCEPT !.bar.drag = NoDrag, !.bar.arrow = 0, !.bar.track = 0,
                      !.bar.changed = TRUE]
      [] down /\ Armed(n.bar) -> BarHold(n, p, again)
      [] down /\ ~Armed(n.bar) /\ InBar(n, p) -> BarPress(n, p)
      [] OTHER -> n

\* The loop's own part, when the widget has made b of n: the view follows the
\* bar.
BarTurn(n, b) ==
    LET moved == b.bar.changed \/ b.bar.value # n.bar.value
        asked == moved \/ Armed(n.bar) \/ Armed(b.bar)
    IN  [b EXCEPT !.bar.changed = FALSE,
                  !.ed = IF moved THEN SetScroll(@, TextBox(b), b.bar.value) ELSE @,
                  !.dirty = @ \/ asked]

\* wentry_input
TextInput(n, p, down) ==
    IF down /\ InText(n, p)
    THEN [n EXCEPT !.focus = "text", !.ed = Press(@, TextBox(n), p.row, p.col)]
    ELSE n

\* Mutant of TextTurn: only a changed text is drawn anew, not a moved caret.
QuietCaret(n) ==
    LET v == IF n.ed.view THEN FollowText([n EXCEPT !.ed.view = FALSE]) ELSE n
    IN  [v EXCEPT !.star = @ \/ n.ed.changed, !.ed.changed = FALSE,
                  !.dirty = @ \/ n.ed.changed]

\* The flags of the text that the loop then reads.
TextTurn(n) ==
    LET v == IF n.ed.view THEN FollowText([n EXCEPT !.ed.view = FALSE]) ELSE n
    IN  [v EXCEPT !.star = @ \/ n.ed.changed, !.ed.changed = FALSE,
                  !.dirty = @ \/ n.ed.view \/ n.ed.changed]

-----------------------------------------------------------------------------
(* What is drawn                                                           *)

Look(n) ==
    [rows  |-> DrawnRows(n.ed, TextBox(n)),
     caret |-> IF n.focus = "text" THEN DrawnCaret(n.ed, TextBox(n)) ELSE NoCaret,
     bar   |-> IF n.bar.shown
               THEN <<ThumbTop(n), ThumbLen(n), n.bar.drag # NoDrag, n.bar.arrow>>
               ELSE <<>>,
     star  |-> n.star,
     save  |-> n.btn["save"],
     dlg   |-> IF n.dlg.kind = "none" THEN <<>>
               ELSE <<n.dlg.kind, n.dlg.dir, n.dlg.sel>>]

-----------------------------------------------------------------------------
(* The program                                                             *)

\* main up to the loop, and its first turn.
Start(f, s) ==
    LET n == [ed    |-> Blank,
              bar   |-> [value |-> 0, range |-> 1, page |-> 1, shown |-> FALSE,
                         drag |-> NoDrag, arrow |-> 0, track |-> 0,
                         changed |-> FALSE],
              dlg   |-> [kind |-> "none", dir |-> Top, sel |-> 0,
                         was |-> FALSE,
                         stage |-> [k \in Kinds |-> [b \in DlgButtons |-> "idle"]]],
              btn   |-> [b \in Kinds |-> [hot |-> FALSE, stage |-> "idle"]],
              focus |-> "text", file |-> f, star |-> FALSE, size |-> s,
              cols  |-> WideCols, dirty |-> FALSE, run |-> TRUE,
              place |-> CHOOSE p \in Places : p.at = "out", down |-> FALSE]
    IN  Layout([Load(n, f) EXCEPT !.ed.view = FALSE])

Init == /\ np \in {Start(f, s) : f \in Files \cup {Missing}, s \in Rows}
        /\ screen = Look(np)

(* Events *)

\* Mutant of TextKey: the star is that of the last key.
LastKeyStar(n, k) ==
    LET e == IF n.focus = "text" THEN Key(n.ed, TextBox(n), k) ELSE n.ed
    IN  [n EXCEPT !.ed = [e EXCEPT !.changed = FALSE], !.star = e.changed]

\* A key for the text, if that has the keyboard.
TextKey(n, k) ==
    LET e == IF n.focus = "text" THEN Key(n.ed, TextBox(n), k) ELSE n.ed
    IN  [n EXCEPT !.ed = [e EXCEPT !.changed = FALSE], !.star = @ \/ e.changed]

\* Mutant of KeyEvent: a key that a dialog has taken goes on to the text.
KeyFallsThrough(n, k) ==
    Redraw(IF n.dlg.kind # "none" THEN TextKey(DialogKey(n, k), k)
           ELSE CASE k \in Kinds -> Show(n, k)
                  [] k = "quit"   -> [n EXCEPT !.run = FALSE]
                  [] OTHER        -> TextKey(n, k))

\* A key goes to the dialog that is open.  Otherwise it is a command or goes
\* to the text.
KeyEvent(n, k) ==
    Redraw(IF n.dlg.kind # "none" THEN DialogKey(n, k)
           ELSE CASE k \in Kinds -> Show(n, k)
                  [] k = "quit"   -> [n EXCEPT !.run = FALSE]
                  [] OTHER        -> TextKey(n, k))

\* Ctrl+V: the clipboard takes the place of the whole text.
Paste(n, c) ==
    Redraw(IF n.dlg.kind # "none" \/ c = <<>> THEN n
           ELSE [n EXCEPT !.ed = SetText(@, TextBox(n), c), !.star = TRUE])

Pointer(n, p, down) == [n EXCEPT !.place = p, !.down = down]

\* The wheel is turned, with the button up or down.
WheelEvent(n, p, delta, down) ==
    LET b == SetRange(n.bar, LineCount(n.ed.text), n.size)
        v == SetValue(b, b.value + delta)
        at == Pointer(n, p, down)
    IN  IF p.at \in {"text", "bar"}
        THEN Redraw([at EXCEPT !.bar = v, !.ed = SetScroll(@, TextBox(n), v.value)])
        ELSE at

\* The window has another height, which ensure_fb_size finds when the turn begins.
\* sync_scroll asks the entry how many rows it has before it gives it the new
\* height, so that the width is right only when the event is there too, and
\* layout_chrome goes over it again.
Resized(n, s, event) ==
    LET first == FollowText([n EXCEPT !.size = s, !.cols = Width(n)])
    IN  IF s = n.size THEN n
        ELSE Redraw(IF event THEN Layout(first) ELSE first)

\* The rest of the turn, once there is no event left: dialog or tool buttons,
\* scroll bar and text are given the pointer one after the other, then the
\* window is drawn.
Turn(n) ==
    /\ np.run
    /\ \E w \in {IF n.dlg.kind # "none" THEN DialogInput(n, n.place, n.down)
                 ELSE ToolsInput(n, n.place, n.down)} :
       \E again \in IF Armed(w.bar) THEN BOOLEAN ELSE {FALSE} :
       \E b \in {BarInput(w, w.place, w.down, again)} :
       \E f \in {BarTurn(w, b)} :
       \E t \in {TextInput(f, f.place, f.down)} :
       \E v \in {TextTurn(t)} :
            IF v.dirty
            THEN \E drawn \in {[Layout(v) EXCEPT !.dirty = FALSE]} :
                    np' = drawn /\ screen' = Look(drawn)
            ELSE np' = v /\ UNCHANGED screen

Next ==
    \/ \E k \in Keys : \E n \in {KeyEvent(np, k)} : Turn(n)
    \/ \E c \in Clips : \E n \in {Paste(np, c)} : Turn(n)
    \/ \E m \in Moves : \E n \in {Pointer(np, m.place, m.down)} : Turn(n)
    \/ \E p \in Wheels, d \in {-3, 3}, down \in BOOLEAN :
           \E n \in {WheelEvent(np, p, d, down)} : Turn(n)
    \/ \E s \in Rows, event \in BOOLEAN : \E n \in {Resized(np, s, event)} : Turn(n)

Spec == Init /\ [][Next]_vars

-----------------------------------------------------------------------------
(* Properties                                                              *)

Entries == {e \in [text : Seq(Bytes), cursor : Nat, scroll : Nat,
                    changed : BOOLEAN, view : BOOLEAN] :
               Len(e.text) < Cap /\ e.cursor <= Len(e.text)}

Bars == {b \in [value : Nat, range : Nat, page : Nat, shown : BOOLEAN, drag : Int,
                 arrow : -1..1, track : -1..1, changed : BOOLEAN] :
            b.value <= BarMax(b) /\ (b.shown <=> b.range > b.page)}

Stages == {"idle", "held", "clicked"}

Dialogs == {d \in [kind : Kinds \cup {"none"}, dir : Dirs, sel : Nat, was : BOOLEAN,
                    stage : [Kinds -> [DlgButtons -> Stages]]] :
               d.sel <= Len(Listing[d.dir])}

States == [ed : Entries, bar : Bars, dlg : Dialogs,
           btn : [Kinds -> [hot : BOOLEAN, stage : Stages]],
           focus : {"text", "field", "button"}, file : Files \cup {Missing},
           star : BOOLEAN, size : Rows, cols : {WideCols, WideCols - BarCols},
           dirty : BOOLEAN, run : BOOLEAN, place : Places, down : BOOLEAN]

\* The types, and what the code's indices must not leave: the text and the
\* byte that ends it fit the buffer, the caret is in the text (insert_char,
\* delete_back), the value of the bar in its range, the choice in the list.
TypeOK == np \in States

AsLoaded(f) == IF f \in Files
               THEN SubSeq(Contents[f], 1, AtMost(Len(Contents[f]), Cap - 1))
               ELSE <<>>

\* After a turn the window shows the program's state: no path through the
\* loop changes the text, the caret, the view, the bar, the star, the Save button
\* or a dialog without asking for a redraw.  (The Open button does: see ToolsInput.)
ScreenIsCurrent == screen = Look(np)

NoLongLine(e, cols) ==
    \A n \in 0..(LineCount(e.text) - 1) :
        RestOfLine(e.text, LineStart(e.text, n)) <= cols

\* The caret is drawn at the byte before which the next key is put in
\* (wentry_draw computes rows and caret apart), if no line is longer than
\* the entry is wide.
CaretIsWhereTypingGoes ==
    LET c == DrawnCaret(np.ed, TextBox(np))
    IN  NoLongLine(np.ed, np.cols) /\ c # NoCaret =>
            RowStarts(np.ed, TextBox(np))[c[1] + 1] + c[2] = np.ed.cursor

\* A press on a drawn byte puts the caret before that byte and leaves the view
\* where it is (wentry_input against wentry_draw), if no line is longer than
\* the entry is wide and no growing window has left the view past its end.
PressIsWhereItIsSeen ==
    NoLongLine(np.ed, np.cols) /\ np.ed.scroll <= MaxScroll(np.ed, TextBox(np)) =>
        \A r \in 1..np.size : \A c \in 1..Len(DrawnRows(np.ed, TextBox(np))[r]) :
            LET e == Press(np.ed, TextBox(np), r - 1, c - 1)
            IN  /\ e.cursor = RowStarts(np.ed, TextBox(np))[r] + c - 1
                /\ e.scroll = np.ed.scroll

\* Without the star the text is the file, as far as the buffer holds it:
\* whatever changes the text (a key, a tab that is only partly put in, a paste,
\* a file that is opened) tells file_dirty.
StarIsHonest == ~np.star => np.ed.text = AsLoaded(np.file)

\* While a dialog is open nothing is typed, pasted or deleted behind it: the
\* text only changes when a file is opened from it, and then to that file.
NothingBehindDialog ==
    [][np.dlg.kind # "none" /\ np'.ed.text # np.ed.text =>
          /\ np.dlg.kind = "open"
          /\ np'.ed.text = AsLoaded(np'.file) /\ ~np'.star]_vars
=============================================================================
