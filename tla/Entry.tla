-------------------------------- MODULE Entry --------------------------------
(***************************************************************************)
(* The text entry of the widget toolkit (user/guic/wentry.c) as operators  *)
(* on a record: the bytes of its buffer, the caret, the scroll position    *)
(* and the two flags its owner reads.  "multi" entries scroll by lines,    *)
(* the others by columns.  A box b says how much an entry can show:        *)
(* rows lines of cols columns, and cap - 1 bytes of text.                  *)
(***************************************************************************)
EXTENDS Integers, Sequences, FiniteSets

\* The byte that ends a line, and the one a tab is made of.
NL == "nl"
SP == "sp"

Clamp(v, lo, hi) == IF v < lo THEN lo ELSE IF v > hi THEN hi ELSE v

AtMost(a, b) == IF a < b THEN a ELSE b

\* wentry_init: an empty text.
Blank == [text |-> <<>>, cursor |-> 0, scroll |-> 0,
          changed |-> FALSE, view |-> TRUE]

-----------------------------------------------------------------------------
(* Lines.  Positions count from 0, as the caret does.                      *)

Breaks(t) == {i \in 1..Len(t) : t[i] = NL}

\* The breaks before the caret, when it is at position c.
UpTo(t, c) == {i \in Breaks(t) : i <= c}

\* Where line n begins; the end of the text if there is no such line.
LineStart(t, n) ==
    IF n <= 0 THEN 0
    ELSE IF n > Cardinality(Breaks(t)) THEN Len(t)
    ELSE CHOOSE i \in Breaks(t) : Cardinality(UpTo(t, i)) = n

LineCount(t) == Cardinality(Breaks(t)) + 1

CaretRow(e) == Cardinality(UpTo(e.text, e.cursor))

CaretCol(e) == e.cursor - LineStart(e.text, CaretRow(e))

\* The bytes from position i up to the end of its line.
RestOfLine(t, i) ==
    LET after == {j \in Breaks(t) : j > i}
    IN  IF after = {} THEN Len(t) - i
        ELSE (CHOOSE j \in after : \A k \in after : j <= k) - 1 - i

\* The position in line n under column c: the end of a shorter line.
InLine(t, n, c) ==
    LineStart(t, n) + AtMost(c, RestOfLine(t, LineStart(t, n)))

-----------------------------------------------------------------------------
(* Scrolling                                                               *)

MaxScroll(e, b) == LET over == LineCount(e.text) - b.rows
                   IN  IF over > 0 THEN over ELSE 0

\* The nearest window of n lines or columns onto position p.
Towards(scroll, p, n) == IF p < scroll THEN p
                         ELSE IF p >= scroll + n THEN p - n + 1 ELSE scroll

EnsureCursorVisible(e, b) ==
    [e EXCEPT !.scroll =
        IF b.multi
        THEN Clamp(Towards(e.scroll, CaretRow(e), b.rows), 0, MaxScroll(e, b))
        ELSE Towards(e.scroll, CaretCol(e), b.cols)]

SetScroll(e, b, scroll) ==
    [e EXCEPT !.scroll = IF b.multi THEN Clamp(scroll, 0, MaxScroll(e, b))
                         ELSE IF scroll < 0 THEN 0 ELSE scroll,
              !.view = TRUE]

-----------------------------------------------------------------------------
(* Editing                                                                 *)

\* The text is replaced, the caret goes to its end and the view to its top.
SetText(e, b, s) ==
    LET kept == SubSeq(s, 1, AtMost(Len(s), b.cap - 1))
    IN  [text |-> kept, cursor |-> Len(kept), scroll |-> 0,
         changed |-> FALSE, view |-> TRUE]

\* Mutant of InsertChar: the byte that ends the text is forgotten.
InsertFull(e, b, ch) ==
    IF Len(e.text) + 1 > b.cap \/ (~b.multi /\ ch = NL) THEN e
    ELSE EnsureCursorVisible(
            [e EXCEPT !.text = SubSeq(e.text, 1, e.cursor) \o <<ch>>
                                 \o SubSeq(e.text, e.cursor + 1, Len(e.text)),
                      !.cursor = @ + 1, !.changed = TRUE, !.view = TRUE], b)

InsertChar(e, b, ch) ==
    IF Len(e.text) + 1 >= b.cap \/ (~b.multi /\ ch = NL) THEN e
    ELSE EnsureCursorVisible(
            [e EXCEPT !.text = SubSeq(e.text, 1, e.cursor) \o <<ch>>
                                 \o SubSeq(e.text, e.cursor + 1, Len(e.text)),
                      !.cursor = @ + 1, !.changed = TRUE, !.view = TRUE], b)

DeleteBack(e, b) ==
    IF e.cursor <= 0 THEN e
    ELSE EnsureCursorVisible(
            [e EXCEPT !.text = SubSeq(e.text, 1, e.cursor - 1)
                                 \o SubSeq(e.text, e.cursor + 1, Len(e.text)),
                      !.cursor = @ - 1, !.changed = TRUE, !.view = TRUE], b)

CaretTo(e, b, i) ==
    EnsureCursorVisible([e EXCEPT !.cursor = i, !.view = TRUE], b)

MoveLeft(e, b) == CaretTo(e, b, IF e.cursor > 0 THEN e.cursor - 1 ELSE 0)

MoveRight(e, b) == CaretTo(e, b, AtMost(e.cursor + 1, Len(e.text)))

MoveUp(e, b) ==
    IF ~b.multi \/ CaretRow(e) <= 0 THEN e
    ELSE CaretTo(e, b, InLine(e.text, CaretRow(e) - 1, CaretCol(e)))

MoveDown(e, b) ==
    IF ~b.multi \/ CaretRow(e) + 1 >= LineCount(e.text) THEN e
    ELSE CaretTo(e, b, InLine(e.text, CaretRow(e) + 1, CaretCol(e)))

\* A key given to an entry that has the keyboard.  A tab is four spaces, of
\* which as many are put in as there is room for.
Key(e, b, k) ==
    CASE k = "bs"    -> DeleteBack(e, b)
      [] k = "up"    -> MoveUp(e, b)
      [] k = "down"  -> MoveDown(e, b)
      [] k = "left"  -> MoveLeft(e, b)
      [] k = "right" -> MoveRight(e, b)
      [] k = "enter" -> IF b.multi THEN InsertChar(e, b, NL) ELSE e
      [] k = "tab"   -> LET Put(x) == InsertChar(x, b, SP)
                        IN  Put(Put(Put(Put(e))))
      [] k = SP      -> InsertChar(e, b, SP)
      [] OTHER       -> e

\* Mutant of Press: the row is counted from the top of the text.
PressAtTop(e, b, row, col) ==
    IF b.multi THEN CaretTo(e, b, InLine(e.text, AtMost(row, b.rows - 1), col))
    ELSE CaretTo(e, b, AtMost(e.scroll + col, Len(e.text)))

\* The button is down over row and column of the box.
Press(e, b, row, col) ==
    IF b.multi
    THEN CaretTo(e, b, InLine(e.text, AtMost(row, b.rows - 1) + e.scroll, col))
    ELSE CaretTo(e, b, AtMost(e.scroll + col, Len(e.text)))

-----------------------------------------------------------------------------
(* Drawing                                                                 *)

\* Where the row after the one that begins at i does; -1 when the text has
\* ended.  A line that is longer than the box goes on in the next row.
NextRow(e, b, i) ==
    LET j == i + AtMost(RestOfLine(e.text, i), b.cols)
    IN  IF j >= Len(e.text) THEN -1
        ELSE IF e.text[j + 1] = NL THEN j + 1 ELSE j

\* Where each drawn row begins.
RowStarts(e, b) ==
    LET start[k \in 1..b.rows] ==
            IF k = 1 THEN LineStart(e.text, e.scroll)
            ELSE IF start[k - 1] = -1 THEN -1 ELSE NextRow(e, b, start[k - 1])
    IN  start

DrawnRows(e, b) ==
    LET start == RowStarts(e, b)
    IN  [k \in 1..b.rows |->
            IF start[k] = -1 THEN <<>>
            ELSE SubSeq(e.text, start[k] + 1,
                        start[k] + AtMost(RestOfLine(e.text, start[k]), b.cols))]

\* The cell of the caret, counted from 0, or none if it is out of the box.
NoCaret == <<-1, -1>>

\* Mutant of DrawnCaret: the rows above the view are not taken off.
CaretNotScrolled(e, b) ==
    IF CaretRow(e) \in 0..(b.rows - 1) /\ CaretCol(e) \in 0..(b.cols - 1)
    THEN <<CaretRow(e), CaretCol(e)>> ELSE NoCaret

DrawnCaret(e, b) ==
    LET row == IF b.multi THEN CaretRow(e) - e.scroll ELSE 0
        col == IF b.multi THEN CaretCol(e) ELSE CaretCol(e) - e.scroll
    IN  IF row \in 0..(b.rows - 1) /\ col \in 0..(b.cols - 1)
        THEN <<row, col>> ELSE NoCaret
=============================================================================
