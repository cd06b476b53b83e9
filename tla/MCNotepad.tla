------------------------------ MODULE MCNotepad ------------------------------
(***************************************************************************)
(* Notepad for TLC: a directory with an empty sub-directory and a file     *)
(* that is longer than the buffer, started with that file or with one that *)
(* does not exist, in a window of one or two rows; a pointer that reaches  *)
(* the text, two points of the scroll bar, the Save button, and what a     *)
(* dialog draws over the text.                                             *)
(***************************************************************************)
EXTENDS Notepad

MCListing == [sys |-> <<"sub", "note">>, sub |-> <<>>]

MCContents == [note |-> <<SP, NL, NL, SP>>]

Spot(at, row, col, y, dlg) == [at |-> at, row |-> row, col |-> col, y |-> y, dlg |-> dlg]

MCPlaces == {Spot("out", 0, 0, 0, "row1"), Spot("save", 0, 0, 0, "none"),
             Spot("text", 1, 0, 2, "row2"),
             Spot("bar", 0, 1, 1, "none"), Spot("bar", 1, 1, 3, "none")}

\* The button goes down anywhere, and up over a button, a list or nothing.
MCMoves ==
    [place : MCPlaces, down : {TRUE}]
        \cup [place : {p \in MCPlaces : p.at # "bar"}, down : {FALSE}]

MCWheels == {p \in MCPlaces : p.dlg = "row2"}

MCBytes == {NL, SP}

MCClips == {<<NL, NL, NL>>}

\* The dialog to save is opened with its button; that the user quits is left out.
MCKeys == {SP, "tab", "enter", "bs", "up", "down", "left", "right", "esc", "open"}

=============================================================================
