------------------------------- MODULE MCTerm --------------------------------
(* Values for Term's constants: two directories, a few words, the keys.        *)
EXTENDS Term, TLC

a == 97
b == 98
Root == <<47>>
Sys == <<47, 115>>

TheBuiltins == << <<99, 100>>, <<104>>, <<120>> >>
TheBins == << <<a, a>>, <<a, b>> >>
TheCd == [d \in {Root, Sys} |->
            (<<>> :> d) @@ (Root :> Root) @@ (Sys :> Sys) @@ (IF d = Root THEN <<115>> :> Sys ELSE <<>> :> d)]
TheNames == (Root :> << <<115>> >>) @@ (Sys :> << <<b, a>>, <<b>> >>)

TheBanner == <<109>>
TheFinished == <<91>>
TheMissing == <<63>>
TheHelp == <<45>>
TheShell == <<109>>
ThePrograms == {<<a>>}
TheChunks == {<<b, NL>>, <<b>>}
TheMax == [h \in BOOLEAN |-> IF h THEN 4 ELSE 5]
TheKeys == [h \in BOOLEAN |->
    IF h THEN {a, BS, Left, Up, Tab, NL, INTR}
    ELSE {a, SP, Left, CtrlA, CtrlD, CtrlU, CtrlW, CtrlY, MetaB, CtrlR, CtrlL, Up, Bang, Tab, NL, INTR}]
=============================================================================
