---------------------------- MODULE NotepadProofs ----------------------------
(***************************************************************************)
(* What Notepad keeps, for windows of any height and width, any files,     *)
(* directories, clipboards and keys, and a buffer of any size.             *)
(*                                                                         *)
(* The lemmas go up the program as the code is called: lines of a text and *)
(* rows of a window, the entry's keys and presses, dialogs, buttons, bar,  *)
(* and the turn of the loop.  A lemma about an operator says what of the   *)
(* state it keeps (Kept, Answered, Edited) and that the window need not be *)
(* drawn for it unless it asked for that.                                  *)
(***************************************************************************)
EXTENDS Notepad, FiniteSetTheorems, SequenceTheorems, TLAPS

-----------------------------------------------------------------------------
(* Lines.                                                                  *)

Texts == Seq(Bytes)

\* A set of naturals has a least one: induction for what the module defines.
LEMMA LeastNat ==
    ASSUME NEW T \in SUBSET Nat, T # {}
    PROVE  \E n \in T : \A k \in T : n <= k
<1> DEFINE R == OpToRel(<, Nat)
<1>1. IsWellFoundedOn(R, Nat)
  BY NatLessThanWellFounded
<1>2. \E x \in T : \A y \in T : ~(<<y, x>> \in R)
  <2> HIDE DEF R
  <2> QED BY <1>1, WFMin
<1>3. \A x, y \in Nat : x < y => <<x, y>> \in R
  BY DEF OpToRel
<1>4. \A x, y \in Nat : x <= y \/ y < x
  OBVIOUS
<1> HIDE DEF R
<1> QED BY <1>2, <1>3, <1>4

\* The breaks of a text are finitely many places in it.
LEMMA BreaksFinite ==
    ASSUME NEW t \in Texts
    PROVE  /\ Breaks(t) \subseteq 1..Len(t)
           /\ IsFiniteSet(Breaks(t)) /\ Cardinality(Breaks(t)) \in Nat
<1>1. Breaks(t) \in SUBSET (1..Len(t))
  BY DEF Breaks
<1>2. Len(t) \in Nat
  BY DEF Texts
<1>3. IsFiniteSet(1..Len(t))
  BY <1>2, FS_Interval
<1>4. IsFiniteSet(Breaks(t))
  BY <1>1, <1>3, FS_Subset
<1> QED BY <1>1, <1>4, FS_CardinalityType

\* The breaks before a position can be counted.
LEMMA UpToFinite ==
    ASSUME NEW t \in Texts, NEW c
    PROVE  /\ IsFiniteSet(UpTo(t, c)) /\ Cardinality(UpTo(t, c)) \in Nat
           /\ Cardinality(UpTo(t, c)) <= Cardinality(Breaks(t))
<1>1. UpTo(t, c) \in SUBSET Breaks(t)
  BY DEF UpTo
<1>2. IsFiniteSet(UpTo(t, c)) /\ Cardinality(UpTo(t, c)) <= Cardinality(Breaks(t))
  BY <1>1, BreaksFinite, FS_Subset
<1> QED BY <1>2, FS_CardinalityType

\* A break has more breaks up to it than a position before it.
LEMMA UpToGrows ==
    ASSUME NEW t \in Texts, NEW c \in Nat, NEW i \in Breaks(t), c < i
    PROVE  Cardinality(UpTo(t, c)) < Cardinality(UpTo(t, i))
<1>1. Breaks(t) \subseteq Nat
  BY BreaksFinite
<1>2. UpTo(t, c) \in SUBSET UpTo(t, i) /\ i \in UpTo(t, i) /\ i \notin UpTo(t, c)
  BY <1>1 DEF UpTo
<1>3. UpTo(t, c) # UpTo(t, i)
  BY <1>2
<1>4. Cardinality(UpTo(t, c)) <= Cardinality(UpTo(t, i))
      /\ Cardinality(UpTo(t, c)) # Cardinality(UpTo(t, i))
  BY <1>2, <1>3, UpToFinite, FS_Subset
<1> QED BY <1>4, UpToFinite

\* The n-th break is there.
LEMMA NthBreak ==
    ASSUME NEW t \in Texts, NEW n \in Nat, n # 0, n <= Cardinality(Breaks(t))
    PROVE  \E i \in Breaks(t) : Cardinality(UpTo(t, i)) = n
<1> DEFINE T == {i \in Nat : Cardinality(UpTo(t, i)) >= n}
<1>1. Breaks(t) \subseteq Nat /\ Len(t) \in Nat /\ \A i \in Breaks(t) : i <= Len(t)
  BY BreaksFinite DEF Texts
<1>2. UpTo(t, Len(t)) = Breaks(t)
  BY <1>1 DEF UpTo
<1>3. Len(t) \in T
  BY <1>1, <1>2, BreaksFinite
<1>4. PICK i \in T : \A j \in T : i <= j
  BY <1>3, LeastNat
<1>5. UpTo(t, 0) = {}
  BY BreaksFinite DEF UpTo
<1>6. Cardinality(UpTo(t, 0)) = 0
  BY <1>5, FS_EmptySet
<1>7. i # 0
  BY <1>4, <1>6
<1>8. i - 1 \in Nat /\ i - 1 \notin T
  BY <1>4, <1>7
<1>9. Cardinality(UpTo(t, i - 1)) < n
  BY <1>8, UpToFinite
<1>10. UpTo(t, i) = IF i \in Breaks(t) THEN UpTo(t, i - 1) \cup {i} ELSE UpTo(t, i - 1)
  BY <1>1, <1>4 DEF UpTo
<1>11. Cardinality(UpTo(t, i)) \in Nat /\ Cardinality(UpTo(t, i)) >= n
  BY <1>4, UpToFinite
<1>12. i \in Breaks(t)
  BY <1>9, <1>10, <1>11, UpToFinite
<1>13. Cardinality(UpTo(t, i)) <= Cardinality(UpTo(t, i - 1)) + 1
  <2>1. IsFiniteSet(UpTo(t, i - 1)) /\ Cardinality(UpTo(t, i - 1)) \in Nat
    BY UpToFinite
  <2>2. Cardinality(UpTo(t, i - 1) \cup {i})
        = IF i \in UpTo(t, i - 1) THEN Cardinality(UpTo(t, i - 1))
          ELSE Cardinality(UpTo(t, i - 1)) + 1
    BY <2>1, FS_AddElement
  <2> QED BY <2>1, <2>2, <1>10, <1>12
<1> QED BY <1>9, <1>11, <1>12, <1>13, UpToFinite

\* A line begins in the text, whichever is asked for.
LEMMA LineStartIn ==
    ASSUME NEW t \in Texts, NEW n \in Int
    PROVE  LineStart(t, n) \in 0..Len(t)
<1>1. Len(t) \in Nat
  BY DEF Texts
<1>2. CASE n <= 0 \/ n > Cardinality(Breaks(t))
  BY <1>1, <1>2 DEF LineStart
<1>3. CASE n > 0 /\ n <= Cardinality(Breaks(t))
  <2>1. \E i \in Breaks(t) : Cardinality(UpTo(t, i)) = n
    BY <1>3, NthBreak
  <2>2. LineStart(t, n) = CHOOSE i \in Breaks(t) : Cardinality(UpTo(t, i)) = n
    BY <1>3, BreaksFinite DEF LineStart
  <2>3. LineStart(t, n) \in Breaks(t)
    BY <2>1, <2>2
  <2> QED BY <2>3, BreaksFinite
<1> QED BY <1>2, <1>3, BreaksFinite

\* The rest of a line ends in the text.
LEMMA RestIn ==
    ASSUME NEW t \in Texts, NEW i \in 0..Len(t)
    PROVE  RestOfLine(t, i) \in 0..(Len(t) - i)
<1> DEFINE after == {j \in Breaks(t) : j > i}
<1>1. Len(t) \in Nat
  BY DEF Texts
<1>2. CASE after = {}
  BY <1>1, <1>2 DEF RestOfLine
<1>3. CASE after # {}
  <2>1. after \in SUBSET Nat /\ \A j \in after : j > i /\ j <= Len(t)
    BY BreaksFinite
  <2> DEFINE m == CHOOSE j \in after : \A k \in after : j <= k
  <2>2. m \in after
    BY <2>1, <1>3, LeastNat
  <2>3. RestOfLine(t, i) = m - 1 - i
    BY <1>3 DEF RestOfLine
  <2> QED BY <2>1, <2>2, <2>3, <1>1
<1> QED BY <1>2, <1>3

\* The caret is in a line of the text, not before its beginning.
LEMMA CaretIn ==
    ASSUME NEW e \in Entries
    PROVE  /\ CaretRow(e) \in Nat /\ CaretRow(e) <= Cardinality(Breaks(e.text))
           /\ CaretCol(e) \in Nat
<1>1. e.text \in Texts /\ e.cursor \in Nat
  BY DEF Entries, Texts
<1>2. CaretRow(e) \in Nat /\ CaretRow(e) <= Cardinality(Breaks(e.text))
  BY <1>1, UpToFinite DEF CaretRow
<1> DEFINE s == LineStart(e.text, CaretRow(e))
<1>3. s \in Nat
  BY <1>1, <1>2, LineStartIn DEF Texts
<1>4. s <= e.cursor
  <2>1. CASE CaretRow(e) = 0
    BY <2>1, <1>1 DEF LineStart
  <2>2. CASE CaretRow(e) # 0
    <3>1. \E i \in Breaks(e.text) : Cardinality(UpTo(e.text, i)) = CaretRow(e)
      BY <1>1, <1>2, <2>2, NthBreak
    <3>2. s = CHOOSE i \in Breaks(e.text) : Cardinality(UpTo(e.text, i)) = CaretRow(e)
      BY <1>1, <1>2, <2>2, BreaksFinite DEF LineStart
    <3>3. s \in Breaks(e.text) /\ Cardinality(UpTo(e.text, s)) = CaretRow(e)
      BY <3>1, <3>2
    <3>4. ~(e.cursor < s)
      BY <1>1, <1>2, <3>3, UpToGrows DEF CaretRow
    <3> QED BY <1>1, <1>3, <3>4
  <2> QED BY <2>1, <2>2
<1>5. CaretCol(e) = e.cursor - s
  BY DEF CaretCol
<1> QED BY <1>1, <1>2, <1>3, <1>4, <1>5

\* The position under a column is in the text.
LEMMA InLineIn ==
    ASSUME NEW t \in Texts, NEW n \in Int, NEW c \in Nat
    PROVE  InLine(t, n, c) \in 0..Len(t)
<1>1. LineStart(t, n) \in 0..Len(t) /\ Len(t) \in Nat
  BY LineStartIn DEF Texts
<1>2. RestOfLine(t, LineStart(t, n)) \in 0..(Len(t) - LineStart(t, n))
  BY <1>1, RestIn
<1> QED BY <1>1, <1>2 DEF InLine, AtMost

-----------------------------------------------------------------------------
(* Rows.                                                                   *)

\* The boxes of text that a window can have.
Boxes == [multi : {TRUE}, rows : Nat \ {0}, cols : Nat, cap : {Cap}]

\* The n-th line has n breaks before it.
LEMMA CountAtStart ==
    ASSUME NEW t \in Texts, NEW n \in 0..Cardinality(Breaks(t))
    PROVE  /\ LineStart(t, n) \in Nat /\ LineStart(t, n) <= Len(t)
           /\ Cardinality(UpTo(t, LineStart(t, n))) = n
           /\ n # 0 => LineStart(t, n) \in Breaks(t)
<1>1. n \in Nat /\ n <= Cardinality(Breaks(t)) /\ Cardinality(Breaks(t)) \in Nat
  BY BreaksFinite
<1>2. LineStart(t, n) \in Nat /\ LineStart(t, n) <= Len(t)
  BY <1>1, LineStartIn DEF Texts
<1>3. CASE n = 0
  <2>1. LineStart(t, n) = 0
    BY <1>3 DEF LineStart
  <2>2. UpTo(t, 0) = {}
    BY BreaksFinite DEF UpTo
  <2> QED BY <1>2, <1>3, <2>1, <2>2, FS_EmptySet
<1>4. CASE n # 0
  <2>1. \E i \in Breaks(t) : Cardinality(UpTo(t, i)) = n
    BY <1>1, <1>4, NthBreak
  <2>2. LineStart(t, n) = CHOOSE i \in Breaks(t) : Cardinality(UpTo(t, i)) = n
    BY <1>1, <1>4 DEF LineStart
  <2> QED BY <1>2, <2>1, <2>2
<1> QED BY <1>3, <1>4

\* A line with others behind it ends where the next one begins.
LEMMA NextLine ==
    ASSUME NEW t \in Texts, NEW n \in Nat, n < Cardinality(Breaks(t))
    PROVE  LET i == LineStart(t, n)
           IN  /\ RestOfLine(t, i) \in Nat
               /\ i + RestOfLine(t, i) < Len(t)
               /\ t[i + RestOfLine(t, i) + 1] = NL
               /\ LineStart(t, n + 1) = i + RestOfLine(t, i) + 1
<1> DEFINE i == LineStart(t, n)
           after == {j \in Breaks(t) : j > i}
           m == CHOOSE j \in after : \A k \in after : j <= k
<1>1. Cardinality(Breaks(t)) \in Nat /\ Breaks(t) \subseteq Nat /\ Len(t) \in Nat
      /\ \A j \in Breaks(t) : j <= Len(t)
  BY BreaksFinite DEF Texts
<1>2. i \in Nat /\ i <= Len(t) /\ Cardinality(UpTo(t, i)) = n
  BY <1>1, CountAtStart
<1> HIDE DEF i
<1>3. after # {}
  <2>1. after = {} => UpTo(t, i) = Breaks(t)
    BY <1>1, <1>2 DEF UpTo
  <2> QED BY <1>1, <1>2, <2>1
<1>4. m \in after /\ \A k \in after : m <= k
  BY <1>1, <1>3, LeastNat
<1>5. RestOfLine(t, i) = m - 1 - i
  BY <1>3 DEF RestOfLine
<1> HIDE DEF m
<1>6. m \in Nat /\ m > i /\ m <= Len(t) /\ m \in Breaks(t)
  BY <1>1, <1>4
<1>7. t[m] = NL
  BY <1>6 DEF Breaks
<1>8. UpTo(t, m) = UpTo(t, i) \cup {m} /\ m \notin UpTo(t, i)
  BY <1>1, <1>2, <1>4, <1>6 DEF UpTo
<1>9. Cardinality(UpTo(t, m)) = n + 1
  BY <1>2, <1>8, UpToFinite, FS_AddElement
<1>10. n + 1 \in 0..Cardinality(Breaks(t)) /\ n + 1 # 0
  BY <1>1
<1> DEFINE l == LineStart(t, n + 1)
<1>11. l \in Breaks(t) /\ l \in Nat /\ Cardinality(UpTo(t, l)) = n + 1
  BY <1>10, CountAtStart
<1> HIDE DEF l
<1>12. ~(l < m) /\ ~(m < l)
  BY <1>6, <1>9, <1>11, UpToGrows
<1>13. l = m
  BY <1>6, <1>11, <1>12
<1> QED BY <1>2, <1>5, <1>6, <1>7, <1>13 DEF l, i

\* The last line goes to the end of the text.
LEMMA LastLine ==
    ASSUME NEW t \in Texts
    PROVE  LET i == LineStart(t, Cardinality(Breaks(t)))
           IN  RestOfLine(t, i) = Len(t) - i
<1> DEFINE i == LineStart(t, Cardinality(Breaks(t)))
           after == {j \in Breaks(t) : j > i}
<1>1. Cardinality(Breaks(t)) \in Nat /\ Breaks(t) \subseteq Nat
  BY BreaksFinite
<1>2. i \in Nat /\ Cardinality(UpTo(t, i)) = Cardinality(Breaks(t))
  BY <1>1, CountAtStart
<1> HIDE DEF i
<1>3. after = {}
  <2> SUFFICES ASSUME NEW j \in Breaks(t), j > i PROVE FALSE
    OBVIOUS
  <2>1. Cardinality(UpTo(t, i)) < Cardinality(UpTo(t, j))
    BY <1>1, <1>2, UpToGrows
  <2> QED BY <1>1, <1>2, <2>1, UpToFinite
<1>4. RestOfLine(t, i) = Len(t) - i
  BY <1>3 DEF RestOfLine
<1> QED BY <1>4 DEF i

\* A position in a line has as many breaks before it as the line.
LEMMA CountInLine ==
    ASSUME NEW t \in Texts, NEW n \in 0..Cardinality(Breaks(t)),
           NEW c \in 0..RestOfLine(t, LineStart(t, n))
    PROVE  Cardinality(UpTo(t, LineStart(t, n) + c)) = n
<1> DEFINE i == LineStart(t, n)
           after == {j \in Breaks(t) : j > i}
<1>1. i \in Nat /\ i <= Len(t) /\ Cardinality(UpTo(t, i)) = n
  BY CountAtStart
<1>2. Breaks(t) \subseteq Nat /\ Len(t) \in Nat
  BY BreaksFinite DEF Texts
<1>3. c \in 0..RestOfLine(t, i)
  OBVIOUS
<1> HIDE DEF i
<1>4. RestOfLine(t, i) \in Nat /\ c \in Nat /\ c <= RestOfLine(t, i)
  <2>1. RestOfLine(t, i) \in 0..(Len(t) - i)
    BY <1>1, <1>2, RestIn
  <2> QED BY <1>1, <1>2, <1>3, <2>1
<1>5. ASSUME NEW j \in Breaks(t), j > i PROVE ~(j <= i + c)
  <2> DEFINE m == CHOOSE k \in after : \A l \in after : k <= l
  <2>1. after # {} /\ after \in SUBSET Nat /\ j \in after
    BY <1>2, <1>5
  <2>2. m \in after /\ \A k \in after : m <= k
    BY <2>1, LeastNat
  <2>3. RestOfLine(t, i) = m - 1 - i
    BY <2>1 DEF RestOfLine
  <2> HIDE DEF m
  <2>4. m \in Nat /\ j \in Nat /\ m <= j
    BY <2>1, <2>2
  <2> QED BY <1>1, <1>4, <2>3, <2>4
<1>6. UpTo(t, i + c) = UpTo(t, i)
  BY <1>1, <1>2, <1>4, <1>5 DEF UpTo
<1> QED BY <1>1, <1>6 DEF i

\* RowStarts is a recursive function: there is one.
RowsOf(e, b, g, m) ==
    [k \in 1..m |-> IF k = 1 THEN LineStart(e.text, e.scroll)
                    ELSE IF g[k - 1] = -1 THEN -1 ELSE NextRow(e, b, g[k - 1])]

\* The function that RowStarts chooses exists, for any number of rows.
LEMMA RowsExist ==
    ASSUME NEW e, NEW b, NEW r \in Nat
    PROVE  \E g : g = RowsOf(e, b, g, r)
<1> DEFINE T == {m \in Nat : ~\E g : g = RowsOf(e, b, g, m)}
<1>1. SUFFICES ASSUME T # {} PROVE FALSE
  OBVIOUS
<1>2. PICK m \in T : \A k \in T : m <= k
  BY <1>1, LeastNat
<1>3. m # 0
  <2> SUFFICES \E g : g = RowsOf(e, b, g, 0)
    BY <1>2
  <2> DEFINE g == [k \in 1..0 |-> 0]
  <2>1. g = RowsOf(e, b, g, 0)
    BY DEF RowsOf
  <2> QED BY <2>1
<1>4. m - 1 \in Nat /\ m - 1 \notin T
  BY <1>2, <1>3
<1>5. PICK g : g = RowsOf(e, b, g, m - 1)
  BY <1>4
<1> DEFINE v == IF m = 1 THEN LineStart(e.text, e.scroll)
                ELSE IF g[m - 1] = -1 THEN -1 ELSE NextRow(e, b, g[m - 1])
           h == [k \in 1..m |-> IF k = m THEN v ELSE g[k]]
<1>6. ASSUME NEW k \in 1..m
      PROVE  h[k] = IF k = 1 THEN LineStart(e.text, e.scroll)
                    ELSE IF h[k - 1] = -1 THEN -1 ELSE NextRow(e, b, h[k - 1])
  <2>1. k # 1 => h[k - 1] = g[k - 1]
    BY <1>2
  <2>2. CASE k = m
    BY <2>1, <2>2
  <2>3. CASE k # m
    <3>1. k \in 1..(m - 1)
      BY <1>2, <2>3
    <3>2. h[k] = g[k]
      BY <2>3
    <3>3. g[k] = IF k = 1 THEN LineStart(e.text, e.scroll)
                 ELSE IF g[k - 1] = -1 THEN -1 ELSE NextRow(e, b, g[k - 1])
      BY <1>5, <3>1 DEF RowsOf
    <3> QED BY <2>1, <3>2, <3>3
  <2> QED BY <2>2, <2>3
<1>7. h = RowsOf(e, b, h, m)
  BY <1>6 DEF RowsOf
<1> QED BY <1>2, <1>7

\* So RowStarts is what its definition says.
LEMMA RowStartsIs ==
    ASSUME NEW e, NEW b \in Boxes, NEW k \in 1..b.rows
    PROVE  RowStarts(e, b)[k]
           = IF k = 1 THEN LineStart(e.text, e.scroll)
             ELSE IF RowStarts(e, b)[k - 1] = -1 THEN -1
             ELSE NextRow(e, b, RowStarts(e, b)[k - 1])
<1>1. b.rows \in Nat
  BY DEF Boxes
<1>2. \E g : g = RowsOf(e, b, g, b.rows)
  BY <1>1, RowsExist
<1>3. RowStarts(e, b) = CHOOSE g : g = RowsOf(e, b, g, b.rows)
  BY DEF RowStarts, RowsOf
<1>4. RowStarts(e, b) = RowsOf(e, b, RowStarts(e, b), b.rows)
  BY <1>2, <1>3
<1> QED BY <1>4 DEF RowsOf

\* Without long lines the rows drawn are the lines from the view's first on.
LEMMA RowsAreLines ==
    ASSUME NEW e \in Entries, NEW b \in Boxes, NoLongLine(e, b.cols), NEW r \in 1..b.rows
    PROVE  LET n == e.scroll + r - 1
               last == Cardinality(Breaks(e.text))
           IN  /\ n <= last => RowStarts(e, b)[r] = LineStart(e.text, n)
               /\ n > last /\ e.scroll <= last => RowStarts(e, b)[r] = -1
<1> DEFINE t == e.text
           last == Cardinality(Breaks(t))
           f == RowStarts(e, b)
           Good(k) == /\ e.scroll + k - 1 <= last => f[k] = LineStart(t, e.scroll + k - 1)
                      /\ e.scroll + k - 1 > last /\ e.scroll <= last => f[k] = -1
           T == {k \in 1..b.rows : ~Good(k)}
<1>1. t \in Texts /\ last \in Nat /\ Len(t) \in Nat /\ e.scroll \in Nat /\ b.rows \in Nat
      /\ b.cols \in Nat
  BY BreaksFinite DEF Entries, Texts, Boxes
<1>2. SUFFICES ASSUME T # {} PROVE FALSE
  OBVIOUS
<1>3. T \in SUBSET Nat
  BY <1>1
<1>4. PICK k \in T : \A j \in T : k <= j
  BY <1>2, <1>3, LeastNat
<1>5. k \in 1..b.rows
  BY <1>4
<1>6. f[k] = IF k = 1 THEN LineStart(t, e.scroll)
             ELSE IF f[k - 1] = -1 THEN -1 ELSE NextRow(e, b, f[k - 1])
  BY <1>5, RowStartsIs
<1> HIDE DEF f, last, t
<1>7. CASE k = 1
  BY <1>1, <1>4, <1>6, <1>7
<1>8. CASE k # 1
  <2>1. k - 1 \in 1..b.rows /\ k - 1 \in Nat /\ k \in Nat
    BY <1>1, <1>5, <1>8
  <2>2. Good(k - 1)
    BY <1>4, <2>1
  <2> DEFINE n == e.scroll + (k - 1) - 1
  <2>3. n \in Nat /\ e.scroll + k - 1 = n + 1
    BY <1>1, <2>1
  <2>4. n <= last => f[k - 1] = LineStart(t, n)
    BY <2>2
  <2>5. n > last /\ e.scroll <= last => f[k - 1] = -1
    BY <2>2
  <2>6. ~Good(k)
    BY <1>4
  <2> HIDE DEF n, T
  <2> DEFINE i == LineStart(t, n)
             rest == RestOfLine(t, i)
  <2>7. CASE n < last
    <3>1. rest \in Nat /\ i + rest < Len(t) /\ t[i + rest + 1] = NL
          /\ LineStart(t, n + 1) = i + rest + 1
      BY <1>1, <2>3, <2>7, NextLine DEF last
    <3>2. i \in Nat
      <4>1. n \in Int
        BY <2>3
      <4>2. LineStart(t, n) \in 0..Len(t)
        BY ONLY <1>1, <4>1, LineStartIn
      <4> QED BY <1>1, <4>2
    <3>3. rest <= b.cols
      <4>1. n \in 0..(LineCount(e.text) - 1)
        BY <1>1, <2>3, <2>7 DEF LineCount, last, t
      <4> QED BY <4>1 DEF NoLongLine, t
    <3> HIDE DEF i, rest
    <3>4. AtMost(rest, b.cols) = rest
      BY <1>1, <3>1, <3>3 DEF AtMost
    <3>5. NextRow(e, b, i) = i + rest + 1
      BY <1>1, <3>1, <3>2, <3>4 DEF NextRow, rest, t
    <3>6. f[k - 1] = i /\ i # -1
      BY <1>1, <2>3, <2>4, <2>7, <3>2 DEF i
    <3>7. f[k] = LineStart(t, n + 1)
      BY <1>6, <1>8, <3>1, <3>5, <3>6
    <3> QED BY <1>1, <2>3, <2>6, <2>7, <3>7
  <2>8. CASE n = last
    <3>1. rest = Len(t) - i
      BY <1>1, <2>8, LastLine DEF last
    <3>2. i \in Nat /\ i <= Len(t)
      <4>1. n \in Int
        BY <2>3
      <4>2. LineStart(t, n) \in 0..Len(t)
        BY ONLY <1>1, <4>1, LineStartIn
      <4> QED BY <1>1, <4>2
    <3>3. rest <= b.cols
      <4>1. n \in 0..(LineCount(e.text) - 1)
        BY <1>1, <2>3, <2>8 DEF LineCount, last, t
      <4> QED BY <4>1 DEF NoLongLine, t
    <3> HIDE DEF i, rest
    <3>4. AtMost(rest, b.cols) = rest
      BY <1>1, <3>1, <3>2, <3>3 DEF AtMost
    <3>5. NextRow(e, b, i) = -1
      BY <1>1, <3>1, <3>2, <3>4 DEF NextRow, rest, t
    <3>6. f[k - 1] = i /\ i # -1
      BY <1>1, <2>3, <2>4, <2>8, <3>2 DEF i
    <3>7. f[k] = -1
      BY <1>6, <1>8, <3>5, <3>6
    <3> QED BY <1>1, <2>3, <2>6, <2>8, <3>7
  <2>9. CASE n > last
    <3>1. e.scroll <= last => f[k] = -1
      BY <1>6, <1>8, <2>5, <2>9
    <3> QED BY <1>1, <2>3, <2>6, <2>9, <3>1
  <2> QED BY <1>1, <2>3, <2>7, <2>8, <2>9
<1> QED BY <1>7, <1>8

-----------------------------------------------------------------------------
(* Editing.                                                                *)

\* The buffer has room for the byte that ends a text.
LEMMA CapIs == Cap \in Nat /\ Cap > 0
  BY NotepadAssumption

\* An entry with an edited text that fits the buffer.
LEMMA EntryIs ==
    ASSUME NEW e \in Entries, NEW t \in Seq(Bytes), NEW c \in Nat,
           Len(t) < Cap, c <= Len(t)
    PROVE  [e EXCEPT !.text = t, !.cursor = c, !.changed = TRUE, !.view = TRUE]
              \in {r \in Entries : r.changed}
  BY DEF Entries

\* The view is clamped to positions there are.
LEMMA ScrollIn ==
    ASSUME NEW e, e.text \in Texts, NEW b \in Boxes
    PROVE  /\ MaxScroll(e, b) \in Nat
           /\ \A v \in Int : Clamp(v, 0, MaxScroll(e, b)) \in Nat
<1>1. LineCount(e.text) \in Nat
  BY BreaksFinite DEF LineCount
<1>2. MaxScroll(e, b) \in Nat
  BY <1>1 DEF MaxScroll, Boxes
<1> QED BY <1>2 DEF Clamp

\* Scrolling moves nothing but the view, and says so.
LEMMA SetScrollIs ==
    ASSUME NEW e \in Entries, NEW b \in Boxes, NEW v \in Int
    PROVE  /\ SetScroll(e, b, v) \in Entries
           /\ SetScroll(e, b, v).text = e.text
           /\ SetScroll(e, b, v).changed = e.changed
           /\ SetScroll(e, b, v).view
<1>1. Clamp(v, 0, MaxScroll(e, b)) \in Nat
  BY ScrollIn DEF Entries, Texts
<1>2. SetScroll(e, b, v) = [e EXCEPT !.scroll = Clamp(v, 0, MaxScroll(e, b)), !.view = TRUE]
  BY DEF SetScroll, Boxes
<1> QED BY <1>1, <1>2 DEF Entries

\* Following the caret moves nothing but the view.
LEMMA EnsureIs ==
    ASSUME NEW e \in Entries, NEW b \in Boxes
    PROVE  /\ EnsureCursorVisible(e, b) \in Entries
           /\ EnsureCursorVisible(e, b).text = e.text
           /\ EnsureCursorVisible(e, b).changed = e.changed
           /\ EnsureCursorVisible(e, b).view = e.view
<1>1. e.text \in Texts
  BY DEF Entries, Texts
<1>2. Towards(e.scroll, CaretRow(e), b.rows) \in Int
  BY CaretIn DEF Entries, Boxes, Towards
<1>3. Clamp(Towards(e.scroll, CaretRow(e), b.rows), 0, MaxScroll(e, b)) \in Nat
  BY <1>1, <1>2, ScrollIn
<1>4. EnsureCursorVisible(e, b)
      = [e EXCEPT !.scroll = Clamp(Towards(e.scroll, CaretRow(e), b.rows), 0, MaxScroll(e, b))]
  BY DEF EnsureCursorVisible, Boxes
<1> QED BY <1>3, <1>4 DEF Entries

\* Moving the caret leaves the text, and says so.
LEMMA CaretToIs ==
    ASSUME NEW e \in Entries, NEW b \in Boxes, NEW i \in 0..Len(e.text)
    PROVE  /\ CaretTo(e, b, i) \in Entries
           /\ CaretTo(e, b, i).text = e.text
           /\ CaretTo(e, b, i).changed = e.changed
           /\ CaretTo(e, b, i).view
<1> DEFINE x == [e EXCEPT !.cursor = i, !.view = TRUE]
<1>1. i \in Nat /\ i <= Len(e.text)
  BY DEF Entries
<1>2. x \in Entries /\ x.text = e.text /\ x.changed = e.changed /\ x.view
  BY <1>1 DEF Entries
<1>3. CaretTo(e, b, i) = EnsureCursorVisible(x, b)
  BY DEF CaretTo
<1> HIDE DEF x
<1> QED BY <1>2, <1>3, EnsureIs

\* A text is taken as far as the buffer holds it.
LEMMA SetTextIs ==
    ASSUME NEW e, NEW b \in Boxes, NEW s \in Texts
    PROVE  /\ SetText(e, b, s) \in Entries
           /\ SetText(e, b, s).text = SubSeq(s, 1, AtMost(Len(s), Cap - 1))
           /\ ~SetText(e, b, s).changed
<1> DEFINE kept == SubSeq(s, 1, AtMost(Len(s), Cap - 1))
<1>1. AtMost(Len(s), Cap - 1) \in 0..Len(s) /\ AtMost(Len(s), Cap - 1) < Cap
  BY CapIs DEF Texts, AtMost
<1>2. kept \in Seq(Bytes) /\ Len(kept) = AtMost(Len(s), Cap - 1)
  BY <1>1 DEF Texts
<1>3. SetText(e, b, s) = [text |-> kept, cursor |-> Len(kept), scroll |-> 0,
                          changed |-> FALSE, view |-> TRUE]
  BY DEF SetText, Boxes
<1> HIDE DEF kept
<1>4. SetText(e, b, s) \in Entries
  BY <1>1, <1>2, <1>3 DEF Entries
<1>5. SetText(e, b, s).text = kept /\ ~SetText(e, b, s).changed
  BY <1>3
<1> QED BY <1>4, <1>5 DEF kept

\* What a key makes of a text: if it is another one, the entry says so.
Edited(e, r) == r \in Entries /\ (~r.changed => ~e.changed /\ r.text = e.text)

\* A byte is put in or not, and the entry says which.
LEMMA InsertIs ==
    ASSUME NEW e \in Entries, NEW b \in Boxes, NEW ch \in Bytes
    PROVE  Edited(e, InsertChar(e, b, ch))
<1> DEFINE left == SubSeq(e.text, 1, e.cursor)
           right == SubSeq(e.text, e.cursor + 1, Len(e.text))
           x == [e EXCEPT !.text = left \o <<ch>> \o right,
                          !.cursor = @ + 1, !.changed = TRUE, !.view = TRUE]
<1>1. e.text \in Seq(Bytes) /\ Len(e.text) \in Nat /\ e.cursor \in Nat
      /\ e.cursor <= Len(e.text) /\ Len(e.text) < Cap
  BY DEF Entries
<1>2. left \in Seq(Bytes) /\ Len(left) = e.cursor
  BY <1>1
<1>3. right \in Seq(Bytes) /\ Len(right) = Len(e.text) - e.cursor
  BY <1>1
<1>4. InsertChar(e, b, ch) = IF Len(e.text) + 1 >= Cap THEN e ELSE EnsureCursorVisible(x, b)
  BY DEF InsertChar, Boxes
<1>5. CASE Len(e.text) + 1 < Cap
  <2> HIDE DEF left, right
  <2>1. left \o <<ch>> \o right \in Seq(Bytes)
        /\ Len(left \o <<ch>> \o right) = Len(e.text) + 1
    BY <1>1, <1>2, <1>3
  <2> DEFINE t == left \o <<ch>> \o right
  <2> HIDE DEF t
  <2>2. x = [e EXCEPT !.text = t, !.cursor = e.cursor + 1, !.changed = TRUE, !.view = TRUE]
    BY DEF t, Entries
  <2>3. t \in Seq(Bytes) /\ Len(t) = Len(e.text) + 1
    BY <2>1 DEF t
  <2> HIDE DEF x
  <2>4. x \in Entries /\ x.changed
    <3>1. Len(t) < Cap /\ e.cursor + 1 <= Len(t) /\ e.cursor + 1 \in Nat
      BY <1>1, <1>5, <2>3, CapIs
    <3> QED BY <2>2, <2>3, <3>1, EntryIs
  <2>5. InsertChar(e, b, ch) \in Entries /\ InsertChar(e, b, ch).changed
    BY <1>1, <1>4, <1>5, <2>4, EnsureIs, CapIs
  <2> QED BY <2>5 DEF Edited
<1>6. CASE Len(e.text) + 1 >= Cap
  BY <1>4, <1>6 DEF Edited
<1> QED BY <1>1, <1>5, <1>6, CapIs

\* A byte is taken out or not, and the entry says which.
LEMMA DeleteIs ==
    ASSUME NEW e \in Entries, NEW b \in Boxes
    PROVE  Edited(e, DeleteBack(e, b))
<1> DEFINE left == SubSeq(e.text, 1, e.cursor - 1)
           right == SubSeq(e.text, e.cursor + 1, Len(e.text))
           x == [e EXCEPT !.text = left \o right,
                          !.cursor = @ - 1, !.changed = TRUE, !.view = TRUE]
<1>1. e.text \in Seq(Bytes) /\ Len(e.text) \in Nat /\ e.cursor \in Nat
      /\ e.cursor <= Len(e.text) /\ Len(e.text) < Cap
  BY DEF Entries
<1>2. DeleteBack(e, b) = IF e.cursor <= 0 THEN e ELSE EnsureCursorVisible(x, b)
  BY DEF DeleteBack
<1>3. CASE e.cursor > 0
  <2>1. left \in Seq(Bytes) /\ Len(left) = e.cursor - 1
    BY <1>1, <1>3
  <2>2. right \in Seq(Bytes) /\ Len(right) = Len(e.text) - e.cursor
    BY <1>1
  <2> HIDE DEF left, right
  <2> DEFINE t == left \o right
  <2>3. t \in Seq(Bytes) /\ Len(t) = Len(e.text) - 1
    <3>1. t \in Seq(Bytes) /\ Len(t) = Len(left) + Len(right)
      BY ONLY <2>1, <2>2, ConcatProperties DEF t
    <3> QED BY <1>1, <2>1, <2>2, <3>1
  <2> HIDE DEF t
  <2>4. x = [e EXCEPT !.text = t, !.cursor = e.cursor - 1, !.changed = TRUE, !.view = TRUE]
    BY DEF t, Entries
  <2> HIDE DEF x
  <2>5. x \in Entries /\ x.changed
    <3>1. Len(t) < Cap /\ e.cursor - 1 <= Len(t) /\ e.cursor - 1 \in Nat
      BY <1>1, <1>3, <2>3, CapIs
    <3> QED BY <2>3, <2>4, <3>1, EntryIs
  <2>6. DeleteBack(e, b) \in Entries /\ DeleteBack(e, b).changed
    BY <1>1, <1>2, <1>3, <2>5, EnsureIs
  <2> QED BY <2>6 DEF Edited
<1>4. CASE ~(e.cursor > 0)
  BY <1>1, <1>2, <1>4 DEF Edited
<1> QED BY <1>3, <1>4

\* The arrows move the caret in the text.
LEMMA MoveIs ==
    ASSUME NEW e \in Entries, NEW b \in Boxes
    PROVE  /\ Edited(e, MoveLeft(e, b)) /\ Edited(e, MoveRight(e, b))
           /\ Edited(e, MoveUp(e, b)) /\ Edited(e, MoveDown(e, b))
<1>1. e.text \in Texts /\ Len(e.text) \in Nat /\ e.cursor \in Nat /\ e.cursor <= Len(e.text)
  BY DEF Entries, Texts
<1>2. CaretRow(e) \in Nat /\ CaretCol(e) \in Nat
  BY CaretIn
<1>3. ASSUME NEW i \in 0..Len(e.text) PROVE Edited(e, CaretTo(e, b, i))
  BY CaretToIs DEF Edited
<1>4. Edited(e, MoveLeft(e, b))
  BY <1>1, <1>3 DEF MoveLeft
<1>5. Edited(e, MoveRight(e, b))
  <2>1. AtMost(e.cursor + 1, Len(e.text)) \in 0..Len(e.text)
    BY <1>1 DEF AtMost
  <2> QED BY <1>3, <2>1 DEF MoveRight
<1>6. Edited(e, MoveUp(e, b))
  <2>1. InLine(e.text, CaretRow(e) - 1, CaretCol(e)) \in 0..Len(e.text)
    BY <1>1, <1>2, InLineIn
  <2>2. Edited(e, e)
    BY DEF Edited
  <2> QED BY <1>3, <2>1, <2>2 DEF MoveUp
<1>7. Edited(e, MoveDown(e, b))
  <2>1. InLine(e.text, CaretRow(e) + 1, CaretCol(e)) \in 0..Len(e.text)
    BY <1>1, <1>2, InLineIn
  <2>2. Edited(e, e)
    BY DEF Edited
  <2> QED BY <1>3, <2>1, <2>2 DEF MoveDown
<1> QED BY <1>4, <1>5, <1>6, <1>7

\* Any key: a tab is four bytes of which the last may find no room.
LEMMA KeyIs ==
    ASSUME NEW e \in Entries, NEW b \in Boxes, NEW k
    PROVE  Edited(e, Key(e, b, k))
<1>1. NL \in Bytes /\ SP \in Bytes
  BY NotepadAssumption
<1>2. Edited(e, e) /\ Edited(e, InsertChar(e, b, NL)) /\ Edited(e, InsertChar(e, b, SP))
  BY <1>1, InsertIs DEF Edited
<1>3. Edited(e, InsertChar(InsertChar(InsertChar(InsertChar(e, b, SP), b, SP), b, SP), b, SP))
  <2> DEFINE p == InsertChar(e, b, SP)
             q == InsertChar(p, b, SP)
             r == InsertChar(q, b, SP)
             s == InsertChar(r, b, SP)
  <2>1. Edited(e, p) /\ p \in Entries
    BY <1>2 DEF Edited
  <2> HIDE DEF p
  <2>2. Edited(p, q) /\ q \in Entries
    BY <1>1, <2>1, InsertIs DEF Edited
  <2> HIDE DEF q
  <2>3. Edited(q, r) /\ r \in Entries
    BY <1>1, <2>2, InsertIs DEF Edited
  <2> HIDE DEF r
  <2>4. Edited(r, s)
    BY <1>1, <2>3, InsertIs
  <2> HIDE DEF s
  <2>5. Edited(e, s)
    BY <2>1, <2>2, <2>3, <2>4 DEF Edited
  <2> QED BY <2>5 DEF p, q, r, s
<1>4. b.multi
  BY DEF Boxes
<1> QED BY <1>2, <1>3, <1>4, DeleteIs, MoveIs DEF Key

\* A press moves the caret, wherever it is.
LEMMA PressIs ==
    ASSUME NEW e \in Entries, NEW b \in Boxes, NEW row \in Nat, NEW col \in Nat
    PROVE  /\ Press(e, b, row, col) \in Entries
           /\ Press(e, b, row, col).text = e.text
           /\ Press(e, b, row, col).changed = e.changed
           /\ Press(e, b, row, col).view
<1>1. e.text \in Texts /\ e.scroll \in Nat /\ b.rows \in Nat /\ b.multi
  BY DEF Entries, Texts, Boxes
<1>2. AtMost(row, b.rows - 1) + e.scroll \in Int
  BY <1>1 DEF AtMost
<1>3. InLine(e.text, AtMost(row, b.rows - 1) + e.scroll, col) \in 0..Len(e.text)
  BY <1>1, <1>2, InLineIn
<1> QED BY <1>1, <1>3, CaretToIs DEF Press

-----------------------------------------------------------------------------
(* What is seen, and what the caret and a press are.                       *)

\* The cell of the caret is that of the byte it is before.
LEMMA CaretIsDrawn ==
    ASSUME NEW e \in Entries, NEW b \in Boxes, NoLongLine(e, b.cols),
           DrawnCaret(e, b) # NoCaret
    PROVE  RowStarts(e, b)[DrawnCaret(e, b)[1] + 1] + DrawnCaret(e, b)[2] = e.cursor
<1> DEFINE row == CaretRow(e) - e.scroll
           col == CaretCol(e)
           i == LineStart(e.text, CaretRow(e))
<1>1. CaretRow(e) \in Nat /\ CaretRow(e) <= Cardinality(Breaks(e.text)) /\ col \in Nat
      /\ e.scroll \in Nat /\ e.cursor \in Nat /\ b.rows \in Nat
  BY CaretIn DEF Entries, Boxes
<1>2. b.multi
  BY DEF Boxes
<1>3. row \in 0..(b.rows - 1) /\ DrawnCaret(e, b) = <<row, col>>
  BY <1>2 DEF DrawnCaret
<1>4. row + 1 \in 1..b.rows /\ e.scroll + (row + 1) - 1 = CaretRow(e)
  BY <1>1, <1>3
<1>5. RowStarts(e, b)[row + 1] = i
  BY <1>1, <1>4, RowsAreLines
<1>6. i \in Nat
  <2>1. e.text \in Texts /\ CaretRow(e) \in Int
    BY <1>1 DEF Entries, Texts
  <2>2. i \in 0..Len(e.text)
    BY ONLY <2>1, LineStartIn
  <2>3. Len(e.text) \in Nat
    BY <2>1 DEF Texts
  <2> QED BY <2>2, <2>3
<1>7. col = e.cursor - i
  BY DEF CaretCol
<1>8. DrawnCaret(e, b)[1] = row /\ DrawnCaret(e, b)[2] = col
  BY <1>3
<1> HIDE DEF row, col, i
<1> QED BY <1>1, <1>5, <1>6, <1>7, <1>8

\* A row that is drawn holds no more than the line it is of.
LEMMA RowIsOfLine ==
    ASSUME NEW e \in Entries, NEW b \in Boxes, NoLongLine(e, b.cols),
           e.scroll <= Cardinality(Breaks(e.text)), NEW r \in 1..b.rows,
           DrawnRows(e, b)[r] # <<>>
    PROVE  LET n == e.scroll + r - 1
           IN  /\ n \in 0..Cardinality(Breaks(e.text))
               /\ RowStarts(e, b)[r] = LineStart(e.text, n)
               /\ Len(DrawnRows(e, b)[r]) \in Nat
               /\ Len(DrawnRows(e, b)[r]) <= RestOfLine(e.text, LineStart(e.text, n))
<1> DEFINE t == e.text
           n == e.scroll + r - 1
           i == LineStart(t, n)
           last == Cardinality(Breaks(t))
           f == RowStarts(e, b)
           rest == RestOfLine(t, i)
<1>1. t \in Texts /\ Len(t) \in Nat /\ e.scroll \in Nat /\ r \in Nat /\ r > 0
      /\ b.cols \in Nat /\ last \in Nat
  BY BreaksFinite DEF Entries, Texts, Boxes
<1>2. n \in Nat
  BY <1>1
<1>3. DrawnRows(e, b)[r] = IF f[r] = -1 THEN <<>>
                           ELSE SubSeq(t, f[r] + 1, f[r] + AtMost(RestOfLine(t, f[r]), b.cols))
  BY DEF DrawnRows
<1>4. n > last => f[r] = -1
  BY RowsAreLines
<1>5. n <= last => f[r] = i
  BY RowsAreLines
<1> HIDE DEF f, n, t, last
<1>6. n <= last /\ f[r] = i
  BY <1>1, <1>2, <1>3, <1>4, <1>5
<1>7. n \in 0..last
  BY <1>1, <1>2, <1>6
<1>8. i \in Nat /\ i <= Len(t)
  BY <1>1, <1>7, CountAtStart DEF last
<1>9. rest \in 0..(Len(t) - i)
  BY <1>1, <1>8, RestIn
<1> HIDE DEF i, rest
<1> DEFINE m == AtMost(rest, b.cols)
<1>10. m \in 0..rest
  BY <1>1, <1>8, <1>9 DEF AtMost
<1>11. DrawnRows(e, b)[r] = SubSeq(t, i + 1, i + m)
  BY <1>3, <1>6, <1>8 DEF rest
<1> HIDE DEF m
<1>12. Len(SubSeq(t, i + 1, i + m)) = m
  BY <1>1, <1>8, <1>9, <1>10 DEF Texts
<1>13. Len(DrawnRows(e, b)[r]) \in Nat /\ Len(DrawnRows(e, b)[r]) <= rest
  BY <1>1, <1>8, <1>9, <1>10, <1>11, <1>12
<1> QED BY <1>6, <1>7, <1>13 DEF n, i, t, last, f, rest

\* A press on a byte that is drawn puts the caret before it, and the view stays.
LEMMA PressIsSeen ==
    ASSUME NEW e \in Entries, NEW b \in Boxes, NoLongLine(e, b.cols),
           e.scroll <= MaxScroll(e, b), NEW r \in 1..b.rows,
           NEW c \in 1..Len(DrawnRows(e, b)[r])
    PROVE  /\ Press(e, b, r - 1, c - 1).cursor = RowStarts(e, b)[r] + c - 1
           /\ Press(e, b, r - 1, c - 1).scroll = e.scroll
<1> DEFINE t == e.text
           n == e.scroll + r - 1
           i == LineStart(t, n)
           last == Cardinality(Breaks(t))
           rest == RestOfLine(t, i)
           d == Len(DrawnRows(e, b)[r])
<1>1. t \in Texts /\ Len(t) \in Nat /\ e.scroll \in Nat /\ r \in Nat /\ r > 0
      /\ r <= b.rows /\ b.rows \in Nat /\ b.rows > 0 /\ last \in Nat
  BY BreaksFinite DEF Entries, Texts, Boxes
<1>2. e.scroll <= last
  BY <1>1 DEF MaxScroll, LineCount
<1>3. DrawnRows(e, b)[r] # <<>>
  <2>1. DrawnRows(e, b)[r] = <<>> => d = 0
    OBVIOUS
  <2> QED BY <2>1
<1>4. n \in 0..last /\ RowStarts(e, b)[r] = i /\ d \in Nat /\ d <= rest
  BY <1>2, <1>3, RowIsOfLine
<1>5. n \in Nat /\ i \in Nat /\ i <= Len(t)
  BY <1>1, <1>4, CountAtStart
<1>6. rest \in 0..(Len(t) - i)
  BY <1>1, <1>5, RestIn
<1>7. c - 1 \in Nat /\ c - 1 <= rest /\ c \in Nat
  BY <1>1, <1>4, <1>5, <1>6
<1>8. AtMost(r - 1, b.rows - 1) + e.scroll = n
  BY <1>1 DEF AtMost
<1>9. AtMost(c - 1, rest) = c - 1
  BY <1>1, <1>5, <1>6, <1>7 DEF AtMost
<1>10. InLine(t, n, c - 1) = i + (c - 1)
  BY <1>9 DEF InLine
<1> DEFINE x == [e EXCEPT !.cursor = i + (c - 1), !.view = TRUE]
<1>11. Press(e, b, r - 1, c - 1) = EnsureCursorVisible(x, b)
  BY <1>8, <1>10 DEF Press, CaretTo, Boxes
<1>12. x.text = t /\ x.scroll = e.scroll /\ x.cursor = i + (c - 1)
  BY DEF Entries
<1>13. CaretRow(x) = n
  <2>1. c - 1 \in 0..rest
    BY <1>1, <1>5, <1>6, <1>7
  <2>2. Cardinality(UpTo(t, i + (c - 1))) = n
    BY ONLY <1>1, <1>4, <2>1, CountInLine
  <2> QED BY <1>12, <2>2 DEF CaretRow
<1>14. MaxScroll(x, b) = MaxScroll(e, b)
  BY <1>12 DEF MaxScroll
<1>15. EnsureCursorVisible(x, b)
       = [x EXCEPT !.scroll = Clamp(Towards(x.scroll, CaretRow(x), b.rows), 0, MaxScroll(x, b))]
  BY DEF EnsureCursorVisible, Boxes
<1>16. Towards(e.scroll, n, b.rows) = e.scroll
  BY <1>1 DEF Towards
<1>17. Clamp(e.scroll, 0, MaxScroll(e, b)) = e.scroll
  <2>1. MaxScroll(e, b) \in Nat
    BY <1>1, ScrollIn
  <2> QED BY <1>1, <2>1 DEF Clamp
<1> DEFINE y == EnsureCursorVisible(x, b)
<1>18. y.scroll = e.scroll /\ y.cursor = i + (c - 1)
  <2>1. y = [x EXCEPT !.scroll = e.scroll]
    BY <1>12, <1>13, <1>14, <1>15, <1>16, <1>17
  <2> HIDE DEF y
  <2> QED BY <2>1 DEF Entries
<1> HIDE DEF x, y
<1> QED BY <1>4, <1>5, <1>7, <1>11, <1>18 DEF y

-----------------------------------------------------------------------------
(* The window.                                                             *)

\* What the parts of a state are.
LEMMA StateIs ==
    ASSUME NEW n \in States
    PROVE  /\ n.ed \in Entries /\ n.bar \in Bars /\ n.dlg \in Dialogs
           /\ n.btn \in [Kinds -> [hot : BOOLEAN, stage : Stages]]
           /\ n.size \in Rows /\ n.cols \in {WideCols, WideCols - BarCols}
           /\ n.file \in Files \cup {Missing} /\ n.place \in Places
           /\ n.star \in BOOLEAN /\ n.dirty \in BOOLEAN /\ n.down \in BOOLEAN
           /\ n.ed.text \in Texts /\ LineCount(n.ed.text) \in Nat
           /\ n.size \in Nat \ {0} /\ n.cols \in Nat
           /\ TextBox(n) \in Boxes
<1>1. /\ n.ed \in Entries /\ n.bar \in Bars /\ n.dlg \in Dialogs
      /\ n.btn \in [Kinds -> [hot : BOOLEAN, stage : Stages]]
      /\ n.size \in Rows /\ n.cols \in {WideCols, WideCols - BarCols}
      /\ n.file \in Files \cup {Missing} /\ n.place \in Places
      /\ n.star \in BOOLEAN /\ n.dirty \in BOOLEAN /\ n.down \in BOOLEAN
  BY DEF States
<1>2. n.ed.text \in Texts
  BY <1>1 DEF Entries, Texts
<1>3. LineCount(n.ed.text) \in Nat
  BY <1>2, BreaksFinite DEF LineCount
<1>4. n.size \in Nat \ {0}
  BY <1>1, NotepadAssumption
<1>5. n.cols \in Nat
  BY <1>1, NotepadAssumption
<1>6. TextBox(n) \in Boxes
  BY <1>4, <1>5 DEF TextBox, Boxes
<1> QED BY <1>1, <1>2, <1>3, <1>4, <1>5, <1>6

\* What a change of some of the fields keeps.
LEMMA WithIs ==
    ASSUME NEW n \in States
    PROVE  /\ \A e \in Entries : [n EXCEPT !.ed = e] \in States
           /\ \A b \in Bars : [n EXCEPT !.bar = b] \in States
           /\ \A d \in Dialogs : [n EXCEPT !.dlg = d] \in States
           /\ \A c \in {"text", "field", "button"} : [n EXCEPT !.focus = c] \in States
           /\ \A c \in BOOLEAN : [n EXCEPT !.dirty = c] \in States
           /\ \A c \in BOOLEAN : [n EXCEPT !.star = c] \in States
           /\ \A c \in BOOLEAN : [n EXCEPT !.run = c] \in States
           /\ \A c \in Rows : [n EXCEPT !.size = c] \in States
           /\ \A p \in Places, c \in BOOLEAN : [n EXCEPT !.place = p, !.down = c] \in States
  BY DEF States

\* The text, the file it is of and what is known of the two are left alone.
Kept(n, m) == /\ m.ed.text = n.ed.text /\ m.ed.changed = n.ed.changed
              /\ m.file = n.file /\ m.star = n.star

\* A file has been opened.
Opened(m) == m.ed.text = AsLoaded(m.file) /\ ~m.star /\ ~m.ed.changed

\* A dialog is or was open: it may close, and its file be opened.
Answered(n, m) == /\ m.dlg.kind \in {n.dlg.kind, "none"}
                  /\ Kept(n, m) \/ (n.dlg.kind = "open" /\ Opened(m))

\* The bar keeps its value in its range, whatever it is set to.
LEMMA BarSet ==
    ASSUME NEW b \in Bars
    PROVE  /\ \A r, p \in Nat : SetRange(b, r, p) \in Bars
           /\ \A v \in Int : SetValue(b, v) \in Bars
           /\ \A v \in Int : SetValue(b, v) = [b EXCEPT !.value = SetValue(b, v).value]
           /\ BarMax(b) \in Nat
<1>1. b.range \in Nat /\ b.page \in Nat /\ b.value \in Nat
  BY DEF Bars
<1>2. BarMax(b) \in Nat
  BY <1>1 DEF BarMax
<1>3. ASSUME NEW r \in Nat, NEW p \in Nat PROVE SetRange(b, r, p) \in Bars
  <2> DEFINE to == [b EXCEPT !.range = r, !.page = p, !.shown = r > p]
             v == AtMost(b.value, BarMax(to))
  <2>1. to.range = r /\ to.page = p /\ to.value = b.value
    BY DEF Bars
  <2>2. BarMax(to) \in Nat /\ BarMax(to) = IF r > p THEN r - p ELSE 0
    BY <2>1 DEF BarMax
  <2>3. v \in Nat /\ v <= BarMax(to)
    BY <1>1, <2>2 DEF AtMost
  <2>4. SetRange(b, r, p) = [b EXCEPT !.range = r, !.page = p, !.shown = r > p, !.value = v]
    BY <2>1 DEF SetRange, Bars
  <2> HIDE DEF v, to
  <2>5. SetRange(b, r, p).range = r /\ SetRange(b, r, p).page = p
        /\ SetRange(b, r, p).value = v /\ SetRange(b, r, p).shown = (r > p)
    BY <2>4 DEF Bars
  <2>6. BarMax(SetRange(b, r, p)) = BarMax(to)
    BY <2>1, <2>5 DEF BarMax
  <2>7. SetRange(b, r, p) \in [value : Nat, range : Nat, page : Nat, shown : BOOLEAN,
            drag : Int, arrow : -1..1, track : -1..1, changed : BOOLEAN]
    <3>1. b \in [value : Nat, range : Nat, page : Nat, shown : BOOLEAN,
                 drag : Int, arrow : -1..1, track : -1..1, changed : BOOLEAN]
      BY DEF Bars
    <3>2. (r > p) \in BOOLEAN
      OBVIOUS
    <3> QED BY ONLY <2>3, <2>4, <3>1, <3>2, r \in Nat, p \in Nat
  <2> QED BY <2>3, <2>5, <2>6, <2>7 DEF Bars
<1>4. ASSUME NEW v \in Int
      PROVE  SetValue(b, v) \in Bars /\ SetValue(b, v) = [b EXCEPT !.value = SetValue(b, v).value]
  <2> DEFINE x == Clamp(v, 0, BarMax(b))
  <2>1. x \in Nat /\ x <= BarMax(b)
    BY <1>2 DEF Clamp
  <2>2. SetValue(b, v) = [b EXCEPT !.value = x]
    BY DEF SetValue
  <2> HIDE DEF x
  <2>3. BarMax([b EXCEPT !.value = x]) = BarMax(b)
    BY DEF BarMax, Bars
  <2> QED BY <2>1, <2>2, <2>3 DEF Bars
<1> QED BY <1>2, <1>3, <1>4

\* Following the text changes the bar alone.
LEMMA FollowIs ==
    ASSUME NEW n \in States
    PROVE  \E b \in Bars : FollowText(n) = [n EXCEPT !.bar = b]
<1>1. SetRange(n.bar, LineCount(n.ed.text), n.size) \in Bars
  BY StateIs, BarSet
<1>2. n.ed.scroll \in Int
  BY StateIs DEF Entries
<1>3. SetValue(SetRange(n.bar, LineCount(n.ed.text), n.size), n.ed.scroll) \in Bars
  BY <1>1, <1>2, BarSet
<1> QED BY <1>3 DEF FollowText

\* The text gets another width, and the bar follows it.
Laid(n, c) == FollowText([n EXCEPT !.cols = c])

\* That changes the bar and the width of the text.
LEMMA LaidIs ==
    ASSUME NEW n \in States, NEW c \in {WideCols, WideCols - BarCols}
    PROVE  /\ Laid(n, c) \in States /\ Kept(n, Laid(n, c))
           /\ Laid(n, c).dirty = n.dirty /\ Laid(n, c).dlg = n.dlg
<1> DEFINE x == [n EXCEPT !.cols = c]
<1>1. x \in States
  BY DEF States
<1>2. Laid(n, c) = FollowText(x)
  BY DEF Laid
<1>3. Kept(n, x) /\ x.dirty = n.dirty /\ x.dlg = n.dlg
  BY DEF Kept, States
<1> HIDE DEF x
<1>4. PICK b \in Bars : Laid(n, c) = [x EXCEPT !.bar = b]
  BY <1>1, <1>2, FollowIs
<1>5. [x EXCEPT !.bar = b] \in States
  BY <1>1, WithIs
<1>6. Kept(x, [x EXCEPT !.bar = b]) /\ [x EXCEPT !.bar = b].dirty = x.dirty
      /\ [x EXCEPT !.bar = b].dlg = x.dlg
  BY <1>1 DEF Kept, States
<1> QED BY <1>3, <1>4, <1>5, <1>6 DEF Kept

\* The layout changes the bar and the width of the text.
LEMMA LayoutIs ==
    ASSUME NEW n \in States
    PROVE  /\ Layout(n) \in States /\ Kept(n, Layout(n))
           /\ Layout(n).dirty = n.dirty /\ Layout(n).dlg = n.dlg
<1>1. PICK c \in {WideCols, WideCols - BarCols} : Width(n) = c
  BY DEF Width
<1>2. Layout(n) = Laid(n, c)
  BY <1>1 DEF Layout, Laid
<1> QED BY <1>2, LaidIs

-----------------------------------------------------------------------------
(* Files and dialogs.                                                      *)

\* A file is opened: its text, and no star.
LEMMA LoadIs ==
    ASSUME NEW n \in States, NEW f \in Files \cup {Missing}
    PROVE  /\ Load(n, f) \in States /\ Opened(Load(n, f))
           /\ Load(n, f).dlg = n.dlg /\ Load(n, f).file = f
<1> DEFINE s == IF f \in Files THEN Contents[f] ELSE <<>>
           e == SetText(n.ed, TextBox(n), s)
<1>1. s \in Texts
  BY NotepadAssumption DEF Texts
<1>2. SubSeq(s, 1, AtMost(Len(s), Cap - 1)) = AsLoaded(f)
  <2>1. CASE f \in Files
    BY <2>1 DEF AsLoaded
  <2>2. CASE f \notin Files
    <3>1. s = <<>> /\ AtMost(Len(s), Cap - 1) = 0
      BY <2>2, CapIs DEF AtMost
    <3>2. SubSeq(s, 1, 0) = <<>>
      BY <3>1
    <3> QED BY <2>2, <3>1, <3>2 DEF AsLoaded
  <2> QED BY <2>1, <2>2
<1>3. Load(n, f) = [n EXCEPT !.file = f, !.star = FALSE, !.ed = e]
  BY DEF Load
<1> HIDE DEF s
<1>4. e \in Entries /\ e.text = AsLoaded(f) /\ ~e.changed
  <2>1. TextBox(n) \in Boxes
    BY StateIs
  <2> QED BY ONLY <1>1, <1>2, <2>1, SetTextIs DEF e
<1> HIDE DEF e
<1> QED BY <1>3, <1>4 DEF States, Opened

\* The directory of a file is one.
LEMMA DirOfIs ==
    ASSUME NEW f \in Files \cup {Missing}
    PROVE  DirOf(f) \in Dirs
  BY NotepadAssumption DEF DirOf

\* A list that is filled anew has nothing chosen.
LEMMA RefreshIs ==
    ASSUME NEW d \in Dialogs, NEW dir \in Dirs
    PROVE  /\ Refresh(d, dir) \in Dialogs /\ Refresh(d, dir).kind = d.kind
           /\ \A k \in Kinds : [Refresh(d, dir) EXCEPT !.kind = k] \in Dialogs
           /\ [d EXCEPT !.kind = "none", !.dir = Top, !.sel = 0] \in Dialogs
<1>1. \A x \in Dirs : Len(Listing[x]) \in Nat
  BY NotepadAssumption
<1>2. Top \in Dirs
  BY NotepadAssumption
<1> DEFINE r == Refresh(d, dir)
<1>3. r = [d EXCEPT !.dir = dir, !.sel = 0]
  BY DEF Refresh
<1> DEFINE all == [kind : Kinds \cup {"none"}, dir : Dirs, sel : Nat, was : BOOLEAN,
                   stage : [Kinds -> [DlgButtons -> Stages]]]
           h == [d EXCEPT !.kind = "none", !.dir = Top, !.sel = 0]
<1> HIDE DEF r
<1>0. d \in all
  BY DEF Dialogs
<1>4. r \in Dialogs /\ r.kind = d.kind
  <2>1. r \in all /\ r.sel = 0 /\ r.dir = dir /\ r.kind = d.kind
    BY <1>0, <1>3
  <2> QED BY <1>1, <2>1 DEF Dialogs
<1>5. h \in Dialogs
  <2>1. h \in all /\ h.sel = 0 /\ h.dir = Top
    BY <1>0, <1>2
  <2> HIDE DEF h
  <2> QED BY <1>1, <1>2, <2>1 DEF Dialogs
<1>6. \A k \in Kinds : [r EXCEPT !.kind = k] \in Dialogs
  BY <1>4 DEF Dialogs
<1> QED BY <1>4, <1>5, <1>6 DEF r

\* A dialog is opened.
LEMMA ShowIs ==
    ASSUME NEW n \in States, NEW k \in Kinds
    PROVE  /\ Show(n, k) \in States /\ Kept(n, Show(n, k)) /\ Show(n, k).dirty
           /\ Show(n, k).btn = n.btn
<1> DEFINE d == [Refresh(n.dlg, DirOf(n.file)) EXCEPT !.kind = k]
<1>1. d \in Dialogs
  BY StateIs, DirOfIs, RefreshIs
<1>2. Show(n, k) = [n EXCEPT !.dlg = d, !.focus = "field", !.dirty = TRUE]
  BY DEF Show, Redraw, States
<1> HIDE DEF d
<1> QED BY <1>1, <1>2 DEF States, Kept

\* A dialog is closed.
LEMMA HideIs ==
    ASSUME NEW n \in States
    PROVE  /\ Hide(n) \in States /\ Kept(n, Hide(n)) /\ Hide(n).dlg.kind = "none"
           /\ Hide(n).dirty = n.dirty
<1> DEFINE d == [n.dlg EXCEPT !.kind = "none", !.dir = Top, !.sel = 0]
<1>1. d \in Dialogs
  <2>1. Top \in Dirs
    BY NotepadAssumption
  <2> QED BY <2>1, StateIs, RefreshIs
<1>2. d.kind = "none"
  BY StateIs DEF Dialogs
<1>3. Hide(n) = [n EXCEPT !.dlg = d]
  BY DEF Hide, States
<1> HIDE DEF d
<1> QED BY <1>1, <1>2, <1>3 DEF States, Kept

\* Asking for a redraw changes nothing else.
LEMMA RedrawIs ==
    ASSUME NEW n \in States
    PROVE  /\ Redraw(n) \in States /\ Kept(n, Redraw(n)) /\ Redraw(n).dirty
           /\ Redraw(n).dlg = n.dlg /\ (Opened(n) => Opened(Redraw(n)))
  BY DEF Redraw, States, Kept, Opened

\* Another entry of the list is selected.
LEMMA SelectIs ==
    ASSUME NEW n \in States, NEW i \in 0..Len(Listing[n.dlg.dir])
    PROVE  /\ [n EXCEPT !.dlg.sel = i] \in States
           /\ Kept(n, [n EXCEPT !.dlg.sel = i])
           /\ [n EXCEPT !.dlg.sel = i].dlg = [n.dlg EXCEPT !.sel = i]
           /\ [n EXCEPT !.dlg.sel = i].dirty = n.dirty
<1> DEFINE d == [n.dlg EXCEPT !.sel = i]
<1>1. n.dlg \in Dialogs
  BY StateIs
<1>2. d \in Dialogs
  <2> DEFINE all == [kind : Kinds \cup {"none"}, dir : Dirs, sel : Nat, was : BOOLEAN,
                     stage : [Kinds -> [DlgButtons -> Stages]]]
  <2>1. n.dlg \in all
    BY <1>1 DEF Dialogs
  <2>2. i \in Nat /\ i <= Len(Listing[n.dlg.dir])
    <3>1. Len(Listing[n.dlg.dir]) \in Nat
      BY <2>1, NotepadAssumption
    <3> QED BY <3>1
  <2>3. d \in all /\ d.sel = i /\ d.dir = n.dlg.dir
    BY <2>1, <2>2
  <2> HIDE DEF d
  <2> QED BY <2>2, <2>3 DEF Dialogs
<1>3. [n EXCEPT !.dlg.sel = i] = [n EXCEPT !.dlg = d]
  BY DEF States
<1> HIDE DEF d
<1>4. [n EXCEPT !.dlg = d] \in States
  BY <1>2, WithIs
<1>5. Kept(n, [n EXCEPT !.dlg = d]) /\ [n EXCEPT !.dlg = d].dlg = d
      /\ [n EXCEPT !.dlg = d].dirty = n.dirty
  BY DEF States, Kept
<1> QED BY <1>3, <1>4, <1>5 DEF d

\* An entry of the list is chosen: the dialog closes only with a file opened.
LEMMA ChooseIs ==
    ASSUME NEW n \in States, n.dlg.kind # "none", NEW i \in 1..Len(Listing[n.dlg.dir])
    PROVE  /\ Choose(n, i) \in States /\ Answered(n, Choose(n, i))
           /\ n.dirty => Choose(n, i).dirty
<1> DEFINE c == Listing[n.dlg.dir][i]
<1>1. n.dlg \in Dialogs /\ n.dlg.kind \in Kinds \cup {"none"} /\ n.dlg.dir \in Dirs
  BY StateIs DEF Dialogs
<1>2. c \in Dirs \cup Files
  <2>1. Listing[n.dlg.dir] \in Seq(Dirs \cup Files)
    BY <1>1, NotepadAssumption
  <2> QED BY <2>1
<1>3. Choose(n, i) = IF c \in Dirs THEN [n EXCEPT !.dlg = Refresh(n.dlg, c)]
                     ELSE IF n.dlg.kind = "save" THEN n
                     ELSE Hide(Redraw(Load(n, c)))
  BY DEF Choose, States
<1> HIDE DEF c
<1>4. CASE c \in Dirs
  <2> DEFINE d == Refresh(n.dlg, c)
  <2>1. d \in Dialogs /\ d.kind = n.dlg.kind
    BY <1>1, <1>4, RefreshIs
  <2> HIDE DEF d
  <2>2. Choose(n, i) = [n EXCEPT !.dlg = d]
    BY <1>3, <1>4 DEF d
  <2>3. [n EXCEPT !.dlg = d] \in States
    BY <2>1, WithIs
  <2> QED BY <2>1, <2>2, <2>3 DEF States, Kept, Answered
<1>5. CASE c \notin Dirs /\ n.dlg.kind = "save"
  BY <1>3, <1>5 DEF Kept, Answered
<1>6. CASE c \notin Dirs /\ n.dlg.kind # "save"
  <2> DEFINE l == Load(n, c)
             r == Redraw(l)
             h == Hide(r)
  <2>1. n.dlg.kind = "open"
    BY <1>1, <1>6 DEF Kinds
  <2>2. c \in Files \cup {Missing}
    BY <1>2, <1>6
  <2>3. l \in States /\ Opened(l)
    BY <2>2, LoadIs
  <2> HIDE DEF l
  <2>4. r \in States /\ Opened(r) /\ r.dirty
    BY <2>3, RedrawIs
  <2> HIDE DEF r
  <2>5. h \in States /\ Kept(r, h) /\ h.dlg.kind = "none" /\ h.dirty
    BY <2>4, HideIs
  <2> HIDE DEF h
  <2>6. Choose(n, i) = h
    BY <1>3, <1>6 DEF h, r, l
  <2> QED BY <2>1, <2>4, <2>5, <2>6 DEF Answered, Opened, Kept
<1> QED BY <1>4, <1>5, <1>6

\* A dialog that was left alone and is then answered is answered.
LEMMA AnsweredTwice ==
    ASSUME NEW n, NEW m, NEW w, Answered(n, m), Answered(m, w)
    PROVE  Answered(n, w)
  BY DEF Answered, Kept, Opened

\* A key of an open dialog.
LEMMA DialogKeyIs ==
    ASSUME NEW n \in States, n.dlg.kind # "none", NEW k
    PROVE  DialogKey(n, k) \in States /\ Answered(n, DialogKey(n, k))
<1>1. CASE k = "esc"
  BY <1>1, HideIs DEF DialogKey, Answered
<1>2. CASE k # "esc"
  <2> DEFINE last == Len(Listing[n.dlg.dir])
  <2>1. n.dlg.dir \in Dirs /\ n.dlg.sel \in Nat /\ n.dlg.sel <= last
    BY StateIs DEF Dialogs
  <2>2. last \in Nat
    BY <2>1, NotepadAssumption
  <2>3. Answered(n, n)
    BY DEF Answered, Kept
  <2>4. ASSUME NEW i \in 0..last
        PROVE  [n EXCEPT !.dlg.sel = i] \in States /\ Answered(n, [n EXCEPT !.dlg.sel = i])
    <3>1. n.dlg \in Dialogs
      BY StateIs
    <3>2. [n.dlg EXCEPT !.sel = i].kind = n.dlg.kind
      BY <3>1 DEF Dialogs
    <3> QED BY <3>2, SelectIs DEF Answered
  <2>5. n.dlg.sel > 0 => Choose(n, n.dlg.sel) \in States /\ Answered(n, Choose(n, n.dlg.sel))
    BY <2>1, <2>2, ChooseIs
  <2>6. DialogKey(n, k) = ListKey(n, k)
    BY <1>2 DEF DialogKey
  <2>7. CASE last = 0
    BY <2>3, <2>6, <2>7 DEF ListKey
  <2>8. CASE last # 0 /\ k = "up"
    <3> DEFINE i == IF n.dlg.sel > 1 THEN n.dlg.sel - 1 ELSE 1
    <3>1. i \in 0..last
      BY <2>1, <2>2, <2>8
    <3>2. ListKey(n, k) = [n EXCEPT !.dlg.sel = i]
      BY <2>8 DEF ListKey, States
    <3> HIDE DEF i
    <3> QED BY <2>4, <2>6, <3>1, <3>2
  <2>9. CASE last # 0 /\ k = "down"
    <3> DEFINE i == AtMost(n.dlg.sel + 1, last)
    <3>1. i \in 0..last
      BY <2>1, <2>2, <2>9 DEF AtMost
    <3>2. ListKey(n, k) = [n EXCEPT !.dlg.sel = i]
      BY <2>9 DEF ListKey, States
    <3> HIDE DEF i
    <3> QED BY <2>4, <2>6, <3>1, <3>2
  <2>10. CASE last # 0 /\ k = "enter"
    BY <2>3, <2>5, <2>6, <2>10 DEF ListKey
  <2>11. CASE last # 0 /\ k \notin {"up", "down", "enter"}
    BY <2>3, <2>6, <2>11 DEF ListKey
  <2> QED BY <2>7, <2>8, <2>9, <2>10, <2>11
<1> QED BY <1>1, <1>2

\* What is below the dialog and the state of its widgets are apart.
LEMMA WidgetsAre ==
    ASSUME NEW n \in States, NEW d \in Dialogs, d.kind = n.dlg.kind,
           NEW c \in {"text", "field", "button"}
    PROVE  /\ [n EXCEPT !.focus = c, !.dlg = d] \in States
           /\ Answered(n, [n EXCEPT !.focus = c, !.dlg = d])
  BY DEF States, Answered, Kept

\* The pointer on the list.
LEMMA ListInputIs ==
    ASSUME NEW n \in States, n.dlg.kind # "none", NEW p \in Places, NEW down \in BOOLEAN
    PROVE  ListInput(n, p, down) \in States /\ Answered(n, ListInput(n, p, down))
<1> DEFINE i == IF p.dlg \in {"row1", "row2"} THEN IF p.dlg = "row1" THEN 1 ELSE 2 ELSE 0
           over == i \in 1..Len(Listing[n.dlg.dir])
           at == IF over THEN [n EXCEPT !.dlg.sel = i] ELSE n
           chosen == IF over /\ down /\ ~n.dlg.was THEN Choose(at, i) ELSE at
           d == [chosen.dlg EXCEPT !.was = down]
<1>1. ListInput(n, p, down) = [chosen EXCEPT !.dlg.was = down]
  BY DEF ListInput
<1>2. n.dlg \in Dialogs /\ n.dlg.dir \in Dirs
  BY StateIs DEF Dialogs
<1>3. Len(Listing[n.dlg.dir]) \in Nat
  BY <1>2, NotepadAssumption
<1>4. at \in States /\ Answered(n, at) /\ at.dlg.kind = n.dlg.kind /\ at.dlg.dir = n.dlg.dir
  <2>1. CASE over
    <3>1. i \in 0..Len(Listing[n.dlg.dir])
      BY <1>3, <2>1
    <3> HIDE DEF i
    <3>2. [n.dlg EXCEPT !.sel = i].kind = n.dlg.kind /\ [n.dlg EXCEPT !.sel = i].dir = n.dlg.dir
      BY <1>2 DEF Dialogs
    <3> QED BY <2>1, <3>1, <3>2, SelectIs DEF Answered
  <2>2. CASE ~over
    BY <2>2 DEF Answered, Kept
  <2> QED BY <2>1, <2>2
<1> HIDE DEF at
<1>5. chosen \in States /\ Answered(n, chosen)
  <2>1. CASE over /\ down /\ ~n.dlg.was
    <3>1. i \in 1..Len(Listing[at.dlg.dir]) /\ at.dlg.kind # "none"
      BY <1>4, <2>1
    <3> HIDE DEF i
    <3>2. Choose(at, i) \in States /\ Answered(at, Choose(at, i))
      BY <1>4, <3>1, ChooseIs
    <3> QED BY <1>4, <2>1, <3>2, AnsweredTwice
  <2>2. CASE ~(over /\ down /\ ~n.dlg.was)
    BY <1>4, <2>2
  <2> QED BY <2>1, <2>2
<1> HIDE DEF chosen
<1>6. d \in Dialogs /\ d.kind = chosen.dlg.kind
  BY <1>5, StateIs DEF Dialogs
<1>7. [chosen EXCEPT !.dlg.was = down] = [chosen EXCEPT !.dlg = d]
  BY <1>5 DEF States
<1> HIDE DEF d
<1>8. [chosen EXCEPT !.dlg = d] \in States /\ Answered(chosen, [chosen EXCEPT !.dlg = d])
  BY <1>5, <1>6 DEF States, Answered, Kept
<1> QED BY <1>1, <1>5, <1>7, <1>8, AnsweredTwice

\* A button is in one of its stages.
LEMMA StageIs ==
    ASSUME NEW s \in Stages, NEW hit \in BOOLEAN, NEW down \in BOOLEAN
    PROVE  ButtonStage(s, hit, down) \in Stages
  BY DEF ButtonStage, Stages

\* The pointer on a dialog: the list, the path field and both buttons.
LEMMA DialogInputIs ==
    ASSUME NEW n \in States, n.dlg.kind # "none", NEW p \in Places, NEW down \in BOOLEAN
    PROVE  /\ DialogInput(n, p, down) \in States /\ Answered(n, DialogInput(n, p, down))
           /\ DialogInput(n, p, down).dirty
<1> DEFINE kind == n.dlg.kind
           l == ListInput(n, p, down)
           f == IF down /\ p.dlg = "path" THEN [l EXCEPT !.focus = "field"] ELSE l
           To(x, b) == ButtonStage(x.dlg.stage[kind][b], p.dlg = b, down)
           Take(x, b) ==
              [x EXCEPT !.focus = IF To(x, b) = "held" /\ x.dlg.stage[kind][b] = "idle"
                                  THEN "button" ELSE @,
                        !.dlg.stage[kind][b] = To(x, b)]
<1>1. DialogInput(n, p, down) = Redraw(Take(Take(f, "ok"), "cancel"))
  BY DEF DialogInput
<1>2. kind \in Kinds
  BY StateIs DEF Dialogs
<1>3. l \in States /\ Answered(n, l)
  BY ListInputIs
<1> HIDE DEF l, kind
<1>4. f \in States /\ Answered(l, f)
  <2>1. [l EXCEPT !.focus = "field"] \in States /\ Answered(l, [l EXCEPT !.focus = "field"])
    BY <1>3 DEF States, Answered, Kept
  <2>2. Answered(l, l)
    BY DEF Answered, Kept
  <2> QED BY <1>3, <2>1, <2>2
<1> HIDE DEF f
<1>5. ASSUME NEW x \in States, NEW b \in DlgButtons
      PROVE  Take(x, b) \in States /\ Answered(x, Take(x, b))
  <2> DEFINE s == To(x, b)
             c == IF s = "held" /\ x.dlg.stage[kind][b] = "idle" THEN "button" ELSE x.focus
             d == [x.dlg EXCEPT !.stage[kind][b] = s]
  <2>1. x.dlg \in Dialogs /\ x.dlg.stage \in [Kinds -> [DlgButtons -> Stages]]
    BY StateIs DEF Dialogs
  <2>2. s \in Stages
    BY <1>2, <2>1, StageIs
  <2>3. c \in {"text", "field", "button"}
    BY DEF States
  <2>4. Take(x, b) = [x EXCEPT !.focus = c, !.dlg = d]
    BY DEF States
  <2> HIDE DEF s, c
  <2>5. d \in Dialogs /\ d.kind = x.dlg.kind
    BY <1>2, <2>1, <2>2 DEF Dialogs
  <2> HIDE DEF d
  <2>6. Take(x, b) \in States /\ Answered(x, Take(x, b))
    <3> DEFINE m == [x EXCEPT !.focus = c, !.dlg = d]
    <3>1. m \in States /\ Answered(x, m)
      BY ONLY x \in States, <2>3, <2>5, WidgetsAre
    <3> QED BY ONLY <2>4, <3>1
  <2> QED BY <2>6
<1> DEFINE g == Take(f, "ok")
           h == Take(g, "cancel")
<1> HIDE DEF Take
<1>6. g \in States /\ Answered(f, g)
  BY <1>4, <1>5 DEF DlgButtons
<1> HIDE DEF g
<1>7. h \in States /\ Answered(g, h)
  BY <1>5, <1>6 DEF DlgButtons
<1> HIDE DEF h
<1>8. Answered(n, h)
  BY <1>3, <1>4, <1>6, <1>7, AnsweredTwice
<1>9. Redraw(h) \in States /\ Answered(h, Redraw(h)) /\ Redraw(h).dirty
  BY <1>7, RedrawIs DEF Answered
<1>10. DialogInput(n, p, down) = Redraw(h)
  BY <1>1 DEF g, h
<1> QED BY <1>8, <1>9, <1>10, AnsweredTwice

-----------------------------------------------------------------------------
(* The widgets below.                                                      *)

\* A step of the turn that leaves the text alone, and asks for a redraw if it
\* changes what the window shows.
Quiet(n, m) == /\ m \in States /\ Kept(n, m)
               /\ (n.dirty => m.dirty)
               /\ m.dirty \/ Look(m) = Look(n)

\* What the window shows depends on these parts of the state alone.
LEMMA LookIs ==
    ASSUME NEW n, NEW m, m.ed = n.ed, m.bar = n.bar, m.dlg = n.dlg,
           m.btn["save"] = n.btn["save"], m.focus = n.focus, m.star = n.star,
           m.size = n.size, m.cols = n.cols
    PROVE  Look(m) = Look(n)
<1>1. TextBox(m) = TextBox(n)
  BY DEF TextBox
<1>2. ThumbTop(m) = ThumbTop(n) /\ ThumbLen(m) = ThumbLen(n)
  BY DEF ThumbTop, ThumbLen, Track
<1> QED BY <1>1, <1>2 DEF Look

\* Two widgets that ask for what they change do so together.
LEMMA QuietTwice ==
    ASSUME NEW n, NEW m, NEW w, Quiet(n, m), Quiet(m, w)
    PROVE  Quiet(n, w)
  BY DEF Quiet, Kept

\* A tool button.
LEMMA ToolInputIs ==
    ASSUME NEW n \in States, NEW b \in Kinds, NEW p \in Places, NEW down \in BOOLEAN
    PROVE  LET m == ToolInput(n, b, p, down)
           IN  /\ m \in States /\ Kept(n, m) /\ (n.dirty => m.dirty)
               /\ \A o \in Kinds : o # b => m.btn[o] = n.btn[o]
               /\ m.dirty \/ /\ m.ed = n.ed /\ m.bar = n.bar /\ m.dlg = n.dlg
                             /\ m.star = n.star /\ m.size = n.size /\ m.cols = n.cols
                             /\ \/ m.focus = n.focus
                                \/ n.btn[b].stage = "idle" /\ m.btn[b].stage = "held"
<1> DEFINE hit == p.at = b
           to == ButtonStage(n.btn[b].stage, hit, down)
           c == IF to = "held" /\ n.btn[b].stage = "idle" THEN "button" ELSE n.focus
           taken == [n EXCEPT !.focus = c, !.btn[b] = [hot |-> hit, stage |-> to]]
           shown == Show(taken, b)
           m == ToolInput(n, b, p, down)
<1>1. m = IF to = "clicked" THEN [shown EXCEPT !.btn[b].stage = "idle"] ELSE taken
  BY DEF ToolInput, States
<1>2. n.btn \in [Kinds -> [hot : BOOLEAN, stage : Stages]] /\ hit \in BOOLEAN
  BY StateIs
<1>3. to \in Stages
  BY <1>2, StageIs
<1>4. c \in {"text", "field", "button"} /\ (c # n.focus => to = "held" /\ n.btn[b].stage = "idle")
  BY DEF States
<1> HIDE DEF to, c, hit
<1>5. [n.btn EXCEPT ![b] = [hot |-> hit, stage |-> to]] \in [Kinds -> [hot : BOOLEAN, stage : Stages]]
  BY <1>2, <1>3
<1>6. taken \in States /\ Kept(n, taken) /\ taken.dirty = n.dirty
  BY <1>4, <1>5 DEF States, Kept
<1>7. taken.btn = [n.btn EXCEPT ![b] = [hot |-> hit, stage |-> to]] /\ taken.focus = c
      /\ taken.ed = n.ed /\ taken.bar = n.bar /\ taken.dlg = n.dlg
      /\ taken.star = n.star /\ taken.size = n.size /\ taken.cols = n.cols
  BY DEF States
<1>8. taken.btn[b].stage = to /\ \A o \in Kinds : o # b => taken.btn[o] = n.btn[o]
  BY <1>2, <1>7
<1> HIDE DEF taken
<1>9. CASE to = "clicked"
  <2>1. shown \in States /\ Kept(taken, shown) /\ shown.dirty /\ shown.btn = taken.btn
    BY <1>6, ShowIs
  <2> HIDE DEF shown
  <2>2. m = [shown EXCEPT !.btn[b].stage = "idle"]
    BY <1>1, <1>9
  <2>3. shown.btn \in [Kinds -> [hot : BOOLEAN, stage : Stages]]
    BY <2>1, StateIs
  <2>4. [shown.btn EXCEPT ![b].stage = "idle"] \in [Kinds -> [hot : BOOLEAN, stage : Stages]]
        /\ \A o \in Kinds : o # b => [shown.btn EXCEPT ![b].stage = "idle"][o] = shown.btn[o]
    BY <2>3 DEF Stages
  <2> DEFINE x == [shown.btn EXCEPT ![b].stage = "idle"]
  <2>5. m = [shown EXCEPT !.btn = x]
    BY <2>1, <2>2 DEF States
  <2> HIDE DEF x, m
  <2>6. m \in States /\ Kept(shown, m) /\ m.dirty /\ m.btn = x
    BY <2>1, <2>4, <2>5 DEF States, Kept, x
  <2>7. \A o \in Kinds : o # b => m.btn[o] = n.btn[o]
    BY <1>8, <2>1, <2>4, <2>6 DEF x
  <2>8. Kept(n, m)
    BY <1>6, <2>1, <2>6 DEF Kept
  <2> QED BY <2>6, <2>7, <2>8 DEF m
<1>10. CASE to # "clicked"
  <2>1. m = taken
    BY <1>1, <1>10
  <2> HIDE DEF m
  <2>2. m \in States /\ Kept(n, m) /\ m.dirty = n.dirty
    BY <1>6, <2>1
  <2>3. m.ed = n.ed /\ m.bar = n.bar /\ m.dlg = n.dlg
        /\ m.star = n.star /\ m.size = n.size /\ m.cols = n.cols /\ m.focus = c
    BY <1>7, <2>1
  <2>4. m.focus = n.focus \/ (n.btn[b].stage = "idle" /\ m.btn[b].stage = "held")
    BY <1>4, <1>8, <2>1, <2>3
  <2>5. \A o \in Kinds : o # b => m.btn[o] = n.btn[o]
    BY <1>8, <2>1
  <2> QED BY <2>2, <2>3, <2>4, <2>5 DEF m
<1> QED BY <1>9, <1>10

\* Both tool buttons: the Save button asks for a redraw when it changes.
LEMMA ToolsInputIs ==
    ASSUME NEW n \in States, NEW p \in Places, NEW down \in BOOLEAN
    PROVE  Quiet(n, ToolsInput(n, p, down))
<1> DEFINE o == ToolInput(n, "open", p, down)
           s == ToolInput(o, "save", p, down)
<1>1. "open" \in Kinds /\ "save" \in Kinds
  BY DEF Kinds
<1>2. ToolsInput(n, p, down)
      = IF s.btn["save"] # n.btn["save"] \/ s.btn["open"].hot \/ s.btn["open"].stage # "idle"
        THEN Redraw(s) ELSE s
  BY DEF ToolsInput
<1>3. /\ o \in States /\ Kept(n, o) /\ (n.dirty => o.dirty)
      /\ o.btn["save"] = n.btn["save"]
      /\ o.dirty \/ /\ o.ed = n.ed /\ o.bar = n.bar /\ o.dlg = n.dlg
                    /\ o.star = n.star /\ o.size = n.size /\ o.cols = n.cols
                    /\ o.focus = n.focus \/ o.btn["open"].stage = "held"
  BY <1>1, ToolInputIs
<1> HIDE DEF o
<1>4. /\ s \in States /\ Kept(o, s) /\ (o.dirty => s.dirty)
      /\ s.btn["open"] = o.btn["open"]
      /\ s.dirty \/ /\ s.ed = o.ed /\ s.bar = o.bar /\ s.dlg = o.dlg
                    /\ s.star = o.star /\ s.size = o.size /\ s.cols = o.cols
                    /\ \/ s.focus = o.focus
                       \/ o.btn["save"].stage = "idle" /\ s.btn["save"].stage = "held"
  BY <1>1, <1>3, ToolInputIs
<1> HIDE DEF s
<1>5. CASE s.btn["save"] # n.btn["save"] \/ s.btn["open"].hot \/ s.btn["open"].stage # "idle"
  <2>1. Redraw(s) \in States /\ Kept(s, Redraw(s)) /\ Redraw(s).dirty
    BY <1>4, RedrawIs
  <2> QED BY <1>2, <1>3, <1>4, <1>5, <2>1 DEF Quiet, Kept
<1>6. CASE s.btn["save"] = n.btn["save"] /\ ~s.btn["open"].hot /\ s.btn["open"].stage = "idle"
  <2>1. ~s.dirty => Look(s) = Look(n)
    <3> SUFFICES ASSUME ~s.dirty PROVE Look(s) = Look(n)
      OBVIOUS
    <3>1. ~o.dirty
      BY <1>4
    <3>2. s.focus = n.focus
      BY <1>3, <1>4, <1>6, <3>1
    <3> QED BY <1>3, <1>4, <1>6, <3>1, <3>2, LookIs
  <2> QED BY <1>2, <1>3, <1>4, <1>6, <2>1 DEF Quiet, Kept
<1> QED BY <1>5, <1>6

\* The handler of the scroll bar.
LEMMA BarToIs ==
    ASSUME NEW n \in States, NEW v \in Int
    PROVE  LET m == BarTo(n, v)
           IN  /\ m \in States /\ Kept(n, m) /\ (n.dirty => m.dirty)
               /\ m.bar.drag = n.bar.drag /\ m.bar.arrow = n.bar.arrow
               /\ m.bar.track = n.bar.track
<1> DEFINE to == SetValue(n.bar, v).value
           b == [n.bar EXCEPT !.value = to, !.changed = TRUE]
           e == SetScroll(n.ed, TextBox(n), to)
           m == BarTo(n, v)
<1>1. n.bar \in Bars /\ n.ed \in Entries /\ TextBox(n) \in Boxes
  BY StateIs
<1>2. SetValue(n.bar, v) \in Bars /\ SetValue(n.bar, v) = [n.bar EXCEPT !.value = to]
  BY <1>1, BarSet
<1>3. to \in Nat
  BY <1>2 DEF Bars
<1>4. CASE to = n.bar.value
  BY <1>4 DEF BarTo, Kept
<1>5. CASE to # n.bar.value
  <2>1. m = [n EXCEPT !.bar = b, !.ed = e, !.dirty = TRUE]
    <3>1. TextBox([n EXCEPT !.bar.value = to, !.bar.changed = TRUE]) = TextBox(n)
      BY DEF TextBox, States
    <3> QED BY <1>5, <3>1 DEF BarTo, Redraw, States
  <2> HIDE DEF to, m
  <2>2. b \in Bars /\ b.drag = n.bar.drag /\ b.arrow = n.bar.arrow /\ b.track = n.bar.track
    <3> DEFINE y == [n.bar EXCEPT !.value = to]
    <3>1. y \in Bars
      BY <1>2
    <3>2. b = [y EXCEPT !.changed = TRUE]
      BY <1>1 DEF Bars
    <3> HIDE DEF y
    <3>3. BarMax([y EXCEPT !.changed = TRUE]) = BarMax(y)
      BY <3>1 DEF BarMax, Bars
    <3>4. b \in Bars
      BY <3>1, <3>2, <3>3 DEF Bars
    <3> QED BY <3>4, <1>1 DEF Bars
  <2>3. e \in Entries /\ e.text = n.ed.text /\ e.changed = n.ed.changed
    BY <1>1, <1>3, SetScrollIs
  <2> HIDE DEF b, e
  <2>4. m \in States /\ m.bar = b /\ m.dirty /\ m.ed = e /\ m.file = n.file /\ m.star = n.star
    BY <2>1, <2>2, <2>3 DEF States
  <2> QED BY <2>2, <2>3, <2>4 DEF Kept, m
<1> QED BY <1>4, <1>5

\* The bar takes hold of the pointer or lets it go.
Grip(n, d, a, t, c) ==
    [n EXCEPT !.bar.drag = d, !.bar.arrow = a, !.bar.track = t, !.bar.changed = c]

Gripped(n, m, d, a, t, c) ==
    /\ m \in States /\ Kept(n, m) /\ m.dirty = n.dirty
    /\ m.bar.drag = d /\ m.bar.arrow = a /\ m.bar.track = t /\ m.bar.changed = c

\* Taking hold of the bar or letting go of it.
LEMMA GripIs ==
    ASSUME NEW n \in States, NEW d \in Int, NEW a \in -1..1, NEW t \in -1..1, NEW c \in BOOLEAN
    PROVE  Gripped(n, Grip(n, d, a, t, c), d, a, t, c)
<1> DEFINE b == [n.bar EXCEPT !.drag = d, !.arrow = a, !.track = t, !.changed = c]
           m == Grip(n, d, a, t, c)
<1>1. n.bar \in Bars
  BY StateIs
<1>2. m = [n EXCEPT !.bar = b]
  BY DEF States, Grip
<1>3. b \in Bars
  <2>1. BarMax(b) = BarMax(n.bar)
    BY <1>1 DEF BarMax, Bars
  <2> QED BY <1>1, <2>1 DEF Bars
<1>4. b.drag = d /\ b.arrow = a /\ b.track = t /\ b.changed = c
  BY <1>1 DEF Bars
<1> HIDE DEF b, m
<1>5. m \in States /\ Kept(n, m) /\ m.dirty = n.dirty /\ m.bar = b
  BY <1>2, <1>3 DEF States, Kept
<1> QED BY <1>4, <1>5 DEF m, Gripped

\* Where the thumb is.
LEMMA ThumbIs ==
    ASSUME NEW n \in States
    PROVE  ThumbTop(n) \in Int /\ ThumbLen(n) \in Int /\ Track(n) \in Nat
<1> DEFINE b == n.bar
           len == ThumbLen(n)
<1>1. b \in Bars /\ b.value \in Nat /\ b.range \in Nat /\ b.page \in Nat
  BY StateIs DEF Bars
<1>2. Track(n) \in Nat
  BY StateIs DEF Track
<1>3. BarMax(b) \in Nat
  BY <1>1, BarSet
<1>4. len \in Int
  <2>1. CASE b.range <= b.page
    BY <1>2, <2>1 DEF ThumbLen
  <2>2. CASE ~(b.range <= b.page)
    <3>1. b.page * Track(n) \in Nat /\ b.range > 0
      BY <1>1, <1>2, <2>2
    <3>2. (b.page * Track(n)) \div b.range \in Int
      BY <1>1, <3>1
    <3> QED BY <1>1, <1>2, <2>2, <3>2 DEF ThumbLen, AtMost
  <2> QED BY <2>1, <2>2
<1> HIDE DEF len
<1>5. ThumbTop(n) \in Int
  <2>1. CASE BarMax(b) > 0
    <3>1. b.value * (Track(n) - len) \in Int
      BY <1>1, <1>2, <1>4
    <3>2. (b.value * (Track(n) - len)) \div BarMax(b) \in Int
      BY <1>3, <2>1, <3>1
    <3> QED BY <2>1, <3>2 DEF ThumbTop, len
  <2>2. CASE ~(BarMax(b) > 0)
    BY <2>2 DEF ThumbTop
  <2> QED BY <2>1, <2>2
<1> QED BY <1>2, <1>4, <1>5 DEF len

\* The button stays down on the bar.
LEMMA BarHoldIs ==
    ASSUME NEW n \in States, NEW p \in Places, NEW again \in BOOLEAN
    PROVE  LET m == BarHold(n, p, again)
           IN  m \in States /\ Kept(n, m) /\ (n.dirty => m.dirty)
<1> DEFINE b == n.bar
           travel == IF Track(n) - ThumbLen(n) < 1 THEN 1 ELSE Track(n) - ThumbLen(n)
           drag == ((p.y - b.drag - 1) * BarMax(b)) \div travel
           m == BarHold(n, p, again)
<1>1. /\ b \in Bars /\ b.value \in Int /\ b.page \in Int
      /\ b.drag \in Int /\ b.arrow \in Int /\ b.track \in Int
  BY StateIs DEF Bars
<1>2. p.y \in Int
  BY NotepadAssumption
<1>3. BarMax(b) \in Int
  BY <1>1, BarSet
<1>4. travel \in Int /\ travel > 0
  BY ThumbIs
<1> HIDE DEF travel
<1>5. drag \in Int
  <2>1. (p.y - b.drag - 1) * BarMax(b) \in Int
    BY <1>1, <1>2, <1>3
  <2> QED BY <1>4, <2>1
<1>6. b.value + b.arrow \in Int
  BY <1>1
<1>7. b.value + b.track * b.page \in Int
  <2>1. b.track * b.page \in Int
    BY <1>1
  <2> QED BY <1>1, <2>1
<1> HIDE DEF drag
<1>8. m \in {n, BarTo(n, drag), BarTo(n, b.value + b.arrow), BarTo(n, b.value + b.track * b.page)}
  <2>1. CASE b.drag # NoDrag
    BY <2>1 DEF BarHold, drag, travel
  <2>2. CASE b.drag = NoDrag /\ b.arrow # 0
    BY <2>2 DEF BarHold
  <2>3. CASE b.drag = NoDrag /\ b.arrow = 0
    BY <2>3 DEF BarHold
  <2> QED BY <2>1, <2>2, <2>3
<1>9. n \in States /\ Kept(n, n)
  BY DEF Kept
<1> QED BY <1>5, <1>6, <1>7, <1>8, <1>9, BarToIs

\* The button goes down on the bar.
LEMMA BarPressIs ==
    ASSUME NEW n \in States, NEW p \in Places
    PROVE  LET m == BarPress(n, p)
           IN  /\ m \in States /\ Kept(n, m) /\ (n.dirty => m.dirty)
               /\ m.bar.changed \/ Armed(m.bar)
<1> DEFINE Fine(m) == /\ m \in States /\ Kept(n, m) /\ (n.dirty => m.dirty)
                      /\ m.bar.changed \/ Armed(m.bar)
           b == n.bar
           top == ThumbTop(n)
           thumb == p.y \in top..(top + ThumbLen(n) - 1)
           way == IF p.y < top THEN -1 ELSE 1
           m == BarPress(n, p)
<1>1. /\ b \in Bars /\ b.value \in Int /\ b.page \in Int
      /\ b.drag \in Int /\ b.arrow \in -1..1 /\ b.track \in -1..1 /\ b.changed \in BOOLEAN
  BY StateIs DEF Bars
<1>2. p.y \in Int
  BY NotepadAssumption
<1>3. top \in Int /\ Track(n) \in Nat
  BY ThumbIs
<1>4. ASSUME NEW x \in States, Kept(n, x), x.dirty = n.dirty, Armed(x.bar), NEW v \in Int
      PROVE  Fine(BarTo(x, v))
  <2>1. /\ BarTo(x, v) \in States /\ Kept(x, BarTo(x, v)) /\ (x.dirty => BarTo(x, v).dirty)
        /\ BarTo(x, v).bar.drag = x.bar.drag /\ BarTo(x, v).bar.arrow = x.bar.arrow
        /\ BarTo(x, v).bar.track = x.bar.track
    BY <1>4, BarToIs
  <2>2. Armed(BarTo(x, v).bar)
    BY <1>4, <2>1 DEF Armed
  <2> QED BY <1>4, <2>1, <2>2 DEF Kept
<1> HIDE DEF thumb
<1>5. CASE p.y < 1
  <2> DEFINE x == [n EXCEPT !.bar.arrow = -1]
  <2>1. m = BarTo(x, b.value - 1)
    BY <1>2, <1>3, <1>5 DEF BarPress
  <2>2. x = Grip(n, b.drag, -1, b.track, b.changed)
    BY <1>1 DEF States, Bars, Grip
  <2>3. x \in States /\ Kept(n, x) /\ x.dirty = n.dirty /\ x.bar.arrow = -1
    <3>1. -1 \in -1..1
      OBVIOUS
    <3>2. Gripped(n, Grip(n, b.drag, -1, b.track, b.changed), b.drag, -1, b.track, b.changed)
      BY ONLY n \in States, <1>1, <3>1, GripIs
    <3> QED BY <2>2, <3>2 DEF Gripped
  <2> HIDE DEF x
  <2> QED BY <1>1, <1>4, <2>1, <2>3 DEF Armed
<1>6. CASE p.y > Track(n)
  <2> DEFINE x == [n EXCEPT !.bar.arrow = 1]
  <2>1. m = BarTo(x, b.value + 1)
    BY <1>2, <1>3, <1>6 DEF BarPress
  <2>2. x = Grip(n, b.drag, 1, b.track, b.changed)
    BY <1>1 DEF States, Bars, Grip
  <2>3. x \in States /\ Kept(n, x) /\ x.dirty = n.dirty /\ x.bar.arrow = 1
    <3>1. 1 \in -1..1
      OBVIOUS
    <3>2. Gripped(n, Grip(n, b.drag, 1, b.track, b.changed), b.drag, 1, b.track, b.changed)
      BY ONLY n \in States, <1>1, <3>1, GripIs
    <3> QED BY <2>2, <3>2 DEF Gripped
  <2> HIDE DEF x
  <2> QED BY <1>1, <1>4, <2>1, <2>3 DEF Armed
<1>7. CASE p.y \in 1..Track(n) /\ thumb
  <2> DEFINE x == [n EXCEPT !.bar.drag = p.y - top, !.bar.changed = TRUE]
  <2>1. m = x
    BY <1>2, <1>3, <1>7 DEF BarPress, thumb
  <2>2. p.y - top \in Int
    BY <1>2, <1>3
  <2>3. x = Grip(n, p.y - top, b.arrow, b.track, TRUE)
    BY <1>1 DEF States, Bars, Grip
  <2>4. Fine(x)
    <3>1. Gripped(n, Grip(n, p.y - top, b.arrow, b.track, TRUE), p.y - top, b.arrow, b.track, TRUE)
      BY ONLY n \in States, <1>1, <2>2, GripIs
    <3> QED BY <2>3, <3>1 DEF Gripped
  <2> QED BY <2>1, <2>4
<1>8. CASE p.y \in 1..Track(n) /\ ~thumb
  <2> DEFINE x == [n EXCEPT !.bar.track = way]
  <2>1. m = BarTo(x, b.value + way * b.page)
    BY <1>2, <1>3, <1>8 DEF BarPress, thumb
  <2>2. way \in {-1, 1}
    OBVIOUS
  <2> HIDE DEF way
  <2>3. x = Grip(n, b.drag, b.arrow, way, b.changed)
    BY <1>1 DEF States, Bars, Grip
  <2>4. x \in States /\ Kept(n, x) /\ x.dirty = n.dirty /\ x.bar.track = way
    <3>1. way \in -1..1
      BY <2>2
    <3>2. Gripped(n, Grip(n, b.drag, b.arrow, way, b.changed), b.drag, b.arrow, way, b.changed)
      BY ONLY n \in States, <1>1, <3>1, GripIs
    <3> QED BY <2>3, <3>2 DEF Gripped
  <2>5. b.value + way * b.page \in Int
    BY <1>1, <2>2
  <2> HIDE DEF x
  <2>6. Armed(x.bar)
    BY <2>2, <2>4 DEF Armed
  <2> QED BY <1>4, <2>1, <2>4, <2>5, <2>6
<1>9. Fine(m)
  BY <1>2, <1>3, <1>5, <1>6, <1>7, <1>8
<1> QED BY <1>9

\* What the loop sees of a bar that has been given the pointer: if it did
\* anything, it has changed or is held, or was.
LEMMA BarInputIs ==
    ASSUME NEW n \in States, NEW p \in Places, NEW down \in BOOLEAN, NEW again \in BOOLEAN
    PROVE  LET m == BarInput(n, p, down, again)
           IN  /\ m \in States /\ Kept(n, m) /\ (n.dirty => m.dirty)
               /\ m = n \/ m.bar.changed \/ Armed(m.bar) \/ Armed(n.bar)
<1> DEFINE x == [n EXCEPT !.bar.drag = NoDrag, !.bar.arrow = 0, !.bar.track = 0,
                          !.bar.changed = TRUE]
           m == BarInput(n, p, down, again)
<1>1. CASE ~down /\ Armed(n.bar)
  <2>1. m = x
    BY <1>1 DEF BarInput
  <2>2. x = Grip(n, -1, 0, 0, TRUE)
    BY DEF Grip, NoDrag
  <2>3. m \in States /\ Kept(n, m) /\ m.dirty = n.dirty
    <3>1. -1 \in Int /\ 0 \in -1..1
      OBVIOUS
    <3>2. Gripped(n, Grip(n, -1, 0, 0, TRUE), -1, 0, 0, TRUE)
      BY ONLY n \in States, <3>1, GripIs
    <3> QED BY <2>1, <2>2, <3>2 DEF Gripped
  <2> QED BY <1>1, <2>3
<1>2. CASE down /\ Armed(n.bar)
  <2>1. m = BarHold(n, p, again)
    BY <1>2 DEF BarInput
  <2> QED BY <1>2, <2>1, BarHoldIs
<1>3. CASE down /\ ~Armed(n.bar) /\ InBar(n, p)
  <2>1. m = BarPress(n, p)
    BY <1>3 DEF BarInput
  <2> QED BY <2>1, BarPressIs
<1>4. CASE ~Armed(n.bar) /\ ~(down /\ InBar(n, p))
  <2>1. m = n
    BY <1>4 DEF BarInput
  <2> QED BY <2>1 DEF Kept
<1> QED BY <1>1, <1>2, <1>3, <1>4

\* The loop's part for the bar: what moved it asks for a redraw.
LEMMA BarTurnIs ==
    ASSUME NEW n \in States, NEW p \in Places, NEW down \in BOOLEAN, NEW again \in BOOLEAN
    PROVE  Quiet(n, BarTurn(n, BarInput(n, p, down, again)))
<1> DEFINE b == BarInput(n, p, down, again)
           moved == b.bar.changed \/ b.bar.value # n.bar.value
           asked == moved \/ Armed(n.bar) \/ Armed(b.bar)
           e == IF moved THEN SetScroll(b.ed, TextBox(b), b.bar.value) ELSE b.ed
           r == [b.bar EXCEPT !.changed = FALSE]
           d == b.dirty \/ asked
           m == BarTurn(n, b)
<1>1. /\ b \in States /\ Kept(n, b) /\ (n.dirty => b.dirty)
      /\ b = n \/ b.bar.changed \/ Armed(b.bar) \/ Armed(n.bar)
  BY BarInputIs
<1>2. m = [b EXCEPT !.bar.changed = FALSE, !.ed = e, !.dirty = d]
  BY <1>1 DEF BarTurn, States
<1> HIDE DEF b
<1>3. b.bar \in Bars /\ b.ed \in Entries /\ TextBox(b) \in Boxes /\ b.dirty \in BOOLEAN
  BY <1>1, StateIs
<1>4. b.bar.value \in Int /\ b.bar.changed \in BOOLEAN
  BY <1>3 DEF Bars
<1>5. r \in Bars
  <2>1. BarMax(r) = BarMax(b.bar)
    BY <1>3 DEF BarMax, Bars
  <2> QED BY <1>3, <2>1 DEF Bars
<1>6. e \in Entries /\ e.text = b.ed.text /\ e.changed = b.ed.changed
  <2>1. SetScroll(b.ed, TextBox(b), b.bar.value) \in Entries
        /\ SetScroll(b.ed, TextBox(b), b.bar.value).text = b.ed.text
        /\ SetScroll(b.ed, TextBox(b), b.bar.value).changed = b.ed.changed
    BY <1>3, <1>4, SetScrollIs
  <2> QED BY <1>3, <2>1
<1>7. d \in BOOLEAN
  BY <1>3, <1>4 DEF Armed
<1>8. m = [b EXCEPT !.bar = r, !.ed = e, !.dirty = d]
  BY <1>1, <1>2 DEF States
<1>9. d \/ (e = b.ed /\ r = b.bar /\ b = n)
  <2> SUFFICES ASSUME ~d PROVE e = b.ed /\ r = b.bar /\ b = n
    OBVIOUS
  <2>1. ~b.bar.changed /\ ~moved
    OBVIOUS
  <2>2. r = b.bar
    BY <1>3, <1>4, <2>1 DEF Bars
  <2>3. b = n
    BY <1>1
  <2> QED BY <2>1, <2>2, <2>3
<1>10. b.dirty => d
  OBVIOUS
<1> HIDE DEF e, r, d, m, asked, moved
<1>11. m \in States /\ m.ed = e /\ m.bar = r /\ m.dirty = d /\ m.file = b.file /\ m.star = b.star
       /\ m.dlg = b.dlg /\ m.btn = b.btn /\ m.focus = b.focus /\ m.size = b.size /\ m.cols = b.cols
  BY <1>1, <1>5, <1>6, <1>7, <1>8 DEF States
<1>12. Kept(n, m)
  BY <1>1, <1>6, <1>11 DEF Kept
<1>13. m.dirty \/ Look(m) = Look(n)
  BY <1>9, <1>11, LookIs
<1> QED BY <1>1, <1>10, <1>11, <1>12, <1>13 DEF Quiet, m, b

\* The text and the loop's part for it: a press asks for a redraw.
LEMMA TextTurnIs ==
    ASSUME NEW n \in States, ~n.ed.changed, NEW p \in Places, NEW down \in BOOLEAN
    PROVE  Quiet(n, TextTurn(TextInput(n, p, down)))
<1> DEFINE t == TextInput(n, p, down)
           m == TextTurn(t)
<1>1. /\ t \in States /\ Kept(n, t) /\ t.dirty = n.dirty
      /\ t = n \/ t.ed.view
  <2>1. CASE down /\ InText(n, p)
    <3> DEFINE e == Press(n.ed, TextBox(n), p.row, p.col)
    <3>1. p.row \in Nat /\ p.col \in Nat
      BY NotepadAssumption
    <3>2. e \in Entries /\ e.text = n.ed.text /\ e.changed = n.ed.changed /\ e.view
      <4>1. n.ed \in Entries /\ TextBox(n) \in Boxes
        BY StateIs
      <4> QED BY ONLY <3>1, <4>1, PressIs
    <3>3. t = [n EXCEPT !.focus = "text", !.ed = e]
      BY <2>1 DEF TextInput, States
    <3> HIDE DEF e
    <3> QED BY <3>2, <3>3 DEF States, Kept
  <2>2. CASE ~(down /\ InText(n, p))
    BY <2>2 DEF TextInput, Kept
  <2> QED BY <2>1, <2>2
<1> HIDE DEF t
<1>2. t.ed \in Entries /\ t.ed.changed = FALSE /\ t.star \in BOOLEAN /\ t.dirty \in BOOLEAN
  BY <1>1, StateIs DEF Kept, Entries
<1>3. CASE t.ed.view
  <2> DEFINE e == [t.ed EXCEPT !.view = FALSE]
             x == [t EXCEPT !.ed = e]
  <2>1. e \in Entries /\ e.text = t.ed.text /\ e.changed = FALSE
    BY <1>2 DEF Entries
  <2>2. [t EXCEPT !.ed.view = FALSE] = x
    BY <1>1 DEF States
  <2> HIDE DEF e
  <2>3. x \in States /\ Kept(t, x)
    BY <1>1, <1>2, <2>1 DEF States, Kept
  <2>4. PICK b \in Bars : FollowText(x) = [x EXCEPT !.bar = b]
    BY <2>3, FollowIs
  <2> DEFINE v == [x EXCEPT !.bar = b]
  <2>5. v \in States /\ Kept(x, v) /\ v.ed = x.ed
    BY <2>3 DEF States, Kept
  <2>6. m = [v EXCEPT !.star = v.star \/ FALSE, !.ed.changed = FALSE, !.dirty = TRUE]
    <3>1. m = [v EXCEPT !.star = @ \/ t.ed.changed, !.ed.changed = FALSE,
                        !.dirty = @ \/ t.ed.view \/ t.ed.changed]
      BY <1>3, <2>2, <2>4 DEF TextTurn
    <3> HIDE DEF v, m
    <3> QED BY <1>2, <1>3, <2>5, <3>1 DEF States
  <2>7. v.ed \in Entries /\ v.ed.changed = FALSE /\ v.star \in BOOLEAN
    BY <1>2, <2>3, <2>5, StateIs DEF Kept
  <2> HIDE DEF x, v, m
  <2>8. [v.ed EXCEPT !.changed = FALSE] = v.ed
    BY <2>7 DEF Entries
  <2>9. m \in States /\ Kept(v, m) /\ m.dirty
    BY <2>5, <2>6, <2>7, <2>8 DEF States, Kept
  <2> QED BY <1>1, <2>3, <2>5, <2>9 DEF Quiet, Kept, m, t
<1>4. CASE ~t.ed.view
  <2>1. t = n
    BY <1>1, <1>4
  <2>2. m = [t EXCEPT !.star = @ \/ FALSE, !.ed.changed = FALSE, !.dirty = @ \/ FALSE]
    BY <1>2, <1>4 DEF TextTurn
  <2> HIDE DEF m
  <2>3. [t.ed EXCEPT !.changed = FALSE] = t.ed
    BY <1>2 DEF Entries
  <2>4. m = t
    BY <1>1, <1>2, <2>2, <2>3 DEF States
  <2> QED BY <1>1, <2>1, <2>4 DEF Quiet, Kept, m, t
<1> QED BY <1>2, <1>3, <1>4

-----------------------------------------------------------------------------
(* A turn.                                                                 *)

Honest(n) == ~n.star => n.ed.text = AsLoaded(n.file)

IInv == TypeOK /\ ~np.ed.changed /\ StarIsHonest /\ ScreenIsCurrent

\* What a turn may make of n, and what it may have made of it so far.
Turned(n, m) ==
    /\ m \in States /\ ~m.ed.changed /\ Honest(m)
    /\ n.dlg.kind # "none" => Kept(n, m) \/ (n.dlg.kind = "open" /\ Opened(m))

Sound(n, m) == Turned(n, m) /\ (m.dirty \/ Look(m) = Look(n))

\* And when the turn begins, the dialog may only have been answered.
Begun(n, m) == Sound(n, m) /\ (n.dlg.kind # "none" => Answered(n, m))

\* What holds of a turn so far goes through a widget.
LEMMA QuietKeeps ==
    ASSUME NEW n, NEW m, NEW w, Sound(n, m), Quiet(m, w)
    PROVE  Sound(n, w)
  BY DEF Sound, Turned, Quiet, Kept, Honest, Opened

\* What holds of the start of a turn goes through an answered dialog.
LEMMA AnsweredKeeps ==
    ASSUME NEW n, NEW m, NEW w \in States, Begun(n, m), Answered(m, w), w.dirty
    PROVE  Sound(n, w)
<1>1. ~w.ed.changed /\ Honest(w)
  BY DEF Begun, Sound, Turned, Answered, Kept, Opened, Honest
<1>2. n.dlg.kind # "none" => Answered(n, w)
  BY AnsweredTwice DEF Begun
<1> QED BY <1>1, <1>2 DEF Sound, Turned, Answered

\* The widgets are given the pointer one after the other; then the window is drawn.
LEMMA TurnKeeps ==
    ASSUME TypeOK, ScreenIsCurrent, NEW n, Begun(np, n), Turn(n)
    PROVE  Turned(np, np') /\ screen' = Look(np')
<1>1. n \in States
  BY DEF Begun, Sound, Turned
<1>2. PICK w \in {IF n.dlg.kind # "none" THEN DialogInput(n, n.place, n.down)
                   ELSE ToolsInput(n, n.place, n.down)} :
      \E again \in IF Armed(w.bar) THEN BOOLEAN ELSE {FALSE} :
      \E b \in {BarInput(w, w.place, w.down, again)} :
      \E f \in {BarTurn(w, b)} :
      \E t \in {TextInput(f, f.place, f.down)} :
      \E v \in {TextTurn(t)} :
           IF v.dirty
           THEN \E drawn \in {[Layout(v) EXCEPT !.dirty = FALSE]} :
                   np' = drawn /\ screen' = Look(drawn)
           ELSE np' = v /\ UNCHANGED screen
  BY DEF Turn
<1>3. Sound(np, w)
  <2>1. CASE n.dlg.kind # "none"
    <3>1. w = DialogInput(n, n.place, n.down)
      BY <1>2, <2>1
    <3>2. w \in States /\ Answered(n, w) /\ w.dirty
      BY <1>1, <2>1, <3>1, StateIs, DialogInputIs
    <3> QED BY <3>2, AnsweredKeeps
  <2>2. CASE n.dlg.kind = "none"
    <3>1. w = ToolsInput(n, n.place, n.down)
      BY <1>2, <2>2
    <3>2. Quiet(n, w)
      BY <1>1, <3>1, StateIs, ToolsInputIs
    <3> QED BY <3>2, QuietKeeps DEF Begun
  <2> QED BY <2>1, <2>2
<1>4. PICK again \in BOOLEAN :
         LET f == BarTurn(w, BarInput(w, w.place, w.down, again))
             v == TextTurn(TextInput(f, f.place, f.down))
         IN  IF v.dirty
             THEN \E drawn \in {[Layout(v) EXCEPT !.dirty = FALSE]} :
                     np' = drawn /\ screen' = Look(drawn)
             ELSE np' = v /\ UNCHANGED screen
  BY <1>2
<1> DEFINE f == BarTurn(w, BarInput(w, w.place, w.down, again))
           v == TextTurn(TextInput(f, f.place, f.down))
<1>5. Sound(np, f)
  <2>1. w \in States
    BY <1>3 DEF Sound, Turned
  <2>2. Quiet(w, f)
    BY <2>1, StateIs, BarTurnIs
  <2> HIDE DEF f
  <2> QED BY <1>3, <2>2, QuietKeeps
<1>6. Sound(np, v)
  <2> HIDE DEF f
  <2>1. f \in States /\ ~f.ed.changed
    BY <1>5 DEF Sound, Turned
  <2>2. Quiet(f, v)
    BY <2>1, StateIs, TextTurnIs
  <2> HIDE DEF v
  <2> QED BY <1>5, <2>2, QuietKeeps
<1>7. CASE v.dirty
  <2> DEFINE l == Layout(v)
             drawn == [l EXCEPT !.dirty = FALSE]
  <2>1. np' = drawn /\ screen' = Look(drawn)
    BY <1>4, <1>7
  <2> HIDE DEF v
  <2>2. l \in States /\ Kept(v, l)
    BY <1>6, LayoutIs DEF Sound, Turned
  <2> HIDE DEF l
  <2>3. drawn \in States /\ Kept(v, drawn)
    BY <2>2 DEF States, Kept
  <2> HIDE DEF drawn
  <2>4. Turned(np, drawn)
    BY <1>6, <2>3 DEF Sound, Turned, Kept, Honest, Opened
  <2> QED BY <2>1, <2>4
<1>8. CASE ~v.dirty
  <2>1. np' = v /\ screen' = screen
    BY <1>4, <1>8
  <2> HIDE DEF v
  <2>2. Look(v) = Look(np) /\ Turned(np, v)
    BY <1>6, <1>8 DEF Sound
  <2> QED BY <2>1, <2>2 DEF ScreenIsCurrent
<1> QED BY <1>7, <1>8

-----------------------------------------------------------------------------
(* The events.                                                             *)

\* A state that an event has made, once it asks for a redraw, may begin a turn.
LEMMA RedrawBegun ==
    ASSUME NEW n, NEW m, m \in States, ~m.ed.changed, Honest(m),
           n.dlg.kind # "none" => Answered(n, m)
    PROVE  Begun(n, Redraw(m))
<1>1. /\ Redraw(m) \in States /\ Kept(m, Redraw(m)) /\ Redraw(m).dirty
      /\ Redraw(m).dlg = m.dlg /\ (Opened(m) => Opened(Redraw(m)))
  BY RedrawIs
<1>2. n.dlg.kind # "none" => Answered(n, Redraw(m))
  BY <1>1 DEF Answered, Kept
<1> QED BY <1>1, <1>2 DEF Begun, Sound, Turned, Kept, Honest, Answered

\* A key for the text: the star tells of a change.
LEMMA TextKeyIs ==
    ASSUME NEW n \in States, Honest(n), ~n.ed.changed, NEW k
    PROVE  TextKey(n, k) \in States /\ ~TextKey(n, k).ed.changed /\ Honest(TextKey(n, k))
<1> DEFINE e == IF n.focus = "text" THEN Key(n.ed, TextBox(n), k) ELSE n.ed
           r == [e EXCEPT !.changed = FALSE]
           s == n.star \/ e.changed
<1>1. n.ed \in Entries /\ TextBox(n) \in Boxes /\ n.star \in BOOLEAN
  BY StateIs
<1>2. Edited(n.ed, Key(n.ed, TextBox(n), k)) /\ Edited(n.ed, n.ed)
  BY <1>1, KeyIs DEF Edited
<1>3. Edited(n.ed, e)
  BY <1>2
<1>4. TextKey(n, k) = [n EXCEPT !.ed = r, !.star = s]
  BY DEF TextKey
<1> HIDE DEF e
<1>5. e \in Entries /\ e.changed \in BOOLEAN /\ (~e.changed => e.text = n.ed.text)
  BY <1>3 DEF Edited, Entries
<1>6. r \in Entries /\ r.text = e.text /\ ~r.changed
  BY <1>5 DEF Entries
<1>7. s \in BOOLEAN /\ (~s => ~n.star /\ ~e.changed)
  BY <1>1, <1>5
<1> HIDE DEF r, s
<1>8. /\ TextKey(n, k) \in States /\ TextKey(n, k).ed = r /\ TextKey(n, k).star = s
      /\ TextKey(n, k).file = n.file
  BY <1>4, <1>6, <1>7 DEF States
<1> QED BY <1>5, <1>6, <1>7, <1>8 DEF Honest

\* A key is struck.
LEMMA KeyBegun ==
    ASSUME NEW n \in States, Honest(n), ~n.ed.changed, NEW k
    PROVE  Begun(n, KeyEvent(n, k))
<1>1. CASE n.dlg.kind # "none"
  <2>1. KeyEvent(n, k) = Redraw(DialogKey(n, k))
    BY <1>1 DEF KeyEvent
  <2>2. DialogKey(n, k) \in States /\ Answered(n, DialogKey(n, k))
    BY <1>1, DialogKeyIs
  <2>3. ~DialogKey(n, k).ed.changed /\ Honest(DialogKey(n, k))
    BY <2>2 DEF Answered, Kept, Opened, Honest
  <2> QED BY <2>1, <2>2, <2>3, RedrawBegun
<1>2. CASE n.dlg.kind = "none"
  <2> DEFINE m == CASE k \in Kinds -> Show(n, k)
                    [] k = "quit"   -> [n EXCEPT !.run = FALSE]
                    [] OTHER        -> TextKey(n, k)
  <2>1. KeyEvent(n, k) = Redraw(m)
    BY <1>2 DEF KeyEvent
  <2>2. m \in States /\ ~m.ed.changed /\ Honest(m)
    <3>1. CASE k \in Kinds
      <4>1. m = Show(n, k)
        BY <3>1 DEF Kinds
      <4> HIDE DEF m
      <4> QED BY <3>1, <4>1, ShowIs DEF Kept, Honest
    <3>2. CASE k = "quit"
      <4>1. m = [n EXCEPT !.run = FALSE]
        BY <3>2 DEF Kinds
      <4> HIDE DEF m
      <4> QED BY <4>1 DEF States, Honest
    <3>3. CASE k \notin Kinds /\ k # "quit"
      <4>1. m = TextKey(n, k)
        BY <3>3
      <4> HIDE DEF m
      <4> QED BY <4>1, TextKeyIs
    <3> QED BY <3>1, <3>2, <3>3
  <2> HIDE DEF m
  <2> QED BY <1>2, <2>1, <2>2, RedrawBegun
<1> QED BY <1>1, <1>2

\* The clipboard is put in.
LEMMA PasteBegun ==
    ASSUME NEW n \in States, Honest(n), ~n.ed.changed, NEW c \in Clips
    PROVE  Begun(n, Paste(n, c))
<1>1. CASE n.dlg.kind # "none" \/ c = <<>>
  <2>1. Paste(n, c) = Redraw(n)
    BY <1>1 DEF Paste
  <2> QED BY <2>1, RedrawBegun DEF Answered, Kept
<1>2. CASE n.dlg.kind = "none" /\ c # <<>>
  <2> DEFINE e == SetText(n.ed, TextBox(n), c)
             m == [n EXCEPT !.ed = e, !.star = TRUE]
  <2>1. Paste(n, c) = Redraw(m)
    BY <1>2 DEF Paste
  <2>2. c \in Texts
    BY NotepadAssumption DEF Texts
  <2>3. e \in Entries /\ ~e.changed
    BY <2>2, StateIs, SetTextIs
  <2> HIDE DEF e
  <2>4. m \in States /\ ~m.ed.changed /\ Honest(m)
    BY <2>3 DEF States, Honest
  <2> HIDE DEF m
  <2> QED BY <1>2, <2>1, <2>4, RedrawBegun
<1> QED BY <1>1, <1>2

\* The pointer moves.
LEMMA PointerBegun ==
    ASSUME NEW n \in States, Honest(n), ~n.ed.changed, NEW p \in Places, NEW down \in BOOLEAN
    PROVE  Begun(n, Pointer(n, p, down))
<1> DEFINE m == Pointer(n, p, down)
<1>1. /\ m \in States /\ m.ed = n.ed /\ m.bar = n.bar /\ m.dlg = n.dlg
      /\ m.btn = n.btn /\ m.focus = n.focus /\ m.star = n.star /\ m.file = n.file
      /\ m.size = n.size /\ m.cols = n.cols
  BY DEF Pointer, States
<1> HIDE DEF m
<1>2. Look(m) = Look(n)
  BY <1>1, LookIs
<1>3. Answered(n, m)
  BY <1>1 DEF Answered, Kept
<1>4. Begun(n, m)
  BY <1>1, <1>2, <1>3 DEF Begun, Sound, Turned, Honest, Kept
<1> QED BY <1>4 DEF m

\* The wheel is turned.
LEMMA WheelBegun ==
    ASSUME NEW n \in States, Honest(n), ~n.ed.changed, NEW p \in Wheels, NEW d \in {-3, 3},
           NEW down \in BOOLEAN
    PROVE  Begun(n, WheelEvent(n, p, d, down))
<1> DEFINE at == Pointer(n, p, down)
           b == SetRange(n.bar, LineCount(n.ed.text), n.size)
           v == SetValue(b, b.value + d)
           e == SetScroll(at.ed, TextBox(at), v.value)
           m == [at EXCEPT !.bar = v, !.ed = e]
<1>1. p \in Places
  BY NotepadAssumption
<1>2. Begun(n, at)
  BY <1>1, PointerBegun
<1>3. at \in States /\ ~at.ed.changed /\ Honest(at)
  BY <1>2 DEF Begun, Sound, Turned
<1>4. CASE p.at \notin {"text", "bar"}
  BY <1>2, <1>4 DEF WheelEvent
<1>5. CASE p.at \in {"text", "bar"}
  <2>1. TextBox(at) = TextBox(n)
    BY DEF TextBox, Pointer, States
  <2>2. WheelEvent(n, p, d, down) = Redraw(m)
    BY <1>5, <2>1 DEF WheelEvent
  <2> HIDE DEF at
  <2>3. b \in Bars
    BY StateIs, BarSet
  <2>4. b.value + d \in Int
    BY <2>3 DEF Bars
  <2> HIDE DEF b
  <2>5. v \in Bars /\ v.value \in Int
    <3>1. v \in Bars
      BY ONLY <2>3, <2>4, BarSet
    <3> QED BY <3>1 DEF Bars
  <2> HIDE DEF v
  <2>6. e \in Entries /\ e.text = at.ed.text /\ e.changed = at.ed.changed
    <3>1. at.ed \in Entries /\ TextBox(at) \in Boxes
      BY <1>3, StateIs
    <3> QED BY ONLY <2>5, <3>1, SetScrollIs
  <2> HIDE DEF e
  <2>7. m \in States /\ Kept(at, m) /\ m.dlg = at.dlg
    BY <1>3, <2>5, <2>6 DEF States, Kept
  <2> HIDE DEF m
  <2>8. ~m.ed.changed /\ Honest(m)
    BY <1>3, <2>7 DEF Kept, Honest
  <2>9. n.dlg.kind # "none" => Answered(n, m)
    BY <1>2, <2>7 DEF Begun, Answered, Kept, Opened
  <2> QED BY <2>2, <2>7, <2>8, <2>9, RedrawBegun
<1> QED BY <1>4, <1>5

\* The window has another height.
LEMMA ResizedBegun ==
    ASSUME NEW n \in States, Honest(n), ~n.ed.changed, NEW s \in Rows, NEW event \in BOOLEAN
    PROVE  Begun(n, Resized(n, s, event))
<1>1. CASE s = n.size
  BY <1>1 DEF Resized, Begun, Sound, Turned, Answered, Kept
<1>2. CASE s # n.size
  <2> DEFINE x == [n EXCEPT !.size = s]
  <2>1. x \in States /\ Kept(n, x) /\ x.dlg = n.dlg
    BY DEF States, Kept
  <2>2. PICK c \in {WideCols, WideCols - BarCols} : Width(n) = c
    BY DEF Width
  <2> DEFINE first == Laid(x, c)
             l == IF event THEN Layout(first) ELSE first
  <2>3. Resized(n, s, event) = Redraw(l)
    <3>1. [n EXCEPT !.size = s, !.cols = c] = [x EXCEPT !.cols = c]
      BY DEF States
    <3> QED BY <1>2, <2>2, <3>1 DEF Resized, Laid
  <2> HIDE DEF x
  <2>4. first \in States /\ Kept(x, first) /\ first.dlg = x.dlg
    BY <2>1, LaidIs
  <2> HIDE DEF first
  <2>5. Layout(first) \in States /\ Kept(first, Layout(first)) /\ Layout(first).dlg = first.dlg
    BY <2>4, LayoutIs
  <2>6. l \in States /\ Kept(x, l) /\ l.dlg = x.dlg
    BY <2>4, <2>5 DEF Kept
  <2> HIDE DEF l
  <2>7. ~l.ed.changed /\ Honest(l) /\ Answered(n, l)
    BY <2>1, <2>6 DEF Kept, Honest, Answered
  <2> QED BY <2>3, <2>6, <2>7, RedrawBegun
<1> QED BY <1>1, <1>2

-----------------------------------------------------------------------------
(* The program.                                                            *)

\* Every step is a turn, after which the window shows the state.
LEMMA NextTurns ==
    ASSUME IInv, Next
    PROVE  Turned(np, np') /\ screen' = Look(np')
<1>1. np \in States /\ ~np.ed.changed /\ Honest(np)
  BY DEF IInv, TypeOK, StarIsHonest, Honest
<1>2. ASSUME NEW n, Begun(np, n), Turn(n)
      PROVE  Turned(np, np') /\ screen' = Look(np')
  BY <1>2, TurnKeeps DEF IInv
<1>3. ASSUME NEW k \in Keys, Turn(KeyEvent(np, k))
      PROVE  Turned(np, np') /\ screen' = Look(np')
  BY <1>1, <1>2, <1>3, KeyBegun
<1>4. ASSUME NEW c \in Clips, Turn(Paste(np, c))
      PROVE  Turned(np, np') /\ screen' = Look(np')
  BY <1>1, <1>2, <1>4, PasteBegun
<1>5. ASSUME NEW m \in Moves, Turn(Pointer(np, m.place, m.down))
      PROVE  Turned(np, np') /\ screen' = Look(np')
  <2>1. m.place \in Places /\ m.down \in BOOLEAN
    BY NotepadAssumption
  <2> QED BY <1>1, <1>2, <1>5, <2>1, PointerBegun
<1>6. ASSUME NEW p \in Wheels, NEW d \in {-3, 3}, NEW down \in BOOLEAN,
             Turn(WheelEvent(np, p, d, down))
      PROVE  Turned(np, np') /\ screen' = Look(np')
  BY <1>1, <1>2, <1>6, WheelBegun
<1>7. ASSUME NEW s \in Rows, NEW event \in BOOLEAN, Turn(Resized(np, s, event))
      PROVE  Turned(np, np') /\ screen' = Look(np')
  BY <1>1, <1>2, <1>7, ResizedBegun
<1> QED BY <1>3, <1>4, <1>5, <1>6, <1>7 DEF Next

\* What main makes before the loop.
LEMMA StartIs ==
    ASSUME NEW f \in Files \cup {Missing}, NEW s \in Rows
    PROVE  Start(f, s) \in States /\ ~Start(f, s).ed.changed /\ Honest(Start(f, s))
<1> DEFINE bar == [value |-> 0, range |-> 1, page |-> 1, shown |-> FALSE,
                   drag |-> NoDrag, arrow |-> 0, track |-> 0, changed |-> FALSE]
           dlg == [kind |-> "none", dir |-> Top, sel |-> 0, was |-> FALSE,
                   stage |-> [k \in Kinds |-> [b \in DlgButtons |-> "idle"]]]
           btn == [b \in Kinds |-> [hot |-> FALSE, stage |-> "idle"]]
           place == CHOOSE p \in Places : p.at = "out"
           n == [ed |-> Blank, bar |-> bar, dlg |-> dlg, btn |-> btn,
                 focus |-> "text", file |-> f, star |-> FALSE, size |-> s,
                 cols |-> WideCols, dirty |-> FALSE, run |-> TRUE,
                 place |-> place, down |-> FALSE]
           l == Load(n, f)
           e == [l.ed EXCEPT !.view = FALSE]
           x == [l EXCEPT !.ed = e]
<1>1. bar \in Bars
  BY DEF Bars, BarMax, NoDrag
<1>2. dlg \in Dialogs
  <2>1. Top \in Dirs /\ Len(Listing[Top]) \in Nat
    BY NotepadAssumption
  <2>2. [k \in Kinds |-> [b \in DlgButtons |-> "idle"]] \in [Kinds -> [DlgButtons -> Stages]]
    BY DEF Stages
  <2> QED BY <2>1, <2>2 DEF Dialogs
<1>3. btn \in [Kinds -> [hot : BOOLEAN, stage : Stages]]
  BY DEF Stages
<1>4. place \in Places
  BY NotepadAssumption
<1>5. Blank \in Entries
  BY CapIs DEF Blank, Entries
<1>6. Start(f, s) = Layout([l EXCEPT !.ed.view = FALSE])
  BY DEF Start
<1> HIDE DEF bar, dlg, btn, place
<1>7. n \in States
  BY <1>1, <1>2, <1>3, <1>4, <1>5 DEF States
<1> HIDE DEF n
<1>8. l \in States /\ Opened(l)
  BY <1>7, LoadIs
<1> HIDE DEF l
<1>9. e \in Entries /\ e.text = l.ed.text /\ e.changed = l.ed.changed
  BY <1>8, StateIs DEF Entries
<1>10. [l EXCEPT !.ed.view = FALSE] = x
  BY <1>8 DEF States
<1> HIDE DEF e
<1>11. x \in States /\ Kept(l, x)
  BY <1>8, <1>9 DEF States, Kept
<1> HIDE DEF x
<1>12. Layout(x) \in States /\ Kept(x, Layout(x))
  BY <1>11, LayoutIs
<1> QED BY <1>6, <1>8, <1>10, <1>11, <1>12 DEF Kept, Opened, Honest

LEMMA InitIInv == Init => IInv
<1> SUFFICES ASSUME Init PROVE IInv
  OBVIOUS
<1>1. PICK f \in Files \cup {Missing}, s \in Rows : np = Start(f, s)
  BY DEF Init
<1>2. screen = Look(np)
  BY DEF Init
<1> QED BY <1>1, <1>2, StartIs DEF IInv, TypeOK, StarIsHonest, ScreenIsCurrent, Honest

LEMMA NextIInv == IInv /\ [Next]_vars => IInv'
<1> SUFFICES ASSUME IInv, [Next]_vars PROVE IInv'
  OBVIOUS
<1>1. CASE Next
  <2>1. Turned(np, np') /\ screen' = Look(np')
    BY <1>1, NextTurns
  <2> QED BY <2>1 DEF IInv, TypeOK, StarIsHonest, ScreenIsCurrent, Turned, Honest
<1>2. CASE UNCHANGED vars
  BY <1>2 DEF vars, IInv, TypeOK, StarIsHonest, ScreenIsCurrent
<1> QED BY <1>1, <1>2

LEMMA AlwaysIInv == Spec => []IInv
  BY InitIInv, NextIInv, PTL DEF Spec

\* The entry and its box, as the properties see them.
LEMMA SeesText ==
    ASSUME TypeOK
    PROVE  /\ np.ed \in Entries /\ TextBox(np) \in Boxes
           /\ TextBox(np).cols = np.cols /\ TextBox(np).rows = np.size
<1>1. np.ed \in Entries /\ TextBox(np) \in Boxes
  BY StateIs DEF TypeOK
<1>2. TextBox(np).cols = np.cols /\ TextBox(np).rows = np.size
  BY DEF TextBox
<1> QED BY <1>1, <1>2

\* Whatever keys, pointer, wheel, clipboard and window do, the text and the
\* byte that ends it fit the buffer, the caret stays in the text, the bar in its
\* range and the choice in its list (insert_char, wscroll_set_range, wlist_key).
THEOREM EditorInBounds == Spec => []TypeOK
<1>1. IInv => TypeOK
  BY DEF IInv
<1> QED BY <1>1, AlwaysIInv, PTL

\* The window always shows the program's state: every path through the loop of
\* notepad.c that changes what is seen sets dirty.
THEOREM WindowIsCurrent == Spec => []ScreenIsCurrent
<1>1. IInv => ScreenIsCurrent
  BY DEF IInv
<1> QED BY <1>1, AlwaysIInv, PTL

\* Without the star the text is that of the file, as far as the buffer holds it:
\* nothing changes the text of the entry without setting file_dirty.
THEOREM StarTellsOfEdits == Spec => []StarIsHonest
<1>1. IInv => StarIsHonest
  BY DEF IInv
<1> QED BY <1>1, AlwaysIInv, PTL

\* While a dialog is open the text below changes only when a file is opened from
\* it, although the text entry goes on getting the pointer.
THEOREM DialogShieldsText == Spec => NothingBehindDialog
<1> DEFINE A == np.dlg.kind # "none" /\ np'.ed.text # np.ed.text =>
                   /\ np.dlg.kind = "open"
                   /\ np'.ed.text = AsLoaded(np'.file) /\ ~np'.star
<1>1. IInv /\ [Next]_vars => [A]_vars
  <2> SUFFICES ASSUME IInv, Next PROVE A
    OBVIOUS
  <2> QED BY NextTurns DEF Turned, Kept, Opened
<1>2. Spec => [][A]_vars
  BY <1>1, AlwaysIInv, PTL DEF Spec
<1> QED BY <1>2 DEF NothingBehindDialog

\* The caret is drawn at the byte before which a key puts the next one, although
\* wentry_draw walks the rows and counts the breaks before the caret apart.
THEOREM CaretIsTrue == Spec => []CaretIsWhereTypingGoes
<1>1. IInv => CaretIsWhereTypingGoes
  <2> SUFFICES ASSUME TypeOK PROVE CaretIsWhereTypingGoes
    BY DEF IInv
  <2>1. np.ed \in Entries /\ TextBox(np) \in Boxes /\ TextBox(np).cols = np.cols
    BY SeesText
  <2> QED BY <2>1, CaretIsDrawn DEF CaretIsWhereTypingGoes
<1> QED BY <1>1, AlwaysIInv, PTL

\* What wentry_input finds under the pointer is what wentry_draw drew there.
THEOREM PressIsTrue == Spec => []PressIsWhereItIsSeen
<1>1. IInv => PressIsWhereItIsSeen
  <2> SUFFICES ASSUME TypeOK PROVE PressIsWhereItIsSeen
    BY DEF IInv
  <2>1. np.ed \in Entries /\ TextBox(np) \in Boxes /\ TextBox(np).cols = np.cols
        /\ TextBox(np).rows = np.size
    BY SeesText
  <2> SUFFICES ASSUME NoLongLine(np.ed, np.cols),
                      np.ed.scroll <= MaxScroll(np.ed, TextBox(np)),
                      NEW r \in 1..np.size,
                      NEW c \in 1..Len(DrawnRows(np.ed, TextBox(np))[r])
               PROVE  LET e == Press(np.ed, TextBox(np), r - 1, c - 1)
                      IN  /\ e.cursor = RowStarts(np.ed, TextBox(np))[r] + c - 1
                          /\ e.scroll = np.ed.scroll
    BY DEF PressIsWhereItIsSeen
  <2> DEFINE b == TextBox(np)
  <2>2. NoLongLine(np.ed, b.cols) /\ r \in 1..b.rows
    BY <2>1
  <2> HIDE DEF b
  <2>3. np.ed \in Entries /\ b \in Boxes /\ np.ed.scroll <= MaxScroll(np.ed, b)
        /\ c \in 1..Len(DrawnRows(np.ed, b)[r])
    BY <2>1 DEF b
  <2>4. /\ Press(np.ed, b, r - 1, c - 1).cursor = RowStarts(np.ed, b)[r] + c - 1
        /\ Press(np.ed, b, r - 1, c - 1).scroll = np.ed.scroll
    BY ONLY <2>2, <2>3, PressIsSeen
  <2> QED BY <2>4 DEF b
<1> QED BY <1>1, AlwaysIInv, PTL
=============================================================================
