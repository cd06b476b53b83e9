----------------------------- MODULE TermProofs -----------------------------
(***************************************************************************)
(* Proofs about Term, for every size of the lines, of the history and of   *)
(* the buffers, whatever the programs are, write and are typed, in the     *)
(* terminal's window and on a text console: what the terminal last drew is *)
(* what it has, a command keeps its number, and Ctrl+Y puts back what was  *)
(* cut.                                                                    *)
(***************************************************************************)
EXTENDS Term, SequenceTheorems, WellFoundedInduction, TLAPS

-----------------------------------------------------------------------------
(* Numbers.                                                                *)

\* Every set of numbers that is not empty has a least one.
LEMMA LeastNat ==
    ASSUME NEW T \in SUBSET Nat, T # {}
    PROVE  \E n \in T : \A k \in T : n <= k
<1> DEFINE R == OpToRel(<, Nat)
<1>1. IsWellFoundedOn(R, Nat)
  BY NatLessThanWellFounded
<1>2. \E x \in T : \A y \in T : ~(<<y, x>> \in R)
  <2> HIDE DEF R
  <2> QED BY <1>1, WFMin
<1>3. \A x, y \in Nat : x < y => <<x, y>> \in R
  BY DEF OpToRel
<1>4. \A x, y \in Nat : x <= y \/ y < x
  OBVIOUS
<1> HIDE DEF R
<1> QED BY <1>2, <1>3, <1>4

\* Induction up to a bound, over a set.
LEMMA Climb ==
    ASSUME NEW n \in Nat, NEW S, 0 \in S, \A m \in 0 .. n - 1 : m \in S => m + 1 \in S
    PROVE  \A m \in 0 .. n : m \in S
<1> DEFINE T == {m \in 0 .. n : m \notin S}
<1> SUFFICES ASSUME NEW x \in 0 .. n, x \notin S PROVE FALSE
  OBVIOUS
<1>0. T \in SUBSET Nat /\ x \in T
  OBVIOUS
<1>1. PICK m \in T : \A j \in T : m <= j
  BY <1>0, LeastNat
<1>2. m \in 0 .. n /\ m \notin S /\ m # 0
  BY <1>1
<1>3. m - 1 \in 0 .. n - 1 /\ m - 1 \notin T
  BY <1>1, <1>2
<1> QED BY <1>2, <1>3

\* The least and the greatest number of a set.
LEMMA MinIs ==
    ASSUME NEW T \in SUBSET Nat, T # {}
    PROVE  Min(T) \in T /\ \A k \in T : Min(T) <= k
  BY LeastNat DEF Min

LEMMA MaxIs ==
    ASSUME NEW n \in Nat, NEW T \in SUBSET (0 .. n), T # {}
    PROVE  Max(T) \in T /\ \A k \in T : k <= Max(T)
<1> DEFINE U == {n - x : x \in T}
<1>0. PICK t \in T : TRUE
  OBVIOUS
<1>1. U \in SUBSET Nat /\ n - t \in U
  BY <1>0
<1>2. PICK m \in U : \A k \in U : m <= k
  BY <1>1, LeastNat
<1>3. PICK x \in T : m = n - x
  BY <1>2
<1>4. ASSUME NEW k \in T PROVE x >= k
  <2>1. n - k \in U /\ m <= n - k
    BY <1>2
  <2> HIDE DEF U
  <2> QED BY <1>3, <2>1
<1>5. \E y \in T : \A k \in T : y >= k
  BY <1>4
<1>6. Max(T) \in T /\ \A k \in T : Max(T) >= k
  BY <1>5 DEF Max
<1> QED BY <1>6

LEMMA MaxOfTwo ==
    ASSUME NEW a \in Int, NEW b \in Int
    PROVE  Max({a, b}) \in Int /\ Max({a, b}) = IF a >= b THEN a ELSE b
<1>1. \E x \in {a, b} : \A y \in {a, b} : x >= y
  OBVIOUS
<1> QED BY <1>1 DEF Max

LEMMA LoIs ==
    ASSUME NEW a \in Int, NEW b \in Int
    PROVE  Lo(a, b) \in Int /\ Lo(a, b) <= a /\ Lo(a, b) <= b /\ (Lo(a, b) = a \/ Lo(a, b) = b)
  BY DEF Lo

-----------------------------------------------------------------------------
(* Pieces of sequences.                                                    *)

\* A cut: Before and From, inside a sequence.
LEMMA BeforeIs ==
    ASSUME NEW S, NEW s \in Seq(S), NEW i \in Int, i <= Len(s)
    PROVE  /\ Before(s, i) \in Seq(S)
           /\ Len(Before(s, i)) = IF i >= 0 THEN i ELSE 0
           /\ \A j \in 1 .. i : Before(s, i)[j] = s[j]
<1>1. \A j \in 1 .. i : s[j] \in S
  BY ElementOfSeq
<1>2. \A j \in 1 .. i : j \in 1 .. i - 1 + 1
  OBVIOUS
<1> QED BY <1>1, <1>2, SubSeqProperties DEF Before

LEMMA FromIs ==
    ASSUME NEW S, NEW s \in Seq(S), NEW i \in Nat
    PROVE  /\ From(s, i) \in Seq(S)
           /\ Len(From(s, i)) = IF i <= Len(s) THEN Len(s) - i ELSE 0
           /\ \A j \in 1 .. Len(s) - i : From(s, i)[j] = s[i + j]
<1>0. Len(s) \in Nat
  OBVIOUS
<1>1. \A j \in i + 1 .. Len(s) : s[j] \in S
  BY ElementOfSeq
<1>2. \A j \in 1 .. Len(s) - i : j \in 1 .. Len(s) - (i + 1) + 1 /\ (i + 1) + j - 1 = i + j
  BY <1>0
<1>3. i + 1 \in Int /\ Len(s) \in Int
  BY <1>0
<1> QED BY <1>0, <1>1, <1>2, <1>3, SubSeqProperties DEF From

\* A part of a sequence, and the end that the history keeps.
LEMMA SubSeqIs ==
    ASSUME NEW S, NEW s \in Seq(S), NEW m \in Int, NEW n \in Int, m >= 1, n <= Len(s)
    PROVE  SubSeq(s, m, n) \in Seq(S)
<1>1. \A j \in m .. n : s[j] \in S
  BY ElementOfSeq
<1> QED BY <1>1, SubSeqProperties

LEMMA KeepLastIs ==
    ASSUME NEW S, NEW s \in Seq(S), NEW n \in Nat
    PROVE  KeepLast(s, n) \in Seq(S)
<1>1. PICK l \in Nat : l = Len(s)
  OBVIOUS
<1>2. l - n + 1 \in Int
  OBVIOUS
<1>3. PICK m \in Int : m >= 1 /\ m = Max({1, l - n + 1})
  BY <1>2, MaxOfTwo
<1>4. SubSeq(s, m, l) \in Seq(S)
  <2>1. l \in Int /\ l <= Len(s)
    BY <1>1
  <2> QED BY <1>3, <2>1, SubSeqIs, Zenon
<1> QED BY <1>1, <1>3, <1>4 DEF KeepLast

-----------------------------------------------------------------------------
(* What the recursive functions compute, step by step.                     *)

FlatStep(f, seqs, i) == IF i = 1 THEN seqs[i] ELSE f[i - 1] \o seqs[i]
FlatRun(seqs) == CHOOSE f : f = [i \in 1 .. Len(seqs) |-> FlatStep(f, seqs, i)]

\* What is put together one after the other.
LEMMA FlatRuns ==
    ASSUME NEW seqs, Len(seqs) \in Nat, Len(seqs) # 0
    PROVE  /\ FlattenSeq(seqs) = FlatRun(seqs)[Len(seqs)]
           /\ \A i \in 1 .. Len(seqs) : FlatRun(seqs)[i] = FlatStep(FlatRun(seqs), seqs, i)
<1> DEFINE n == Len(seqs)
           Is(g, m) == g = [i \in 1 .. m |-> FlatStep(g, seqs, i)]
           T == {m \in 0 .. n : \E g : Is(g, m)}
<1>1. 0 \in T
  <2>1. 1 .. 0 = {} /\ 0 \in 0 .. n
    OBVIOUS
  <2>2. Is([i \in 1 .. 0 |-> 0], 0)
    BY <2>1
  <2> QED BY <2>1, <2>2
<1>2. ASSUME NEW m \in 0 .. n - 1, m \in T PROVE m + 1 \in T
  <2>1. PICK g : Is(g, m)
    BY <1>2
  <2> DEFINE h == [i \in 1 .. m + 1 |-> IF i = m + 1 THEN FlatStep(g, seqs, m + 1) ELSE g[i]]
  <2>2. ASSUME NEW i \in 1 .. m + 1 PROVE h[i] = FlatStep(h, seqs, i)
    <3>1. i # 1 => h[i - 1] = g[i - 1]
      <4>1. i # 1 => i - 1 \in 1 .. m + 1 /\ i - 1 # m + 1
        OBVIOUS
      <4> QED BY <4>1, Zenon
    <3>2. FlatStep(h, seqs, i) = FlatStep(g, seqs, i)
      <4> HIDE DEF h
      <4> QED BY <3>1 DEF FlatStep
    <3>3. CASE i = m + 1
      BY <3>2, <3>3, Zenon
    <3>4. CASE i # m + 1
      <4>1. i \in 1 .. m
        BY <3>4
      <4>2. h[i] = g[i]
        BY <3>4, Zenon
      <4>3. g[i] = FlatStep(g, seqs, i)
        BY <4>1, <2>1, Zenon
      <4> QED BY <3>2, <4>2, <4>3, Zenon
    <3> QED BY <3>3, <3>4
  <2>3. Is(h, m + 1)
    BY <2>2, Zenon
  <2>4. m + 1 \in 0 .. n
    OBVIOUS
  <2> HIDE DEF Is
  <2> QED BY <2>3, <2>4
<1>3. PICK g : Is(g, n)
  <2> HIDE DEF T
  <2>1. \A m \in 0 .. n : m \in T
    BY <1>1, <1>2, Climb, Zenon
  <2>2. n \in T
    BY <2>1
  <2> USE DEF T
  <2> HIDE DEF Is
  <2> QED BY <2>2
<1>4. FlatRun(seqs) = [i \in 1 .. n |-> FlatStep(FlatRun(seqs), seqs, i)]
  BY <1>3, Zenon DEF FlatRun
<1>5. FlattenSeq(seqs) = FlatRun(seqs)[n]
  BY Zenon DEF FlattenSeq, FlatRun, FlatStep
<1> QED BY <1>4, <1>5, Zenon

LEMMA FlattenIs ==
    ASSUME NEW S, NEW seqs \in Seq(Seq(S))
    PROVE  FlattenSeq(seqs) \in Seq(S)
<1>1. CASE Len(seqs) = 0
  BY <1>1 DEF FlattenSeq
<1>2. CASE Len(seqs) # 0
  <2> DEFINE n == Len(seqs)
             T == {m \in 0 .. n : m = 0 \/ FlatRun(seqs)[m] \in Seq(S)}
  <2>0. n \in Nat
    OBVIOUS
  <2>1. 0 \in T
    BY <2>0
  <2>2. ASSUME NEW m \in 0 .. n - 1, m \in T PROVE m + 1 \in T
    <3>1. m + 1 \in 1 .. n /\ seqs[m + 1] \in Seq(S) /\ (m + 1) - 1 = m
      BY <2>0
    <3>2. FlatRun(seqs)[m + 1] = FlatStep(FlatRun(seqs), seqs, m + 1)
      BY <1>2, <2>0, <3>1, FlatRuns
    <3>3. FlatStep(FlatRun(seqs), seqs, m + 1)
             = IF m + 1 = 1 THEN seqs[m + 1] ELSE FlatRun(seqs)[m] \o seqs[m + 1]
      BY <3>1, Zenon DEF FlatStep
    <3>4. m # 0 => m + 1 # 1 /\ FlatRun(seqs)[m] \in Seq(S)
      BY <2>2
    <3>5. m # 0 => FlatRun(seqs)[m] \o seqs[m + 1] \in Seq(S)
      BY <3>1, <3>4, ConcatProperties
    <3>6. FlatRun(seqs)[m + 1] \in Seq(S)
      <4>1. CASE m = 0
        BY <3>1, <3>2, <3>3, <4>1
      <4>2. CASE m # 0
        BY <3>2, <3>3, <3>4, <3>5, <4>2
      <4> QED BY <4>1, <4>2
    <3> QED BY <3>1, <3>6
  <2>3. n \in T
    <3> HIDE DEF T
    <3>1. \A m \in 0 .. n : m \in T
      BY <2>0, <2>1, <2>2, Climb, Zenon
    <3> QED BY <2>0, <3>1
  <2> QED BY <1>2, <2>3, FlatRuns
<1> QED BY <1>1, <1>2

Kept(f, list, set, i) ==
    IF i = 0 THEN <<>>
    ELSE IF list[i] \in set THEN Append(f[i - 1], list[i]) ELSE f[i - 1]
KeptRun(list, set) == CHOOSE f : f = [i \in 0 .. Len(list) |-> Kept(f, list, set, i)]

\* The elements of a list that are in a set.
LEMMA KeptRuns ==
    ASSUME NEW list, NEW set, Len(list) \in Nat
    PROVE  /\ Only(list, set) = KeptRun(list, set)[Len(list)]
           /\ \A i \in 0 .. Len(list) : KeptRun(list, set)[i] = Kept(KeptRun(list, set), list, set, i)
<1> DEFINE n == Len(list)
           Is(g, m) == g = [i \in 0 .. m |-> Kept(g, list, set, i)]
           T == {m \in 0 .. n : \E g : Is(g, m)}
<1>1. 0 \in T
  <2>1. \A i \in 0 .. 0 : i = 0
    OBVIOUS
  <2>2. 0 \in 0 .. n
    OBVIOUS
  <2> DEFINE g0 == [i \in 0 .. 0 |-> <<>>]
  <2>3. \A i \in 0 .. 0 : Kept(g0, list, set, i) = <<>>
    BY <2>1 DEF Kept
  <2>4. Is(g0, 0)
    BY <2>3, Zenon
  <2> QED BY <2>2, <2>4
<1>2. ASSUME NEW m \in 0 .. n - 1, m \in T PROVE m + 1 \in T
  <2>1. PICK g : Is(g, m)
    BY <1>2
  <2> DEFINE h == [i \in 0 .. m + 1 |-> IF i = m + 1 THEN Kept(g, list, set, m + 1) ELSE g[i]]
  <2>2. ASSUME NEW i \in 0 .. m + 1 PROVE h[i] = Kept(h, list, set, i)
    <3>1. i # 0 => h[i - 1] = g[i - 1]
      <4>1. i # 0 => i - 1 \in 0 .. m + 1 /\ i - 1 # m + 1
        OBVIOUS
      <4> QED BY <4>1, Zenon
    <3>2. Kept(h, list, set, i) = Kept(g, list, set, i)
      <4> HIDE DEF h
      <4> QED BY <3>1 DEF Kept
    <3>3. CASE i = m + 1
      BY <3>2, <3>3, Zenon
    <3>4. CASE i # m + 1
      <4>1. i \in 0 .. m
        BY <3>4
      <4>2. h[i] = g[i]
        BY <3>4, Zenon
      <4>3. g[i] = Kept(g, list, set, i)
        BY <4>1, <2>1, Zenon
      <4> QED BY <3>2, <4>2, <4>3, Zenon
    <3> QED BY <3>3, <3>4
  <2>3. Is(h, m + 1)
    BY <2>2, Zenon
  <2>4. m + 1 \in 0 .. n
    OBVIOUS
  <2> HIDE DEF Is
  <2> QED BY <2>3, <2>4
<1>3. PICK g : Is(g, n)
  <2> HIDE DEF T
  <2>1. \A m \in 0 .. n : m \in T
    BY <1>1, <1>2, Climb, Zenon
  <2>2. n \in T
    BY <2>1
  <2> USE DEF T
  <2> HIDE DEF Is
  <2> QED BY <2>2
<1>4. KeptRun(list, set) = [i \in 0 .. n |-> Kept(KeptRun(list, set), list, set, i)]
  BY <1>3, Zenon DEF KeptRun
<1>5. Only(list, set) = KeptRun(list, set)[n]
  BY Zenon DEF Only, KeptRun, Kept
<1> QED BY <1>4, <1>5, Zenon

LEMMA OnlyIs ==
    ASSUME NEW S, NEW list \in Seq(S), NEW set
    PROVE  Only(list, set) \in Seq(S \cap set)
<1> DEFINE n == Len(list)
           T == {m \in 0 .. n : KeptRun(list, set)[m] \in Seq(S \cap set)}
<1>0. n \in Nat
  OBVIOUS
<1>1. 0 \in T
  <2>1. 0 \in 0 .. n
    BY <1>0
  <2>2. KeptRun(list, set)[0] = <<>>
    <3>1. KeptRun(list, set)[0] = Kept(KeptRun(list, set), list, set, 0)
      BY <1>0, <2>1, KeptRuns
    <3> QED BY <3>1, Zenon DEF Kept
  <2>3. KeptRun(list, set)[0] \in Seq(S \cap set)
    BY <2>2
  <2> QED BY <2>1, <2>3
<1>2. ASSUME NEW m \in 0 .. n - 1, m \in T PROVE m + 1 \in T
  <2>1. m + 1 \in 0 .. n /\ m + 1 \in 1 .. n /\ m + 1 # 0 /\ (m + 1) - 1 = m
    BY <1>0
  <2>2. KeptRun(list, set)[m + 1] = Kept(KeptRun(list, set), list, set, m + 1)
    BY <1>0, <2>1, KeptRuns
  <2>3. Kept(KeptRun(list, set), list, set, m + 1)
            = IF list[m + 1] \in set THEN Append(KeptRun(list, set)[m], list[m + 1]) ELSE KeptRun(list, set)[m]
    BY <2>1, Zenon DEF Kept
  <2>4. KeptRun(list, set)[m] \in Seq(S \cap set)
    BY <1>2
  <2>5. list[m + 1] \in S
    BY <2>1, ElementOfSeq
  <2>6. list[m + 1] \in set => Append(KeptRun(list, set)[m], list[m + 1]) \in Seq(S \cap set)
    BY <2>4, <2>5, AppendProperties
  <2> QED BY <2>1, <2>2, <2>3, <2>4, <2>6
<1>3. n \in T
  <2> HIDE DEF T
  <2>1. \A m \in 0 .. n : m \in T
    BY <1>0, <1>1, <1>2, Climb, Zenon
  <2> QED BY <1>0, <2>1
<1> QED BY <1>0, <1>3, KeptRuns

\* The digits' value in Number.
Worth(f, s, i) == IF i = 0 THEN 0 ELSE 10 * f[i - 1] + s[i] - 48
WorthRun(s, n) == CHOOSE f : f = [i \in 0 .. n |-> Worth(f, s, i)]

LEMMA WorthRuns ==
    ASSUME NEW s, NEW k \in Nat
    PROVE  \A i \in 0 .. k : WorthRun(s, k)[i] = Worth(WorthRun(s, k), s, i)
<1> DEFINE n == k
           Is(g, m) == g = [i \in 0 .. m |-> Worth(g, s, i)]
           T == {m \in 0 .. n : \E g : Is(g, m)}
<1>1. 0 \in T
  <2>1. \A i \in 0 .. 0 : i = 0
    OBVIOUS
  <2>2. 0 \in 0 .. n
    OBVIOUS
  <2> DEFINE g0 == [i \in 0 .. 0 |-> 0]
  <2>3. \A i \in 0 .. 0 : Worth(g0, s, i) = 0
    BY <2>1 DEF Worth
  <2>4. Is(g0, 0)
    BY <2>3, Zenon
  <2> QED BY <2>2, <2>4
<1>2. ASSUME NEW m \in 0 .. n - 1, m \in T PROVE m + 1 \in T
  <2>1. PICK g : Is(g, m)
    BY <1>2
  <2> DEFINE h == [i \in 0 .. m + 1 |-> IF i = m + 1 THEN Worth(g, s, m + 1) ELSE g[i]]
  <2>2. ASSUME NEW i \in 0 .. m + 1 PROVE h[i] = Worth(h, s, i)
    <3>1. i # 0 => h[i - 1] = g[i - 1]
      <4>1. i # 0 => i - 1 \in 0 .. m + 1 /\ i - 1 # m + 1
        OBVIOUS
      <4> QED BY <4>1, Zenon
    <3>2. Worth(h, s, i) = Worth(g, s, i)
      <4> HIDE DEF h
      <4> QED BY <3>1 DEF Worth
    <3>3. CASE i = m + 1
      BY <3>2, <3>3, Zenon
    <3>4. CASE i # m + 1
      <4>1. i \in 0 .. m
        BY <3>4
      <4>2. h[i] = g[i]
        BY <3>4, Zenon
      <4>3. g[i] = Worth(g, s, i)
        BY <4>1, <2>1, Zenon
      <4> QED BY <3>2, <4>2, <4>3, Zenon
    <3> QED BY <3>3, <3>4
  <2>3. Is(h, m + 1)
    BY <2>2, Zenon
  <2>4. m + 1 \in 0 .. n
    OBVIOUS
  <2> HIDE DEF Is
  <2> QED BY <2>3, <2>4
<1>3. PICK g : Is(g, n)
  <2> HIDE DEF T
  <2>1. \A m \in 0 .. n : m \in T
    BY <1>1, <1>2, Climb, Zenon
  <2>2. n \in T
    BY <2>1
  <2> USE DEF T
  <2> HIDE DEF Is
  <2> QED BY <2>2
<1>4. WorthRun(s, k) = [i \in 0 .. n |-> Worth(WorthRun(s, k), s, i)]
  BY <1>3, Zenon DEF WorthRun
<1> QED BY <1>4, Zenon

DigitsStep(f, i) == IF i < 10 THEN <<48 + i>> ELSE Append(f[i \div 10], 48 + (i % 10))
DigitsRun(n) == CHOOSE f : f = [i \in 0 .. n |-> DigitsStep(f, i)]

LEMMA DigitsRuns ==
    ASSUME NEW n \in Nat
    PROVE  /\ PutInt(n) = DigitsRun(n)[n]
           /\ \A i \in 0 .. n : DigitsRun(n)[i] = DigitsStep(DigitsRun(n), i)
<1> DEFINE Is(g, m) == g = [i \in 0 .. m |-> DigitsStep(g, i)]
           T == {m \in 0 .. n : \E g : Is(g, m)}
<1>1. 0 \in T
  <2>1. \A i \in 0 .. 0 : i = 0
    OBVIOUS
  <2>2. 0 \in 0 .. n
    OBVIOUS
  <2> DEFINE g0 == [i \in 0 .. 0 |-> <<48>>]
  <2>3. \A i \in 0 .. 0 : DigitsStep(g0, i) = <<48>>
    BY <2>1 DEF DigitsStep
  <2>4. Is(g0, 0)
    BY <2>3, Zenon
  <2> QED BY <2>2, <2>4
<1>2. ASSUME NEW m \in 0 .. n - 1, m \in T PROVE m + 1 \in T
  <2>1. PICK g : Is(g, m)
    BY <1>2
  <2> DEFINE h == [i \in 0 .. m + 1 |-> IF i = m + 1 THEN DigitsStep(g, m + 1) ELSE g[i]]
  <2>2. ASSUME NEW i \in 0 .. m + 1 PROVE h[i] = DigitsStep(h, i)
    <3>1. i >= 10 => h[i \div 10] = g[i \div 10]
      <4>1. i >= 10 => i \div 10 \in 0 .. m + 1 /\ i \div 10 # m + 1
        OBVIOUS
      <4> QED BY <4>1, Zenon
    <3>2. DigitsStep(h, i) = DigitsStep(g, i)
      <4> HIDE DEF h
      <4> QED BY <3>1 DEF DigitsStep
    <3>3. CASE i = m + 1
      BY <3>2, <3>3, Zenon
    <3>4. CASE i # m + 1
      <4>1. i \in 0 .. m
        BY <3>4
      <4>2. h[i] = g[i]
        BY <3>4, Zenon
      <4>3. g[i] = DigitsStep(g, i)
        BY <4>1, <2>1, Zenon
      <4> QED BY <3>2, <4>2, <4>3, Zenon
    <3> QED BY <3>3, <3>4
  <2>3. Is(h, m + 1)
    BY <2>2, Zenon
  <2>4. m + 1 \in 0 .. n
    OBVIOUS
  <2> HIDE DEF Is
  <2> QED BY <2>3, <2>4
<1>3. PICK g : Is(g, n)
  <2> HIDE DEF T
  <2>1. \A m \in 0 .. n : m \in T
    BY <1>1, <1>2, Climb, Zenon
  <2>2. n \in T
    BY <2>1
  <2> USE DEF T
  <2> HIDE DEF Is
  <2> QED BY <2>2
<1>4. DigitsRun(n) = [i \in 0 .. n |-> DigitsStep(DigitsRun(n), i)]
  BY <1>3, Zenon DEF DigitsRun
<1>5. PutInt(n) = DigitsRun(n)[n]
  BY Zenon DEF PutInt, DigitsRun, DigitsStep
<1> QED BY <1>4, <1>5, Zenon

Value(s) == WorthRun(s, Len(s))[Len(s)]

LEMMA NumberIs ==
    ASSUME NEW s \in Seq(Digit)
    PROVE  Number(s) = Value(s)
<1>1. \A i \in 0 .. Len(s) - 1 : At(s, i) \in Digit
  BY ElementOfSeq DEF At
<1>2. {i \in 0 .. Len(s) - 1 : At(s, i) \notin Digit} = {} /\ Len(s) \in Nat
  BY <1>1
<1>3. Min({Len(s)} \cup {i \in 0 .. Len(s) - 1 : At(s, i) \notin Digit}) = Len(s)
  <2>1. {Len(s)} \in SUBSET Nat /\ {Len(s)} # {}
    BY <1>2
  <2>2. Min({Len(s)}) = Len(s)
    BY <2>1, MinIs
  <2>3. {Len(s)} \cup {i \in 0 .. Len(s) - 1 : At(s, i) \notin Digit} = {Len(s)}
    BY <1>2
  <2> QED BY <2>2, <2>3
<1> QED BY <1>3, Zenon DEF Number, Value, WorthRun, Worth

LEMMA ValueOfAppend ==
    ASSUME NEW s \in Seq(Digit), NEW d \in Digit, Value(s) \in Nat
    PROVE  Value(Append(s, d)) = 10 * Value(s) + d - 48
<1> DEFINE k == Len(s)
           t == Append(s, d)
           T == {m \in 0 .. k : WorthRun(t, k + 1)[m] = WorthRun(s, k)[m]}
<1>0. /\ k \in Nat /\ Len(t) = k + 1 /\ t[k + 1] = d
      /\ \A i \in 1 .. k : t[i] = s[i]
  BY AppendProperties
<1> HIDE DEF t, k
<1>1. 0 \in T
  <2>1. 0 \in 0 .. k /\ 0 \in 0 .. k + 1
    BY <1>0
  <2>2. WorthRun(t, k + 1)[0] = Worth(WorthRun(t, k + 1), t, 0)
    BY <1>0, <2>1, WorthRuns
  <2>3. WorthRun(s, k)[0] = Worth(WorthRun(s, k), s, 0)
    BY <1>0, <2>1, WorthRuns
  <2> QED BY <2>1, <2>2, <2>3 DEF Worth
<1>2. ASSUME NEW m \in 0 .. k - 1, m \in T PROVE m + 1 \in T
  <2>1. /\ m + 1 \in 0 .. k /\ m + 1 \in 0 .. k + 1 /\ m + 1 \in 1 .. k /\ m + 1 # 0
        /\ (m + 1) - 1 = m
    BY <1>0
  <2>2. WorthRun(t, k + 1)[m + 1] = Worth(WorthRun(t, k + 1), t, m + 1)
    BY <1>0, <2>1, WorthRuns
  <2>3. WorthRun(s, k)[m + 1] = Worth(WorthRun(s, k), s, m + 1)
    BY <1>0, <2>1, WorthRuns
  <2>4. WorthRun(t, k + 1)[m] = WorthRun(s, k)[m]
    BY <1>2
  <2>5. Worth(WorthRun(t, k + 1), t, m + 1) = Worth(WorthRun(s, k), s, m + 1)
    BY <1>0, <2>1, <2>4 DEF Worth
  <2> QED BY <2>1, <2>2, <2>3, <2>5
<1>3. k \in T
  <2> HIDE DEF T
  <2>1. \A m \in 0 .. k : m \in T
    BY <1>0, <1>1, <1>2, Climb, Zenon
  <2> QED BY <1>0, <2>1
<1>4. k + 1 \in 0 .. k + 1 /\ k + 1 # 0 /\ (k + 1) - 1 = k
  BY <1>0
<1>5. WorthRun(t, k + 1)[k + 1] = Worth(WorthRun(t, k + 1), t, k + 1)
  BY <1>0, <1>4, WorthRuns
<1>6. WorthRun(t, k + 1)[k] = WorthRun(s, k)[k]
  BY <1>3
<1>7. WorthRun(t, k + 1)[k + 1] = 10 * WorthRun(s, k)[k] + d - 48
  BY <1>0, <1>4, <1>5, <1>6 DEF Worth
<1>8. Value(t) = WorthRun(t, k + 1)[k + 1] /\ Value(s) = WorthRun(s, k)[k]
  BY <1>0 DEF Value, k
<1> QED BY <1>7, <1>8 DEF t

LEMMA ValueOfDigit ==
    ASSUME NEW d \in Digit
    PROVE  Value(<<d>>) = d - 48
<1>1. Len(<<d>>) = 1 /\ <<d>>[1] = d
  OBVIOUS
<1>2. 0 \in 0 .. 1 /\ 1 \in 0 .. 1 /\ 1 - 1 = 0
  OBVIOUS
<1>3. WorthRun(<<d>>, 1)[0] = 0
  BY <1>2, WorthRuns DEF Worth
<1>4. WorthRun(<<d>>, 1)[1] = Worth(WorthRun(<<d>>, 1), <<d>>, 1)
  BY <1>2, WorthRuns
<1>5. Worth(WorthRun(<<d>>, 1), <<d>>, 1) = 10 * 0 + d - 48
  BY <1>1, <1>2, <1>3 DEF Worth
<1> QED BY <1>1, <1>4, <1>5 DEF Value, Digit

\* Writing a number and reading it back.
LEMMA PutIntIs ==
    ASSUME NEW n \in Nat
    PROVE  /\ PutInt(n) \in Seq(Digit) /\ Len(PutInt(n)) >= 1
           /\ Number(PutInt(n)) = n
<1> DEFINE Good(i) == LET p == DigitsRun(n)[i] IN p \in Seq(Digit) /\ Len(p) >= 1 /\ Value(p) = i
           T == {i \in 0 .. n : ~Good(i)}
<1>1. ASSUME NEW i \in 0 .. n, \A j \in 0 .. i - 1 : Good(j) PROVE Good(i)
  <2>1. DigitsRun(n)[i] = DigitsStep(DigitsRun(n), i)
    BY DigitsRuns
  <2>2. CASE i < 10
    <3>1. DigitsRun(n)[i] = <<48 + i>> /\ 48 + i \in Digit
      BY <2>1, <2>2 DEF DigitsStep, Digit
    <3>2. Value(<<48 + i>>) = 48 + i - 48
      BY <3>1, ValueOfDigit
    <3>3. <<48 + i>> \in Seq(Digit) /\ Len(<<48 + i>>) >= 1
      BY <3>1
    <3> QED BY <3>1, <3>2, <3>3
  <2>3. CASE ~(i < 10)
    <3> DEFINE q == i \div 10
               d == 48 + (i % 10)
    <3>1. q \in 0 .. i - 1 /\ d \in Digit /\ i = 10 * q + d - 48
      BY <2>3 DEF Digit
    <3>2. DigitsRun(n)[i] = Append(DigitsRun(n)[q], d)
      BY <2>1, <2>3 DEF DigitsStep
    <3> HIDE DEF q, d
    <3>3. DigitsRun(n)[q] \in Seq(Digit) /\ Len(DigitsRun(n)[q]) >= 1 /\ Value(DigitsRun(n)[q]) = q
      BY <1>1, <3>1
    <3>4. q \in Nat
      BY <3>1
    <3>5. Value(Append(DigitsRun(n)[q], d)) = 10 * Value(DigitsRun(n)[q]) + d - 48
      BY <3>1, <3>3, <3>4, ValueOfAppend
    <3>6. /\ Append(DigitsRun(n)[q], d) \in Seq(Digit)
          /\ Len(Append(DigitsRun(n)[q], d)) >= 1
      BY <3>1, <3>3, AppendProperties
    <3>7. Value(Append(DigitsRun(n)[q], d)) = i
      BY <3>1, <3>3, <3>5
    <3> QED BY <3>2, <3>6, <3>7
  <2> QED BY <2>2, <2>3
<1>2. Good(n)
  <2> HIDE DEF Good
  <2>1. CASE T = {}
    BY <2>1
  <2>2. CASE T # {}
    <3>1. T \in SUBSET Nat
      OBVIOUS
    <3>2. PICK i \in T : \A k \in T : i <= k
      BY <2>2, <3>1, LeastNat
    <3>3. \A j \in 0 .. i - 1 : j \notin T /\ j \in 0 .. n
      BY <3>2
    <3>4. \A j \in 0 .. i - 1 : Good(j)
      BY <3>3
    <3> QED BY <1>1, <3>2, <3>4
  <2> QED BY <2>1, <2>2
<1> QED BY <1>2, DigitsRuns, NumberIs

-----------------------------------------------------------------------------
(* The line editor.                                                        *)

Rl == [line : Text, cursor : Nat, hp : Nat, tab : BOOLEAN, yank : Text, rev : BOOLEAN, rq : Text,
       shown : Nat, draw : Nat]
History == [cmds : Seq(Text), base : Nat]

\* What readline keeps: the cursor is in the line, the place in the history in it.
Edits(r, h) == r \in Rl /\ r.cursor <= Len(r.line) /\ r.hp <= Len(h.cmds)

SetLine(r, x, i) == [r EXCEPT !.line = x, !.cursor = i]

\* The fields of readline, set one at a time.
LEMMA EditsSet ==
    ASSUME NEW h \in History, NEW r, Edits(r, h), NEW x \in Text, NEW i \in Nat, i <= Len(x)
    PROVE  /\ Edits(SetLine(r, x, i), h)
           /\ SetLine(r, x, i).line = x /\ SetLine(r, x, i).cursor = i
           /\ SetLine(r, x, i).rev = r.rev /\ SetLine(r, x, i).yank = r.yank
           /\ SetLine(r, x, i).tab = r.tab /\ SetLine(r, x, i).hp = r.hp
  BY DEF Edits, Rl, SetLine

SetCursor(r, i) == [r EXCEPT !.cursor = i]

LEMMA EditsCursor ==
    ASSUME NEW h \in History, NEW r, Edits(r, h), NEW i \in Nat, i <= Len(r.line)
    PROVE  Edits(SetCursor(r, i), h)
  BY DEF Edits, Rl, SetCursor

SetTab(r, b) == [r EXCEPT !.tab = b]

LEMMA EditsTab ==
    ASSUME NEW h \in History, NEW r, Edits(r, h), NEW b \in BOOLEAN
    PROVE  /\ Edits(SetTab(r, b), h)
           /\ SetTab(r, b).line = r.line /\ SetTab(r, b).cursor = r.cursor
           /\ SetTab(r, b).yank = r.yank /\ SetTab(r, b).rev = r.rev /\ SetTab(r, b).hp = r.hp
  BY DEF Edits, Rl, SetTab

SetHp(r, i) == [r EXCEPT !.hp = i]

LEMMA EditsHp ==
    ASSUME NEW h \in History, NEW r, Edits(r, h), NEW i \in 0 .. Len(h.cmds)
    PROVE  Edits(SetHp(r, i), h)
  BY DEF Edits, Rl, History, SetHp

SetYank(r, x) == [r EXCEPT !.yank = x]

LEMMA EditsYank ==
    ASSUME NEW h \in History, NEW r, Edits(r, h), NEW x \in Text
    PROVE  Edits(SetYank(r, x), h)
  BY DEF Edits, Rl, SetYank

SetQuery(r, b, x) == [r EXCEPT !.rev = b, !.rq = x]

LEMMA EditsQuery ==
    ASSUME NEW h \in History, NEW r, Edits(r, h), NEW x \in Text, NEW b \in BOOLEAN
    PROVE  Edits(SetQuery(r, b, x), h)
  BY DEF Edits, Rl, SetQuery

\* What is known of the parts.
LEMMA LineIs ==
    ASSUME NEW h \in History, NEW r, Edits(r, h)
    PROVE  /\ r.line \in Text /\ Len(r.line) \in Nat /\ r.cursor \in 0 .. Len(r.line)
           /\ r.yank \in Text /\ r.rq \in Text /\ r.hp \in 0 .. Len(h.cmds)
           /\ h.cmds \in Seq(Text) /\ Len(h.cmds) \in Nat
           /\ r.tab \in BOOLEAN /\ r.rev \in BOOLEAN
  BY DEF Edits, Rl, Text, History

LEMMA TextIs ==
    ASSUME NEW s \in Text, NEW i \in Int, i <= Len(s)
    PROVE  /\ Before(s, i) \in Text /\ Len(Before(s, i)) = IF i >= 0 THEN i ELSE 0
           /\ Len(s) \in Nat
  BY BeforeIs DEF Text

LEMMA TextFrom ==
    ASSUME NEW s \in Text, NEW i \in Nat
    PROVE  From(s, i) \in Text /\ Len(From(s, i)) = IF i <= Len(s) THEN Len(s) - i ELSE 0
  BY FromIs DEF Text

LEMMA TextJoin ==
    ASSUME NEW s \in Text, NEW t \in Text
    PROVE  s \o t \in Text /\ Len(s \o t) = Len(s) + Len(t) /\ Len(s) \in Nat /\ Len(t) \in Nat
  BY ConcatProperties DEF Text

\* The ways in which a key changes the line: insert, erase, delete a range; and where words end.
LEMMA InsertIs ==
    ASSUME NEW h \in History, NEW r, Edits(r, h), NEW text \in Text
    PROVE  /\ Edits(Insert(r, text), h)
           /\ Insert(r, text).line = Before(r.line, r.cursor) \o text \o From(r.line, r.cursor)
<1>0. PICK c \in Nat : c = r.cursor /\ c <= Len(r.line) /\ r.line \in Text
  BY LineIs
<1>1. PICK b \in Text : b = Before(r.line, c) /\ Len(b) = c
  BY <1>0, TextIs
<1>2. PICK f \in Text : f = From(r.line, c)
  BY <1>0, TextFrom
<1>3. PICK u \in Text : u = b \o text /\ Len(u) = c + Len(text) /\ Len(text) \in Nat
  <2>1. b \o text \in Text /\ Len(b \o text) = Len(b) + Len(text) /\ Len(text) \in Nat
    BY TextJoin
  <2> QED BY <1>1, <2>1
<1>4. PICK x \in Text : x = u \o f /\ Len(x) = Len(u) + Len(f) /\ Len(f) \in Nat
  BY TextJoin
<1>5. PICK i \in Nat : i = c + Len(text) /\ i <= Len(x)
  BY <1>3, <1>4
<1>6. Edits(SetLine(r, x, i), h) /\ SetLine(r, x, i).line = x
  BY <1>5, EditsSet
<1>7. Insert(r, text) = SetLine(r, x, i)
  BY <1>0, <1>1, <1>2, <1>3, <1>4, <1>5, Zenon DEF Insert, SetLine
<1>8. x = Before(r.line, r.cursor) \o text \o From(r.line, r.cursor)
  BY <1>0, <1>1, <1>2, <1>3, <1>4
<1> QED BY <1>6, <1>7, <1>8

\* The line without the piece from "from" to "to".
LEMMA CutOut ==
    ASSUME NEW s \in Text, NEW from \in Nat, NEW to \in Nat, from <= to, to <= Len(s)
    PROVE  /\ Before(s, from) \o From(s, to) \in Text
           /\ Len(Before(s, from) \o From(s, to)) = Len(s) - (to - from)
           /\ from <= Len(Before(s, from) \o From(s, to))
<1>1. PICK b \in Text : b = Before(s, from) /\ Len(b) = from /\ Len(s) \in Nat
  BY TextIs
<1>2. PICK f \in Text : f = From(s, to) /\ Len(f) = Len(s) - to
  BY TextFrom
<1>3. b \o f \in Text /\ Len(b \o f) = Len(b) + Len(f)
  BY TextJoin
<1>4. Len(b \o f) = Len(s) - (to - from) /\ from <= Len(b \o f)
  BY <1>1, <1>2, <1>3
<1> QED BY <1>1, <1>2, <1>3, <1>4

LEMMA EraseIs ==
    ASSUME NEW h \in History, NEW r, Edits(r, h), NEW i \in Nat, i < Len(r.line)
    PROVE  Edits(Erase(r, i), h)
<1>1. i + 1 \in Nat /\ i <= i + 1 /\ i + 1 <= Len(r.line) /\ r.line \in Text
  BY LineIs
<1>2. Before(r.line, i) \o From(r.line, i + 1) \in Text /\ i <= Len(Before(r.line, i) \o From(r.line, i + 1))
  BY <1>1, CutOut
<1>3. PICK x \in Text : x = Before(r.line, i) \o From(r.line, i + 1) /\ i <= Len(x)
  BY <1>2
<1>4. Erase(r, i) = SetLine(r, x, i)
  BY <1>3, Zenon DEF Erase, SetLine
<1>5. Edits(SetLine(r, x, i), h)
  BY <1>3, EditsSet
<1> QED BY <1>4, <1>5, Zenon

LEMMA DeleteRangeIs ==
    ASSUME NEW h \in History, NEW r, Edits(r, h), NEW from \in Nat, NEW to \in Nat, to <= Len(r.line)
    PROVE  Edits(DeleteRange(r, from, to), h)
<1>1. CASE to <= from
  BY <1>1 DEF DeleteRange
<1>2. CASE ~(to <= from)
  <2>1. r.line \in Text /\ from <= to
    BY <1>2, LineIs
  <2> DEFINE x == Before(r.line, from) \o From(r.line, to)
             y == SubSeq(r.line, from + 1, to)
  <2>2. x \in Text /\ from <= Len(x)
    BY <2>1, CutOut
  <2>3. y \in Text
    BY <2>1, SubSeqIs DEF Text
  <2> HIDE DEF x, y
  <2>4. PICK r2 : r2 = SetLine(r, x, from)
    OBVIOUS
  <2>5. Edits(r2, h)
    BY <2>2, <2>4, EditsSet
  <2>6. Edits(SetYank(r2, y), h)
    BY <2>3, <2>5, EditsYank
  <2>7. SetYank(r2, y) = [r EXCEPT !.line = x, !.cursor = from, !.yank = y]
    BY <2>4 DEF SetYank, SetLine
  <2> QED BY <1>2, <2>6, <2>7 DEF DeleteRange, x, y
<1> QED BY <1>1, <1>2

LEMMA WordLeftIs ==
    ASSUME NEW line, NEW c \in Nat
    PROVE  Word_left(line, c) \in 0 .. c
<1> DEFINE i == IF c > 0 THEN c - 1 ELSE 0
           J == {0} \cup {k \in 1 .. i : At(line, k) # SP}
           j == Max(J)
           K == {0} \cup {k \in 1 .. j : At(line, k - 1) = SP}
<1>1. i \in Nat /\ i <= c
  OBVIOUS
<1>2. J \in SUBSET (0 .. i) /\ J # {}
  BY <1>1
<1> HIDE DEF i, J
<1>3. j \in 0 .. i
  BY <1>1, <1>2, MaxIs
<1>4. K \in SUBSET (0 .. j) /\ K # {} /\ j \in Nat
  BY <1>1, <1>3
<1> HIDE DEF j, K
<1>5. Max(K) \in 0 .. j
  BY <1>4, MaxIs
<1> QED BY <1>1, <1>3, <1>5 DEF Word_left, i, J, j, K

LEMMA WordRightIs ==
    ASSUME NEW line, Len(line) \in Nat, NEW c \in 0 .. Len(line)
    PROVE  Word_right(line, c) \in c .. Len(line)
<1> DEFINE n == Len(line)
           I == {n} \cup {k \in c .. n - 1 : At(line, k) = SP}
           i == Min(I)
           K == {n} \cup {k \in i .. n - 1 : At(line, k) # SP}
<1>1. I \in SUBSET Nat /\ I # {} /\ I \subseteq c .. n
  OBVIOUS
<1> HIDE DEF I
<1>2. i \in c .. n
  BY <1>1, MinIs
<1>3. K \in SUBSET Nat /\ K # {} /\ K \subseteq c .. n
  BY <1>2
<1> HIDE DEF i, K
<1>4. Min(K) \in c .. n
  BY <1>3, MinIs
<1> QED BY <1>4 DEF Word_right, n, I, i, K

-----------------------------------------------------------------------------
(* The history.                                                            *)

\* Up and down in the history.
LEMMA ShowIs ==
    ASSUME NEW h \in History, NEW r, Edits(r, h), NEW x \in Text
    PROVE  Edits(Show(r, x), h)
<1>1. PICK i \in Nat : i = Len(x)
  BY TextIs DEF Text
<1>2. Edits(SetLine(r, x, i), h)
  BY <1>1, EditsSet
<1>3. Show(r, x) = SetLine(r, x, i)
  BY <1>1 DEF Show, SetLine
<1> QED BY <1>2, <1>3

LEMMA OlderIs ==
    ASSUME NEW h \in History, NEW r, Edits(r, h), h.cmds # <<>>
    PROVE  Edits(Older(r, h), h)
<1>1. /\ h.cmds \in Seq(Text) /\ r.hp \in 0 .. Len(h.cmds) /\ Len(h.cmds) \in Nat
  BY LineIs
<1>2. Len(h.cmds) # 0
  BY <1>1
<1>3. r.hp - 1 \in Int /\ Max({1, r.hp - 1}) = IF 1 >= r.hp - 1 THEN 1 ELSE r.hp - 1
  BY <1>1, MaxOfTwo
<1>4. PICK hp : hp = IF r.hp = 0 THEN Len(h.cmds) ELSE Max({1, r.hp - 1})
  OBVIOUS
<1>5. hp \in 1 .. Len(h.cmds) /\ hp \in 0 .. Len(h.cmds)
  BY <1>1, <1>2, <1>3, <1>4
<1>6. h.cmds[hp] \in Text
  BY <1>1, <1>5, ElementOfSeq
<1>7. PICK r2 : r2 = Show(r, h.cmds[hp])
  OBVIOUS
<1>8. Edits(r2, h)
  BY <1>6, <1>7, ShowIs
<1>9. Edits(SetHp(r2, hp), h)
  BY <1>5, <1>8, EditsHp
<1> QED BY <1>4, <1>7, <1>9 DEF Older, SetHp

LEMMA NewerIs ==
    ASSUME NEW h \in History, NEW r, Edits(r, h)
    PROVE  Edits(Newer(r, h), h)
<1>1. /\ h.cmds \in Seq(Text) /\ r.hp \in 0 .. Len(h.cmds) /\ Len(h.cmds) \in Nat
  BY LineIs
<1>2. CASE r.hp = 0 \/ r.hp = Len(h.cmds)
  <2>1. PICK r2 : r2 = Show(r, <<>>)
    OBVIOUS
  <2>2. <<>> \in Text
    BY DEF Text
  <2>3. Edits(r2, h) /\ 0 \in 0 .. Len(h.cmds)
    BY <1>1, <2>1, <2>2, ShowIs
  <2>4. Edits(SetHp(r2, 0), h)
    BY <2>3, EditsHp
  <2> QED BY <1>2, <2>1, <2>4 DEF Newer, SetHp
<1>3. CASE ~(r.hp = 0 \/ r.hp = Len(h.cmds))
  <2>1. PICK hp : hp = r.hp + 1
    OBVIOUS
  <2>2. hp \in 1 .. Len(h.cmds) /\ hp \in 0 .. Len(h.cmds)
    BY <1>1, <1>3, <2>1
  <2>3. h.cmds[hp] \in Text
    BY <1>1, <2>2, ElementOfSeq
  <2>4. PICK r2 : r2 = Show(r, h.cmds[hp])
    OBVIOUS
  <2>5. Edits(r2, h)
    BY <2>3, <2>4, ShowIs
  <2>6. Edits(SetHp(r2, hp), h)
    BY <2>2, <2>5, EditsHp
  <2> QED BY <1>3, <2>1, <2>4, <2>6 DEF Newer, SetHp
<1> QED BY <1>2, <1>3

\* hist_add: a full history forgets its oldest command and counts it.
LEMMA HistAddIs ==
    ASSUME NEW h \in History, NEW s \in Text
    PROVE  HistAdd(h, s) \in History
<1>1. h.cmds \in Seq(Text) /\ h.base \in Nat /\ Len(h.cmds) \in Nat
  BY DEF History
<1>2. Append(h.cmds, s) \in Seq(Text)
  BY <1>1, AppendProperties
<1>3. ASSUME ~(Len(h.cmds) < HistMax) PROVE Append(Tail(h.cmds), s) \in Seq(Text)
  <2>1. h.cmds # <<>>
    BY <1>1, <1>3, ReadlineAssumption
  <2>2. Tail(h.cmds) \in Seq(Text)
    BY <1>1, <2>1, HeadTailProperties
  <2> QED BY <2>2, AppendProperties
<1>4. [h EXCEPT !.cmds = Append(h.cmds, s)] \in History
  BY <1>2 DEF History
<1> QED BY <1>1, <1>3, <1>4 DEF HistAdd, History

\* What HistExpand puts in place of the text between the carets.
Replaced(l, old, by, m) == Before(l, m) \o by \o From(l, m + Len(old))

\* Whatever a "!" or a caret stands for is a line again, or nothing.
LEMMA HistExpandIs ==
    ASSUME NEW h \in History, NEW s \in Text
    PROVE  HistExpand(h, s).r \in Int /\ HistExpand(h, s).s \in Text
<1> DEFINE n == Len(h.cmds)
           rest == From(s, 1)
           i == Number(rest) - h.base
           some == {k \in 1 .. n : MatchPrefix(h.cmds[k], rest)}
           b == Min({Len(rest)} \cup {k \in 0 .. Len(rest) - 1 : At(rest, k) = Caret})
           old == Before(rest, b)
           at == {k \in 0 .. Len(Last(h.cmds)) - 1 : MatchPrefix(From(Last(h.cmds), k), old)}
           new == Before(Last(h.cmds), Min(at)) \o From(rest, b + 1)
                  \o From(Last(h.cmds), Min(at) + b)
           fit == SubSeq(new, 1, Min({LineMax - 1, Len(new)}))
           Well(e) == e.r \in Int /\ e.s \in Text
<1>0. h.cmds \in Seq(Text) /\ n \in Nat /\ rest \in Text
  BY TextFrom DEF History
<1>1. Well(NotFound) /\ Well(Unchanged(s)) /\ \A x \in Text : Well(Expanded(x))
  BY DEF NotFound, Unchanged, Expanded, Text
<1>2. \A k \in 1 .. n : h.cmds[k] \in Text
  BY <1>0, ElementOfSeq
<1>3. n # 0 => Last(h.cmds) \in Text
  BY <1>0, <1>2 DEF Last
<1>4. some # {} => Max(some) \in 1 .. n
  <2>1. some \in SUBSET (0 .. n)
    OBVIOUS
  <2> HIDE DEF some, n
  <2>2. some # {} => Max(some) \in some
    BY <1>0, <2>1, MaxIs
  <2> QED BY <2>2 DEF some
<1>5. ASSUME n # 0, at # {} PROVE fit \in Text
  <2>1. PICK l \in Text : l = Last(h.cmds) /\ Len(l) \in Nat
    BY <1>3, <1>5, TextIs DEF Text
  <2>2. PICK m : m = Min(at)
    OBVIOUS
  <2>3. at \in SUBSET Nat
    BY <2>1
  <2>4. m \in at
    <3> HIDE DEF at
    <3> QED BY <1>5, <2>2, <2>3, MinIs
  <2>5. m \in Nat /\ m <= Len(l)
    BY <2>1, <2>4
  <2>6. b \in Nat
    <3> DEFINE B == {Len(rest)} \cup {k \in 0 .. Len(rest) - 1 : At(rest, k) = Caret}
    <3>1. Len(rest) \in Nat
      BY <1>0 DEF Text
    <3>2. B \in SUBSET Nat /\ B # {}
      BY <3>1
    <3> HIDE DEF B
    <3>3. Min(B) \in Nat
      BY <3>2, MinIs
    <3> QED BY <3>3 DEF B
  <2> HIDE DEF at, b, rest
  <2>7. PICK x \in Text : x = Before(l, m)
    BY <2>1, <2>5, TextIs
  <2>8. PICK y \in Text : y = From(rest, b + 1)
    BY <1>0, <2>6, TextFrom
  <2>9. PICK z \in Text : z = From(l, m + b)
    BY <2>1, <2>5, <2>6, TextFrom
  <2>10. x \o y \in Text
    BY TextJoin
  <2>11. PICK w \in Text : w = x \o y \o z /\ Len(w) \in Nat
    <3>1. (x \o y) \o z \in Text
      BY <2>10, TextJoin
    <3>2. Len(x \o y \o z) \in Nat
      BY <3>1 DEF Text
    <3> QED BY <3>1, <3>2
  <2>12. new = w
    BY <2>1, <2>2, <2>7, <2>8, <2>9, <2>11
  <2>13. PICK c : c = Min({LineMax - 1, Len(w)})
    OBVIOUS
  <2>14. c \in Nat /\ c <= Len(w)
    <3>1. {LineMax - 1, Len(w)} \in SUBSET Nat /\ {LineMax - 1, Len(w)} # {}
      BY <2>11, ReadlineAssumption
    <3> QED BY <2>13, <3>1, MinIs
  <2>15. SubSeq(w, 1, c) \in Text
    BY <2>14, SubSeqIs DEF Text
  <2> HIDE DEF new
  <2> QED BY <2>12, <2>13, <2>15
<1> HIDE DEF n, rest, i, some, b, old, at, new, fit, Well
<1>6. CASE s = <<>>
  BY <1>1, <1>6, Zenon DEF HistExpand, Well
<1>7. CASE s = <<Bang, Bang>> /\ s # <<>>
  <2>1. HistExpand(h, s) = IF n = 0 THEN NotFound ELSE Expanded(Last(h.cmds))
    BY <1>7, Zenon DEF HistExpand, n
  <2> QED BY <1>1, <1>3, <2>1 DEF Well
<1>8. CASE s[1] = Bang /\ Len(s) > 1 /\ s # <<Bang, Bang>> /\ s # <<>>
  <2>1. HistExpand(h, s) = IF s[2] \in Digit
                  THEN IF i \in 1 .. n THEN Expanded(h.cmds[i]) ELSE NotFound
                  ELSE IF some = {} THEN NotFound ELSE Expanded(h.cmds[Max(some)])
    BY <1>8, Zenon DEF HistExpand, n, i, some, rest
  <2> QED BY <1>1, <1>2, <1>4, <2>1 DEF Well
<1>9. CASE s[1] = Caret /\ ~(s[1] = Bang /\ Len(s) > 1) /\ s # <<Bang, Bang>> /\ s # <<>>
  <2>1. HistExpand(h, s) = IF b = Len(rest) \/ n = 0 THEN NotFound
                  ELSE IF at = {} THEN NotFound ELSE Expanded(fit)
    BY <1>9, Zenon DEF HistExpand, n, b, at, old, rest, fit, new
  <2> QED BY <1>1, <1>5, <2>1 DEF Well
<1>10. CASE ~(s[1] = Caret) /\ ~(s[1] = Bang /\ Len(s) > 1) /\ s # <<Bang, Bang>> /\ s # <<>>
  <2>1. HistExpand(h, s) = Unchanged(s)
    BY <1>10, Zenon DEF HistExpand
  <2> QED BY <1>1, <2>1 DEF Well
<1> QED BY <1>6, <1>7, <1>8, <1>9, <1>10

-----------------------------------------------------------------------------
(* Completion.                                                             *)

Candidates(c) == c.r \in {0, 1, 2} /\ c.names \in Seq(Text) /\ (c.r = 1 => c.out \in Text)

\* What Tab finds.
LEMMA CompletionIs ==
    ASSUME NEW found \in Seq(Text), NEW force, NEW text, Len(found) = 1 => text \in Text
    PROVE  Candidates(Completion(found, force, text))
  BY DEF Candidates, Completion, None0

LEMMA None0Is == Candidates(None0)
  BY DEF Candidates, None0

LEMMA OnlyTexts ==
    ASSUME NEW list \in Seq(Text), NEW set
    PROVE  Only(list, set) \in Seq(Text)
<1>1. Only(list, set) \in Seq(Text \cap set)
  BY OnlyIs
<1>2. Text \cap set \subseteq Text
  OBVIOUS
<1> QED BY <1>1, <1>2, SeqMonotonic

LEMMA TryListIs ==
    ASSUME NEW list \in Seq(Text), NEW pref, NEW force
    PROVE  Candidates(TryList(list, pref, force))
<1>1. PICK found \in Seq(Text) : found = Only(list, {w \in ToSet(list) : MatchPrefix(w, pref)})
  BY OnlyTexts
<1>2. Len(found) = 1 => found[1] \in Text
  OBVIOUS
<1>3. Candidates(Completion(found, force, found[1]))
  BY <1>2, CompletionIs
<1> QED BY <1>1, <1>3, Zenon DEF TryList

LEMMA TryPathIs ==
    ASSUME NEW cwd \in DOMAIN Cd, NEW pref \in Text, NEW dirsOnly, NEW force
    PROVE  Candidates(TryPath(cwd, pref, dirsOnly, force))
<1> DEFINE slash == Max({0} \cup {i \in 1 .. Len(pref) : pref[i] = Slash})
           dir == IF slash = 1 THEN <<Slash>> ELSE Before(pref, Max({0, slash - 1}))
           base == From(pref, slash)
           list == Names[Cd[cwd][dir]]
           all == Only(list, {w \in ToSet(list) :
                            /\ MatchPrefix(w, base)
                            /\ dirsOnly => IsDir(cwd, JoinPath(dir, w))})
           found == SubSeq(all, 1, Min({NamesMax, Len(all)}))
           path == Before(pref, slash) \o found[1]
           whole == IF dirsOnly \/ IsDir(cwd, path) THEN path \o <<Slash>> ELSE path
<1>1. CASE ~IsDir(cwd, dir)
  <2> HIDE DEF dir
  <2>1. TryPath(cwd, pref, dirsOnly, force) = None0
    BY <1>1, Zenon DEF TryPath, dir
  <2> QED BY <2>1, None0Is
<1>2. CASE IsDir(cwd, dir)
  <2>1. Cd[cwd][dir] \in DOMAIN Cd
    <3> HIDE DEF dir
    <3> QED BY <1>2, ReadlineAssumption DEF IsDir
  <2>2. list \in Seq(Text)
    <3> HIDE DEF dir
    <3> QED BY <2>1, ReadlineAssumption
  <2>3. all \in Seq(Text)
    <3> HIDE DEF list, base
    <3> QED BY <2>2, OnlyTexts
  <2>4. slash \in Int /\ slash <= Len(pref)
    <3> DEFINE T == {0} \cup {i \in 1 .. Len(pref) : pref[i] = Slash}
    <3>1. Len(pref) \in Nat
      BY DEF Text
    <3>2. T \in SUBSET (0 .. Len(pref)) /\ T # {}
      BY <3>1
    <3> HIDE DEF T
    <3>3. Max(T) \in 0 .. Len(pref)
      BY <3>1, <3>2, MaxIs
    <3> QED BY <3>1, <3>3 DEF T
  <2> HIDE DEF all, slash
  <2>5. found \in Seq(Text)
    <3>1. PICK l \in Nat : l = Len(all)
      BY <2>3
    <3>2. PICK c : c = Min({NamesMax, l})
      OBVIOUS
    <3>3. {NamesMax, l} \in SUBSET Nat /\ {NamesMax, l} # {}
      BY ReadlineAssumption
    <3>4. c \in Nat /\ c <= l
      BY <3>2, <3>3, MinIs
    <3>5. SubSeq(all, 1, c) \in Seq(Text)
      BY <2>3, <3>1, <3>4, SubSeqIs
    <3> QED BY <3>1, <3>2, <3>5
  <2> HIDE DEF found
  <2>6. ASSUME Len(found) = 1 PROVE whole \in Text
    <3>1. found[1] \in Text
      BY <2>5, <2>6, ElementOfSeq
    <3>2. PICK x \in Text : x = Before(pref, slash)
      BY <2>4, TextIs
    <3>3. x \o found[1] \in Text /\ <<Slash>> \in Text
      BY <3>1, TextJoin DEF Text, Slash
    <3>4. (x \o found[1]) \o <<Slash>> \in Text
      BY <3>3, TextJoin
    <3> QED BY <3>2, <3>3, <3>4
  <2> HIDE DEF whole
  <2>7. Candidates(Completion(found, force, whole))
    BY <2>5, <2>6, CompletionIs
  <2>8. TryPath(cwd, pref, dirsOnly, force) = Completion(found, force, whole)
    <3> HIDE DEF dir
    <3> QED BY <1>2, Zenon DEF TryPath, found, whole, path, all, list, base, slash, dir
  <2> QED BY <2>7, <2>8
<1> QED BY <1>1, <1>2

LEMMA OrElseIs ==
    ASSUME NEW a, Candidates(a), NEW b, Candidates(b)
    PROVE  Candidates(OrElse(a, b))
  BY DEF OrElse

LEMMA CandidateIs ==
    ASSUME NEW cwd \in DOMAIN Cd, NEW line, NEW start, NEW pref \in Text, NEW force
    PROVE  Candidates(Candidate(line, start, pref, force, cwd))
<1>1. PICK t : t = TryPath(cwd, pref, TRUE, force)
  OBVIOUS
<1>2. PICK f : f = TryPath(cwd, pref, FALSE, force)
  OBVIOUS
<1>3. PICK bin : bin = TryList(Bins, pref, force)
  OBVIOUS
<1>4. PICK own : own = TryList(Builtins, pref, force)
  OBVIOUS
<1>5. Candidates(t) /\ Candidates(f)
  BY <1>1, <1>2, TryPathIs
<1>6. Candidates(bin) /\ Candidates(own)
  BY <1>3, <1>4, TryListIs, ReadlineAssumption
<1>7. Candidate(line, start, pref, force, cwd)
        = IF start = 0
          THEN OrElse(IF pref = <<>> THEN None0 ELSE OrElse(own, bin), f)
          ELSE IF FirstWordIs(CdWord, Before(line, start)) THEN t
          ELSE OrElse(f, IF pref # <<>> THEN bin ELSE None0)
  BY <1>1, <1>2, <1>3, <1>4, Zenon DEF Candidate
<1> QED BY <1>5, <1>6, <1>7, OrElseIs, None0Is

\* What a Tab makes of what readline keeps.
Tabs(t, h) == t.r \in {0, 1, 2} /\ t.names \in Seq(Text) /\ Edits(t.rl, h)

LEMMA TabbedIs ==
    ASSUME NEW h \in History, NEW r, Edits(r, h), NEW pref \in Text, NEW c, Candidates(c)
    PROVE  Tabs(Tabbed(r, pref, c), h)
<1>1. CASE c.r = 1
  <2>1. Len(pref) \in Nat /\ c.out \in Text
    BY <1>1 DEF Candidates, Text
  <2>2. PICK more \in Text : more = From(c.out, Len(pref))
    BY <2>1, TextFrom
  <2>3. PICK r2 : r2 = Insert(r, more)
    OBVIOUS
  <2>4. Edits(r2, h)
    BY <2>3, InsertIs
  <2>5. Edits(SetTab(r2, FALSE), h)
    BY <2>4, EditsTab
  <2>6. Tabbed(r, pref, c) = InsertMore(r, more)
    BY <1>1, <2>2 DEF Tabbed
  <2>7. Tabs(InsertMore(r, more), h)
    BY <2>3, <2>5 DEF Tabs, InsertMore, SetTab
  <2> QED BY <2>6, <2>7
<1>2. CASE c.r # 1
  <2>1. PICK b \in BOOLEAN : b = (c.r # 2)
    OBVIOUS
  <2>2. Edits(SetTab(r, b), h)
    BY EditsTab
  <2>3. Tabbed(r, pref, c) = [r |-> c.r, names |-> c.names, rl |-> SetTab(r, b)]
    BY <1>2, <2>1, Zenon DEF Tabbed, SetTab
  <2> QED BY <2>2, <2>3 DEF Tabs, Candidates
<1> QED BY <1>1, <1>2

\* What a key makes of it; ^C ends the line.
Acts == {"none", "paint", "list", "clear", "commit", "intr", "eof"}
Decides(s, h) == s.act \in Acts /\ s.names \in Seq(Text) /\ (s.act # "intr" => Edits(s.rl, h))

LEMMA CompleteIs ==
    ASSUME NEW cwd \in DOMAIN Cd, NEW h \in History, NEW r, Edits(r, h)
    PROVE  Decides(Complete(r, cwd), h)
<1> DEFINE start == Max({0} \cup {k \in 1 .. r.cursor : At(r.line, k - 1) = SP})
           pref == SubSeq(r.line, start + 1, r.cursor)
<1>1. r.line \in Text /\ r.cursor \in Nat /\ r.cursor <= Len(r.line)
  BY LineIs
<1>2. start \in Nat
  <2> DEFINE T == {0} \cup {k \in 1 .. r.cursor : At(r.line, k - 1) = SP}
  <2>1. T \in SUBSET (0 .. r.cursor) /\ T # {}
    BY <1>1
  <2> HIDE DEF T
  <2>2. Max(T) \in 0 .. r.cursor
    BY <1>1, <2>1, MaxIs
  <2> QED BY <1>1, <2>2 DEF T
<1> HIDE DEF start
<1>3. pref \in Text
  BY <1>1, <1>2, SubSeqIs DEF Text
<1> HIDE DEF pref
<1>4. PICK c : c = Candidate(r.line, start, pref, r.tab, cwd)
  OBVIOUS
<1>5. Candidates(c)
  BY <1>3, <1>4, CandidateIs
<1>6. PICK t : t = Tabbed(r, pref, c)
  OBVIOUS
<1>7. Tabs(t, h)
  BY <1>3, <1>5, <1>6, TabbedIs
<1>8. DoTabAt(r, start, pref, cwd) = t
  BY <1>4, <1>6 DEF DoTabAt
<1>9. DoTab(r, cwd) = t
  BY <1>8, Zenon DEF DoTab, start, pref
<1>10. Complete(r, cwd) = Completed(t)
  BY <1>9 DEF Complete
<1>11. Decides(Completed(t), h)
  BY <1>7 DEF Decides, Tabs, Completed, Acts
<1> QED BY <1>10, <1>11

-----------------------------------------------------------------------------
(* The keys.                                                               *)

\* What each key decides keeps the cursor in the line.
LEMMA ActIs ==
    ASSUME NEW h \in History, NEW r, NEW act \in Acts, act # "intr" => Edits(r, h)
    PROVE  Decides(Act(r, act), h)
  BY DEF Decides, Act

LEMMA QuietIs ==
    ASSUME NEW h \in History, NEW r, Edits(r, h)
    PROVE  Decides(Quiet(r), h) /\ Decides(Paint(r), h)
  BY ActIs DEF Quiet, Paint, Acts

LEMMA PaintIfIs ==
    ASSUME NEW h \in History, NEW r, Edits(r, h), NEW b, NEW r2, b => Edits(r2, h)
    PROVE  Decides(PaintIf(b, r, r2), h)
  BY QuietIs DEF PaintIf

LEMMA EditKeyIs ==
    ASSUME NEW h \in History, NEW r, Edits(r, h), NEW k \in Nat
    PROVE  Decides(EditKey(r, h, k), h)
<1>1. r.cursor \in 0 .. Len(r.line) /\ Len(r.line) \in Nat
  BY LineIs
<1>2. Decides(PaintIf(r.cursor > 0, r, Erase(r, r.cursor - 1)), h)
  <2>1. r.cursor > 0 => r.cursor - 1 \in Nat /\ r.cursor - 1 < Len(r.line)
    BY <1>1
  <2>2. r.cursor > 0 => Edits(Erase(r, r.cursor - 1), h)
    BY <2>1, EraseIs
  <2> QED BY <2>2, PaintIfIs
<1>3. Decides(PaintIf(r.cursor > 0, r, SetCursor(r, r.cursor - 1)), h)
  <2>1. r.cursor > 0 => r.cursor - 1 \in Nat /\ r.cursor - 1 <= Len(r.line)
    BY <1>1
  <2>2. r.cursor > 0 => Edits(SetCursor(r, r.cursor - 1), h)
    BY <2>1, EditsCursor
  <2> QED BY <2>2, PaintIfIs
<1>4. Decides(PaintIf(r.cursor < Len(r.line), r, SetCursor(r, r.cursor + 1)), h)
  <2>1. r.cursor < Len(r.line) => r.cursor + 1 \in Nat /\ r.cursor + 1 <= Len(r.line)
    BY <1>1
  <2>2. r.cursor < Len(r.line) => Edits(SetCursor(r, r.cursor + 1), h)
    BY <2>1, EditsCursor
  <2> QED BY <2>2, PaintIfIs
<1>5. Decides(PaintIf(r.cursor < Len(r.line), r, Erase(r, r.cursor)), h)
  <2>1. r.cursor < Len(r.line) => Edits(Erase(r, r.cursor), h)
    BY <1>1, EraseIs
  <2> QED BY <2>1, PaintIfIs
<1>6. Decides(PaintIf(h.cmds # <<>>, r, Older(r, h)), h)
  BY OlderIs, PaintIfIs
<1>7. Decides(PaintIf(Printable(k) /\ Room(r), r, Insert(r, <<k>>)), h)
  <2>1. <<k>> \in Text
    BY DEF Text
  <2>2. Edits(Insert(r, <<k>>), h)
    BY <2>1, InsertIs
  <2> QED BY <2>2, PaintIfIs
<1>8. /\ SetCursor(r, r.cursor - 1) = [r EXCEPT !.cursor = @ - 1]
      /\ SetCursor(r, r.cursor + 1) = [r EXCEPT !.cursor = @ + 1]
  BY DEF SetCursor
<1> HIDE DEF SetCursor
<1> QED BY <1>2, <1>3, <1>4, <1>5, <1>6, <1>7, <1>8, Zenon DEF EditKey

LEMMA SearchIs ==
    ASSUME NEW h \in History, NEW r, Edits(r, h)
    PROVE  Decides(Search(r, h), h)
<1> DEFINE has(c) == r.rq = <<>> \/ \E i \in 0 .. Len(c) - 1 : MatchPrefix(From(c, i), r.rq)
           hits == {i \in 1 .. Len(h.cmds) : has(h.cmds[i])}
<1>1. h.cmds \in Seq(Text) /\ Len(h.cmds) \in Nat
  BY LineIs
<1>2. hits \in SUBSET (0 .. Len(h.cmds)) /\ \A i \in hits : h.cmds[i] \in Text
  BY <1>1, ElementOfSeq
<1> HIDE DEF hits
<1>3. hits # {} => h.cmds[Max(hits)] \in Text
  BY <1>1, <1>2, MaxIs
<1>4. PICK x : x = IF hits = {} THEN <<>> ELSE h.cmds[Max(hits)]
  OBVIOUS
<1>5. x \in Text
  BY <1>3, <1>4 DEF Text
<1>6. Search(r, h) = Paint(Show(r, x))
  BY <1>4, Zenon DEF Search, hits
<1>7. Edits(Show(r, x), h)
  BY <1>5, ShowIs
<1> QED BY <1>6, <1>7, QuietIs

LEMMA SearchKeyIs ==
    ASSUME NEW h \in History, NEW r, Edits(r, h), NEW k \in Nat
    PROVE  Decides(SearchKey(r, h, k), h)
<1>1. r.rq \in Text /\ Len(r.rq) \in Nat /\ r.rev \in BOOLEAN
  BY LineIs, TextIs DEF Text
<1>2. Decides(Act([r EXCEPT !.line = <<>>], "intr"), h) /\ Decides(Act(r, "commit"), h)
  BY ActIs DEF Acts
<1>3. PICK i : i = Max({0, Len(r.rq) - 1})
  OBVIOUS
<1>4. Len(r.rq) - 1 \in Int /\ 0 \in Int
  BY <1>1
<1>5. i \in Int /\ i <= Len(r.rq)
  BY <1>1, <1>3, <1>4, MaxOfTwo
<1>6. PICK x \in Text : x = Before(r.rq, i)
  BY <1>1, <1>5, TextIs
<1>7. PICK y \in Text : y = Append(r.rq, k)
  BY <1>1, AppendProperties DEF Text
<1>8. /\ Edits(SetQuery(r, r.rev, x), h) /\ SetQuery(r, r.rev, x) = [r EXCEPT !.rq = x]
      /\ Edits(SetQuery(r, r.rev, y), h) /\ SetQuery(r, r.rev, y) = [r EXCEPT !.rq = y]
  <2>1. Edits(SetQuery(r, r.rev, x), h) /\ Edits(SetQuery(r, r.rev, y), h)
    BY <1>1, EditsQuery
  <2>2. /\ SetQuery(r, r.rev, x) = [r EXCEPT !.rq = x]
        /\ SetQuery(r, r.rev, y) = [r EXCEPT !.rq = y]
    BY DEF SetQuery, Edits, Rl
  <2> QED BY <2>1, <2>2
<1>9. Decides(Search([r EXCEPT !.rq = x], h), h) /\ Decides(Search([r EXCEPT !.rq = y], h), h)
  <2>1. PICK a : a = SetQuery(r, r.rev, x)
    OBVIOUS
  <2>2. PICK b : b = SetQuery(r, r.rev, y)
    OBVIOUS
  <2>3. Decides(Search(a, h), h) /\ Decides(Search(b, h), h)
    BY <1>8, <2>1, <2>2, SearchIs
  <2> QED BY <1>8, <2>1, <2>2, <2>3
<1>10. Decides(Search(r, h), h) /\ Decides(Quiet(r), h)
  BY SearchIs, QuietIs
<1>11. /\ [r EXCEPT !.rq = x] = [r EXCEPT !.rq = Before(@, Max({0, Len(@) - 1}))]
       /\ [r EXCEPT !.rq = y] = [r EXCEPT !.rq = Append(@, k)]
  BY <1>3, <1>6, <1>7
<1> QED BY <1>2, <1>9, <1>10, <1>11, Zenon DEF SearchKey

LEMMA HostedKeyIs ==
    ASSUME NEW cwd \in DOMAIN Cd, NEW h \in History, NEW r, Edits(r, h), NEW k \in Nat
    PROVE  Decides(HostedKey(r, h, cwd, k), h)
<1>1. PICK r1 : r1 = SetTab(r, FALSE)
  OBVIOUS
<1>2. Edits(r1, h) /\ r.cursor \in 0 .. Len(r.line) /\ Len(r.line) \in Nat
  BY <1>1, EditsTab, LineIs
<1>3. Decides(Act([r EXCEPT !.line = <<>>], "intr"), h) /\ Decides(Act(r, "commit"), h)
  BY ActIs DEF Acts
<1>4. Edits(SetCursor(r, 0), h) /\ Edits(SetCursor(r, Len(r.line)), h)
  BY <1>2, EditsCursor
<1>5. /\ Decides(PaintIf(r.cursor # 0, r, SetCursor(r, 0)), h)
      /\ Decides(PaintIf(r.cursor # Len(r.line), r, SetCursor(r, Len(r.line))), h)
  BY <1>4, PaintIfIs
<1>6. Decides(Paint(Newer(r, h)), h) /\ Decides(Complete(r, cwd), h)
  BY NewerIs, QuietIs, CompleteIs
<1>7. Decides(EditKey(r, h, k), h) /\ Decides(EditKey(r1, h, k), h)
  BY <1>2, EditKeyIs
<1> QED BY <1>1, <1>3, <1>5, <1>6, <1>7, Zenon DEF HostedKey, SetTab, SetCursor

\* The keys that cut and the one that puts back, on a line that is edited.
Cut(r, k) ==
    CASE k = MetaD -> DeleteRange(SetTab(r, FALSE), r.cursor, Word_right(r.line, r.cursor))
      [] k = CtrlW -> DeleteRange(SetTab(r, FALSE), Word_left(r.line, r.cursor), r.cursor)
      [] k = CtrlU -> DeleteRange(SetTab(r, FALSE), 0, r.cursor)
      [] k = CtrlK -> DeleteRange(SetTab(r, FALSE), r.cursor, Len(r.line))

Cuts == {MetaD, CtrlW, CtrlU, CtrlK}

\* Each of them takes out a piece of the line.
LEMMA CutIs ==
    ASSUME NEW h \in History, NEW r, Edits(r, h), NEW k \in Cuts
    PROVE  \E from \in 0 .. Len(r.line), to \in 0 .. Len(r.line) :
              Cut(r, k) = DeleteRange(SetTab(r, FALSE), from, to)
<1>1. r.cursor \in 0 .. Len(r.line) /\ Len(r.line) \in Nat
  BY LineIs
<1>2. Word_right(r.line, r.cursor) \in r.cursor .. Len(r.line)
  BY <1>1, WordRightIs
<1>3. Word_left(r.line, r.cursor) \in 0 .. r.cursor
  BY <1>1, WordLeftIs
<1>4. /\ Word_right(r.line, r.cursor) \in 0 .. Len(r.line)
      /\ Word_left(r.line, r.cursor) \in 0 .. Len(r.line)
      /\ 0 \in 0 .. Len(r.line) /\ Len(r.line) \in 0 .. Len(r.line)
  BY <1>1, <1>2, <1>3
<1>5. MetaD # CtrlW /\ MetaD # CtrlU /\ MetaD # CtrlK /\ CtrlW # CtrlU /\ CtrlW # CtrlK /\ CtrlU # CtrlK
  BY DEF MetaD, CtrlW, CtrlU, CtrlK
<1>6. CASE k = MetaD
  BY <1>1, <1>4, <1>5, <1>6 DEF Cut
<1>7. CASE k = CtrlW
  BY <1>1, <1>4, <1>5, <1>7 DEF Cut
<1>8. CASE k = CtrlU
  BY <1>1, <1>4, <1>5, <1>8 DEF Cut
<1>9. CASE k = CtrlK
  BY <1>1, <1>4, <1>5, <1>9 DEF Cut
<1> QED BY <1>6, <1>7, <1>8, <1>9 DEF Cuts

LEMMA CutEdits ==
    ASSUME NEW h \in History, NEW r, Edits(r, h), NEW k \in Cuts
    PROVE  Edits(Cut(r, k), h)
<1>1. PICK r1 : r1 = SetTab(r, FALSE)
  OBVIOUS
<1>2. Edits(r1, h) /\ r1.line = r.line /\ Len(r.line) \in Nat
  BY <1>1, EditsTab, LineIs
<1>3. PICK from \in 0 .. Len(r.line), to \in 0 .. Len(r.line) : Cut(r, k) = DeleteRange(r1, from, to)
  BY <1>1, CutIs
<1>4. from \in Nat /\ to \in Nat /\ to <= Len(r1.line)
  BY <1>2, <1>3
<1>5. Edits(DeleteRange(r1, from, to), h)
  BY <1>2, <1>4, DeleteRangeIs
<1> QED BY <1>3, <1>5

\* Where TtyKey goes with a key.
LEMMA TtyKeyCuts ==
    ASSUME NEW cwd, NEW h, NEW r, ~r.rev, NEW k \in Cuts
    PROVE  TtyKey(r, h, cwd, k) = Paint(Cut(r, k))
<1>1. PICK r1 : r1 = SetTab(r, FALSE)
  OBVIOUS
<1>2. /\ k \in {612, 23, 21, 11} /\ MetaD = 612 /\ CtrlW = 23 /\ CtrlU = 21 /\ CtrlK = 11
  BY DEF Cuts, MetaD, CtrlW, CtrlU, CtrlK
<1>3. /\ k # CtrlR /\ k # INTR /\ k # CtrlD /\ k # CtrlL /\ k \notin {NL, CR} /\ k # Tab
      /\ k \notin {Home, CtrlA} /\ k \notin {End, CtrlE} /\ k # MetaB /\ k # MetaF
      /\ k # CtrlY /\ k # Down
  BY <1>2 DEF CtrlR, INTR, CtrlD, CtrlL, NL, CR, Tab, Home, CtrlA, End, CtrlE, MetaB, MetaF, CtrlY, Down
<1>4. MetaD # CtrlW /\ MetaD # CtrlU /\ MetaD # CtrlK /\ CtrlW # CtrlU /\ CtrlW # CtrlK /\ CtrlU # CtrlK
  BY <1>2
<1>5. k = MetaD \/ k = CtrlW \/ k = CtrlU \/ k = CtrlK
  BY DEF Cuts
<1>6. CASE k = MetaD
  BY <1>3, <1>4, <1>6, Zenon DEF TtyKey, Cut, SetTab
<1>7. CASE k = CtrlW
  BY <1>3, <1>4, <1>7, Zenon DEF TtyKey, Cut, SetTab
<1>8. CASE k = CtrlU
  BY <1>3, <1>4, <1>8, Zenon DEF TtyKey, Cut, SetTab
<1>9. CASE k = CtrlK
  BY <1>3, <1>4, <1>9, Zenon DEF TtyKey, Cut, SetTab
<1> QED BY <1>5, <1>6, <1>7, <1>8, <1>9

LEMMA TtyKeyYanks ==
    ASSUME NEW cwd, NEW h, NEW r, ~r.rev
    PROVE  TtyKey(r, h, cwd, CtrlY) = PaintIf(Fits(r, Len(r.yank)), SetTab(r, FALSE),
                                              Insert(SetTab(r, FALSE), r.yank))
<1>1. /\ CtrlY # CtrlR /\ CtrlY # INTR /\ CtrlY # CtrlD /\ CtrlY # CtrlL /\ CtrlY \notin {NL, CR} /\ CtrlY # Tab
      /\ CtrlY \notin {Home, CtrlA} /\ CtrlY \notin {End, CtrlE} /\ CtrlY # MetaB /\ CtrlY # MetaF
      /\ CtrlY # Down /\ CtrlY # MetaD /\ CtrlY # CtrlW /\ CtrlY # CtrlU /\ CtrlY # CtrlK
  BY DEF CtrlR, INTR, CtrlD, CtrlL, NL, CR, Tab, Home, CtrlA, End, CtrlE, MetaB, MetaF, CtrlY, Down,
         MetaD, CtrlW, CtrlU, CtrlK
<1> QED BY <1>1, Zenon DEF TtyKey, SetTab

LEMMA TtyKeyIs ==
    ASSUME NEW cwd \in DOMAIN Cd, NEW h \in History, NEW r, Edits(r, h), NEW k \in Nat
    PROVE  Decides(TtyKey(r, h, cwd, k), h)
<1>1. PICK r1 : r1 = SetTab(r, FALSE)
  OBVIOUS
<1>2. /\ Edits(r1, h) /\ r1.line = r.line
      /\ r.cursor \in 0 .. Len(r.line) /\ Len(r.line) \in Nat /\ r.rev \in BOOLEAN
      /\ r.yank \in Text
  BY <1>1, EditsTab, LineIs
<1>3. CASE r.rev
  <2>1. TtyKey(r, h, cwd, k) = SearchKey(r, h, k)
    BY <1>3, Zenon DEF TtyKey
  <2> QED BY <2>1, SearchKeyIs
<1>4. CASE ~r.rev
  <2>1. CASE k \in Cuts
    <3>1. Edits(Cut(r, k), h)
      BY <2>1, CutEdits
    <3>2. TtyKey(r, h, cwd, k) = Paint(Cut(r, k))
      BY <1>4, <2>1, TtyKeyCuts
    <3> QED BY <3>1, <3>2, QuietIs
  <2>2. CASE k = CtrlY
    <3>1. PICK r2 : r2 = Insert(r1, r.yank)
      OBVIOUS
    <3>2. Edits(r2, h)
      BY <1>2, <3>1, InsertIs
    <3>3. Decides(PaintIf(Fits(r, Len(r.yank)), r1, r2), h)
      BY <1>2, <3>2, PaintIfIs
    <3>4. TtyKey(r, h, cwd, CtrlY) = PaintIf(Fits(r, Len(r.yank)), r1, r2)
      BY <1>1, <1>4, <3>1, TtyKeyYanks
    <3> QED BY <2>2, <3>3, <3>4
  <2>3. CASE k \notin Cuts /\ k # CtrlY
    <3>0. k # MetaD /\ k # CtrlW /\ k # CtrlU /\ k # CtrlK
      BY <2>3 DEF Cuts
    <3>1. Edits(SetQuery(r, TRUE, <<>>), h)
      <4>1. <<>> \in Text /\ TRUE \in BOOLEAN
        BY DEF Text
      <4> QED BY <4>1, EditsQuery
    <3>2. /\ Decides(Paint(SetQuery(r, TRUE, <<>>)), h)
          /\ Decides(Act([r EXCEPT !.line = <<>>], "intr"), h)
          /\ Decides(Act(r, "eof"), h) /\ Decides(Act(r, "none"), h) /\ Decides(Act(r, "clear"), h)
          /\ Decides(Act(r1, "commit"), h)
      BY <1>2, <3>1, QuietIs, ActIs DEF Acts
    <3>3. Decides(Act(r, IF r.line = <<>> THEN "eof" ELSE "none"), h)
      BY <3>2
    <3>4. Decides(Complete(r, cwd), h) /\ Decides(EditKey(r1, h, k), h)
      BY <1>2, CompleteIs, EditKeyIs
    <3>5. PICK a \in 0 .. Len(r.line) : a = Word_left(r.line, r.cursor)
      BY <1>2, WordLeftIs
    <3>6. PICK b \in 0 .. Len(r.line) : b = Word_right(r.line, r.cursor)
      BY <1>2, WordRightIs
    <3>7. /\ Edits(SetCursor(r1, 0), h) /\ Edits(SetCursor(r1, Len(r.line)), h)
          /\ Edits(SetCursor(r1, a), h) /\ Edits(SetCursor(r1, b), h)
      <4>1. \A i \in 0 .. Len(r.line) : i \in Nat /\ i <= Len(r1.line)
        BY <1>2
      <4>2. \A i \in 0 .. Len(r.line) : Edits(SetCursor(r1, i), h)
        BY <1>2, <4>1, EditsCursor
      <4>3. 0 \in 0 .. Len(r.line) /\ Len(r.line) \in 0 .. Len(r.line)
        BY <1>2
      <4> QED BY <4>2, <4>3
    <3>8. /\ Decides(Paint(SetCursor(r1, 0)), h) /\ Decides(Paint(SetCursor(r1, Len(r.line))), h)
          /\ Decides(Paint(SetCursor(r1, a)), h) /\ Decides(Paint(SetCursor(r1, b)), h)
      BY <3>7, QuietIs
    <3>9. Decides(PaintIf(r.hp # 0, r1, Newer(r1, h)), h)
      BY <1>2, NewerIs, PaintIfIs
    <3> QED BY <1>1, <1>4, <2>3, <3>0, <3>2, <3>3, <3>4, <3>5, <3>6, <3>8, <3>9, Zenon
            DEF TtyKey, SetTab, SetCursor, SetQuery
  <2> QED BY <2>1, <2>2, <2>3
<1> QED BY <1>2, <1>3, <1>4

\* The parts of a sequence that was put together.
LEMMA Apart ==
    ASSUME NEW S, NEW b \in Seq(S), NEW f \in Seq(S)
    PROVE  Before(b \o f, Len(b)) = b /\ From(b \o f, Len(b)) = f
<1>1. PICK n \in Nat, k \in Nat : n = Len(b) /\ k = Len(f)
  OBVIOUS
<1>2. PICK x \in Seq(S) : /\ x = b \o f /\ Len(x) = n + k
                          /\ \A i \in 1 .. n + k : x[i] = IF i <= n THEN b[i] ELSE f[i - n]
  <2>1. PICK x : x = b \o f
    OBVIOUS
  <2>2. /\ x \in Seq(S) /\ Len(x) = Len(b) + Len(f)
        /\ \A i \in 1 .. Len(b) + Len(f) : x[i] = IF i <= Len(b) THEN b[i] ELSE f[i - Len(b)]
    BY <2>1, ConcatProperties
  <2>3. /\ x \in Seq(S) /\ Len(x) = n + k
        /\ \A i \in 1 .. n + k : x[i] = IF i <= n THEN b[i] ELSE f[i - n]
    BY <1>1, <2>2
  <2> QED BY <2>1, <2>3
<1>3. Before(x, n) = b
  <2>1. PICK c \in Seq(S) : c = Before(x, n) /\ Len(c) = n /\ \A j \in 1 .. n : c[j] = x[j]
    <3>1. n \in Int /\ n <= Len(x) /\ n >= 0
      BY <1>2
    <3> QED BY <3>1, BeforeIs
  <2>2. \A j \in 1 .. n : j \in 1 .. n + k /\ j <= n
    OBVIOUS
  <2>3. \A j \in 1 .. n : c[j] = b[j]
    BY <1>2, <2>1, <2>2
  <2> QED BY <1>1, <2>1, <2>3, SeqEqual
<1>4. From(x, n) = f
  <2>1. PICK c \in Seq(S) : c = From(x, n) /\ Len(c) = k /\ \A j \in 1 .. k : c[j] = x[n + j]
    <3>1. n <= Len(x) /\ Len(x) - n = k
      BY <1>2
    <3> QED BY <3>1, FromIs
  <2>2. \A j \in 1 .. k : n + j \in 1 .. n + k /\ ~(n + j <= n) /\ (n + j) - n = j
    OBVIOUS
  <2>3. \A j \in 1 .. k : c[j] = f[j]
    BY <1>2, <2>1, <2>2
  <2> QED BY <1>1, <2>1, <2>3, SeqEqual
<1> QED BY <1>1, <1>2, <1>3, <1>4

\* A piece that is cut out of a sequence and put where it was.
LEMMA PutBack ==
    ASSUME NEW s \in Text, NEW from \in Nat, NEW to \in Nat, from <= to, to <= Len(s)
    PROVE  Before(Before(s, from) \o From(s, to), from) \o SubSeq(s, from + 1, to)
             \o From(Before(s, from) \o From(s, to), from) = s
<1>1. s \in Seq(Nat) /\ Len(s) \in Nat
  BY DEF Text
<1>2. PICK b \in Seq(Nat) : b = Before(s, from) /\ Len(b) = from
  <2>1. from \in Int /\ from <= Len(s) /\ from >= 0
    BY <1>1
  <2> QED BY <1>1, <2>1, BeforeIs
<1>3. PICK f \in Seq(Nat) : f = From(s, to)
  BY <1>1, FromIs
<1>4. Before(b \o f, from) = b /\ From(b \o f, from) = f
  BY <1>2, Apart
<1>5. SubSeq(s, 1, from) \o SubSeq(s, from + 1, to) = SubSeq(s, 1, to)
  <2>1. 1 \in 1 .. Len(s) + 1 /\ from \in 1 - 1 .. Len(s) /\ to \in from .. Len(s)
    BY <1>1
  <2> QED BY <1>1, <2>1, ConcatAdjacentSubSeq
<1>6. SubSeq(s, 1, to) \o SubSeq(s, to + 1, Len(s)) = SubSeq(s, 1, Len(s))
  <2>1. 1 \in 1 .. Len(s) + 1 /\ to \in 1 - 1 .. Len(s) /\ Len(s) \in to .. Len(s)
    BY <1>1
  <2> QED BY <1>1, <2>1, ConcatAdjacentSubSeq
<1>7. SubSeq(s, 1, Len(s)) = s
  BY <1>1, SubSeqFull
<1>8. b \o SubSeq(s, from + 1, to) \o f = s
  BY <1>2, <1>3, <1>5, <1>6, <1>7, Zenon DEF Before, From
<1> QED BY <1>2, <1>3, <1>4, <1>8, Zenon

\* Ctrl+Y puts back what was cut.
LEMMA CutComesBack ==
    ASSUME NEW h \in History, NEW r, Edits(r, h), ~r.rev, NEW k \in Cuts, NEW cwd,
           NEW cut, cut = TtyKey(r, h, cwd, k).rl, cut.line # r.line, Room(r)
    PROVE  TtyKey(cut, h, cwd, CtrlY).rl.line = r.line
<1>1. PICK r1 : r1 = SetTab(r, FALSE)
  OBVIOUS
<1>2. /\ Edits(r1, h) /\ r1.line = r.line /\ r1.rev = r.rev
      /\ Len(r.line) \in Nat /\ r.line \in Text
  BY <1>1, EditsTab, LineIs
<1>3. cut = Cut(r, k)
  BY TtyKeyCuts DEF Paint, Act
<1>4. PICK from \in 0 .. Len(r.line), to \in 0 .. Len(r.line) : Cut(r, k) = DeleteRange(r1, from, to)
  BY <1>1, CutIs
<1>5. ~(to <= from)
  BY <1>2, <1>3, <1>4 DEF DeleteRange
<1>6. from \in Nat /\ to \in Nat /\ from <= to /\ to <= Len(r.line)
  BY <1>2, <1>4, <1>5
<1>7. PICK x \in Text : /\ x = Before(r.line, from) \o From(r.line, to)
                        /\ Len(x) = Len(r.line) - (to - from) /\ from <= Len(x)
  BY <1>2, <1>6, CutOut
<1>8. PICK y \in Text : y = SubSeq(r.line, from + 1, to)
  <2>1. from + 1 \in Int /\ to \in Int /\ from + 1 >= 1 /\ r.line \in Seq(Nat)
    BY <1>2, <1>6 DEF Text
  <2>2. SubSeq(r.line, from + 1, to) \in Seq(Nat)
    BY <1>6, <2>1, SubSeqIs
  <2> QED BY <2>2 DEF Text
<1>9. Len(y) = to - from
  <2>1. \A j \in from + 1 .. to : r.line[j] \in Nat
    BY <1>2, <1>6 DEF Text
  <2>2. /\ Len(SubSeq(r.line, from + 1, to))
            = IF from + 1 <= to THEN to - (from + 1) + 1 ELSE 0
        /\ \A j \in 1 .. to - (from + 1) + 1 : SubSeq(r.line, from + 1, to)[j] = r.line[(from + 1) + j - 1]
    BY <1>6, <2>1, SubSeqProperties
  <2>3. from + 1 <= to /\ to - (from + 1) + 1 = to - from
    BY <1>5, <1>6
  <2> QED BY <1>8, <2>2, <2>3
<1>10. PICK c : c = SetYank(SetLine(r1, x, from), y)
  OBVIOUS
<1>11. cut = c
  <2>1. DeleteRange(r1, from, to) = [r1 EXCEPT !.line = x, !.cursor = from, !.yank = y]
    BY <1>2, <1>5, <1>7, <1>8 DEF DeleteRange
  <2>2. c = [r1 EXCEPT !.line = x, !.cursor = from, !.yank = y]
    BY <1>10 DEF SetYank, SetLine
  <2> QED BY <1>3, <1>4, <2>1, <2>2
<1>12. c.line = x /\ c.cursor = from /\ c.yank = y /\ ~c.rev
  BY <1>2, <1>10 DEF SetYank, SetLine, Edits, Rl
<1>13. Edits(c, h)
  BY <1>3, <1>11, CutEdits
<1>14. Fits(c, Len(y))
  <2>1. Len(r.line) + 1 < LineMax
    BY DEF Room
  <2>2. Len(c.line) + Len(y) + 1 = Len(r.line) + 1
    <3>1. Len(c.line) + Len(y) = Len(r.line)
      BY <1>2, <1>6, <1>7, <1>9, <1>12
    <3> QED BY <3>1
  <2> QED BY <2>1, <2>2 DEF Fits
<1>15. PICK c1 : c1 = SetTab(c, FALSE)
  OBVIOUS
<1>16. Edits(c1, h) /\ c1.line = x /\ c1.cursor = from
  BY <1>12, <1>13, <1>15, EditsTab
<1>17. TtyKey(cut, h, cwd, CtrlY).rl = Insert(c1, y)
  <2>1. TtyKey(c, h, cwd, CtrlY) = PaintIf(Fits(c, Len(y)), c1, Insert(c1, y))
    BY <1>12, <1>15, TtyKeyYanks
  <2> QED BY <1>11, <1>14, <2>1 DEF PaintIf, Paint, Act
<1>18. Insert(c1, y).line = Before(x, from) \o y \o From(x, from)
  BY <1>16, InsertIs
<1>19. Before(x, from) \o y \o From(x, from) = r.line
  BY <1>2, <1>5, <1>6, <1>7, <1>8, PutBack
<1> QED BY <1>17, <1>18, <1>19

-----------------------------------------------------------------------------
(* The history and its numbers.                                            *)

\* A "!" and a number stand for the command that has it.
LEMMA ByNumber ==
    ASSUME NEW h \in History, NEW n \in Nat, n - h.base \in 1 .. Len(h.cmds)
    PROVE  HistExpand(h, <<Bang>> \o PutInt(n)) = Expanded(h.cmds[n - h.base])
<1>1. PICK p : p = PutInt(n)
  OBVIOUS
<1>2. p \in Seq(Digit) /\ Len(p) >= 1 /\ Number(p) = n /\ Len(p) \in Nat
  BY <1>1, PutIntIs
<1>3. p[1] \in Digit /\ p[1] # Bang
  <2>1. 1 \in 1 .. Len(p)
    BY <1>2
  <2>2. p[1] \in Digit
    BY <1>2, <2>1, ElementOfSeq
  <2> QED BY <2>2 DEF Digit, Bang
<1>4. p \in Seq(Nat) /\ <<Bang>> \in Seq(Nat) /\ Len(<<Bang>>) = 1 /\ <<Bang>>[1] = Bang
  <2>1. Digit \subseteq Nat /\ Bang \in Nat
    BY DEF Digit, Bang
  <2>2. p \in Seq(Nat)
    BY <1>2, <2>1, SeqMonotonic
  <2> QED BY <2>1, <2>2
<1>5. PICK s : s = <<Bang>> \o p
  OBVIOUS
<1>6. From(s, 1) = p
  BY <1>4, <1>5, Apart
<1>7. s[1] = Bang /\ s[2] = p[1] /\ Len(s) > 1
  <2>1. /\ Len(s) = 1 + Len(p)
        /\ \A i \in 1 .. 1 + Len(p) : s[i] = IF i <= 1 THEN <<Bang>>[i] ELSE p[i - 1]
    BY <1>4, <1>5, ConcatProperties
  <2>2. /\ 1 \in 1 .. 1 + Len(p) /\ 2 \in 1 .. 1 + Len(p) /\ ~(2 <= 1) /\ 2 - 1 = 1 /\ 1 <= 1
        /\ 1 + Len(p) > 1
    BY <1>2
  <2>3. s[1] = <<Bang>>[1] /\ s[2] = p[1]
    BY <2>1, <2>2
  <2> QED BY <1>4, <2>1, <2>2, <2>3
<1>8. s # <<>> /\ s # <<Bang, Bang>>
  <2>1. Len(<<>>) = 0 /\ <<Bang, Bang>>[2] = Bang
    OBVIOUS
  <2>2. s # <<>>
    BY <1>7, <2>1
  <2>3. s # <<Bang, Bang>>
    BY <1>3, <1>7, <2>1
  <2> QED BY <2>2, <2>3
<1>9. Number(From(s, 1)) - h.base \in 1 .. Len(h.cmds) /\ Number(From(s, 1)) = n
  BY <1>2, <1>6
<1>10. HistExpand(h, s) = Expanded(h.cmds[n - h.base])
  BY <1>3, <1>7, <1>8, <1>9, Zenon DEF HistExpand
<1> QED BY <1>1, <1>5, <1>10, Zenon

\* The history is the end of the list of the commands that were run.
Recalls(h, ran) ==
    /\ Len(ran) = h.base + Len(h.cmds) /\ Len(h.cmds) <= HistMax
    /\ h.base > 0 => Len(h.cmds) = HistMax
    /\ \A i \in 1 .. Len(h.cmds) : h.cmds[i] = ran[h.base + i]

Noted(ran, s) == IF s = <<>> \/ (ran # <<>> /\ Last(ran) = s) THEN ran ELSE Append(ran, s)

\* Then "!n" means the n-th command, while it is kept.
LEMMA RecallsAll ==
    ASSUME NEW h \in History, NEW ran \in Seq(Text), Recalls(h, ran),
           NEW n \in 1 .. Len(ran), n > Len(ran) - HistMax
    PROVE  HistExpand(h, <<Bang>> \o PutInt(n)) = Expanded(ran[n])
<1>1. HistMax \in Nat
  BY ReadlineAssumption
<1>2. PICK b \in Nat, k \in Nat : b = h.base /\ k = Len(h.cmds)
  BY DEF History
<1>3. Len(ran) = b + k /\ k <= HistMax /\ (b > 0 => k = HistMax)
  BY <1>2 DEF Recalls
<1>4. n \in Nat /\ n - b \in 1 .. k /\ b + (n - b) = n
  BY <1>1, <1>3
<1>5. h.cmds[n - b] = ran[b + (n - b)]
  BY <1>2, <1>4 DEF Recalls
<1>6. HistExpand(h, <<Bang>> \o PutInt(n)) = Expanded(h.cmds[n - h.base])
  BY <1>2, <1>4, ByNumber
<1> QED BY <1>2, <1>4, <1>5, <1>6

\* hist_add keeps it so: the numbers move with the commands.
LEMMA RecallsMore ==
    ASSUME NEW h \in History, NEW ran \in Seq(Text), Recalls(h, ran), NEW s \in Text
    PROVE  Recalls(HistAdd(h, s), Noted(ran, s)) /\ Noted(ran, s) \in Seq(Text)
<1>0. HistMax \in Nat /\ HistMax >= 1
  BY ReadlineAssumption
<1>1. PICK c \in Seq(Text) : c = h.cmds
  BY DEF History
<1>2. PICK b \in Nat : b = h.base
  BY DEF History
<1>3. PICK k \in Nat : k = Len(c)
  OBVIOUS
<1>4. /\ Len(ran) = b + k /\ k <= HistMax /\ (b > 0 => k = HistMax)
      /\ \A i \in 1 .. k : c[i] = ran[b + i]
  BY <1>1, <1>2, <1>3 DEF Recalls
<1>5. (c = <<>> <=> k = 0) /\ (ran = <<>> <=> b + k = 0)
  BY <1>3, <1>4, EmptySeq
<1>6. c = <<>> <=> ran = <<>>
  BY <1>0, <1>4, <1>5
<1>7. c # <<>> => Last(c) = Last(ran)
  <2>1. k # 0 => k \in 1 .. k
    OBVIOUS
  <2>2. k # 0 => c[k] = ran[b + k]
    BY <1>4, <2>1
  <2> QED BY <1>3, <1>4, <1>5, <2>2 DEF Last
<1>8. Noted(ran, s) \in Seq(Text)
  <2>1. Append(ran, s) \in Seq(Text)
    BY AppendProperties
  <2> QED BY <2>1 DEF Noted
<1>9. CASE s = <<>> \/ (c # <<>> /\ Last(c) = s)
  <2>1. HistAdd(h, s) = h /\ Noted(ran, s) = ran
    BY <1>1, <1>6, <1>7, <1>9, Zenon DEF HistAdd, Noted
  <2> QED BY <1>8, <2>1
<1>10. CASE ~(s = <<>> \/ (c # <<>> /\ Last(c) = s))
  <2>1. PICK r \in Seq(Text) : /\ r = Append(ran, s) /\ Len(r) = b + k + 1
                               /\ \A i \in 1 .. b + k : r[i] = ran[i]
                               /\ r[b + k + 1] = s
    <3>1. PICK r : r = Append(ran, s)
      OBVIOUS
    <3>2. /\ r \in Seq(Text) /\ Len(r) = Len(ran) + 1
          /\ \A i \in 1 .. Len(ran) : r[i] = ran[i]
          /\ r[Len(ran) + 1] = s
      BY <3>1, AppendProperties
    <3>3. r \in Seq(Text) /\ Len(r) = b + k + 1 /\ (\A i \in 1 .. b + k : r[i] = ran[i]) /\ r[b + k + 1] = s
      BY <1>4, <3>2
    <3> QED BY <3>1, <3>3
  <2>2. Noted(ran, s) = r
    BY <1>6, <1>7, <1>10, <2>1 DEF Noted
  <2>3. CASE k < HistMax
    <3>1. PICK d : d = Append(c, s)
      OBVIOUS
    <3>2. /\ d \in Seq(Text) /\ Len(d) = k + 1 /\ (\A i \in 1 .. k : d[i] = c[i]) /\ d[k + 1] = s
      BY <1>3, <3>1, AppendProperties
    <3>3. PICK g : g = HistAdd(h, s)
      OBVIOUS
    <3>4. g.cmds = d /\ g.base = b
      <4>1. g = [h EXCEPT !.cmds = Append(@, s)]
        BY <1>1, <1>3, <1>10, <2>3, <3>3, Zenon DEF HistAdd
      <4> QED BY <1>1, <1>2, <3>1, <4>1 DEF History
    <3>5. ASSUME NEW i \in 1 .. k + 1 PROVE d[i] = r[b + i]
      <4>1. CASE i = k + 1
        BY <2>1, <3>2, <4>1
      <4>2. CASE i # k + 1
        <5>1. i \in 1 .. k /\ b + i \in 1 .. b + k
          BY <4>2
        <5> QED BY <1>4, <2>1, <3>2, <5>1
      <4> QED BY <4>1, <4>2
    <3>6. b + k + 1 = b + (k + 1) /\ k + 1 <= HistMax /\ b = 0
      BY <1>0, <1>4, <2>3
    <3>7. ~(b > 0)
      BY <3>6
    <3>8. Recalls(g, r)
      BY <2>1, <3>2, <3>4, <3>5, <3>6, <3>7 DEF Recalls
    <3> QED BY <1>8, <2>2, <3>3, <3>8
  <2>4. CASE ~(k < HistMax)
    <3>0. k = HistMax /\ k >= 1 /\ c # <<>>
      BY <1>0, <1>4, <1>5, <2>4
    <3>1. PICK t : t = Tail(c)
      OBVIOUS
    <3>2. t \in Seq(Text) /\ Len(t) = k - 1 /\ (\A i \in 1 .. k - 1 : t[i] = c[i + 1])
      <4>1. t \in Seq(Text) /\ Len(t) = Len(c) - 1 /\ \A i \in 1 .. Len(t) : t[i] = c[i + 1]
        BY <3>0, <3>1, HeadTailProperties
      <4> QED BY <1>3, <4>1
    <3>3. PICK d : d = Append(t, s)
      OBVIOUS
    <3>4. /\ d \in Seq(Text) /\ Len(d) = k /\ (\A i \in 1 .. k - 1 : d[i] = t[i]) /\ d[k] = s
      <4>1. /\ d \in Seq(Text) /\ Len(d) = Len(t) + 1 /\ (\A i \in 1 .. Len(t) : d[i] = t[i])
            /\ d[Len(t) + 1] = s
        BY <3>2, <3>3, AppendProperties
      <4>2. Len(t) + 1 = k
        BY <3>2
      <4> QED BY <3>2, <4>1, <4>2
    <3>5. PICK g : g = HistAdd(h, s)
      OBVIOUS
    <3>6. g.cmds = d /\ g.base = b + 1
      <4>1. g = [cmds |-> Append(Tail(c), s), base |-> b + 1]
        BY <1>1, <1>2, <1>3, <1>10, <2>4, <3>5, Zenon DEF HistAdd
      <4> QED BY <3>1, <3>3, <4>1
    <3>7. ASSUME NEW i \in 1 .. k PROVE d[i] = r[(b + 1) + i]
      <4>1. CASE i = k
        <5>1. (b + 1) + i = b + k + 1
          BY <4>1
        <5> QED BY <2>1, <3>4, <4>1, <5>1
      <4>2. CASE i # k
        <5>1. /\ i \in 1 .. k - 1 /\ i + 1 \in 1 .. k /\ b + (i + 1) = (b + 1) + i
              /\ (b + 1) + i \in 1 .. b + k
          BY <4>2
        <5>2. d[i] = t[i] /\ t[i] = c[i + 1] /\ c[i + 1] = ran[b + (i + 1)]
          BY <1>4, <3>2, <3>4, <5>1
        <5>3. r[(b + 1) + i] = ran[(b + 1) + i]
          BY <2>1, <5>1
        <5> QED BY <5>1, <5>2, <5>3
      <4> QED BY <4>1, <4>2
    <3>8. b + k + 1 = (b + 1) + k /\ k <= HistMax
      BY <1>0, <3>0
    <3>9. Recalls(g, r)
      BY <2>1, <3>0, <3>4, <3>6, <3>7, <3>8 DEF Recalls
    <3> QED BY <1>8, <2>2, <3>5, <3>9
  <2> QED BY <2>3, <2>4
<1> QED BY <1>9, <1>10

-----------------------------------------------------------------------------
(* What the shell writes and becomes.                                      *)

Pcs == {"start", "prompt", "read", "run", "spawn", "wait", "yield", "exit"}
Msh == [pc : Pcs, todo : Seq(Text), rl : Rl, hist : History, cwd : DOMAIN Cd, old : Text, ran : Seq(Text)]

\* A shell whose line is well formed and whose history is the end of what it ran.
Sane(m) == m \in Msh /\ Edits(m.rl, m.hist) /\ Recalls(m.hist, m.ran)

\* The shell, its fields set one at a time.
LEMMA SaneIs ==
    ASSUME NEW m, Sane(m)
    PROVE  /\ m.todo \in Seq(Text) /\ m.rl \in Rl /\ m.hist \in History /\ m.cwd \in DOMAIN Cd
           /\ m.cwd \in Text /\ m.old \in Text /\ m.ran \in Seq(Text) /\ m.pc \in Pcs
           /\ Edits(m.rl, m.hist) /\ Recalls(m.hist, m.ran)
  BY ReadlineAssumption DEF Sane, Msh

SetSay(m, todo, pc) == [m EXCEPT !.todo = todo, !.pc = pc]

LEMMA SaneSay ==
    ASSUME NEW m, Sane(m), NEW todo \in Seq(Text), NEW pc \in Pcs
    PROVE  /\ Sane(SetSay(m, todo, pc)) /\ SetSay(m, todo, pc).cwd = m.cwd /\ SetSay(m, todo, pc).pc = pc
           /\ SetSay(m, todo, pc).todo = todo
  BY DEF Sane, Msh, SetSay

SetRl(m, r) == [m EXCEPT !.rl = r]

LEMMA SaneRl ==
    ASSUME NEW m, Sane(m), NEW r, Edits(r, m.hist)
    PROVE  Sane(SetRl(m, r)) /\ SetRl(m, r).cwd = m.cwd
  BY DEF Sane, Msh, SetRl, Edits

SetDir(m, to, old) == [m EXCEPT !.cwd = to, !.old = old]

LEMMA SaneDir ==
    ASSUME NEW m, Sane(m), NEW to \in DOMAIN Cd, NEW old \in Text
    PROVE  Sane(SetDir(m, to, old))
  BY DEF Sane, Msh, SetDir

SetRan(m, h, ran) == [m EXCEPT !.hist = h, !.ran = ran]

LEMMA SaneRan ==
    ASSUME NEW m, Sane(m), NEW h \in History, NEW ran \in Seq(Text), Recalls(h, ran), Edits(m.rl, h)
    PROVE  Sane(SetRan(m, h, ran))
  BY DEF Sane, Msh, SetRan

SetDraw(r, shown, draw) == [r EXCEPT !.shown = shown, !.draw = draw]

LEMMA EditsDraw ==
    ASSUME NEW h \in History, NEW r, Edits(r, h), NEW shown \in Nat, NEW draw \in Nat
    PROVE  Edits(SetDraw(r, shown, draw), h)
  BY DEF Edits, Rl, SetDraw

LEMMA DrawIs ==
    ASSUME NEW h, NEW r, Edits(r, h)
    PROVE  r.shown \in Nat /\ r.draw \in Nat
  BY DEF Edits, Rl

\* A shell that starts has an empty history.
LEMMA ShellStarts == Sane(NewShell)
<1>1. <<>> \in Text /\ <<Slash>> \in Text /\ <<>> \in Seq(Text) /\ Len(<<>>) = 0
  BY DEF Text, Slash
<1>2. Fresh \in Rl /\ NoHistory \in History /\ Edits(Fresh, NoHistory)
  BY <1>1 DEF Fresh, Rl, NoHistory, History, Edits
<1>3. Recalls(NoHistory, <<>>)
  BY <1>1, ReadlineAssumption DEF NoHistory, Recalls
<1>4. NewShell \in Msh
  BY <1>1, <1>2, TermAssumption DEF NewShell, Msh, Pcs
<1> QED BY <1>2, <1>3, <1>4 DEF Sane, NewShell

\* What the shell writes is made of bytes.
LEMMA SpacesIs ==
    ASSUME NEW n \in Int
    PROVE  Spaces(n) \in Text
<1>1. CASE n >= 0
  BY <1>1 DEF Spaces, Text, SP
<1>2. CASE ~(n >= 0)
  <2>1. 1 .. n = 1 .. 0
    BY <1>2
  <2>2. Spaces(n) = [i \in 1 .. 0 |-> SP]
    BY <2>1 DEF Spaces
  <2>3. [i \in 1 .. 0 |-> SP] \in Text
    BY DEF Text, SP
  <2> QED BY <2>2, <2>3
<1> QED BY <1>1, <1>2

LEMMA PromptIs ==
    ASSUME NEW d \in Text
    PROVE  Prompt(d) \in Text /\ RevPrompt(d) \in Text
<1>1. <<GT, SP>> \in Text /\ <<96>> \in Text /\ <<39>> \in Text
  BY DEF Text, GT, SP
<1>2. d \o <<GT, SP>> \in Text /\ <<96>> \o d \in Text
  BY <1>1, TextJoin
<1>3. (<<96>> \o d) \o <<39>> \in Text
  BY <1>1, <1>2, TextJoin
<1> QED BY <1>2, <1>3 DEF Prompt, RevPrompt

\* the calls of write of a line and of what is before and after it
LEMMA PaintsIs ==
    ASSUME NEW line \in Text, NEW shown \in Nat, NEW x \in Text
    PROVE  [i \in 1 .. shown |-> <<BS, SP, BS>>] \o (IF line = <<>> THEN <<>> ELSE <<line>>) \o <<x>> \in Seq(Text)
<1>1. <<BS, SP, BS>> \in Text
  BY DEF Text, BS, SP
<1>2. PICK a \in Seq(Text) : a = [i \in 1 .. shown |-> <<BS, SP, BS>>]
  <2>1. [i \in 1 .. shown |-> <<BS, SP, BS>>] \in Seq(Text)
    BY <1>1
  <2> QED BY <2>1, Zenon
<1>3. PICK b \in Seq(Text) : b = IF line = <<>> THEN <<>> ELSE <<line>>
  <2>1. <<>> \in Seq(Text) /\ <<line>> \in Seq(Text)
    OBVIOUS
  <2> QED BY <2>1
<1>4. a \o b \in Seq(Text) /\ <<x>> \in Seq(Text)
  BY ConcatProperties
<1>5. (a \o b) \o <<x>> \in Seq(Text)
  BY <1>4, ConcatProperties
<1> QED BY <1>2, <1>3, <1>5, Zenon

LEMMA RepaintIs ==
    ASSUME NEW h \in History, NEW r, Edits(r, h), NEW plen \in Nat, NEW shown \in Nat
    PROVE  Repaint(r, plen, shown) \in Seq(Text) /\ CommitEcho(r) \in Seq(Text)
<1>1. r.line \in Text /\ r.cursor \in Nat
  BY LineIs
<1>2. Lo(plen + r.cursor, 255) \in Nat
  BY <1>1 DEF Lo
<1>3. <<ACK, Lo(plen + r.cursor, 255)>> \in Text /\ <<NL>> \in Text
  BY <1>2 DEF Text, ACK, NL
<1>4. r.shown \in Nat
  BY DrawIs
<1>5. Repaint(r, plen, shown) \in Seq(Text)
  BY <1>1, <1>3, PaintsIs DEF Repaint
<1>6. CommitEcho(r) \in Seq(Text)
  BY <1>1, <1>3, <1>4, PaintsIs DEF CommitEcho
<1> QED BY <1>5, <1>6

LEMMA RedrawIs ==
    ASSUME NEW h \in History, NEW r, Edits(r, h), NEW p \in Text
    PROVE  Redraw(p, r) \in Seq(Text)
<1>1. r.line \in Text /\ r.cursor \in 0 .. Len(r.line) /\ r.draw \in Nat /\ Len(p) \in Nat
      /\ Len(r.line) \in Nat
  BY LineIs, TextJoin, DrawIs
<1>2. PICK need \in Int : need = Len(p) + Len(r.line)
  BY <1>1
<1>3. Max({r.draw, need}) \in Int
  BY <1>1, MaxOfTwo
<1>4. Width - 2 \in Int
  BY TermAssumption
<1>5. PICK clear \in Int : clear = Lo(Max({r.draw, need}), Width - 2)
  BY <1>3, <1>4, LoIs
<1>6. PICK sp \in Text : sp = Spaces(clear)
  BY SpacesIs
<1>7. PICK b \in Text : b = Before(r.line, r.cursor)
  <2>1. r.cursor \in Int /\ r.cursor <= Len(r.line)
    BY <1>1
  <2> QED BY <1>1, <2>1, TextIs
<1>8. <<CR>> \in Text
  BY DEF Text, CR
<1>9. <<CR>> \o sp \in Text
  BY <1>8, TextJoin
<1>10. (<<CR>> \o sp) \o <<CR>> \in Text
  BY <1>8, <1>9, TextJoin
<1>11. ((<<CR>> \o sp) \o <<CR>>) \o p \in Text
  BY <1>10, TextJoin
<1>12. (((<<CR>> \o sp) \o <<CR>>) \o p) \o r.line \in Text
  BY <1>1, <1>11, TextJoin
<1>13. ((((<<CR>> \o sp) \o <<CR>>) \o p) \o r.line) \o <<CR>> \in Text
  BY <1>8, <1>12, TextJoin
<1>14. (((((<<CR>> \o sp) \o <<CR>>) \o p) \o r.line) \o <<CR>>) \o p \in Text
  BY <1>13, TextJoin
<1>15. ((((((<<CR>> \o sp) \o <<CR>>) \o p) \o r.line) \o <<CR>>) \o p) \o b \in Text
  BY <1>14, TextJoin
<1>16. PICK x \in Text : x = <<CR>> \o sp \o <<CR>> \o p \o r.line \o <<CR>> \o p \o b
  BY <1>15
<1>17. <<x>> \in Seq(Text)
  OBVIOUS
<1>18. Redraw(p, r) = <<x>>
  BY <1>2, <1>5, <1>6, <1>7, <1>16, Zenon DEF Redraw
<1> QED BY <1>17, <1>18

LEMMA ListingIs ==
    ASSUME NEW names \in Seq(Text)
    PROVE  Listing(names) \in Text
<1>1. <<SP, SP>> \in Text
  BY DEF Text, SP
<1>2. \A i \in DOMAIN names : names[i] \o <<SP, SP>> \in Text
  <2>1. \A i \in DOMAIN names : names[i] \in Text
    OBVIOUS
  <2> QED BY <1>1, <2>1, TextJoin
<1>3. DOMAIN names = 1 .. Len(names) /\ Len(names) \in Nat
  OBVIOUS
<1>4. [i \in DOMAIN names |-> names[i] \o <<SP, SP>>] \in Seq(Text)
  BY <1>2, <1>3
<1> QED BY <1>4, FlattenIs DEF Listing, Text

LEMMA LinesIs ==
    ASSUME NEW ls \in Seq(Text)
    PROVE  Lines(ls) \in Text
<1>1. \A i \in DOMAIN ls : Append(ls[i], NL) \in Text
  <2>1. \A i \in DOMAIN ls : ls[i] \in Seq(Nat)
    BY DEF Text
  <2>2. NL \in Nat
    BY DEF NL
  <2>3. \A i \in DOMAIN ls : Append(ls[i], NL) \in Seq(Nat)
    BY <2>1, <2>2, AppendProperties
  <2> QED BY <2>3 DEF Text
<1>2. DOMAIN ls = 1 .. Len(ls) /\ Len(ls) \in Nat
  OBVIOUS
<1>3. [i \in DOMAIN ls |-> Append(ls[i], NL)] \in Seq(Text)
  BY <1>1, <1>2
<1> QED BY <1>3, FlattenIs DEF Lines, Text

LEMMA HistoryTextIs ==
    ASSUME NEW h \in History
    PROVE  HistoryText(h) \in Text
<1>1. PICK c \in Seq(Text) : c = h.cmds
  BY DEF History
<1>2. PICK b \in Nat : b = h.base
  BY DEF History
<1>3. <<SP, SP>> \in Text
  BY DEF Text, SP
<1>4. DOMAIN c = 1 .. Len(c) /\ Len(c) \in Nat
  OBVIOUS
<1>5. ASSUME NEW i \in DOMAIN c PROVE PutInt(b + i) \o <<SP, SP>> \o c[i] \in Text
  <2>1. b + i \in Nat /\ c[i] \in Text
    BY <1>4
  <2>2. PutInt(b + i) \in Seq(Digit)
    BY <2>1, PutIntIs
  <2>3. Digit \subseteq Nat
    BY DEF Digit
  <2>4. PutInt(b + i) \in Text
    BY <2>2, <2>3, SeqMonotonic DEF Text
  <2>5. PutInt(b + i) \o <<SP, SP>> \in Text
    BY <1>3, <2>4, TextJoin
  <2> QED BY <2>1, <2>5, TextJoin
<1>6. [i \in DOMAIN c |-> PutInt(b + i) \o <<SP, SP>> \o c[i]] \in Seq(Text)
  BY <1>4, <1>5
<1>7. Lines([i \in DOMAIN c |-> PutInt(b + i) \o <<SP, SP>> \o c[i]]) \in Text
  BY <1>6, LinesIs
<1> QED BY <1>1, <1>2, <1>7 DEF HistoryText

LEMMA SplitIs ==
    ASSUME NEW s \in Text
    PROVE  Split(s) \in Seq(Text)
<1>0. Len(s) \in Nat /\ s \in Seq(Nat)
  BY DEF Text
<1>1. PICK id \in Seq(Nat) : id = [i \in 1 .. Len(s) |-> i]
  <2>1. [i \in 1 .. Len(s) |-> i] \in Seq(Nat)
    BY <1>0
  <2> QED BY <2>1, Zenon
<1>2. PICK p : p = Only(id, Starts(s))
  OBVIOUS
<1>3. p \in Seq(Nat \cap Starts(s))
  BY <1>2, OnlyIs
<1>4. ASSUME NEW i \in Nat \cap Starts(s) PROVE WordAt(s, i) \in Text
  <2>1. i \in 1 .. Len(s)
    BY DEF Starts
  <2> DEFINE J == {Len(s)} \cup {j \in i .. Len(s) - 1 : s[j + 1] = SP}
  <2>2. J \in SUBSET Nat /\ J # {} /\ \A j \in J : j <= Len(s)
    BY <1>0, <2>1
  <2> HIDE DEF J
  <2>3. Min(J) \in Nat /\ Min(J) <= Len(s)
    BY <2>2, MinIs
  <2>4. i \in Int /\ i >= 1 /\ Min(J) \in Int
    BY <2>1, <2>3
  <2>5. SubSeq(s, i, Min(J)) \in Seq(Nat)
    BY <1>0, <2>3, <2>4, SubSeqIs
  <2> QED BY <2>5 DEF WordAt, J, Text
<1>5. Len(p) \in Nat /\ \A k \in 1 .. Len(p) : p[k] \in Nat \cap Starts(s)
  BY <1>3
<1>6. [k \in 1 .. Len(p) |-> WordAt(s, p[k])] \in Seq(Text)
  BY <1>4, <1>5
<1>7. Split(s) = [k \in 1 .. Len(p) |-> WordAt(s, p[k])]
  BY <1>1, <1>2, Zenon DEF Split
<1> QED BY <1>6, <1>7

\* The shell that has something to write.
LEMMA SayIs ==
    ASSUME NEW m, Sane(m), NEW text \in Text
    PROVE  Sane(Say(m, text)) /\ Say(m, text).cwd = m.cwd /\ Say(m, text).todo \in Seq(Text)
<1>1. PICK todo \in Seq(Text) : todo = IF text = <<>> THEN <<>> ELSE <<text>>
  <2>1. <<>> \in Seq(Text) /\ <<text>> \in Seq(Text)
    OBVIOUS
  <2> QED BY <2>1
<1>2. "prompt" \in Pcs
  BY DEF Pcs
<1>3. Sane(SetSay(m, todo, "prompt")) /\ SetSay(m, todo, "prompt").cwd = m.cwd
      /\ SetSay(m, todo, "prompt").todo = todo
  BY <1>2, SaneSay
<1>4. Say(m, text) = SetSay(m, todo, "prompt")
  BY <1>1, Zenon DEF Say, SetSay
<1> QED BY <1>3, <1>4

SetPc(m, pc) == [m EXCEPT !.pc = pc]
SetTodo(m, todo) == [m EXCEPT !.todo = todo]

\* What readline decides, shown.
LEMMA SanePc ==
    ASSUME NEW m, Sane(m), NEW pc \in Pcs, NEW todo \in Seq(Text)
    PROVE  Sane(SetPc(m, pc)) /\ Sane(SetTodo(m, todo))
  BY DEF Sane, Msh, SetPc, SetTodo

LEMMA ReadPromptIs ==
    ASSUME NEW m, Sane(m), NEW r, Edits(r, m.hist)
    PROVE  ReadPrompt(m, r) \in Text
<1>1. m.cwd \in Text /\ r.rq \in Text /\ m.hist \in History
  BY SaneIs, LineIs
<1>2. Prompt(m.cwd) \in Text /\ RevPrompt(r.rq) \in Text
  BY <1>1, PromptIs
<1> QED BY <1>2 DEF ReadPrompt

LEMMA PaintedIs ==
    ASSUME NEW m, Sane(m), NEW r, Edits(r, m.hist)
    PROVE  Sane(Painted(m, r)) /\ Painted(m, r).todo \in Seq(Text)
<1>1. PICK h \in History : h = m.hist
  BY SaneIs
<1>2. PICK p \in Text : p = ReadPrompt(m, r)
  BY ReadPromptIs
<1>3. /\ Edits(r, h) /\ Len(r.line) \in Nat /\ Len(p) \in Nat /\ r.shown \in Nat /\ r.draw \in Nat
      /\ Len(p) + Len(r.line) \in Nat
  BY <1>1, <1>2, LineIs, DrawIs, TextJoin
<1>4. CASE hosted
  <2>1. PICK r2 : r2 = SetDraw(r, Len(r.line), r.draw)
    OBVIOUS
  <2>2. Edits(r2, h)
    BY <1>3, <2>1, EditsDraw
  <2>3. PICK todo \in Seq(Text) : todo = Repaint(r, Len(p), r.shown)
    BY <1>3, RepaintIs
  <2>4. PICK m2 : m2 = SetRl(m, r2)
    OBVIOUS
  <2>5. Sane(m2)
    BY <1>1, <2>2, <2>4, SaneRl
  <2>6. Sane(SetTodo(m2, todo)) /\ SetTodo(m2, todo).todo = todo
    <3>1. "run" \in Pcs
      BY DEF Pcs
    <3>2. SetTodo(m2, todo).todo = todo
      BY <2>5 DEF SetTodo, Sane, Msh
    <3> QED BY <2>5, <3>1, <3>2, SanePc
  <2>7. r2 = [r EXCEPT !.shown = Len(r.line)]
    BY <1>3, <2>1 DEF SetDraw, Edits, Rl
  <2>8. SetTodo(m2, todo) = [m EXCEPT !.rl = r2, !.todo = todo]
    BY <2>4 DEF SetTodo, SetRl
  <2>9. Painted(m, r) = SetTodo(m2, todo)
    BY <1>2, <1>4, <2>3, <2>7, <2>8, Zenon DEF Painted
  <2> QED BY <2>6, <2>9
<1>5. CASE ~hosted
  <2>1. PICK r2 : r2 = SetDraw(r, r.shown, Len(p) + Len(r.line))
    OBVIOUS
  <2>2. Edits(r2, h)
    BY <1>3, <2>1, EditsDraw
  <2>3. PICK todo \in Seq(Text) : todo = Redraw(p, r)
    BY <1>3, RedrawIs
  <2>4. PICK m2 : m2 = SetRl(m, r2)
    OBVIOUS
  <2>5. Sane(m2)
    BY <1>1, <2>2, <2>4, SaneRl
  <2>6. Sane(SetTodo(m2, todo)) /\ SetTodo(m2, todo).todo = todo
    <3>1. "run" \in Pcs
      BY DEF Pcs
    <3>2. SetTodo(m2, todo).todo = todo
      BY <2>5 DEF SetTodo, Sane, Msh
    <3> QED BY <2>5, <3>1, <3>2, SanePc
  <2>7. r2 = [r EXCEPT !.draw = Len(p) + Len(r.line)]
    BY <1>3, <2>1 DEF SetDraw, Edits, Rl
  <2>8. SetTodo(m2, todo) = [m EXCEPT !.rl = r2, !.todo = todo]
    BY <2>4 DEF SetTodo, SetRl
  <2>9. Painted(m, r) = SetTodo(m2, todo)
    BY <1>2, <1>5, <2>3, <2>7, <2>8, Zenon DEF Painted
  <2> QED BY <2>6, <2>9
<1> QED BY <1>4, <1>5

\* The shell after readline decided on a step.
LEMMA ShownIs ==
    ASSUME NEW m, Sane(m), NEW step, Decides(step, m.hist)
    PROVE  Sane(Shown(m, step))
<1>0. /\ step.act \in Acts /\ step.names \in Seq(Text)
      /\ step.act # "intr" => Edits(step.rl, m.hist)
  BY DEF Decides
<1>1. PICK h \in History : h = m.hist
  BY SaneIs
<1>2. PICK r : r = step.rl
  OBVIOUS
<1>3. <<NL>> \in Text /\ <<Caret, 67, NL>> \in Text /\ <<101, NL>> \in Text
  BY DEF Text, NL, Caret
<1>4. << <<NL>> >> \in Seq(Text) /\ << <<Caret, 67, NL>> >> \in Seq(Text) /\ << <<101, NL>> >> \in Seq(Text)
  BY <1>3
<1>5. "run" \in Pcs /\ "prompt" \in Pcs /\ "exit" \in Pcs
  BY DEF Pcs
<1>6. CASE step.act = "none"
  <2>1. Sane(SetRl(m, r))
    BY <1>0, <1>2, <1>6, SaneRl
  <2>2. Shown(m, step) = SetRl(m, r)
    BY <1>2, <1>6, Zenon DEF Shown, SetRl
  <2> QED BY <2>1, <2>2
<1>7. CASE step.act = "paint" \/ step.act = "clear"
  <2>1. Sane(Painted(m, r))
    BY <1>0, <1>2, <1>7, PaintedIs
  <2>2. Shown(m, step) = Painted(m, r)
    BY <1>2, <1>7, Zenon DEF Shown
  <2> QED BY <2>1, <2>2
<1>8. CASE step.act = "list"
  <2>1. PICK r2 : r2 = SetDraw(r, 0, r.draw)
    OBVIOUS
  <2>2. Edits(r, h) /\ r.draw \in Nat
    BY <1>0, <1>1, <1>2, <1>8, DrawIs
  <2>3. Edits(r2, h)
    BY <2>1, <2>2, EditsDraw
  <2>4. r2 = [r EXCEPT !.shown = 0]
    BY <2>1, <2>2 DEF SetDraw, Edits, Rl
  <2>5. PICK q : q = Painted(m, r2)
    OBVIOUS
  <2>6. Sane(q) /\ q.todo \in Seq(Text)
    BY <1>1, <2>3, <2>5, PaintedIs
  <2>7. PICK list \in Seq(Text) : list = << <<NL>>, Listing(step.names), <<NL>> >>
    <3>1. Listing(step.names) \in Text
      BY <1>0, ListingIs
    <3>2. << <<NL>>, Listing(step.names), <<NL>> >> \in Seq(Text)
      BY <1>3, <3>1
    <3> QED BY <3>2
  <2>8. PICK p \in Text : p = Prompt(m.cwd)
    BY SaneIs, PromptIs
  <2>9. PICK todo \in Seq(Text) : todo = (IF hosted THEN list \o <<p>> ELSE list) \o q.todo
    <3>1. <<p>> \in Seq(Text)
      OBVIOUS
    <3>2. list \o <<p>> \in Seq(Text)
      BY <3>1, ConcatProperties
    <3>3. PICK l \in Seq(Text) : l = IF hosted THEN list \o <<p>> ELSE list
      BY <3>2
    <3>4. l \o q.todo \in Seq(Text)
      BY <2>6, ConcatProperties
    <3> QED BY <3>3, <3>4
  <2>10. Sane(SetTodo(q, todo))
    BY <1>5, <2>6, SanePc
  <2>11. Shown(m, step) = SetTodo(q, todo)
    BY <1>2, <1>8, <2>4, <2>5, <2>7, <2>8, <2>9, Zenon DEF Shown, SetTodo
  <2> QED BY <2>10, <2>11
<1>9. CASE step.act = "commit"
  <2>1. PICK m2 : m2 = SetRl(m, r)
    OBVIOUS
  <2>2. Sane(m2)
    BY <1>0, <1>2, <1>9, <2>1, SaneRl
  <2>3. PICK todo \in Seq(Text) : todo = IF hosted THEN CommitEcho(r) ELSE << <<NL>> >>
    <3>1. Edits(r, h) /\ 0 \in Nat
      BY <1>0, <1>1, <1>2, <1>9
    <3>2. CommitEcho(r) \in Seq(Text)
      BY <3>1, RepaintIs
    <3> QED BY <1>4, <3>2
  <2>4. Sane(SetSay(m2, todo, "run"))
    BY <1>5, <2>2, SaneSay
  <2>5. Shown(m, step) = [m EXCEPT !.rl = r, !.pc = "run", !.todo = todo]
    BY <1>2, <1>9, <2>3, Zenon DEF Shown
  <2>6. SetSay(m2, todo, "run") = [m EXCEPT !.rl = r, !.pc = "run", !.todo = todo]
    BY <2>1 DEF SetSay, SetRl
  <2> QED BY <2>4, <2>5, <2>6
<1>10. CASE step.act = "intr"
  <2>1. PICK m2 : m2 = SetRl(m, Fresh)
    OBVIOUS
  <2>2. Edits(Fresh, h)
    <3>1. <<>> \in Text /\ Len(<<>>) = 0
      BY DEF Text
    <3>2. Len(h.cmds) >= 0
      BY DEF History
    <3> QED BY <3>1, <3>2 DEF Edits, Fresh, Rl
  <2>3. Sane(m2)
    BY <1>1, <2>1, <2>2, SaneRl
  <2>4. PICK todo \in Seq(Text) : todo = << <<Caret, 67, NL>> >>
    BY <1>4
  <2>5. Sane(SetSay(m2, todo, "prompt"))
    BY <1>5, <2>3, SaneSay
  <2>6. Shown(m, step) = [m EXCEPT !.rl = Fresh, !.pc = "prompt", !.todo = todo]
    BY <1>2, <1>10, <2>4, Zenon DEF Shown
  <2>7. SetSay(m2, todo, "prompt") = [m EXCEPT !.rl = Fresh, !.pc = "prompt", !.todo = todo]
    BY <2>1 DEF SetSay, SetRl
  <2> QED BY <2>5, <2>6, <2>7
<1>11. CASE step.act = "eof"
  <2>1. PICK m2 : m2 = SetRl(m, r)
    OBVIOUS
  <2>2. Sane(m2)
    BY <1>0, <1>2, <1>11, <2>1, SaneRl
  <2>3. PICK todo \in Seq(Text) : todo = << <<101, NL>> >>
    BY <1>4
  <2>4. Sane(SetSay(m2, todo, "exit"))
    BY <1>5, <2>2, SaneSay
  <2>5. Shown(m, step) = [m EXCEPT !.rl = r, !.pc = "exit", !.todo = todo]
    BY <1>2, <1>11, <2>3, Zenon DEF Shown
  <2>6. SetSay(m2, todo, "exit") = [m EXCEPT !.rl = r, !.pc = "exit", !.todo = todo]
    BY <2>1 DEF SetSay, SetRl
  <2> QED BY <2>4, <2>5, <2>6
<1> QED BY <1>0, <1>6, <1>7, <1>8, <1>9, <1>10, <1>11 DEF Acts

\* The directory the shell is in stays one that there is.
LEMMA ChdirIs ==
    ASSUME NEW m, Sane(m), NEW words \in Seq(Text)
    PROVE  Sane(Chdir(m, words)) /\ Chdir(m, words).todo \in Seq(Text)
<1>1. PICK to : to = IF Len(words) < 2 THEN Home0
                     ELSE IF words[2] = <<45>> THEN m.old
                     ELSE IF words[2] = <<126>> THEN Home0 ELSE words[2]
  OBVIOUS
<1>2. CASE IsDir(m.cwd, to)
  <2>1. m.cwd \in DOMAIN Cd /\ m.cwd \in Text
    BY SaneIs
  <2>2. Cd[m.cwd][to] \in DOMAIN Cd
    BY <1>2, <2>1, ReadlineAssumption DEF IsDir
  <2>3. PICK q : q = Say(m, <<>>)
    OBVIOUS
  <2>4. <<>> \in Text
    BY DEF Text
  <2>5. Sane(q)
    BY <2>3, <2>4, SayIs
  <2>6. PICK z : z = SetDir(q, Cd[m.cwd][to], m.cwd)
    OBVIOUS
  <2>7. Sane(z)
    BY <2>1, <2>2, <2>5, <2>6, SaneDir
  <2>8. Chdir(m, words) = z
    BY <1>1, <1>2, <2>3, <2>6, Zenon DEF Chdir, SetDir
  <2> QED BY <2>7, <2>8, SaneIs
<1>3. CASE ~IsDir(m.cwd, to)
  <2>1. Missing \in Text
    BY TermAssumption
  <2>2. <<Missing>> \in Seq(Text)
    BY <2>1
  <2>3. Lines(<<Missing>>) \in Text
    BY <2>2, LinesIs
  <2>4. Sane(Say(m, Lines(<<Missing>>))) /\ Say(m, Lines(<<Missing>>)).todo \in Seq(Text)
    BY <2>3, SayIs
  <2>5. Chdir(m, words) = Say(m, Lines(<<Missing>>))
    BY <1>1, <1>3, Zenon DEF Chdir
  <2> QED BY <2>4, <2>5
<1> QED BY <1>2, <1>3

\* What a command makes of the shell.
LEMMA CommandIs ==
    ASSUME NEW m, Sane(m), NEW words \in Seq(Text)
    PROVE  Sane(Command(m, words))
<1>1. <<>> \in Text /\ Missing \in Text /\ Help \in Text
  BY TermAssumption DEF Text
<1>2. PICK q : q = Say(m, <<>>)
  OBVIOUS
<1>3. Sane(q)
  BY <1>1, <1>2, SayIs
<1>4. "exit" \in Pcs /\ "spawn" \in Pcs /\ <<>> \in Seq(Text)
  BY DEF Pcs
<1>5. Sane(SetPc(q, "exit")) /\ Sane(SetPc(q, "spawn"))
  BY <1>3, <1>4, SanePc
<1>6. Sane(Say(m, Lines(<<Help>>)))
  <2>1. <<Help>> \in Seq(Text)
    BY <1>1
  <2>2. Lines(<<Help>>) \in Text
    BY <2>1, LinesIs
  <2> QED BY <2>2, SayIs
<1>7. Sane(Say(m, HistoryText(m.hist)))
  <2>1. HistoryText(m.hist) \in Text
    BY SaneIs, HistoryTextIs
  <2> QED BY <2>1, SayIs
<1>8. Sane(Chdir(m, words))
  BY ChdirIs
<1>9. words # <<>> => Sane(Say(m, Lines(<<Missing \o words[1], <<>> >>)))
  <2> SUFFICES ASSUME words # <<>> PROVE Sane(Say(m, Lines(<<Missing \o words[1], <<>> >>)))
    OBVIOUS
  <2>1. words[1] \in Text
    OBVIOUS
  <2>2. Missing \o words[1] \in Text
    BY <1>1, <2>1, TextJoin
  <2>3. <<Missing \o words[1], <<>> >> \in Seq(Text)
    BY <1>1, <2>2
  <2>4. Lines(<<Missing \o words[1], <<>> >>) \in Text
    BY <2>3, LinesIs
  <2> QED BY <2>4, SayIs
<1>10. CASE words = <<>>
  <2>1. Command(m, words) = q
    BY <1>2, <1>10, Zenon DEF Command
  <2> QED BY <1>3, <2>1
<1>11. CASE words # <<>>
  <2>1. PICK a : a = Say(m, Lines(<<Help>>))
    OBVIOUS
  <2>2. PICK b : b = Say(m, HistoryText(m.hist))
    OBVIOUS
  <2>3. PICK c : c = Chdir(m, words)
    OBVIOUS
  <2>4. PICK d : d = Say(m, Lines(<<Missing \o words[1], <<>> >>))
    OBVIOUS
  <2>5. /\ Sane(SetPc(q, "exit")) /\ Sane(SetPc(q, "spawn")) /\ Sane(a) /\ Sane(b) /\ Sane(c) /\ Sane(d)
    BY <1>5, <1>6, <1>7, <1>8, <1>9, <1>11, <2>1, <2>2, <2>3, <2>4
  <2>6. Command(m, words) \in {SetPc(q, "exit"), SetPc(q, "spawn"), a, b, c, d}
    BY <1>2, <1>11, <2>1, <2>2, <2>3, <2>4, Zenon DEF Command, SetPc
  <2> QED BY <2>5, <2>6
<1> QED BY <1>10, <1>11

\* A command that is run is added to the history.
LEMMA HistAddGrows ==
    ASSUME NEW h \in History, NEW s \in Text
    PROVE  HistAdd(h, s) \in History /\ Len(h.cmds) <= Len(HistAdd(h, s).cmds)
<1>1. PICK c \in Seq(Text) : c = h.cmds /\ Len(c) \in Nat
  BY DEF History
<1>2. PICK g \in History : g = HistAdd(h, s)
  BY HistAddIs
<1>3. CASE s = <<>> \/ (c # <<>> /\ Last(c) = s)
  BY <1>1, <1>3 DEF HistAdd
<1>4. CASE ~(s = <<>> \/ (c # <<>> /\ Last(c) = s))
  <2>1. CASE Len(c) < HistMax
    <3>1. g = [h EXCEPT !.cmds = Append(@, s)]
      BY <1>1, <1>2, <1>4, <2>1, Zenon DEF HistAdd
    <3>2. g.cmds = Append(c, s)
      BY <1>1, <3>1 DEF History
    <3>3. Len(Append(c, s)) = Len(c) + 1
      BY AppendProperties
    <3> QED BY <1>1, <1>2, <3>2, <3>3
  <2>2. CASE ~(Len(c) < HistMax)
    <3>1. g = [cmds |-> Append(Tail(c), s), base |-> h.base + 1]
      BY <1>1, <1>2, <1>4, <2>2, Zenon DEF HistAdd
    <3>2. c # <<>>
      <4>1. HistMax \in Nat /\ HistMax >= 1
        BY ReadlineAssumption
      <4>2. Len(c) # 0
        BY <1>1, <2>2, <4>1
      <4> QED BY <4>2
    <3>3. Tail(c) \in Seq(Text) /\ Len(Tail(c)) = Len(c) - 1
      BY <3>2, HeadTailProperties
    <3>4. Len(Append(Tail(c), s)) = Len(c)
      BY <1>1, <3>3, AppendProperties
    <3> QED BY <1>1, <1>2, <3>1, <3>4
  <2> QED BY <2>1, <2>2
<1> QED BY <1>3, <1>4

LEMMA EditsGrow ==
    ASSUME NEW h \in History, NEW r, Edits(r, h), NEW g \in History, Len(h.cmds) <= Len(g.cmds)
    PROVE  Edits(r, g)
<1>1. Len(h.cmds) \in Nat /\ Len(g.cmds) \in Nat
  BY DEF History
<1>2. r.hp \in Nat
  BY DEF Edits, Rl
<1> QED BY <1>1, <1>2 DEF Edits

LEMMA RunIs ==
    ASSUME NEW m, Sane(m)
    PROVE  Sane(Run(m, m.hist))
<1>1. PICK h \in History : h = m.hist
  BY SaneIs
<1>2. m.rl.line \in Text /\ Edits(m.rl, h) /\ Recalls(h, m.ran) /\ m.ran \in Seq(Text)
  BY <1>1, SaneIs, LineIs
<1>3. PICK e : e = HistExpand(h, m.rl.line)
  OBVIOUS
<1>4. e.r \in Int /\ e.s \in Text
  BY <1>2, <1>3, HistExpandIs
<1>5. CASE e.r < 0
  <2>1. Missing \in Text
    BY TermAssumption
  <2>2. <<Missing>> \in Seq(Text)
    BY <2>1
  <2>3. Lines(<<Missing>>) \in Text
    BY <2>2, LinesIs
  <2>4. Sane(Say(m, Lines(<<Missing>>)))
    BY <2>3, SayIs
  <2>5. Run(m, h) = Say(m, Lines(<<Missing>>))
    BY <1>3, <1>5, Zenon DEF Run, RunExpanded
  <2> QED BY <1>1, <2>4, <2>5
<1>6. CASE ~(e.r < 0)
  <2>1. PICK g \in History : g = HistAdd(h, e.s) /\ Len(h.cmds) <= Len(g.cmds)
    BY <1>4, HistAddGrows
  <2>2. PICK ran \in Seq(Text) : ran = Noted(m.ran, e.s) /\ Recalls(g, ran)
    BY <1>2, <1>4, <2>1, RecallsMore
  <2>3. PICK m2 : m2 = SetRan(m, g, ran)
    OBVIOUS
  <2>4. Edits(m.rl, g)
    BY <1>2, <2>1, EditsGrow
  <2>5. Sane(m2)
    BY <2>2, <2>3, <2>4, SaneRan
  <2>6. PICK words \in Seq(Text) : words = Split(e.s)
    BY <1>4, SplitIs
  <2>7. PICK q : q = Command(m2, words)
    OBVIOUS
  <2>8. Sane(q)
    BY <2>5, <2>7, CommandIs
  <2>9. PICK text \in Text : text = IF e.r = 1 THEN Lines(<<e.s>>) ELSE <<>>
    <3>1. <<e.s>> \in Seq(Text) /\ <<>> \in Text
      BY <1>4 DEF Text
    <3>2. Lines(<<e.s>>) \in Text
      BY <3>1, LinesIs
    <3> QED BY <3>1, <3>2
  <2>10. PICK todo \in Seq(Text) : todo = IF text = <<>> THEN q.todo ELSE <<text>> \o q.todo
    <3>1. q.todo \in Seq(Text) /\ <<text>> \in Seq(Text)
      BY <2>8, SaneIs
    <3>2. <<text>> \o q.todo \in Seq(Text)
      BY <3>1, ConcatProperties
    <3> QED BY <3>1, <3>2
  <2>11. Sane(SetTodo(q, todo))
    <3>1. "run" \in Pcs
      BY DEF Pcs
    <3> QED BY <2>8, <3>1, SanePc
  <2>12. SetTodo(q, todo) = Echoed(q, text)
    BY <2>10, Zenon DEF SetTodo, Echoed
  <2>13. m2 = [m EXCEPT !.hist = HistAdd(h, e.s),
                        !.ran = IF e.s = <<>> \/ (@ # <<>> /\ Last(@) = e.s) THEN @ ELSE Append(@, e.s)]
    BY <2>1, <2>2, <2>3, Zenon DEF SetRan, Noted
  <2>14. RunExpanded(m, h, e) = Echoed(q, text)
    BY <1>6, <2>6, <2>7, <2>9, <2>13, Zenon DEF RunExpanded
  <2> QED BY <1>1, <1>3, <2>11, <2>12, <2>14, Zenon DEF Run
<1> QED BY <1>4, <1>5, <1>6

-----------------------------------------------------------------------------
(* The terminal's lines and what is drawn of them.                         *)

Buffer == [text : Seq(Text), caret : Int]
Gterm == [mode : {RunMode, PromptMode, DoneMode}, lines : Seq(Text), live : Text, input : Text,
          buf : Buffer, drawn : Buffer, dirty : BOOLEAN,
          at : {"start", "poll", "drain", "waiting", "frame", "gone"}, spins : Nat, fed : Nat,
          changed : BOOLEAN, prev : Text, after : {"poll", "frame"}]
Session == [alive : BOOLEAN, acc : Text, caret : Nat, painted : BOOLEAN]

\* What rebuild_entry makes of the lines.
LiveText(g) == IF g.mode = RunMode THEN g.live
               ELSE IF g.mode = PromptMode THEN <<125, SP>> \o g.input ELSE <<>>
CaretAt(g, s) ==
    IF g.mode = RunMode
    THEN IF LiveText(g) = <<>> THEN -1
         ELSE IF s.caret > Len(s.acc) \/ s.caret > Len(LiveText(g)) THEN Len(LiveText(g)) ELSE s.caret
    ELSE IF g.mode = PromptMode THEN 2 + Len(g.input) ELSE -1
BufOf(g, s) == [text |-> IF LiveText(g) = <<>> THEN g.lines ELSE Append(g.lines, LiveText(g)),
                caret |-> CaretAt(g, s)]
SetBuf(g, b) == [g EXCEPT !.buf = b, !.dirty = TRUE]

\* rebuild_entry, by what the terminal has.
LEMMA RebuildDef ==
    ASSUME NEW g, NEW s
    PROVE  Rebuild(g, s) = SetBuf(g, BufOf(g, s))
  BY Zenon DEF Rebuild, SetBuf, BufOf, CaretAt, LiveText

LEMMA BufIs ==
    ASSUME NEW g \in Gterm, NEW s \in Session
    PROVE  BufOf(g, s) \in Buffer
<1>1. g.live \in Text /\ g.input \in Text /\ g.lines \in Seq(Text) /\ s.caret \in Nat
  BY DEF Gterm, Session
<1>2. <<125, SP>> \in Text /\ <<>> \in Text
  BY DEF Text, SP
<1>3. <<125, SP>> \o g.input \in Text
  BY <1>1, <1>2, TextJoin
<1>4. PICK l \in Text : l = LiveText(g)
  BY <1>1, <1>2, <1>3 DEF LiveText
<1>5. Len(l) \in Nat /\ Len(g.input) \in Nat
  BY <1>1 DEF Text
<1>6. CaretAt(g, s) \in Int
  BY <1>1, <1>4, <1>5 DEF CaretAt
<1>7. Append(g.lines, l) \in Seq(Text)
  BY <1>1, AppendProperties
<1> QED BY <1>1, <1>4, <1>6, <1>7 DEF BufOf, Buffer

\* The buffer is made of the mode, the lines, the live line, the input and the session.
LEMMA SameBuf ==
    ASSUME NEW g, NEW s, NEW g2, NEW s2,
           g2.mode = g.mode, g2.lines = g.lines, g2.live = g.live, g2.input = g.input,
           s2.caret = s.caret, s2.acc = s.acc
    PROVE  BufOf(g2, s2) = BufOf(g, s)
  BY DEF BufOf, CaretAt, LiveText

\* With no live line, or at the prompt, the session does not matter.
LEMMA SameBufIdle ==
    ASSUME NEW g, NEW s, NEW g2, NEW s2,
           g2.mode = g.mode, g2.lines = g.lines, g2.live = g.live, g2.input = g.input,
           g.mode # RunMode \/ g.live = <<>>
    PROVE  BufOf(g2, s2) = BufOf(g, s)
  BY DEF BufOf, CaretAt, LiveText

LEMMA SetBufIs ==
    ASSUME NEW g \in Gterm, NEW b \in Buffer
    PROVE  /\ SetBuf(g, b) \in Gterm
           /\ SetBuf(g, b).buf = b /\ SetBuf(g, b).dirty = TRUE
           /\ SetBuf(g, b).mode = g.mode /\ SetBuf(g, b).lines = g.lines /\ SetBuf(g, b).live = g.live
           /\ SetBuf(g, b).input = g.input /\ SetBuf(g, b).at = g.at /\ SetBuf(g, b).prev = g.prev
           /\ SetBuf(g, b).changed = g.changed /\ SetBuf(g, b).after = g.after
  BY DEF SetBuf, Gterm

\* Nothing that changed is left undrawn without a mark.
Clean(g) == ~g.dirty => g.drawn = g.buf
Shows(g, s) == g.buf = BufOf(g, s)

\* After rebuild_entry the text is what the terminal has, and is marked for drawing.
LEMMA RebuildIs ==
    ASSUME NEW g \in Gterm, NEW s \in Session
    PROVE  /\ Rebuild(g, s) \in Gterm /\ Clean(Rebuild(g, s)) /\ Shows(Rebuild(g, s), s)
           /\ Rebuild(g, s).mode = g.mode /\ Rebuild(g, s).lines = g.lines /\ Rebuild(g, s).live = g.live
           /\ Rebuild(g, s).input = g.input /\ Rebuild(g, s).at = g.at /\ Rebuild(g, s).dirty = TRUE
<1>1. PICK b \in Buffer : b = BufOf(g, s)
  BY BufIs
<1>2. PICK r : r = SetBuf(g, b)
  OBVIOUS
<1>3. /\ r \in Gterm /\ r.buf = b /\ r.dirty = TRUE
      /\ r.mode = g.mode /\ r.lines = g.lines /\ r.live = g.live /\ r.input = g.input /\ r.at = g.at
  BY <1>2, SetBufIs
<1>4. BufOf(r, s) = BufOf(g, s)
  BY <1>3, SameBuf
<1>5. Rebuild(g, s) = r
  BY <1>1, <1>2, RebuildDef, Zenon
<1> QED BY <1>1, <1>3, <1>4, <1>5 DEF Clean, Shows

SetLines(g, ls) == [g EXCEPT !.lines = ls, !.live = <<>>]

LEMMA SetLinesIs ==
    ASSUME NEW g \in Gterm, NEW ls \in Seq(Text)
    PROVE  /\ SetLines(g, ls) \in Gterm /\ SetLines(g, ls).live = <<>> /\ SetLines(g, ls).mode = g.mode
           /\ SetLines(g, ls).at = g.at /\ SetLines(g, ls).input = g.input
<1>1. <<>> \in Text
  BY DEF Text
<1> QED BY <1>1 DEF SetLines, Gterm

\* push_line: the oldest line goes when there are too many.
LEMMA PushLineIs ==
    ASSUME NEW g \in Gterm, NEW s \in Session, NEW l \in Text
    PROVE  /\ PushLine(g, s, l) \in Gterm /\ Clean(PushLine(g, s, l)) /\ Shows(PushLine(g, s, l), s)
           /\ PushLine(g, s, l).mode = g.mode /\ PushLine(g, s, l).live = <<>>
           /\ PushLine(g, s, l).at = g.at /\ PushLine(g, s, l).input = g.input
           /\ PushLine(g, s, l).dirty = TRUE
<1>1. g.lines \in Seq(Text)
  BY DEF Gterm
<1>2. Append(g.lines, l) \in Seq(Text) /\ TermRows \in Nat
  BY <1>1, AppendProperties, TermAssumption
<1>3. PICK ls \in Seq(Text) : ls = KeepLast(Append(g.lines, l), TermRows)
  BY <1>2, KeepLastIs
<1>4. PICK g2 \in Gterm : /\ g2 = SetLines(g, ls) /\ g2.live = <<>> /\ g2.mode = g.mode
                          /\ g2.at = g.at /\ g2.input = g.input
  BY SetLinesIs
<1>5. PushLine(g, s, l) = Rebuild(g2, s)
  BY <1>3, <1>4, Zenon DEF PushLine, SetLines
<1>6. PICK p : p = Rebuild(g2, s)
  OBVIOUS
<1>7. /\ p \in Gterm /\ Clean(p) /\ Shows(p, s) /\ p.mode = g2.mode /\ p.live = g2.live
      /\ p.at = g2.at /\ p.input = g2.input /\ p.dirty = TRUE
  BY <1>6, RebuildIs
<1> QED BY <1>4, <1>5, <1>6, <1>7

-----------------------------------------------------------------------------
(* What the terminal makes of the bytes it read.                           *)

Flushing == [g : Gterm, s : Session, mark : BOOLEAN, split : BOOLEAN]
Flushes(f, mode) == f \in Flushing /\ Clean(f.g) /\ f.g.mode = mode

SetMark(f, b) == [f EXCEPT !.mark = b]
SetCaret(s, c) == [s EXCEPT !.caret = c]
SetAcc(s, x) == [s EXCEPT !.acc = x]
SetSession(f, s) == [f EXCEPT !.s = s]
SetSplit(f, b) == [f EXCEPT !.split = b]
SetGterm(f, g) == [f EXCEPT !.g = g]

LEMMA SessionSet ==
    ASSUME NEW s \in Session, NEW x \in Text, NEW c \in Nat
    PROVE  SetAcc(s, x) \in Session /\ SetCaret(s, c) \in Session
  BY DEF Session, SetAcc, SetCaret

LEMMA FlushSet ==
    ASSUME NEW mode, NEW f, Flushes(f, mode), NEW s \in Session, NEW b \in BOOLEAN,
           NEW g \in Gterm, Clean(g), g.mode = mode
    PROVE  /\ Flushes(SetSession(f, s), mode) /\ Flushes(SetMark(f, b), mode)
           /\ Flushes(SetSplit(f, b), mode) /\ Flushes(SetGterm(f, g), mode)
           /\ SetMark(f, b).s = f.s /\ SetGterm(f, g).s = f.s /\ SetMark(f, b).split = f.split
<1>1. f \in Flushing /\ Clean(f.g) /\ f.g.mode = mode
  BY DEF Flushes
<1>2. SetSession(f, s) \in Flushing /\ SetSession(f, s).g = f.g
  BY <1>1 DEF SetSession, Flushing
<1>3. SetMark(f, b) \in Flushing /\ SetMark(f, b).g = f.g /\ SetMark(f, b).s = f.s /\ SetMark(f, b).split = f.split
  BY <1>1 DEF SetMark, Flushing
<1>4. SetSplit(f, b) \in Flushing /\ SetSplit(f, b).g = f.g
  BY <1>1 DEF SetSplit, Flushing
<1>5. SetGterm(f, g) \in Flushing /\ SetGterm(f, g).g = g /\ SetGterm(f, g).s = f.s
  BY <1>1 DEF SetGterm, Flushing
<1> QED BY <1>1, <1>2, <1>3, <1>4, <1>5 DEF Flushes

\* A byte of the output keeps that what is not marked for drawing is drawn.
LEMMA FlushByteIs ==
    ASSUME NEW mode, NEW f, Flushes(f, mode), NEW b \in Nat, NEW last \in BOOLEAN
    PROVE  Flushes(FlushByte(f, b, last), mode)
<1>1. /\ f \in Flushing /\ f.s \in Session /\ f.g \in Gterm /\ Clean(f.g) /\ f.g.mode = mode
      /\ f.split \in BOOLEAN /\ f.mark \in BOOLEAN
  BY DEF Flushes, Flushing
<1>2. f.s.acc \in Text /\ <<>> \in Text /\ 0 \in Nat /\ Len(f.s.acc) \in Nat
  BY <1>1 DEF Session, Text
<1>3. FALSE \in BOOLEAN /\ (~last) \in BOOLEAN /\ (f.split \/ last) \in BOOLEAN
  OBVIOUS
<1>4. CASE f.mark
  <2>1. PICK s2 \in Session : s2 = SetCaret(f.s, b)
    BY <1>1, <1>2, SessionSet
  <2>2. PICK f1 : f1 = SetMark(f, FALSE)
    OBVIOUS
  <2>3. Flushes(f1, mode) /\ f1.s = f.s
    BY <1>1, <1>3, <2>2, FlushSet
  <2>4. Flushes(SetSession(f1, s2), mode)
    BY <1>1, <1>3, <2>3, FlushSet
  <2>5. SetSession(f1, s2) = [f EXCEPT !.mark = FALSE, !.s.caret = b]
    BY <1>1, <2>1, <2>2 DEF SetSession, SetMark, SetCaret, Flushing, Session
  <2>6. FlushByte(f, b, last) = [f EXCEPT !.mark = FALSE, !.s.caret = b]
    BY <1>4, Zenon DEF FlushByte
  <2> QED BY <2>4, <2>5, <2>6
<1>5. CASE ~f.mark /\ b = ACK
  <2>1. PICK f1 : f1 = SetMark(f, ~last)
    OBVIOUS
  <2>2. Flushes(f1, mode) /\ f1.split = f.split
    BY <1>1, <1>3, <2>1, FlushSet
  <2>3. Flushes(SetSplit(f1, f.split \/ last), mode)
    BY <1>1, <1>3, <2>2, FlushSet
  <2>4. FlushByte(f, b, last) = SetSplit(f1, f.split \/ last)
    <3>1. b # CR /\ b \notin {BS, Del} /\ b # NL
      BY <1>5 DEF BS, Del, ACK, CR, NL
    <3> QED BY <1>5, <2>1, <3>1, Zenon DEF FlushByte, SetSplit, SetMark
  <2> QED BY <2>3, <2>4
<1>6. CASE ~f.mark /\ b = CR
  <2>1. PICK s1 \in Session : s1 = SetAcc(f.s, <<>>)
    BY <1>1, <1>2, SessionSet
  <2>2. PICK s2 \in Session : s2 = SetCaret(s1, 0)
    BY <1>2, SessionSet
  <2>3. Flushes(SetSession(f, s2), mode)
    BY <1>1, <1>3, FlushSet
  <2>4. FlushByte(f, b, last) = [f EXCEPT !.s.acc = <<>>, !.s.caret = 0]
    <3>1. b # ACK /\ b \notin {BS, Del} /\ b # NL
      BY <1>6 DEF BS, Del, ACK, CR, NL
    <3> QED BY <1>6, <3>1, Zenon DEF FlushByte
  <2>5. SetSession(f, s2) = [f EXCEPT !.s.acc = <<>>, !.s.caret = 0]
    BY <1>1, <2>1, <2>2 DEF SetSession, SetAcc, SetCaret, Flushing, Session
  <2> QED BY <2>3, <2>4, <2>5
<1>7. CASE ~f.mark /\ b \in {BS, Del}
  <2>1. PICK x \in Text : x = Before(f.s.acc, Max({0, Len(f.s.acc) - 1}))
    <3>1. 0 \in Int /\ Len(f.s.acc) - 1 \in Int
      BY <1>2
    <3>2. Max({0, Len(f.s.acc) - 1}) \in Int
          /\ Max({0, Len(f.s.acc) - 1}) = IF 0 >= Len(f.s.acc) - 1 THEN 0 ELSE Len(f.s.acc) - 1
      BY <3>1, MaxOfTwo
    <3>3. Max({0, Len(f.s.acc) - 1}) <= Len(f.s.acc)
      BY <1>2, <3>2
    <3> QED BY <1>2, <3>2, <3>3, TextIs
  <2>2. PICK s1 \in Session : s1 = SetAcc(f.s, x)
    BY <1>1, SessionSet
  <2>3. Flushes(SetSession(f, s1), mode)
    BY <1>1, <1>3, FlushSet
  <2>4. FlushByte(f, b, last) = [f EXCEPT !.s.acc = Before(@, Max({0, Len(@) - 1}))]
    <3>1. b # ACK /\ b # CR /\ b # NL
      BY <1>7 DEF BS, Del, ACK, CR, NL
    <3> QED BY <1>7, <3>1, Zenon DEF FlushByte
  <2>5. [f EXCEPT !.s.acc = Before(@, Max({0, Len(@) - 1}))] = [f EXCEPT !.s.acc = x]
    BY <2>1, Zenon
  <2>6. SetSession(f, s1) = [f EXCEPT !.s.acc = x]
    BY <1>1, <2>2 DEF SetSession, SetAcc, Flushing, Session
  <2> QED BY <2>3, <2>4, <2>5, <2>6
<1>8. CASE ~f.mark /\ b = NL
  <2>0. PICK g2 : g2 = PushLine(f.g, f.s, f.s.acc)
    OBVIOUS
  <2>1. g2 \in Gterm /\ Clean(g2) /\ g2.mode = mode
    <3>1. PICK g1 \in Gterm, s0 \in Session, l \in Text : g1 = f.g /\ s0 = f.s /\ l = f.s.acc
      BY <1>1, <1>2
    <3>2. PICK p : p = PushLine(g1, s0, l)
      OBVIOUS
    <3>3. p \in Gterm /\ Clean(p) /\ p.mode = g1.mode
      BY <3>2, PushLineIs
    <3> QED BY <1>1, <2>0, <3>1, <3>2, <3>3
  <2>2. PICK s1 \in Session : s1 = SetAcc(f.s, <<>>)
    BY <1>1, <1>2, SessionSet
  <2>3. PICK s2 \in Session : s2 = SetCaret(s1, 0)
    BY <1>2, SessionSet
  <2>4. PICK f1 : f1 = SetGterm(f, g2)
    OBVIOUS
  <2>5. Flushes(f1, mode) /\ f1.s = f.s
    BY <1>1, <1>3, <2>1, <2>4, FlushSet
  <2>6. Flushes(SetSession(f1, s2), mode)
    BY <1>1, <1>3, <2>5, FlushSet
  <2>7. FlushByte(f, b, last) = [f EXCEPT !.g = g2, !.s.acc = <<>>, !.s.caret = 0]
    <3>1. b # ACK /\ b # CR /\ b \notin {BS, Del}
      BY <1>8 DEF BS, Del, ACK, CR, NL
    <3> QED BY <1>8, <2>0, <3>1, Zenon DEF FlushByte
  <2>8. SetSession(f1, s2) = [f EXCEPT !.g = g2, !.s.acc = <<>>, !.s.caret = 0]
    BY <1>1, <2>2, <2>3, <2>4 DEF SetSession, SetGterm, SetAcc, SetCaret, Flushing, Session
  <2> QED BY <2>6, <2>7, <2>8
<1>9. CASE ~f.mark /\ b # ACK /\ b # CR /\ b \notin {BS, Del} /\ b # NL
  <2>1. PICK x \in Text : x = IF Len(f.s.acc) + 1 < AccMax THEN Append(f.s.acc, b) ELSE f.s.acc
    <3>1. Append(f.s.acc, b) \in Text
      BY <1>2, AppendProperties DEF Text
    <3> QED BY <1>2, <3>1
  <2>2. PICK s1 \in Session : s1 = SetAcc(f.s, x)
    BY <1>1, SessionSet
  <2>3. Flushes(SetSession(f, s1), mode)
    BY <1>1, <1>3, FlushSet
  <2>4. FlushByte(f, b, last) = [f EXCEPT !.s.acc = IF Len(@) + 1 < AccMax THEN Append(@, b) ELSE @]
    BY <1>9, Zenon DEF FlushByte
  <2>5. [f EXCEPT !.s.acc = IF Len(@) + 1 < AccMax THEN Append(@, b) ELSE @] = [f EXCEPT !.s.acc = x]
    BY <2>1, Zenon
  <2>6. SetSession(f, s1) = [f EXCEPT !.s.acc = x]
    BY <1>1, <2>2 DEF SetSession, SetAcc, Flushing, Session
  <2> QED BY <2>3, <2>4, <2>5, <2>6
<1> QED BY <1>1, <1>4, <1>5, <1>6, <1>7, <1>8, <1>9

\* Flush, step by step.
Ids(n) == [i \in 1 .. n |-> i]
Unflushed(g, s) == [g |-> g, s |-> s, mark |-> FALSE, split |-> FALSE]
FlushStep(f, g, s, bytes, i) ==
    IF i = 0 THEN Unflushed(g, s)
    ELSE CHOOSE r \in {FlushByte(x, bytes[Ids(Len(bytes))[i]],
                                 Ids(Len(bytes))[i] = Len(bytes) \/ Ids(Len(bytes))[i] % ReadMax = 0) : x \in {f[i - 1]}} : TRUE
FlushRun(g, s, bytes) == CHOOSE f : f = [i \in 0 .. Len(Ids(Len(bytes))) |-> FlushStep(f, g, s, bytes, i)]

LEMMA FlushRuns ==
    ASSUME NEW g, NEW s, NEW bytes, Len(bytes) \in Nat
    PROVE  /\ Flush(g, s, bytes) = FlushRun(g, s, bytes)[Len(bytes)]
           /\ \A i \in 0 .. Len(bytes) :
                 FlushRun(g, s, bytes)[i] = FlushStep(FlushRun(g, s, bytes), g, s, bytes, i)
<1> DEFINE n == Len(bytes)
           Is(q, m) == q = [i \in 0 .. m |-> FlushStep(q, g, s, bytes, i)]
           T == {m \in 0 .. n : \E q : Is(q, m)}
<1>0. Len(Ids(n)) = n
  BY DEF Ids
<1>1. 0 \in T
  <2>1. \A i \in 0 .. 0 : i = 0
    OBVIOUS
  <2>2. 0 \in 0 .. n
    OBVIOUS
  <2> DEFINE g0 == [i \in 0 .. 0 |-> Unflushed(g, s)]
  <2>3. \A i \in 0 .. 0 : FlushStep(g0, g, s, bytes, i) = Unflushed(g, s)
    BY <2>1 DEF FlushStep
  <2>4. Is(g0, 0)
    BY <2>3, Zenon
  <2> QED BY <2>2, <2>4
<1>2. ASSUME NEW m \in 0 .. n - 1, m \in T PROVE m + 1 \in T
  <2>1. PICK q : Is(q, m)
    BY <1>2
  <2> DEFINE h == [i \in 0 .. m + 1 |-> IF i = m + 1 THEN FlushStep(q, g, s, bytes, m + 1) ELSE q[i]]
  <2>2. ASSUME NEW i \in 0 .. m + 1 PROVE h[i] = FlushStep(h, g, s, bytes, i)
    <3>1. i # 0 => h[i - 1] = q[i - 1]
      <4>1. i # 0 => i - 1 \in 0 .. m + 1 /\ i - 1 # m + 1
        OBVIOUS
      <4> QED BY <4>1, Zenon
    <3>2. FlushStep(h, g, s, bytes, i) = FlushStep(q, g, s, bytes, i)
      <4> HIDE DEF h
      <4> QED BY <3>1, Zenon DEF FlushStep
    <3>3. CASE i = m + 1
      BY <3>2, <3>3, Zenon
    <3>4. CASE i # m + 1
      <4>1. i \in 0 .. m
        BY <3>4
      <4>2. h[i] = q[i]
        BY <3>4, Zenon
      <4>3. q[i] = FlushStep(q, g, s, bytes, i)
        BY <4>1, <2>1, Zenon
      <4> QED BY <3>2, <4>2, <4>3, Zenon
    <3> QED BY <3>3, <3>4
  <2>3. Is(h, m + 1)
    BY <2>2, Zenon
  <2>4. m + 1 \in 0 .. n
    OBVIOUS
  <2> HIDE DEF Is
  <2> QED BY <2>3, <2>4
<1>3. PICK q : Is(q, n)
  <2> HIDE DEF T
  <2>1. \A m \in 0 .. n : m \in T
    BY <1>1, <1>2, Climb, Zenon
  <2>2. n \in T
    BY <2>1
  <2> USE DEF T
  <2> HIDE DEF Is
  <2> QED BY <2>2
<1>4. FlushRun(g, s, bytes) = [i \in 0 .. n |-> FlushStep(FlushRun(g, s, bytes), g, s, bytes, i)]
  BY <1>0, <1>3, Zenon DEF FlushRun
<1>5. Flush(g, s, bytes) = FlushRun(g, s, bytes)[Len(Ids(n))]
  BY Zenon DEF Flush, Steps, FlushRun, FlushStep, Unflushed, Ids
<1> QED BY <1>0, <1>4, <1>5, Zenon

\* A flush of nothing changes nothing; any other ends with the text rebuilt.
LEMMA FlushIs ==
    ASSUME NEW g \in Gterm, Clean(g), NEW s \in Session, NEW bytes \in Text
    PROVE  /\ Flushes(Flush(g, s, bytes), g.mode)
           /\ bytes = <<>> => Flush(g, s, bytes).g = g /\ Flush(g, s, bytes).s = s
                              /\ Flush(g, s, bytes).split = FALSE
<1> DEFINE n == Len(bytes)
           R == FlushRun(g, s, bytes)
           T == {m \in 0 .. n : Flushes(R[m], g.mode)}
<1>0. n \in Nat /\ \A i \in 1 .. n : bytes[i] \in Nat
  BY DEF Text
<1>1. R[0] = Unflushed(g, s)
  <2>1. 0 \in 0 .. n
    BY <1>0
  <2>2. R[0] = FlushStep(R, g, s, bytes, 0)
    BY <1>0, <2>1, FlushRuns
  <2> QED BY <2>2, Zenon DEF FlushStep
<1>2. 0 \in T
  <2>1. Flushes(Unflushed(g, s), g.mode)
    BY DEF Unflushed, Flushes, Flushing
  <2>2. 0 \in 0 .. n
    BY <1>0
  <2> QED BY <1>1, <2>1, <2>2
<1>3. ASSUME NEW m \in 0 .. n - 1, m \in T PROVE m + 1 \in T
  <2>1. m + 1 \in 0 .. n /\ m + 1 \in 1 .. n /\ m + 1 # 0 /\ (m + 1) - 1 = m
    BY <1>0
  <2>2. R[m + 1] = FlushStep(R, g, s, bytes, m + 1)
    BY <1>0, <2>1, FlushRuns
  <2>3. Ids(n)[m + 1] = m + 1
    BY <2>1 DEF Ids
  <2>4. PICK last \in BOOLEAN : last = (m + 1 = n \/ (m + 1) % ReadMax = 0)
    OBVIOUS
  <2>5. FlushStep(R, g, s, bytes, m + 1)
            = CHOOSE r \in {FlushByte(x, bytes[m + 1], last) : x \in {R[m]}} : TRUE
    BY <2>1, <2>3, <2>4, Zenon DEF FlushStep
  <2>6. FlushStep(R, g, s, bytes, m + 1) = FlushByte(R[m], bytes[m + 1], last)
    BY <2>5
  <2>7. Flushes(FlushByte(R[m], bytes[m + 1], last), g.mode)
    BY <1>0, <1>3, <2>1, FlushByteIs
  <2> QED BY <2>1, <2>2, <2>6, <2>7
<1>4. n \in T
  <2> HIDE DEF T
  <2>1. \A m \in 0 .. n : m \in T
    BY <1>0, <1>2, <1>3, Climb, Zenon
  <2> QED BY <1>0, <2>1
<1>5. Flush(g, s, bytes) = R[n]
  BY <1>0, FlushRuns
<1>6. bytes = <<>> => n = 0
  OBVIOUS
<1>7. bytes = <<>> => Flush(g, s, bytes) = Unflushed(g, s)
  BY <1>1, <1>5, <1>6
<1> QED BY <1>4, <1>5, <1>7 DEF Unflushed

-----------------------------------------------------------------------------
(* The terminal shows what it has.                                         *)

SetLive(g, l) == [g EXCEPT !.live = l]

\* Between its rounds the terminal's text is what it has; while a round runs that has
\* brought nothing yet, what it had when the round began.
Faithful(g, s) ==
    /\ Clean(g)
    /\ g.at \in {"poll", "frame"} => Shows(g, s)
    /\ g.at \in {"drain", "waiting"} =>
          g.mode = RunMode /\ (~g.changed => g.buf = BufOf(SetLive(g, g.prev), s))

GtOk(g, s) == g \in Gterm /\ s \in Session /\ Faithful(g, s)

\* In a run without a live line there is no caret.
LEMMA NoLive ==
    ASSUME NEW g, NEW s, g.mode = RunMode, g.live = <<>>
    PROVE  BufOf(g, s) = [text |-> g.lines, caret |-> -1]
  BY DEF BufOf, CaretAt, LiveText

LEMMA FieldsIs ==
    ASSUME NEW g \in Gterm
    PROVE  /\ g.live \in Text /\ g.prev \in Text /\ g.input \in Text /\ g.lines \in Seq(Text)
           /\ g.buf \in Buffer /\ g.drawn \in Buffer /\ g.changed \in BOOLEAN /\ g.dirty \in BOOLEAN
           /\ g.after \in {"poll", "frame"} /\ g.fed \in Nat /\ g.spins \in Nat
  BY DEF Gterm

LEMMA SetLiveIs ==
    ASSUME NEW g \in Gterm, NEW l \in Text
    PROVE  /\ SetLive(g, l) \in Gterm /\ SetLive(g, l).live = l /\ SetLive(g, l).mode = g.mode
           /\ SetLive(g, l).lines = g.lines /\ SetLive(g, l).input = g.input
  BY DEF SetLive, Gterm

\* drain_child: draining without redrawing leaves the mark as it was.
LEMMA DrainIs ==
    ASSUME NEW g, NEW s, GtOk(g, s), g.at = "poll", g.mode = RunMode, NEW k \in Nat, NEW b \in {g.dirty, TRUE}
    PROVE  GtOk([Drain(g, k) EXCEPT !.dirty = b], s)
<1>1. /\ g \in Gterm /\ s \in Session /\ Clean(g) /\ g.buf = BufOf(g, s) /\ g.live \in Text
      /\ b \in BOOLEAN
  BY FieldsIs DEF GtOk, Faithful, Shows
<1>2. PICK d : d = [Drain(g, k) EXCEPT !.dirty = b]
  OBVIOUS
<1>3. d = [g EXCEPT !.at = "drain", !.after = "frame", !.spins = 0, !.fed = k, !.changed = FALSE,
                    !.prev = g.live, !.dirty = b]
  BY <1>2 DEF Drain
<1>4. /\ d \in Gterm /\ d.at = "drain" /\ d.mode = RunMode /\ d.changed = FALSE /\ d.prev = g.live
      /\ d.buf = g.buf /\ d.drawn = g.drawn /\ d.dirty = b /\ d.live = g.live /\ d.lines = g.lines
      /\ d.input = g.input
  BY <1>1, <1>3 DEF Gterm
<1>5. Clean(d)
  BY <1>1, <1>4 DEF Clean
<1>6. PICK l \in Gterm : l = SetLive(d, g.live)
  BY <1>1, <1>4, SetLiveIs
<1>7. l.live = g.live /\ l.mode = g.mode /\ l.lines = g.lines /\ l.input = g.input
  BY <1>1, <1>4, <1>6, SetLiveIs
<1>8. BufOf(l, s) = BufOf(g, s)
  BY <1>7, SameBuf
<1> QED BY <1>1, <1>2, <1>4, <1>5, <1>6, <1>8 DEF GtOk, Faithful

LEMMA DrainKeeps ==
    ASSUME NEW g, NEW s, GtOk(g, s), g.at = "poll", g.mode = RunMode, NEW k \in Nat
    PROVE  GtOk(Drain(g, k), s)
<1>1. PICK d : d = Drain(g, k)
  OBVIOUS
<1>2. d \in [DOMAIN d -> {d[f] : f \in DOMAIN d}] /\ d.dirty = g.dirty /\ "dirty" \in DOMAIN d
  BY <1>1 DEF Drain, GtOk, Gterm
<1>3. [d EXCEPT !.dirty = g.dirty] = d
  BY <1>2
<1>4. GtOk([Drain(g, k) EXCEPT !.dirty = g.dirty], s)
  BY DrainIs
<1> QED BY <1>1, <1>3, <1>4

\* Back to the prompt.
Prompted(g, s) == Rebuild([g EXCEPT !.mode = PromptMode, !.input = <<>>, !.at = "poll"], s)

\* The terminal at its prompt.
LEMMA PromptedIs ==
    ASSUME NEW g \in Gterm, NEW s \in Session, NEW s2 \in Session
    PROVE  GtOk(Prompted(g, s), s2)
<1>1. <<>> \in Text
  BY DEF Text
<1>2. PICK q : q = [g EXCEPT !.mode = PromptMode, !.input = <<>>, !.at = "poll"]
  OBVIOUS
<1>3. q \in Gterm /\ q.mode = PromptMode /\ q.at = "poll"
  BY <1>1, <1>2 DEF Gterm
<1>4. PICK r : r = Rebuild(q, s)
  OBVIOUS
<1>5. r \in Gterm /\ Clean(r) /\ Shows(r, s) /\ r.mode = q.mode /\ r.at = q.at
  BY <1>3, <1>4, RebuildIs
<1>6. PromptMode # RunMode
  BY DEF PromptMode, RunMode
<1>7. BufOf(r, s2) = BufOf(r, s)
  BY <1>3, <1>5, <1>6, SameBufIdle
<1>8. r.at \notin {"drain", "waiting"}
  BY <1>3, <1>5
<1>9. GtOk(r, s2)
  BY <1>5, <1>7, <1>8 DEF GtOk, Faithful, Shows
<1> QED BY <1>2, <1>4, <1>9 DEF Prompted

SetInput(g, x) == [g EXCEPT !.input = x]

LEMMA SetInputIs ==
    ASSUME NEW g \in Gterm, NEW x \in Text
    PROVE  SetInput(g, x) \in Gterm /\ SetInput(g, x).at = g.at /\ SetInput(g, x).mode = g.mode
  BY DEF SetInput, Gterm

\* The command leaves the prompt, and its program starts or does not.
LEMMA SubmitIs ==
    ASSUME NEW g \in Gterm, sess \in Session, NEW quiet, NEW ok, Submit(g, quiet, ok)
    PROVE  GtOk(gt', sess')
<1>0. <<>> \in Text /\ Missing \in Text /\ <<125, SP>> \in Text /\ g.input \in Text
  BY TermAssumption, FieldsIs DEF Text, SP
<1>1. PICK run : run = [g EXCEPT !.mode = RunMode, !.live = <<>>]
  OBVIOUS
<1>2. run \in Gterm /\ run.mode = RunMode /\ run.live = <<>>
  BY <1>0, <1>1 DEF Gterm
<1>3. PICK l \in Text : l = <<125, SP>> \o g.input
  BY <1>0, TextJoin
<1>4. PICK g1 : g1 = IF quiet THEN Rebuild(run, sess) ELSE PushLine(run, sess, l)
  OBVIOUS
<1>5. g1 \in Gterm /\ Clean(g1) /\ Shows(g1, sess) /\ g1.mode = RunMode /\ g1.live = <<>>
  <2>1. PICK a : a = Rebuild(run, sess)
    OBVIOUS
  <2>2. a \in Gterm /\ Clean(a) /\ Shows(a, sess) /\ a.mode = RunMode /\ a.live = <<>>
    BY <1>2, <2>1, RebuildIs
  <2>3. PICK b : b = PushLine(run, sess, l)
    OBVIOUS
  <2>4. b \in Gterm /\ Clean(b) /\ Shows(b, sess) /\ b.mode = RunMode /\ b.live = <<>>
    BY <1>2, <2>3, PushLineIs
  <2>5. g1 = a \/ g1 = b
    BY <1>4, <2>1, <2>3
  <2> QED BY <2>2, <2>4, <2>5
<1>6. PICK word : word = Split(g.input)
  OBVIOUS
<1>7. NewSession \in Session
  BY <1>0 DEF NewSession, Session
<1>8. PICK known : known = (word # <<>> /\ word[1] \in Programs \cup {Shell})
  OBVIOUS
<1>9. CASE word = <<>>
  <2>1. gt' = Prompted(g1, sess) /\ sess' = sess
    BY <1>1, <1>3, <1>4, <1>6, <1>9, Zenon DEF Submit, Prompted
  <2> QED BY <1>5, <2>1, PromptedIs
<1>10. CASE word # <<>> /\ (~known \/ ~ok)
  <2>1. PICK q : q = PushLine(SetInput(g1, <<>>), sess, Missing)
    OBVIOUS
  <2>2. q \in Gterm
    <3>1. PICK i \in Gterm : i = SetInput(g1, <<>>)
      BY <1>0, <1>5, SetInputIs
    <3> QED BY <1>0, <2>1, <3>1, PushLineIs
  <2>3. gt' = Prompted(q, sess) /\ sess' = NewSession
    BY <1>1, <1>3, <1>4, <1>6, <1>8, <1>10, <2>1, Zenon DEF Submit, Prompted, SetInput
  <2> QED BY <1>7, <2>2, <2>3, PromptedIs
<1>11. CASE word # <<>> /\ known /\ ok
  <2>1. /\ gt' = [g1 EXCEPT !.input = <<>>, !.at = "drain", !.after = "poll", !.spins = 0,
                            !.fed = 0, !.changed = FALSE, !.prev = g1.live]
        /\ sess' = [NewSession EXCEPT !.alive = TRUE]
    BY <1>1, <1>3, <1>4, <1>6, <1>8, <1>11, Zenon DEF Submit
  <2>2. sess' \in Session
    BY <1>7, <2>1 DEF Session
  <2>3. PICK d : d = gt'
    OBVIOUS
  <2>4. /\ d \in Gterm /\ d.at = "drain" /\ d.mode = RunMode /\ d.changed = FALSE /\ d.prev = <<>>
        /\ d.buf = g1.buf /\ d.drawn = g1.drawn /\ d.dirty = g1.dirty /\ d.lines = g1.lines
    BY <1>0, <1>5, <2>1, <2>3 DEF Gterm
  <2>5. g1.buf = [text |-> g1.lines, caret |-> -1]
    BY <1>5, NoLive DEF Shows
  <2>6. PICK z : z = SetLive(d, <<>>)
    OBVIOUS
  <2>7. z.mode = RunMode /\ z.live = <<>> /\ z.lines = g1.lines
    BY <1>0, <2>4, <2>6, SetLiveIs
  <2>8. BufOf(z, sess') = [text |-> g1.lines, caret |-> -1]
    BY <2>7, NoLive
  <2>9. Clean(d)
    BY <1>5, <2>4 DEF Clean
  <2>10. GtOk(d, sess')
    BY <2>2, <2>4, <2>5, <2>6, <2>8, <2>9 DEF GtOk, Faithful
  <2> QED BY <2>3, <2>10
<1> QED BY <1>9, <1>10, <1>11

-----------------------------------------------------------------------------
(* The invariant and the steps.                                            *)

\* What is in the rings of the console, and what the user typed, are bytes.
Rings(ks, o, t) == ks \in [{"main", "sub"} -> Seq(Nat)] /\ o \in Text /\ t \in Seq(Nat)

\* The inductive invariant: the terminal shows what it has whenever it does not drain its
\* child (drain_child may leave text that is not rebuilt yet), and the shell keeps its
\* cursor in its line and its history the end of what was run.
TermInv ==
    /\ hosted \in BOOLEAN
    /\ GtOk(gt, sess)
    /\ Rings(keys, out, typed)
    /\ Sane(msh)

\* The rings of the shell and of the program under it.
LEMMA TwoRings ==
    ASSUME NEW S, NEW a \in S, NEW b \in S
    PROVE  [main |-> a, sub |-> b] \in [{"main", "sub"} -> S]
  BY SMT

\* A terminal or a console that starts, with its shell.
LEMMA TermStarts == Init => TermInv
<1> SUFFICES ASSUME Init PROVE TermInv
  OBVIOUS
<1>1. <<>> \in Text /\ <<>> \in Seq(Nat) /\ <<>> \in Seq(Text)
  BY DEF Text
<1>2. hosted \in BOOLEAN
  BY TermAssumption DEF Init
<1>3. GtOk(gt, sess)
  <2>1. gt = InitGt /\ sess = NewSession
    BY DEF Init
  <2>2. InitGt \in Gterm /\ InitGt.at = "start" /\ InitGt.dirty = TRUE
    BY <1>1 DEF InitGt, Gterm, Buffer
  <2>3. NewSession \in Session
    BY <1>1 DEF NewSession, Session
  <2> QED BY <2>1, <2>2, <2>3 DEF GtOk, Faithful, Clean
<1>4. Rings(keys, out, typed)
  <2>1. keys = [main |-> <<>>, sub |-> <<>>] /\ out = <<>> /\ typed = <<>>
    BY DEF Init
  <2>2. [main |-> <<>>, sub |-> <<>>] \in [{"main", "sub"} -> Seq(Nat)]
    BY <1>1, TwoRings
  <2> QED BY <1>1, <2>1, <2>2 DEF Rings
<1>5. Sane(msh)
  BY ShellStarts DEF Init
<1> QED BY <1>2, <1>3, <1>4, <1>5 DEF TermInv

LEMMA HitStep == ASSUME TermInv, User PROVE TermInv'
<1>1. PICK k \in KeysFor[hosted] : Hit(k)
  BY DEF User
<1>2. k \in Nat
  BY <1>1, TermAssumption DEF TermInv
<1>3. typed' = <<k>> /\ UNCHANGED <<hosted, gt, sess, keys, out, msh>>
  BY <1>1 DEF Hit
<1>4. <<k>> \in Seq(Nat)
  BY <1>2
<1> QED BY <1>3, <1>4 DEF TermInv, Rings

LEMMA StartStep == ASSUME TermInv, GtStart PROVE TermInv'
<1>1. /\ gt \in Gterm /\ sess \in Session /\ Clean(gt) /\ gt.at = "start"
      /\ UNCHANGED <<typed, hosted, keys, out, msh>>
  BY DEF GtStart, Kernel, TermInv, GtOk, Faithful
<1>2. GtOk(gt', sess')
  <2>1. CASE gt' = [PushLine(gt, sess, Help) EXCEPT !.at = "poll"] /\ sess' = sess
    <3>1. Help \in Text
      BY TermAssumption
    <3>2. PICK p : p = PushLine(gt, sess, Help)
      OBVIOUS
    <3>3. p \in Gterm /\ Clean(p) /\ Shows(p, sess)
      BY <1>1, <3>1, <3>2, PushLineIs
    <3>4. PICK q : q = [p EXCEPT !.at = "poll"]
      OBVIOUS
    <3>5. /\ q \in Gterm /\ q.at = "poll" /\ q.buf = p.buf /\ q.drawn = p.drawn /\ q.dirty = p.dirty
          /\ q.mode = p.mode /\ q.lines = p.lines /\ q.live = p.live /\ q.input = p.input
      BY <3>3, <3>4 DEF Gterm
    <3>6. BufOf(q, sess) = BufOf(p, sess)
      BY <3>5, SameBuf
    <3>7. GtOk(q, sess)
      BY <1>1, <3>3, <3>5, <3>6 DEF GtOk, Faithful, Clean, Shows
    <3> QED BY <2>1, <3>2, <3>4, <3>7
  <2>2. ASSUME NEW w \in {Shell} \cup Programs, Submit([gt EXCEPT !.input = w], TRUE, TRUE)
        PROVE  GtOk(gt', sess')
    <3>1. w \in Text
      BY TermAssumption
    <3>2. PICK g \in Gterm : g = [gt EXCEPT !.input = w]
      BY <1>1, <3>1, SetInputIs DEF SetInput
    <3>3. Submit(g, TRUE, TRUE)
      BY <2>2, <3>2
    <3> QED BY <1>1, <3>3, SubmitIs
  <2> QED BY <2>1, <2>2 DEF GtStart
<1> QED BY <1>1, <1>2 DEF TermInv

LEMMA PolledStep == ASSUME TermInv, GtPolled PROVE TermInv'
<1>1. /\ GtOk(gt, sess) /\ gt.at = "poll" /\ UNCHANGED <<sess, typed, hosted, keys, out, msh>>
      /\ gt' = IF gt.mode = RunMode THEN Drain(gt, 0) ELSE [gt EXCEPT !.at = "frame"]
  BY DEF GtPolled, Kernel, TermInv
<1>2. CASE gt.mode = RunMode
  <2>1. GtOk(Drain(gt, 0), sess)
    BY <1>1, <1>2, DrainKeeps
  <2> QED BY <1>1, <1>2, <2>1 DEF TermInv
<1>3. CASE gt.mode # RunMode
  <2>1. gt \in Gterm /\ sess \in Session /\ Clean(gt) /\ Shows(gt, sess)
    BY <1>1 DEF GtOk, Faithful
  <2>2. PICK q : q = [gt EXCEPT !.at = "frame"]
    OBVIOUS
  <2>3. /\ q \in Gterm /\ q.at = "frame" /\ q.buf = gt.buf /\ q.drawn = gt.drawn /\ q.dirty = gt.dirty
        /\ q.mode = gt.mode /\ q.lines = gt.lines /\ q.live = gt.live /\ q.input = gt.input
    BY <2>1, <2>2 DEF Gterm
  <2>4. BufOf(q, sess) = BufOf(gt, sess)
    BY <2>3, SameBuf
  <2>5. GtOk(q, sess)
    BY <2>1, <2>3, <2>4 DEF GtOk, Faithful, Clean, Shows
  <2> QED BY <1>1, <1>3, <2>2, <2>5 DEF TermInv
<1> QED BY <1>2, <1>3

LEMMA FrameStep == ASSUME TermInv, GtFrame PROVE TermInv'
<1>1. /\ gt \in Gterm /\ sess \in Session /\ Clean(gt) /\ Shows(gt, sess)
      /\ UNCHANGED <<sess, typed, hosted, keys, out, msh>>
      /\ gt' = [gt EXCEPT !.at = "poll", !.dirty = FALSE, !.drawn = IF gt.dirty THEN gt.buf ELSE @]
  BY DEF GtFrame, Kernel, TermInv, GtOk, Faithful
<1>2. PICK q : q = gt'
  OBVIOUS
<1>3. q.drawn = gt.buf
  BY <1>1, <1>2 DEF Gterm, Clean
<1>4. /\ q \in Gterm /\ q.at = "poll" /\ q.buf = gt.buf
      /\ q.mode = gt.mode /\ q.lines = gt.lines /\ q.live = gt.live /\ q.input = gt.input
  BY <1>1, <1>2, FieldsIs DEF Gterm
<1>5. BufOf(q, sess) = BufOf(gt, sess)
  BY <1>4, SameBuf
<1>6. GtOk(q, sess)
  BY <1>1, <1>3, <1>4, <1>5 DEF GtOk, Faithful, Clean, Shows
<1> QED BY <1>1, <1>2, <1>6 DEF TermInv

LEMMA QuitStep == ASSUME TermInv, GtQuit PROVE TermInv'
<1>0. <<>> \in Text /\ <<>> \in Seq(Nat)
  BY DEF Text
<1>1. /\ gt \in Gterm /\ Clean(gt) /\ gt' = [gt EXCEPT !.at = "gone"] /\ sess' = NewSession
      /\ keys' = [main |-> <<>>, sub |-> <<>>] /\ out' = <<>>
      /\ UNCHANGED <<hosted, typed, msh>>
  BY DEF GtQuit, TermInv, GtOk, Faithful
<1>2. NewSession \in Session
  BY <1>0 DEF NewSession, Session
<1>3. PICK q : q = gt'
  OBVIOUS
<1>4. q \in Gterm /\ q.at = "gone" /\ q.buf = gt.buf /\ q.drawn = gt.drawn /\ q.dirty = gt.dirty
  BY <1>1, <1>3 DEF Gterm
<1>5. GtOk(q, sess')
  BY <1>1, <1>2, <1>4 DEF GtOk, Faithful, Clean
<1>6. keys' \in [{"main", "sub"} -> Seq(Nat)]
  <2>1. [main |-> <<>>, sub |-> <<>>] \in [{"main", "sub"} -> Seq(Nat)]
    BY <1>0, TwoRings
  <2> QED BY <1>1, <2>1
<1> QED BY <1>0, <1>1, <1>3, <1>5, <1>6 DEF TermInv, Rings

LEMMA PutKeyIs ==
    ASSUME NEW ks \in [{"main", "sub"} -> Seq(Nat)], NEW k \in Nat
    PROVE  PutKey(ks, k) \in [{"main", "sub"} -> Seq(Nat)]
<1>1. PICK t \in {"main", "sub"} : t = InputTarget
  BY DEF InputTarget
<1>2. ks[t] \in Seq(Nat)
  OBVIOUS
<1>3. Append(ks[t], k) \in Seq(Nat)
  BY <1>2, AppendProperties
<1>4. PutKey(ks, k) = [ks EXCEPT ![t] = IF Len(ks[t]) + 1 < InMax THEN Append(ks[t], k) ELSE ks[t]]
  BY <1>1, Zenon DEF PutKey
<1> QED BY <1>2, <1>3, <1>4

LEMMA PumpStep == ASSUME TermInv, GtPump PROVE TermInv'
<1>1. /\ gt \in Gterm /\ GtOk(gt, sess) /\ gt.at = "drain"
      /\ gt' = [gt EXCEPT !.at = "waiting", !.spins = @ + 1, !.fed = 0]
      /\ keys' = IF gt.fed # 0 /\ proc.main = "run" THEN PutKey(keys, gt.fed) ELSE keys
      /\ keys \in [{"main", "sub"} -> Seq(Nat)]
      /\ UNCHANGED <<hosted, sess, out, typed, msh>>
  BY DEF GtPump, TermInv, GtOk, Rings
<1>2. keys' \in [{"main", "sub"} -> Seq(Nat)]
  <2>1. gt.fed \in Nat
    BY <1>1, FieldsIs
  <2> QED BY <1>1, <2>1, PutKeyIs
<1>3. PICK q : q = gt'
  OBVIOUS
<1>4. /\ q \in Gterm /\ q.at = "waiting" /\ q.buf = gt.buf /\ q.drawn = gt.drawn /\ q.dirty = gt.dirty
      /\ q.mode = gt.mode /\ q.lines = gt.lines /\ q.live = gt.live /\ q.input = gt.input
      /\ q.changed = gt.changed /\ q.prev = gt.prev
  <2>1. PICK n \in Nat : n = gt.spins + 1
    BY <1>1, FieldsIs
  <2>2. q = [gt EXCEPT !.at = "waiting", !.spins = n, !.fed = 0]
    BY <1>1, <1>3, <2>1, Zenon
  <2> QED BY <1>1, <2>2 DEF Gterm
<1>5. BufOf(SetLive(q, q.prev), sess) = BufOf(SetLive(gt, gt.prev), sess)
  <2>1. PICK a : a = SetLive(q, q.prev)
    OBVIOUS
  <2>2. PICK b : b = SetLive(gt, gt.prev)
    OBVIOUS
  <2>3. gt.prev \in Text
    BY <1>1, FieldsIs
  <2>4. a.live = gt.prev /\ a.mode = gt.mode /\ a.lines = gt.lines /\ a.input = gt.input
    BY <1>4, <2>1, <2>3, SetLiveIs
  <2>5. b.live = gt.prev /\ b.mode = gt.mode /\ b.lines = gt.lines /\ b.input = gt.input
    BY <1>1, <2>2, <2>3, SetLiveIs
  <2>6. BufOf(a, sess) = BufOf(b, sess)
    BY <2>4, <2>5, SameBuf
  <2> QED BY <2>1, <2>2, <2>6
<1>6. GtOk(q, sess)
  BY <1>1, <1>4, <1>5 DEF GtOk, Faithful, Clean
<1> QED BY <1>1, <1>2, <1>3, <1>6 DEF TermInv, Rings

LEMMA KeyStep == ASSUME TermInv, GtKey PROVE TermInv'
<1>0. <<>> \in Text /\ <<>> \in Seq(Nat)
  BY DEF Text
<1>1. /\ GtOk(gt, sess) /\ gt.at = "poll" /\ gt \in Gterm /\ sess \in Session /\ Clean(gt)
      /\ Rings(keys, out, typed) /\ UNCHANGED <<hosted, msh>> /\ typed # <<>> /\ typed' = Tail(typed)
  BY DEF GtKey, TermInv, GtOk, Faithful
<1>2. PICK k \in Nat : k = typed[1]
  BY <1>1 DEF Rings
<1>3. typed' \in Seq(Nat)
  BY <1>1, HeadTailProperties DEF Rings
<1>4. GtOk(gt', sess')
  <2>1. CASE gt.mode = RunMode /\ gt' = Drain(gt, IF k = CR THEN NL ELSE k) /\ sess' = sess
    <3>1. PICK f \in Nat : f = IF k = CR THEN NL ELSE k
      BY DEF NL
    <3>2. GtOk(Drain(gt, f), sess)
      BY <1>1, <2>1, DrainKeeps
    <3> QED BY <2>1, <3>1, <3>2
  <2>2. CASE gt.mode = RunMode /\ gt' = [Drain(gt, 0) EXCEPT !.dirty = TRUE] /\ sess' = sess
    <3>1. 0 \in Nat /\ TRUE \in {gt.dirty, TRUE}
      OBVIOUS
    <3>2. GtOk([Drain(gt, 0) EXCEPT !.dirty = TRUE], sess)
      BY <1>1, <2>2, <3>1, DrainIs
    <3> QED BY <2>2, <3>2
  <2>3. CASE gt' = gt /\ sess' = sess
    BY <1>1, <2>3
  <2>4. ASSUME NEW ok \in Ok, Submit(gt, FALSE, ok) PROVE GtOk(gt', sess')
    BY <1>1, <2>4, SubmitIs
  <2>5. CASE /\ gt' = IF k \in {BS, Del} /\ gt.input # <<>>
                      THEN Rebuild([gt EXCEPT !.input = Before(@, Len(@) - 1)], sess)
                      ELSE IF k \in 32 .. 126 /\ Len(gt.input) + 1 < ColMax
                      THEN Rebuild([gt EXCEPT !.input = Append(@, k)], sess)
                      ELSE gt
             /\ gt.mode = PromptMode /\ sess' = sess
    <3>1. gt.input \in Text /\ gt.input \in Seq(Nat)
      BY <1>1, FieldsIs DEF Text
    <3>2. ASSUME NEW x \in Text PROVE GtOk(Rebuild([gt EXCEPT !.input = x], sess), sess)
      <4>1. PICK i : i = SetInput(gt, x)
        OBVIOUS
      <4>2. i \in Gterm /\ i.at = "poll" /\ i.mode = PromptMode
        BY <1>1, <2>5, <4>1, SetInputIs
      <4>3. PICK r : r = Rebuild(i, sess)
        OBVIOUS
      <4>4. r \in Gterm /\ Clean(r) /\ Shows(r, sess) /\ r.at = i.at
        BY <1>1, <4>2, <4>3, RebuildIs
      <4>5. GtOk(r, sess)
        BY <1>1, <4>2, <4>4 DEF GtOk, Faithful
      <4> QED BY <4>1, <4>3, <4>5 DEF SetInput
    <3>3. gt.input # <<>> => Before(gt.input, Len(gt.input) - 1) \in Text
      <4>1. Len(gt.input) \in Nat /\ Len(gt.input) - 1 \in Int /\ Len(gt.input) - 1 <= Len(gt.input)
        BY <3>1
      <4> QED BY <3>1, <4>1, TextIs
    <3>4. Append(gt.input, k) \in Text
      BY <3>1, AppendProperties DEF Text
    <3>5. PICK a : a = Before(gt.input, Len(gt.input) - 1)
      OBVIOUS
    <3>6. PICK b : b = Append(gt.input, k)
      OBVIOUS
    <3>7. CASE k \in {BS, Del} /\ gt.input # <<>>
      <4>1. gt' = Rebuild([gt EXCEPT !.input = a], sess)
        BY <2>5, <3>5, <3>7, Zenon
      <4>2. a \in Text
        BY <3>3, <3>5, <3>7
      <4> QED BY <2>5, <3>2, <4>1, <4>2
    <3>8. CASE ~(k \in {BS, Del} /\ gt.input # <<>>) /\ k \in 32 .. 126 /\ Len(gt.input) + 1 < ColMax
      <4>1. gt' = Rebuild([gt EXCEPT !.input = b], sess)
        BY <2>5, <3>6, <3>8, Zenon
      <4>2. b \in Text
        BY <3>4, <3>6
      <4> QED BY <2>5, <3>2, <4>1, <4>2
    <3>9. CASE ~(k \in {BS, Del} /\ gt.input # <<>>) /\ ~(k \in 32 .. 126 /\ Len(gt.input) + 1 < ColMax)
      <4>1. gt' = gt
        BY <2>5, <3>9, Zenon
      <4> QED BY <1>1, <2>5, <4>1
    <3> QED BY <3>7, <3>8, <3>9
  <2> QED BY <1>2, <2>1, <2>2, <2>3, <2>4, <2>5 DEF GtKey
<1>5. Rings(keys', out', typed')
  <2>1. CASE UNCHANGED <<keys, out>>
    BY <1>1, <1>3, <2>1 DEF Rings
  <2>2. CASE keys' = [main |-> <<>>, sub |-> <<>>] /\ out' = <<>>
    <3>1. [main |-> <<>>, sub |-> <<>>] \in [{"main", "sub"} -> Seq(Nat)]
      BY <1>0, TwoRings
    <3> QED BY <1>0, <1>3, <2>2, <3>1 DEF Rings
  <2> QED BY <2>1, <2>2 DEF GtKey
<1> QED BY <1>1, <1>4, <1>5 DEF TermInv

\* What a pump brought, or that it brought nothing.
LEMMA PumpedStep == ASSUME TermInv, GtPumped PROVE TermInv'
<1>0. <<>> \in Text
  BY DEF Text
<1>1. /\ gt \in Gterm /\ sess \in Session /\ Clean(gt) /\ gt.at = "waiting" /\ gt.mode = RunMode
      /\ ~gt.changed => gt.buf = BufOf(SetLive(gt, gt.prev), sess)
      /\ Rings(keys, out, typed) /\ out \in Text /\ Sane(msh)
      /\ out' = <<>> /\ UNCHANGED <<hosted, keys, typed>>
  BY DEF GtPumped, TermInv, GtOk, Faithful, Rings
<1>2. Rings(keys', out', typed')
  BY <1>0, <1>1 DEF Rings
<1>3. PICK f : f = Flush(gt, sess, out)
  OBVIOUS
<1>4. /\ Flushes(f, RunMode)
      /\ out = <<>> => f.g = gt /\ f.s = sess
  <2>1. /\ Flushes(Flush(gt, sess, out), gt.mode)
        /\ out = <<>> => Flush(gt, sess, out).g = gt /\ Flush(gt, sess, out).s = sess
    BY <1>1, FlushIs
  <2> QED BY <1>1, <1>3, <2>1, Zenon
<1>5. f.g \in Gterm /\ Clean(f.g) /\ f.g.mode = RunMode /\ f.s \in Session
  BY <1>4 DEF Flushes, Flushing
<1>6. PICK painted \in BOOLEAN : painted = (out # <<>>)
  OBVIOUS
<1>7. PICK s : s = [f.s EXCEPT !.painted = painted]
  OBVIOUS
<1>8. s \in Session /\ s.acc = f.s.acc /\ s.caret = f.s.caret /\ s.acc \in Text
  BY <1>5, <1>7 DEF Session
<1>9. PICK ch \in BOOLEAN : ch = Changed(f.g, painted)
  BY <1>5, FieldsIs DEF Changed
<1>10. PICK g : g = [f.g EXCEPT !.live = s.acc, !.changed = ch]
  OBVIOUS
<1>11. /\ g \in Gterm /\ g.live = s.acc /\ g.changed = ch /\ g.mode = RunMode /\ g.buf = f.g.buf
       /\ g.drawn = f.g.drawn /\ g.dirty = f.g.dirty /\ g.lines = f.g.lines /\ g.input = f.g.input
       /\ g.prev = f.g.prev
  BY <1>5, <1>8, <1>10 DEF Gterm
<1>12. Clean(g)
  BY <1>5, <1>11 DEF Clean
<1>13. painted => ch
  BY <1>9 DEF Changed
<1>14. gt.after \in {"poll", "frame"}
  BY <1>1, FieldsIs
<1>15. NewSession \in Session /\ Finished \in Text
  BY <1>0, TermAssumption DEF NewSession, Session
<1>16. CASE proc.main = "zombie"
  <2>1. PICK last : last = IF s.acc = <<>> THEN f.g ELSE PushLine(f.g, s, s.acc)
    OBVIOUS
  <2>2. last \in Gterm /\ last.mode = RunMode
    <3>1. PICK fg \in Gterm : fg = f.g /\ fg.mode = RunMode
      BY <1>5
    <3>2. PICK l \in Text : l = s.acc
      BY <1>8
    <3>3. PICK p : p = PushLine(fg, s, l)
      OBVIOUS
    <3>4. p \in Gterm /\ p.mode = fg.mode
      BY <1>8, <3>3, PushLineIs
    <3> QED BY <2>1, <3>1, <3>2, <3>3, <3>4
  <2>3. PICK q \in Gterm : q = SetLive(last, <<>>) /\ q.mode = RunMode
    BY <1>0, <2>2, SetLiveIs
  <2>4. PICK done : done = PushLine(q, NewSession, Finished)
    OBVIOUS
  <2>5. /\ done \in Gterm /\ Clean(done) /\ Shows(done, NewSession) /\ done.mode = q.mode
        /\ done.live = <<>>
    BY <1>15, <2>4, PushLineIs
  <2>6. /\ gt' = [done EXCEPT !.mode = DoneMode, !.at = gt.after, !.changed = FALSE]
        /\ sess' = NewSession /\ msh' = NewShell
    <3>1. done = PushLine([last EXCEPT !.live = <<>>], NewSession, Finished)
      BY <2>3, <2>4, Zenon DEF SetLive
    <3> QED BY <1>3, <1>6, <1>7, <1>16, <2>1, <3>1, Zenon DEF GtPumped
  <2>7. PICK z : z = gt'
    OBVIOUS
  <2>8. /\ z \in Gterm /\ z.at = gt.after /\ z.mode = DoneMode /\ z.buf = done.buf
        /\ z.drawn = done.drawn /\ z.dirty = done.dirty /\ z.lines = done.lines
    BY <1>14, <2>5, <2>6, <2>7 DEF Gterm
  <2>9. done.buf = [text |-> done.lines, caret |-> -1]
    BY <2>3, <2>5, NoLive DEF Shows
  <2>10. BufOf(z, NewSession) = [text |-> done.lines, caret |-> -1]
    <3>1. DoneMode # RunMode /\ DoneMode # PromptMode
      BY DEF DoneMode, RunMode, PromptMode
    <3> QED BY <2>8, <3>1 DEF BufOf, LiveText, CaretAt
  <2>11. GtOk(z, NewSession)
    BY <1>14, <1>15, <2>5, <2>8, <2>9, <2>10 DEF GtOk, Faithful, Clean, Shows
  <2>12. Sane(msh')
    BY <2>6, ShellStarts
  <2> QED BY <1>1, <1>2, <2>6, <2>7, <2>11, <2>12 DEF TermInv
<1>17. CASE proc.main # "zombie"
  <2>1. PICK more \in BOOLEAN : more = (painted /\ gt.spins < SpinMax)
    OBVIOUS
  <2>2. PICK end : end = [g EXCEPT !.at = gt.after, !.changed = FALSE]
    OBVIOUS
  <2>3. /\ gt' = IF more THEN [g EXCEPT !.at = "drain"]
                 ELSE IF g.changed \/ g.live # g.prev THEN Rebuild(end, s) ELSE end
        /\ sess' = s /\ msh' = msh
    <3>1. g = [f.g EXCEPT !.live = s.acc, !.changed = Changed(f.g, painted)]
      BY <1>9, <1>10, Zenon
    <3> QED BY <1>3, <1>6, <1>7, <1>17, <2>1, <2>2, <3>1, Zenon DEF GtPumped
  <2>4. /\ end \in Gterm /\ end.at = gt.after /\ end.mode = RunMode /\ end.buf = g.buf
        /\ end.drawn = g.drawn /\ end.dirty = g.dirty /\ end.lines = g.lines /\ end.live = g.live
        /\ end.input = g.input
    BY <1>11, <1>14, <2>2 DEF Gterm
  <2>5. GtOk(gt', s)
    <3>1. CASE more
      <4>1. PICK d : d = [g EXCEPT !.at = "drain"]
        OBVIOUS
      <4>2. /\ d \in Gterm /\ d.at = "drain" /\ d.mode = RunMode /\ d.buf = g.buf /\ d.drawn = g.drawn
            /\ d.dirty = g.dirty /\ d.changed = TRUE
        BY <1>11, <1>13, <2>1, <3>1, <4>1 DEF Gterm
      <4>3. GtOk(d, s)
        BY <1>8, <1>12, <4>2 DEF GtOk, Faithful, Clean
      <4> QED BY <2>3, <3>1, <4>1, <4>3
    <3>2. CASE ~more /\ (g.changed \/ g.live # g.prev)
      <4>1. PICK r : r = Rebuild(end, s)
        OBVIOUS
      <4>2. r \in Gterm /\ Clean(r) /\ Shows(r, s) /\ r.at = end.at
        BY <1>8, <2>4, <4>1, RebuildIs
      <4>3. GtOk(r, s)
        BY <1>8, <1>14, <2>4, <4>2 DEF GtOk, Faithful
      <4> QED BY <2>3, <3>2, <4>1, <4>3
    <3>3. CASE ~more /\ ~g.changed /\ g.live = g.prev
      <4>1. ~painted /\ out = <<>>
        BY <1>6, <1>11, <1>13, <3>3
      <4>2. f.g = gt /\ f.s = sess
        BY <1>4, <4>1
      <4>3. ~gt.changed
        BY <1>9, <1>11, <3>3, <4>2 DEF Changed
      <4>4. gt.buf = BufOf(SetLive(gt, gt.prev), sess) /\ gt.prev \in Text
        BY <1>1, <4>3, FieldsIs
      <4>5. PICK l : l = SetLive(gt, gt.prev)
        OBVIOUS
      <4>6. l.live = gt.prev /\ l.mode = RunMode /\ l.lines = gt.lines /\ l.input = gt.input
        BY <1>1, <4>4, <4>5, SetLiveIs
      <4>7. BufOf(end, s) = BufOf(l, sess)
        <5>1. end.mode = l.mode /\ end.lines = l.lines /\ end.input = l.input
          BY <1>11, <2>4, <4>2, <4>6
        <5>2. end.live = l.live
          BY <1>11, <2>4, <3>3, <4>2, <4>6
        <5>3. s.caret = sess.caret /\ s.acc = sess.acc
          BY <1>8, <4>2
        <5> QED BY <5>1, <5>2, <5>3, SameBuf
      <4>8. end.buf = gt.buf
        BY <1>11, <2>4, <4>2
      <4>9. GtOk(end, s)
        BY <1>8, <1>12, <1>14, <2>4, <4>4, <4>5, <4>7, <4>8 DEF GtOk, Faithful, Clean, Shows
      <4> QED BY <2>3, <3>3, <4>9
    <3> QED BY <3>1, <3>2, <3>3
  <2> QED BY <1>1, <1>2, <2>3, <2>5 DEF TermInv
<1> QED BY <1>16, <1>17

-----------------------------------------------------------------------------
(* The steps of the shell and of the programs.                             *)

LEMMA WriteIs ==
    ASSUME NEW p, NEW x \in Text, NEW preempt, out \in Text, Write(p, x, preempt)
    PROVE  out' \in Text
<1>1. CASE hosted
  <2>1. Len(x) \in Nat /\ Len(out) \in Nat /\ OutMax \in Nat
    BY TermAssumption DEF Text
  <2>2. OutMax - 1 - Len(out) \in Int /\ Len(x) \in Int
    BY <2>1
  <2>3. PICK n \in Int : n = Lo(Len(x), OutMax - 1 - Len(out)) /\ n <= Len(x)
    BY <2>2, LoIs
  <2>4. Before(x, n) \in Text
    BY <2>3, TextIs
  <2>5. out \o Before(x, n) \in Text
    BY <2>4, TextJoin
  <2>6. out' = out \o Before(x, n)
    BY <1>1, <2>3 DEF Write, Written
  <2> QED BY <2>5, <2>6
<1>2. CASE ~hosted
  BY <1>2 DEF Write
<1> QED BY <1>1, <1>2

LEMMA TakenIs ==
    ASSUME NEW p \in {"main", "sub"}, Rings(keys, out, typed), ReadKey(p), Taken(p)
    PROVE  /\ keys' \in [{"main", "sub"} -> Seq(Nat)] /\ typed' \in Seq(Nat)
           /\ NextKey(p) \in Nat
<1>1. keys \in [{"main", "sub"} -> Seq(Nat)] /\ typed \in Seq(Nat) /\ keys[p] \in Seq(Nat)
  BY DEF Rings
<1>2. CASE hosted
  <2>1. keys[p] # <<>> /\ keys' = [keys EXCEPT ![p] = Tail(@)] /\ typed' = typed /\ NextKey(p) = keys[p][1]
    BY <1>2 DEF ReadKey, Taken, NextKey
  <2>2. Tail(keys[p]) \in Seq(Nat) /\ keys[p][1] \in Nat
    BY <1>1, <2>1, HeadTailProperties
  <2>3. PICK t \in Seq(Nat) : t = Tail(keys[p])
    BY <2>2
  <2>4. keys' = [keys EXCEPT ![p] = t]
    BY <2>1, <2>3, Zenon
  <2> QED BY <1>1, <2>1, <2>2, <2>4
<1>3. CASE ~hosted
  <2>1. typed # <<>> /\ typed' = Tail(typed) /\ keys' = keys /\ NextKey(p) = typed[1]
    BY <1>3 DEF ReadKey, Taken, NextKey
  <2>2. Tail(typed) \in Seq(Nat) /\ typed[1] \in Nat
    BY <1>1, <2>1, HeadTailProperties
  <2> QED BY <1>1, <2>1, <2>2
<1> QED BY <1>2, <1>3

LEMMA MshStartStep == ASSUME TermInv, MshStart PROVE TermInv'
<1>1. Banner \in Text /\ Sane(msh)
  BY TermAssumption DEF TermInv
<1>2. <<Banner>> \in Seq(Text)
  BY <1>1
<1>3. Lines(<<Banner>>) \in Text
  BY <1>2, LinesIs
<1>4. Sane(Say(msh, Lines(<<Banner>>)))
  BY <1>1, <1>3, SayIs
<1>5. msh' = Say(msh, Lines(<<Banner>>)) /\ UNCHANGED <<hosted, gt, sess, keys, out, typed>>
  BY DEF MshStart
<1> QED BY <1>4, <1>5 DEF TermInv

LEMMA MshWriteStep == ASSUME TermInv, MshWrite PROVE TermInv'
<1>1. /\ Sane(msh) /\ msh.todo \in Seq(Text) /\ out \in Text /\ msh.todo # <<>>
      /\ UNCHANGED <<hosted, gt, sess, keys, typed>>
  BY SaneIs DEF TermInv, Rings, MshWrite
<1>2. PICK n \in Nat : n = Len(msh.todo)
  BY <1>1
<1>3. n # 0
  BY <1>1, <1>2
<1>4. ForcedAt \in 1 .. n
  <2> DEFINE M == {n} \cup {i \in 1 .. n : Yields(out \o FlattenSeq(SubSeq(msh.todo, 1, i)), msh.todo[i])}
  <2>1. M \in SUBSET Nat /\ M # {} /\ M \subseteq 1 .. n
    BY <1>3
  <2> HIDE DEF M
  <2>2. Min(M) \in 1 .. n
    BY <2>1, MinIs
  <2>3. ForcedAt = IF hosted THEN Min(M) ELSE n
    BY <1>2 DEF ForcedAt, M
  <2> QED BY <1>3, <2>2, <2>3
<1>5. PICK j \in 1 .. ForcedAt, preempt \in BOOLEAN :
         /\ Write("main", FlattenSeq(SubSeq(msh.todo, 1, j)), preempt)
         /\ msh' = [msh EXCEPT !.todo = SubSeq(@, j + 1, Len(@))]
  BY DEF MshWrite
<1>6. j \in 1 .. n /\ j \in Int /\ j + 1 \in Int /\ n \in Int /\ j <= n
  BY <1>2, <1>4, <1>5
<1>7. SubSeq(msh.todo, 1, j) \in Seq(Text) /\ SubSeq(msh.todo, j + 1, n) \in Seq(Text)
  <2>1. 1 \in Int /\ 1 >= 1 /\ j + 1 >= 1 /\ j <= Len(msh.todo) /\ n <= Len(msh.todo)
    BY <1>2, <1>6
  <2> QED BY <1>1, <1>6, <2>1, SubSeqIs
<1>8. FlattenSeq(SubSeq(msh.todo, 1, j)) \in Text
  BY <1>7, FlattenIs DEF Text
<1>9. out' \in Text
  BY <1>1, <1>5, <1>8, WriteIs
<1>10. Sane(msh')
  <2>1. PICK t \in Seq(Text) : t = SubSeq(msh.todo, j + 1, n)
    BY <1>7
  <2>2. "run" \in Pcs
    BY DEF Pcs
  <2>3. Sane(SetTodo(msh, t))
    BY <1>1, <2>2, SanePc
  <2>4. msh' = SetTodo(msh, t)
    BY <1>2, <1>5, <2>1, Zenon DEF SetTodo
  <2> QED BY <2>3, <2>4
<1> QED BY <1>1, <1>9, <1>10 DEF TermInv, Rings

LEMMA MshPromptStep == ASSUME TermInv, MshPrompt PROVE TermInv'
<1>1. PICK h \in History : h = msh.hist /\ Sane(msh) /\ msh.cwd \in Text
  BY SaneIs DEF TermInv
<1>2. PICK p \in Text : p = Prompt(msh.cwd)
  BY <1>1, PromptIs
<1>3. PICK n \in Nat : n = Len(p)
  BY DEF Text
<1>4. <<>> \in Text /\ <<NL>> \in Text /\ Len(<<>>) = 0 /\ <<>> \in Seq(Text)
  BY DEF Text, NL
<1>5. Edits(Fresh, h)
  <2>1. Len(h.cmds) >= 0
    BY DEF History
  <2> QED BY <1>4, <2>1 DEF Edits, Fresh, Rl
<1>6. PICK r : r = [Fresh EXCEPT !.draw = n]
  OBVIOUS
<1>7. Edits(r, h)
  BY <1>5, <1>6 DEF Edits, Rl
<1>8. PICK a \in Seq(Text) : a = IF ~hosted /\ scr.col > 0 THEN << <<NL>> >> ELSE <<>>
  <2>1. << <<NL>> >> \in Seq(Text)
    BY <1>4
  <2> QED BY <1>4, <2>1
<1>9. PICK b \in Seq(Text) : b = IF hosted THEN Repaint(Fresh, n, 0) ELSE <<>>
  <2>1. PICK x : x = Repaint(Fresh, n, 0)
    OBVIOUS
  <2>2. 0 \in Nat
    OBVIOUS
  <2>3. x \in Seq(Text)
    BY <1>5, <2>1, <2>2, RepaintIs
  <2>4. (IF hosted THEN x ELSE <<>>) \in Seq(Text)
    BY <1>4, <2>3
  <2> QED BY <2>1, <2>4, Zenon
<1>10. PICK todo \in Seq(Text) : todo = a \o <<p>> \o b
  <2>1. <<p>> \in Seq(Text)
    OBVIOUS
  <2>2. a \o <<p>> \in Seq(Text)
    BY <2>1, ConcatProperties
  <2>3. (a \o <<p>>) \o b \in Seq(Text)
    BY <2>2, ConcatProperties
  <2> QED BY <2>3
<1>11. PICK m : m = SetRl(msh, r)
  OBVIOUS
<1>12. Sane(m)
  BY <1>1, <1>7, <1>11, SaneRl
<1>13. Sane(SetSay(m, todo, "read"))
  <2>1. "read" \in Pcs
    BY DEF Pcs
  <2> QED BY <1>12, <2>1, SaneSay
<1>14. msh' = [[msh EXCEPT !.pc = "read", !.rl = r] EXCEPT !.todo = todo]
  BY <1>2, <1>3, <1>6, <1>8, <1>9, <1>10, Zenon DEF MshPrompt
<1>15. SetSay(m, todo, "read") = [[msh EXCEPT !.pc = "read", !.rl = r] EXCEPT !.todo = todo]
  BY <1>11 DEF SetSay, SetRl
<1>16. UNCHANGED <<hosted, gt, sess, keys, out, typed>>
  BY DEF MshPrompt
<1> QED BY <1>13, <1>14, <1>15, <1>16 DEF TermInv

LEMMA MshKeyStep == ASSUME TermInv, MshKey PROVE TermInv'
<1>1. /\ Sane(msh) /\ Rings(keys, out, typed) /\ ReadKey("main") /\ Taken("main")
      /\ UNCHANGED <<hosted, gt, sess, out>>
  BY DEF TermInv, MshKey
<1>2. PICK h \in History : h = msh.hist
  BY <1>1, SaneIs
<1>3. PICK r : r = msh.rl
  OBVIOUS
<1>4. PICK d \in DOMAIN Cd : d = msh.cwd /\ Edits(r, h)
  BY <1>1, <1>2, <1>3, SaneIs
<1>5. PICK k \in Nat : /\ k = NextKey("main") /\ typed' \in Seq(Nat)
                       /\ keys' \in [{"main", "sub"} -> Seq(Nat)]
  BY <1>1, TakenIs
<1>6. PICK step : step = IF hosted THEN HostedKey(r, h, d, k) ELSE TtyKey(r, h, d, k)
  OBVIOUS
<1>7. Decides(step, h)
  <2>1. Decides(HostedKey(r, h, d, k), h)
    BY <1>4, HostedKeyIs
  <2>2. Decides(TtyKey(r, h, d, k), h)
    BY <1>4, TtyKeyIs
  <2> QED BY <1>6, <2>1, <2>2
<1>8. msh' = Shown(msh, step)
  BY <1>2, <1>3, <1>4, <1>5, <1>6, Zenon DEF MshKey
<1>9. Sane(msh')
  BY <1>1, <1>2, <1>7, <1>8, ShownIs
<1>10. Rings(keys', out', typed')
  BY <1>1, <1>5 DEF Rings
<1> QED BY <1>1, <1>9, <1>10 DEF TermInv

LEMMA MshRunStep == ASSUME TermInv, MshRun PROVE TermInv'
<1>1. msh' = Run(msh, msh.hist) /\ UNCHANGED <<hosted, gt, sess, keys, out, typed>> /\ Sane(msh)
  BY DEF MshRun, TermInv
<1>2. Sane(msh')
  BY <1>1, RunIs
<1> QED BY <1>1, <1>2 DEF TermInv

LEMMA MshSpawnStep == ASSUME TermInv, MshSpawn PROVE TermInv'
<1>0. Missing \in Text /\ <<>> \in Text /\ <<>> \in Seq(Nat) /\ <<>> \in Seq(Text) /\ "wait" \in Pcs
  BY TermAssumption DEF Text, Pcs
<1>1. /\ Sane(msh) /\ Rings(keys, out, typed) /\ UNCHANGED <<hosted, gt, sess, out, typed>>
      /\ keys' = [keys EXCEPT !.sub = <<>>]
      /\ (msh' = [msh EXCEPT !.pc = "wait"] \/ msh' = Say(msh, Lines(<<Missing, <<>> >>)))
  BY DEF MshSpawn, TermInv
<1>2. Sane(msh')
  <2>1. <<Missing, <<>> >> \in Seq(Text)
    BY <1>0
  <2>2. Lines(<<Missing, <<>> >>) \in Text
    BY <2>1, LinesIs
  <2>3. Sane(Say(msh, Lines(<<Missing, <<>> >>)))
    BY <1>1, <2>2, SayIs
  <2>4. Sane([msh EXCEPT !.pc = "wait"])
    BY <1>0, <1>1, SanePc DEF SetPc
  <2> QED BY <1>1, <2>3, <2>4
<1>3. Rings(keys', out', typed')
  <2>1. keys \in [{"main", "sub"} -> Seq(Nat)] /\ out \in Text /\ typed \in Seq(Nat)
    BY <1>1 DEF Rings
  <2>2. PICK e \in Seq(Nat) : e = <<>>
    BY <1>0
  <2>3. [keys EXCEPT !["sub"] = e] \in [{"main", "sub"} -> Seq(Nat)]
    BY <2>1
  <2>4. keys' = [keys EXCEPT !["sub"] = e]
    BY <1>1, <2>2
  <2> QED BY <1>1, <2>1, <2>3, <2>4 DEF Rings
<1> QED BY <1>1, <1>2, <1>3 DEF TermInv

LEMMA MshWaitStep == ASSUME TermInv, MshWait PROVE TermInv'
<1>1. Sane(msh) /\ UNCHANGED <<hosted, gt, sess, keys, out, typed>>
  BY DEF MshWait, TermInv
<1>2. "wait" \in Pcs /\ "yield" \in Pcs /\ "prompt" \in Pcs /\ <<>> \in Seq(Text) /\ <<NL>> \in Text
  BY DEF Pcs, Text, NL
<1>3. PICK q : q = Say(msh, <<NL>>)
  OBVIOUS
<1>4. Sane(q)
  BY <1>1, <1>2, <1>3, SayIs
<1>5. Sane(SetPc(q, "prompt")) /\ Sane(SetPc(msh, "wait")) /\ Sane(SetPc(msh, "yield"))
  BY <1>1, <1>2, <1>4, SanePc
<1>6. msh' = SetPc(q, "prompt") \/ msh' = SetPc(msh, "wait") \/ msh' = SetPc(msh, "yield")
  BY <1>3, Zenon DEF MshWait, SetPc
<1> QED BY <1>1, <1>5, <1>6 DEF TermInv

LEMMA ProgStep ==
    ASSUME TermInv, NEW p \in {"main", "sub"}, ProgWrite(p) \/ ProgRead(p) \/ ProgYield(p) \/ ProgExit(p)
    PROVE  TermInv'
<1>1. Sane(msh) /\ Rings(keys, out, typed) /\ out \in Text
  BY DEF TermInv, Rings
<1>2. CASE ProgWrite(p)
  <2>1. PICK s \in Chunks : Write(p, s, FALSE)
    BY <1>2 DEF ProgWrite
  <2>2. s \in Text
    BY TermAssumption
  <2>3. out' \in Text
    BY <1>1, <2>1, <2>2, WriteIs
  <2> QED BY <1>2, <2>3 DEF ProgWrite, TermInv, Rings
<1>3. CASE ProgRead(p)
  <2>1. CASE ReadKey(p)
    <3>1. Taken(p) /\ UNCHANGED <<hosted, gt, sess, out, msh>>
      BY <1>3, <2>1 DEF ProgRead
    <3>2. keys' \in [{"main", "sub"} -> Seq(Nat)] /\ typed' \in Seq(Nat)
      BY <1>1, <2>1, <3>1, TakenIs
    <3> QED BY <3>1, <3>2 DEF TermInv, Rings
  <2>2. CASE ~ReadKey(p)
    BY <1>3, <2>2 DEF ProgRead, TermInv
  <2> QED BY <2>1, <2>2
<1>4. CASE ProgYield(p)
  BY <1>4 DEF ProgYield, TermInv
<1>5. CASE ProgExit(p)
  BY <1>5 DEF ProgExit, TermInv
<1> QED BY <1>2, <1>3, <1>4, <1>5

\* Every step of the user, the terminal, the shell and its programs.
LEMMA TermSteps == TermInv /\ [Next]_vars => TermInv'
<1> SUFFICES ASSUME TermInv, [Next]_vars PROVE TermInv'
  OBVIOUS
<1>1. CASE User
  BY <1>1, HitStep
<1>2. CASE GtStart \/ GtKey \/ GtPolled \/ GtPump \/ GtPumped \/ GtFrame \/ GtQuit
  BY <1>2, StartStep, KeyStep, PolledStep, PumpStep, PumpedStep, FrameStep, QuitStep
<1>3. CASE MshStart \/ MshWrite \/ MshPrompt \/ MshKey \/ MshRun \/ MshSpawn \/ MshWait
  BY <1>3, MshStartStep, MshWriteStep, MshPromptStep, MshKeyStep, MshRunStep, MshSpawnStep, MshWaitStep
<1>4. CASE MshBlock \/ MshExit
  BY <1>4 DEF MshBlock, MshExit, TermInv
<1>5. CASE \E p \in {"main", "sub"} : ProgWrite(p) \/ ProgRead(p) \/ ProgYield(p) \/ ProgExit(p)
  BY <1>5, ProgStep
<1>6. CASE UNCHANGED vars
  BY <1>6 DEF vars, TermInv
<1> QED BY <1>1, <1>2, <1>3, <1>4, <1>5, <1>6 DEF Next, System

\* The terminal and the shell together keep TermInv: the types of all that gterm.c and
\* msh.c hold, a cursor that readline never takes out of its line, a history that is the
\* end of what was run, and a text that is rebuilt whenever the lines change.
THEOREM TermKeeps == Spec => []TermInv
<1>1. Init => TermInv
  BY TermStarts
<1>2. TermInv /\ [Next]_vars => TermInv'
  BY TermSteps
<1> QED BY <1>1, <1>2, PTL DEF Spec

LEMMA DrawnFollows == TermInv => DrawnIsCurrent
<1> SUFFICES ASSUME TermInv, gt.at = "poll", ~gt.dirty PROVE gt.drawn = Rebuild(gt, sess).buf
  BY DEF DrawnIsCurrent
<1>1. gt \in Gterm /\ sess \in Session /\ gt.drawn = gt.buf /\ gt.buf = BufOf(gt, sess)
  BY DEF TermInv, GtOk, Faithful, Clean, Shows
<1>2. PICK b \in Buffer : b = BufOf(gt, sess)
  BY <1>1, BufIs
<1>3. SetBuf(gt, b).buf = b
  BY <1>1, <1>2, SetBufIs
<1> QED BY <1>1, <1>2, <1>3, RebuildDef

\* gterm draws only when "dirty" is set, and drain_child puts the mark back as it was when
\* a round brought nothing; still the window never stays behind: at the poll, without
\* the mark, what was drawn last is what the lines, the live line or the prompt are.
THEOREM DrawnStaysCurrent == Spec => []DrawnIsCurrent
  BY TermKeeps, DrawnFollows, PTL

LEMMA NumbersFollow == TermInv => HistoryNumbers
<1> SUFFICES ASSUME TermInv, NEW n \in 1 .. Len(msh.ran), n > Len(msh.ran) - HistMax
             PROVE  HistExpand(msh.hist, <<Bang>> \o PutInt(n)) = Expanded(msh.ran[n])
  BY DEF HistoryNumbers
<1>1. msh.hist \in History /\ msh.ran \in Seq(Text) /\ Recalls(msh.hist, msh.ran)
  BY SaneIs DEF TermInv
<1> QED BY <1>1, RecallsAll

\* hist_add moves the commands of a full history and counts the one that falls out in
\* hist_base, so that "!n" (hist_expand, which reads the digits that history printed) is
\* the n-th command that was run, for each that is still kept.
THEOREM NumbersStay == Spec => []HistoryNumbers
  BY TermKeeps, NumbersFollow, PTL

LEMMA YankFollows == TermInv => YankRestores
<1> SUFFICES ASSUME TermInv PROVE YankRestores
  OBVIOUS
<1>1. PICK h \in History : h = msh.hist /\ Edits(msh.rl, h)
  BY SaneIs DEF TermInv
<1>2. PICK r : r = [msh.rl EXCEPT !.rev = FALSE]
  OBVIOUS
<1>3. Edits(r, h) /\ ~r.rev /\ r.line = msh.rl.line
  BY <1>1, <1>2 DEF Edits, Rl
<1>4. ASSUME NEW k \in {CtrlU, CtrlK, CtrlW, MetaD}, NEW cut, cut = TtyKey(r, h, msh.cwd, k).rl,
             cut.line # r.line, Room(r)
      PROVE  TtyKey(cut, h, msh.cwd, CtrlY).rl.line = r.line
  <2>1. k \in Cuts
    BY DEF Cuts
  <2> QED BY <1>3, <1>4, <2>1, CutComesBack
<1>5. Room(msh.rl) => Room(r)
  BY <1>3 DEF Room
<1> QED BY <1>1, <1>2, <1>3, <1>4, <1>5, Zenon DEF YankRestores

\* In every state in which readline reads a key, one of Ctrl+U, Ctrl+K, Ctrl+W and Alt+D
\* (delete_range, which fills the yank buffer) and then Ctrl+Y leave the line as it was.
THEOREM YankStays == Spec => []YankRestores
  BY TermKeeps, YankFollows, PTL
=============================================================================
