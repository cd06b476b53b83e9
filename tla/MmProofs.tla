------------------------------ MODULE MmProofs ------------------------------
(* What Mm promises its callers, proved for every size of the heap. *)
EXTENDS Mm, TLAPS

Safe == TypeOK /\ NoPageShared /\ BytesAreHeld

\* The fill is no caller's run.
LEMMA FillIsNobodys == Fill \notin Runs
  BY DEF Fill, Runs

LEMMA SafeInit == Init => Safe
  BY FillIsNobodys DEF Init, Safe, TypeOK, NoPageShared, BytesAreHeld

LEMMA SafeAlloc ==
    ASSUME Safe, NEW n \in 0 .. MaxRun, Alloc(n)
    PROVE  Safe'
<1> USE DEF Safe
<1>1. PICK i \in FirstFit(bitmap, n) :
        /\ bitmap' = bitmap \cup Run(i, n)
        /\ held' = held \cup {<<i, n>>}
        /\ bytes' = Written(Run(i, n), <<i, n>>)
  BY DEF Alloc
<1>2. i \in HeapPages /\ n \in 1 .. MaxRun /\ FreeRun(bitmap, i, n)
  BY <1>1, MaxRunAssumption DEF FirstFit
<1>3. Run(i, n) \subseteq HeapPages /\ Run(i, n) \cap bitmap = {}
  BY <1>2 DEF FreeRun
<1>4. PagesOf(<<i, n>>) = Run(i, n) /\ <<i, n>> \in Runs
  BY <1>2 DEF PagesOf, Runs
<1> DEFINE new == <<i, n>>
           R == Run(i, n)
<1>5. \A b \in held : PagesOf(b) \subseteq bitmap /\ PagesOf(b) \cap R = {}
  BY <1>3 DEF NoPageShared
<1>6. new \notin held
  <2>1. i \in R
    BY <1>2 DEF Run, HeapPages
  <2> QED BY <1>4, <1>5, <2>1
<1>7. \A p \in HeapPages : bytes'[p] = IF p \in R THEN new ELSE bytes[p]
  BY <1>1 DEF Written
<1>8. TypeOK'
  BY <1>1, <1>3, <1>4 DEF TypeOK, Written
<1>9. \A b, c \in held' : PagesOf(b) \cap PagesOf(c) # {} => b = c
  BY <1>1, <1>4, <1>5 DEF NoPageShared
<1>10. bitmap' = UNION {PagesOf(b) : b \in held'}
  BY <1>1, <1>4 DEF NoPageShared
<1>11. BytesAreHeld'
  <2> SUFFICES ASSUME NEW b \in Runs, NEW p \in HeapPages
               PROVE  bytes'[p] = b <=> b \in held' /\ p \in PagesOf(b)
    BY DEF BytesAreHeld
  <2>1. bytes[p] = b <=> b \in held /\ p \in PagesOf(b)
    BY DEF BytesAreHeld
  <2>2. held' = held \cup {new} /\ PagesOf(new) = R
    BY <1>1, <1>4
  <2> HIDE DEF new, R
  <2>3. CASE b = new
    BY <1>6, <1>7, <2>1, <2>2, <2>3
  <2>4. CASE b # new
    BY <1>5, <1>7, <2>1, <2>2, <2>4
  <2> QED BY <2>3, <2>4
<1> QED BY <1>3, <1>8, <1>9, <1>10, <1>11 DEF NoPageShared, TypeOK

LEMMA SafeFree ==
    ASSUME Safe, NEW b \in held, Free(b)
    PROVE  Safe'
<1> USE DEF Safe
<1>1. bitmap' = bitmap \ PagesOf(b) /\ held' = held \ {b}
      /\ bytes' = Written(PagesOf(b), Fill)
  BY DEF Free
<1>2. \A p \in HeapPages : bytes'[p] = IF p \in PagesOf(b) THEN Fill ELSE bytes[p]
  BY <1>1 DEF Written
<1>3. TypeOK'
  BY <1>1 DEF TypeOK, NoPageShared, Written
<1>4. \A c, d \in held' : PagesOf(c) \cap PagesOf(d) # {} => c = d
  BY <1>1 DEF NoPageShared
<1>5. bitmap' = UNION {PagesOf(c) : c \in held'}
  BY <1>1 DEF NoPageShared
<1>6. BytesAreHeld'
  <2> SUFFICES ASSUME NEW c \in Runs, NEW p \in HeapPages
               PROVE  bytes'[p] = c <=> c \in held' /\ p \in PagesOf(c)
    BY DEF BytesAreHeld
  <2>1. bytes[p] = c <=> c \in held /\ p \in PagesOf(c)
    BY DEF BytesAreHeld
  <2>2. c \in held /\ c # b => PagesOf(c) \cap PagesOf(b) = {}
    BY DEF NoPageShared
  <2>3. c # Fill
    BY FillIsNobodys
  <2> QED BY <1>1, <1>2, <2>1, <2>2, <2>3
<1> QED BY <1>3, <1>4, <1>5, <1>6 DEF NoPageShared, TypeOK

LEMMA SafeStep == Safe /\ [Next]_vars => Safe'
<1> SUFFICES ASSUME Safe, [Next]_vars PROVE Safe'
  OBVIOUS
<1>1. CASE UNCHANGED vars
  BY <1>1 DEF vars, Safe, TypeOK, NoPageShared, BytesAreHeld
<1> QED BY <1>1, SafeAlloc, SafeFree DEF Next

\* The runs that mm_alloc_pages hands out have at least a page and lie in the
\* heap, for every heap size and every sequence of calls.
THEOREM TypeIsSafe == Spec => []TypeOK
  BY SafeInit, SafeStep, PTL DEF Spec, Safe

\* mm_alloc_pages never hands out a page that is in use or not in the heap, and
\* mm_free_pages never loses one, for every heap size and every sequence of calls.
THEOREM PagesAreSafe == Spec => []NoPageShared
  BY SafeInit, SafeStep, PTL DEF Spec, Safe

\* A caller's bytes are on the pages that it holds and on no others, for every heap
\* size: no allocation and no fill of mm_free_pages reaches pages that others hold,
\* and nothing of a caller is left on the pages that it gave back.
THEOREM BytesAreSafe == Spec => []BytesAreHeld
  BY SafeInit, SafeStep, PTL DEF Spec, Safe
=============================================================================
