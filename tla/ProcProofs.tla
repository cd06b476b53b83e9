----------------------------- MODULE ProcProofs -----------------------------
(***************************************************************************)
(* Proofs about Proc, for every size of the process table and of the wait  *)
(* stack, every set of pages and every choice of link addresses: first the *)
(* invariant and what follows from it, then the action properties.         *)
(***************************************************************************)
EXTENDS Proc, SequenceTheorems, WellFoundedInduction, TLAPS

Tables == [Slots -> ProcRecord]
Mems == [Pages -> Pids]

\* Two tables that agree, at a slot or everywhere, on all but evicted and shadow.
SameAt(pt, pt2, s) ==
    /\ pt2[s].used = pt[s].used /\ pt2[s].pid = pt[s].pid
    /\ pt2[s].ppid = pt[s].ppid /\ pt2[s].state = pt[s].state
    /\ pt2[s].image = pt[s].image /\ pt2[s].saved = pt[s].saved

Same(pt, pt2) == \A s \in Slots : SameAt(pt, pt2, s)

LEMMA LeastElement ==
    ASSUME NEW T \in SUBSET Nat, T # {}
    PROVE  \E n \in T : \A k \in T : ~(k < n)
<1> DEFINE R == OpToRel(<, Nat)
<1>1. IsWellFoundedOn(R, Nat)
  BY NatLessThanWellFounded
<1>2. \E x \in T : \A y \in T : ~(<<y, x>> \in R)
  <2> HIDE DEF R
  <2> QED BY <1>1, WFMin
<1>3. \A x, y \in Nat : x < y => <<x, y>> \in R
  BY DEF OpToRel
<1> QED BY <1>2, <1>3

\* What popping the wait stack leaves.
LEMMA PopFacts ==
    ASSUME stack \in Seq(Slots), stack # <<>>
    PROVE  /\ Len(stack) \in Nat \ {0}
           /\ Front(stack) \in Seq(Slots)
           /\ Len(Front(stack)) = Len(stack) - 1
           /\ \A i \in 1 .. Len(stack) - 1 : Front(stack)[i] = stack[i]
           /\ Last(stack) = stack[Len(stack)]
           /\ Last(stack) \in Slots
<1> DEFINE n == Len(stack)
<1>1. n \in Nat \ {0} /\ \A i \in 1 .. n : stack[i] \in Slots
  BY EmptySeq, ElementOfSeq, LenProperties
<1>2. Front(stack) = SubSeq(stack, 1, n - 1)
  BY DEF Front
<1>3. Last(stack) = stack[n]
  BY DEF Last
<1> HIDE DEF n
<1>4. /\ SubSeq(stack, 1, n - 1) \in Seq(Slots)
      /\ Len(SubSeq(stack, 1, n - 1)) = n - 1
      /\ \A i \in 1 .. n - 1 : SubSeq(stack, 1, n - 1)[i] = stack[i]
  <2>1. \A i \in 1 .. n - 1 : stack[i] \in Slots
    BY <1>1
  <2>2. /\ SubSeq(stack, 1, n - 1) \in Seq(Slots)
        /\ Len(SubSeq(stack, 1, n - 1)) = IF 1 <= n - 1 THEN (n - 1) - 1 + 1 ELSE 0
        /\ \A i \in 1 .. (n - 1) - 1 + 1 : SubSeq(stack, 1, n - 1)[i] = stack[1 + i - 1]
    <3> DEFINE one == 1
               last == n - 1
    <3>1. one \in Int /\ last \in Int /\ \A i \in one .. last : stack[i] \in Slots
      BY <1>1, <2>1
    <3> HIDE DEF one, last
    <3>2. /\ SubSeq(stack, one, last) \in Seq(Slots)
          /\ Len(SubSeq(stack, one, last)) = IF one <= last THEN last - one + 1 ELSE 0
          /\ \A i \in 1 .. last - one + 1 : SubSeq(stack, one, last)[i] = stack[one + i - 1]
      BY <3>1, SubSeqProperties
    <3> QED BY <3>2 DEF one, last
  <2> QED BY <1>1, <2>2
<1> QED BY <1>1, <1>2, <1>3, <1>4 DEF n

LEMMA SwapOutFacts ==
    ASSUME NEW pt \in Tables, NEW m, NEW E
    PROVE  /\ SwapOut(pt, m, E) \in Tables
           /\ Same(pt, SwapOut(pt, m, E))
           /\ \A s \in Slots :
                 /\ s \notin E => SwapOut(pt, m, E)[s] = pt[s]
                 /\ s \in E => /\ SwapOut(pt, m, E)[s].evicted
                               /\ SwapOut(pt, m, E)[s].shadow =
                                     IF Intact(pt, m, s) THEN "good" ELSE "junk"
<1> DEFINE Out(s) == [pt[s] EXCEPT !.evicted = TRUE,
                                    !.shadow = IF Intact(pt, m, s) THEN "good" ELSE "junk"]
<1>1. \A s \in Slots : SwapOut(pt, m, E)[s] = IF s \in E THEN Out(s) ELSE pt[s]
  BY DEF SwapOut
<1>2. \A s \in Slots : pt[s] \in ProcRecord
  BY DEF Tables
<1>3. \A s \in Slots :
        /\ Out(s) \in ProcRecord
        /\ Out(s).used = pt[s].used /\ Out(s).pid = pt[s].pid
        /\ Out(s).ppid = pt[s].ppid /\ Out(s).state = pt[s].state
        /\ Out(s).image = pt[s].image /\ Out(s).saved = pt[s].saved
        /\ Out(s).evicted
        /\ Out(s).shadow = IF Intact(pt, m, s) THEN "good" ELSE "junk"
  BY <1>2 DEF ProcRecord
<1>4. SwapOut(pt, m, E) = [s \in Slots |-> SwapOut(pt, m, E)[s]]
  BY DEF SwapOut
<1> HIDE DEF Out
<1>5. SwapOut(pt, m, E) \in Tables
  BY <1>1, <1>2, <1>3, <1>4 DEF Tables
<1> QED BY <1>1, <1>3, <1>5 DEF Same, SameAt


\* What NoLostImage says, of any table and memory.
Kept(pt, m) ==
    \A s \in Slots : pt[s].used /\ pt[s].state # "zombie" =>
        IF pt[s].evicted THEN pt[s].shadow = "good"
                         ELSE pt[s].shadow = "none" /\ Intact(pt, m, s)

\* Copying live processes out keeps every image.
LEMMA SwapOutKeeps ==
    ASSUME NEW pt \in Tables, NEW m, NEW E, Kept(pt, m),
           \A s \in Slots \cap E : pt[s].used /\ pt[s].state # "zombie" /\ ~pt[s].evicted
    PROVE  Kept(SwapOut(pt, m, E), m)
<1> DEFINE out == SwapOut(pt, m, E)
<1>1. /\ Same(pt, out)
      /\ \A s \in Slots :
            /\ s \notin E => out[s] = pt[s]
            /\ s \in E => out[s].evicted
                          /\ out[s].shadow = IF Intact(pt, m, s) THEN "good" ELSE "junk"
  BY SwapOutFacts
<1> HIDE DEF out
<1> SUFFICES ASSUME NEW s \in Slots, out[s].used, out[s].state # "zombie"
             PROVE  IF out[s].evicted THEN out[s].shadow = "good"
                    ELSE out[s].shadow = "none" /\ Intact(out, m, s)
  BY DEF Kept, out
<1>2. CASE s \in E
  BY <1>1, <1>2 DEF Kept
<1>3. CASE s \notin E
  BY <1>1, <1>3 DEF Kept, Intact
<1> QED BY <1>2, <1>3

\* Overwriting R keeps every image once its squatters are out.
LEMMA FillKeeps ==
    ASSUME NEW pt \in Tables, NEW m \in Mems, NEW R, NEW who,
           Kept(pt, m), Squatters(pt, R) = {}
    PROVE  Kept(pt, Fill(m, R, who))
<1> SUFFICES ASSUME NEW s \in Slots, pt[s].used, pt[s].state # "zombie", ~pt[s].evicted
             PROVE  Intact(pt, Fill(m, R, who), s)
  BY DEF Kept
<1>1. pt[s].image \cap R = {}
  BY DEF Squatters
<1>2. Intact(pt, m, s)
  BY DEF Kept
<1>3. pt[s].image \subseteq Pages
  BY LinksAssumption DEF Tables, ProcRecord
<1> QED BY <1>1, <1>2, <1>3 DEF Intact, Fill

\* The table after p's shadow was copied back and freed.
SwappedIn(pt, p) == [pt EXCEPT ![p].shadow = "none", ![p].evicted = FALSE]

LEMMA SwappedInFacts ==
    ASSUME NEW pt \in Tables, NEW p \in Slots
    PROVE  /\ SwappedIn(pt, p) \in Tables
           /\ Same(pt, SwappedIn(pt, p))
           /\ \A s \in Slots : s # p => SwappedIn(pt, p)[s] = pt[s]
           /\ SwappedIn(pt, p)[p].shadow = "none"
           /\ ~SwappedIn(pt, p)[p].evicted
<1> DEFINE r == [pt[p] EXCEPT !.shadow = "none", !.evicted = FALSE]
<1>1. pt[p] \in ProcRecord
  BY DEF Tables
<1>2. /\ r \in ProcRecord /\ r.shadow = "none" /\ ~r.evicted
      /\ r.used = pt[p].used /\ r.pid = pt[p].pid /\ r.ppid = pt[p].ppid
      /\ r.state = pt[p].state /\ r.image = pt[p].image /\ r.saved = pt[p].saved
  BY <1>1 DEF ProcRecord
<1>3. SwappedIn(pt, p) = [pt EXCEPT ![p] = r]
  BY DEF SwappedIn, Tables
<1> HIDE DEF r
<1> QED BY <1>2, <1>3 DEF Tables, Same, SameAt

LEMMA EnsureResidentFacts ==
    ASSUME NEW pt \in Tables, NEW m \in Mems, NEW p \in Slots,
           NEW out \in EnsureResident(pt, m, p)
    PROVE  out.procs \in Tables /\ out.mem \in Mems /\ Same(pt, out.procs)
<1> DEFINE E == {s \in Squatters(pt, pt[p].image) \ {p} : pt[s].shadow = "none"}
           back == IF pt[p].shadow = "good" THEN pt[p].pid ELSE 0
           S == SwapOut(pt, m, E)
           In == SwappedIn(S, p)
<1>1. CASE ~pt[p].evicted \/ pt[p].shadow = "none"
  BY <1>1 DEF EnsureResident, Same, SameAt
<1>2. CASE out.procs = In /\ out.mem = Fill(m, pt[p].image, back)
  <2>1. S \in Tables /\ Same(pt, S)
    BY SwapOutFacts
  <2>2. back \in Pids
    BY SizesAssumption DEF Tables, ProcRecord, Pids
  <2>3. out.mem \in Mems
    BY <1>2, <2>2 DEF Mems, Fill
  <2> HIDE DEF S, back
  <2>4. In \in Tables /\ Same(S, In)
    BY <2>1, SwappedInFacts
  <2> HIDE DEF In
  <2> QED BY <1>2, <2>1, <2>3, <2>4 DEF Same, SameAt
<1>3. CASE \E f \in E : out.procs = SwapOut(pt, m, Before(E, f)) /\ out.mem = m
  BY <1>3, SwapOutFacts
<1> QED BY <1>1, <1>2, <1>3 DEF EnsureResident, SwappedIn

\* Swapping a live process in keeps every image, whichever allocation fails.
LEMMA EnsureResidentKeeps ==
    ASSUME NEW pt \in Tables, NEW m \in Mems, NEW p \in Slots,
           NEW out \in EnsureResident(pt, m, p),
           Kept(pt, m), pt[p].used, pt[p].state # "zombie"
    PROVE  Kept(out.procs, out.mem)
<1> DEFINE E == {s \in Squatters(pt, pt[p].image) \ {p} : pt[s].shadow = "none"}
           back == IF pt[p].shadow = "good" THEN pt[p].pid ELSE 0
           S == SwapOut(pt, m, E)
           In == SwappedIn(S, p)
           M == Fill(m, pt[p].image, back)
<1>0. \A s \in E : s \in Slots /\ pt[s].used /\ pt[s].state # "zombie" /\ ~pt[s].evicted
  BY DEF Squatters
<1>1. CASE ~pt[p].evicted \/ pt[p].shadow = "none"
  BY <1>1 DEF EnsureResident
<1>2. CASE pt[p].evicted /\ pt[p].shadow # "none" /\ out.procs = In /\ out.mem = M
  <2>1. S \in Tables /\ Same(pt, S) /\ Kept(S, m)
        /\ \A s \in Slots : /\ s \notin E => S[s] = pt[s]
                            /\ s \in E => S[s].evicted
    BY <1>0, SwapOutFacts, SwapOutKeeps
  <2>2. p \notin E /\ S[p] = pt[p]
    BY <2>1
  <2>3. back = pt[p].pid
    BY <1>2 DEF Kept
  <2>4. \A s \in Squatters(pt, pt[p].image) : s \in E \/ s = p
    BY DEF Kept, Squatters
  <2>5. Squatters(S, pt[p].image) = {}
    <3> SUFFICES ASSUME NEW s \in Squatters(S, pt[p].image) PROVE FALSE
      OBVIOUS
    <3>1. s \in Slots /\ S[s].used /\ S[s].state # "zombie" /\ ~S[s].evicted
          /\ S[s].image \cap pt[p].image # {}
      BY DEF Squatters
    <3> HIDE DEF S, E
    <3>2. s # p /\ s \notin E
      BY <1>2, <2>1, <2>2, <3>1
    <3>3. S[s] = pt[s]
      BY <2>1, <3>1, <3>2
    <3>4. s \in Squatters(pt, pt[p].image)
      BY <3>1, <3>3 DEF Squatters
    <3> QED BY <2>4, <3>2, <3>4
  <2> HIDE DEF S, E, back
  <2>6. Kept(S, M)
    BY <2>1, <2>5, FillKeeps
  <2>7. \A s \in Slots : s # p => In[s] = S[s]
    BY <2>1, SwappedInFacts
  <2>8. In[p].shadow = "none" /\ ~In[p].evicted /\ In[p].pid = pt[p].pid
        /\ In[p].image = pt[p].image
    BY <2>1, <2>2, SwappedInFacts DEF Same, SameAt
  <2>9. pt[p].image \subseteq Pages
    BY LinksAssumption DEF Tables, ProcRecord
  <2>10. Intact(In, M, p)
    BY <2>3, <2>8, <2>9 DEF Intact, Fill
  <2> HIDE DEF In, M
  <2>11. Kept(In, M)
    BY <2>6, <2>7, <2>8, <2>10 DEF Kept, Intact
  <2> QED BY <1>2, <2>11
<1>3. CASE \E f \in E : out.procs = SwapOut(pt, m, Before(E, f)) /\ out.mem = m
  <2> PICK f \in E : out.procs = SwapOut(pt, m, Before(E, f)) /\ out.mem = m
    BY <1>3
  <2>1. Kept(SwapOut(pt, m, Before(E, f)), m)
    BY <1>0, SwapOutKeeps DEF Before
  <2> QED BY <2>1
<1> QED BY <1>1, <1>2, <1>3 DEF EnsureResident, SwappedIn

\* A live process whose bytes are kept somewhere comes back, unless the heap had
\* no room for the shadow of another.
LEMMA EnsureResidentBrings ==
    ASSUME NEW pt \in Tables, NEW m \in Mems, NEW p \in Slots,
           NEW out \in EnsureResident(pt, m, p),
           Kept(pt, m), pt[p].used, pt[p].state # "zombie"
    PROVE  out.short \/ ~out.procs[p].evicted
<1> DEFINE E == {s \in Squatters(pt, pt[p].image) \ {p} : pt[s].shadow = "none"}
           S == SwapOut(pt, m, E)
<1>1. CASE ~pt[p].evicted
  BY <1>1 DEF EnsureResident
<1>2. CASE pt[p].evicted
  <2>1. pt[p].shadow = "good"
    BY <1>2 DEF Kept
  <2>2. out.procs = SwappedIn(S, p) \/ out.short
    BY <1>2, <2>1 DEF EnsureResident, SwappedIn
  <2>3. S \in Tables
    BY SwapOutFacts
  <2> HIDE DEF S
  <2> QED BY <2>2, <2>3, SwappedInFacts
<1> QED BY <1>1, <1>2

-----------------------------------------------------------------------------
(* Updates of one process *)

FrameStates == {"none", "kept", "lost"}

SetState(pt, p, x) == [pt EXCEPT ![p].state = x]
SetSaved(pt, p, b) == [pt EXCEPT ![p].saved = b]

LEMMA SetStateFacts ==
    ASSUME NEW pt \in Tables, NEW p \in Slots, NEW x \in {"free", "ready", "running", "zombie"}
    PROVE  /\ SetState(pt, p, x) \in Tables
           /\ SetState(pt, p, x)[p].state = x
           /\ \A s \in Slots :
                 /\ s # p => SetState(pt, p, x)[s] = pt[s]
                 /\ SetState(pt, p, x)[s].used = pt[s].used
                 /\ SetState(pt, p, x)[s].pid = pt[s].pid
                 /\ SetState(pt, p, x)[s].ppid = pt[s].ppid
                 /\ SetState(pt, p, x)[s].image = pt[s].image
                 /\ SetState(pt, p, x)[s].evicted = pt[s].evicted
                 /\ SetState(pt, p, x)[s].shadow = pt[s].shadow
                 /\ SetState(pt, p, x)[s].saved = pt[s].saved
<1> DEFINE r == [pt[p] EXCEPT !.state = x]
<1>1. /\ r \in ProcRecord /\ r.state = x
      /\ r.used = pt[p].used /\ r.pid = pt[p].pid /\ r.ppid = pt[p].ppid
      /\ r.image = pt[p].image /\ r.evicted = pt[p].evicted
      /\ r.shadow = pt[p].shadow /\ r.saved = pt[p].saved
  BY DEF Tables, ProcRecord
<1>2. SetState(pt, p, x) = [pt EXCEPT ![p] = r]
  BY DEF SetState
<1> HIDE DEF r
<1> QED BY <1>1, <1>2 DEF Tables

LEMMA SetSavedFacts ==
    ASSUME NEW pt \in Tables, NEW p \in Slots, NEW b \in FrameStates
    PROVE  /\ SetSaved(pt, p, b) \in Tables
           /\ SetSaved(pt, p, b)[p].saved = b
           /\ \A s \in Slots :
                 /\ s # p => SetSaved(pt, p, b)[s] = pt[s]
                 /\ SetSaved(pt, p, b)[s].used = pt[s].used
                 /\ SetSaved(pt, p, b)[s].pid = pt[s].pid
                 /\ SetSaved(pt, p, b)[s].ppid = pt[s].ppid
                 /\ SetSaved(pt, p, b)[s].state = pt[s].state
                 /\ SetSaved(pt, p, b)[s].image = pt[s].image
                 /\ SetSaved(pt, p, b)[s].evicted = pt[s].evicted
                 /\ SetSaved(pt, p, b)[s].shadow = pt[s].shadow
<1> DEFINE r == [pt[p] EXCEPT !.saved = b]
<1>1. /\ r \in ProcRecord /\ r.saved = b
      /\ r.used = pt[p].used /\ r.pid = pt[p].pid /\ r.ppid = pt[p].ppid
      /\ r.state = pt[p].state /\ r.image = pt[p].image
      /\ r.evicted = pt[p].evicted /\ r.shadow = pt[p].shadow
  BY DEF Tables, ProcRecord, FrameStates
<1>2. SetSaved(pt, p, b) = [pt EXCEPT ![p] = r]
  BY DEF SetSaved
<1> HIDE DEF r
<1> QED BY <1>1, <1>2 DEF Tables

\* The actions' own expressions are such updates.
LEMMA HandoverIs ==
    ASSUME NEW q
    PROVE  Handover(q) = SetState(SetState(procs, current, "ready"), q, "running")
  BY DEF Handover, SetState

LEMMA BlankType == Blank \in ProcRecord
  BY SizesAssumption DEF Blank, ProcRecord, Pids

LEMMA ChildFacts ==
    ASSUME TypeOK, NEW R \in Links, nextPid <= MaxPid
    PROVE  /\ Child(R) \in ProcRecord
           /\ Child(R).used /\ Child(R).pid = nextPid
           /\ Child(R).ppid = procs[current].pid /\ Child(R).state = "ready"
           /\ Child(R).image = R /\ ~Child(R).evicted
           /\ Child(R).shadow = "none" /\ Child(R).saved = "none"
<1>1. procs[current].pid \in Pids
  BY DEF TypeOK, ProcRecord
<1>2. nextPid \in Pids
  BY SizesAssumption DEF TypeOK, Pids
<1> QED BY <1>1, <1>2 DEF Child, Blank, ProcRecord

-----------------------------------------------------------------------------
(* Type correctness *)

LEMMA ReturnToKernelType ==
    ASSUME TypeOK, NEW pt \in Tables, stack # <<>>, ReturnToKernel(pt)
    PROVE  /\ procs' \in Tables /\ mem' \in Mems
           /\ current' \in Slots /\ stack' \in Seq(Slots) /\ esp0' \in Slots
           /\ failed' \in BOOLEAN
<1> DEFINE parent == Last(stack)
           up == SetState(pt, parent, "running")
<1>1. parent \in Slots /\ Front(stack) \in Seq(Slots)
  BY PopFacts DEF TypeOK
<1>2. up \in Tables
  BY <1>1, SetStateFacts
<1>3. mem \in Mems
  BY DEF TypeOK, Mems
<1>4. PICK out \in EnsureResident(up, mem, parent) :
        /\ procs' = IF pt[current].state = "zombie"
                    THEN [out.procs EXCEPT ![current] = Blank] ELSE out.procs
        /\ mem' = out.mem
        /\ failed' = (failed \/ out.short)
  BY DEF ReturnToKernel, SetState
<1>5. current' = parent /\ stack' = Front(stack) /\ esp0' = parent
  BY DEF ReturnToKernel
<1> HIDE DEF parent, up
<1>6. out.procs \in Tables /\ out.mem \in Mems
  BY <1>1, <1>2, <1>3, EnsureResidentFacts
<1>7. procs' \in Tables
  BY <1>4, <1>6, BlankType DEF Tables, TypeOK
<1>8. failed' \in BOOLEAN
  BY <1>4, Zenon
<1> QED BY <1>1, <1>4, <1>5, <1>6, <1>7, <1>8

LEMMA TypeStep ==
    ASSUME TypeOK, [Next]_vars
    PROVE  TypeOK'
<1> USE DEF TypeOK
<1>0. procs \in Tables /\ mem \in Mems /\ 0 \in Pids
  BY SizesAssumption DEF Tables, Mems, Pids
<1>a. \A pt, m, E : pt \in Tables => SwapOut(pt, m, E) \in Tables
  BY SwapOutFacts
<1>b. \A R, who : who \in Pids => Fill(mem, R, who) \in Mems
  BY <1>0 DEF Fill, Mems
<1>1. ASSUME NEW R \in Links, Spawn(R) PROVE TypeOK'
  <2>1. PICK f \in Slots :
          LET pt == [SwapOut(procs, mem, Squatters(procs, R)) EXCEPT ![f] = Child(R)]
          IN  \E out \in EnsureResident(pt, Fill(mem, R, nextPid), current) :
                /\ procs' = out.procs
                /\ mem' = out.mem
                /\ failed' = (failed \/ out.short)
    BY <1>1 DEF Spawn
  <2> DEFINE pt == [SwapOut(procs, mem, Squatters(procs, R)) EXCEPT ![f] = Child(R)]
  <2>2. PICK out \in EnsureResident(pt, Fill(mem, R, nextPid), current) :
                /\ procs' = out.procs
                /\ mem' = out.mem
                /\ failed' = (failed \/ out.short)
    BY <2>1
  <2>3. nextPid \in Pids /\ nextPid <= MaxPid /\ nextPid' = nextPid + 1
        /\ UNCHANGED <<current, stack, esp0, halted>>
    BY <1>1, SizesAssumption DEF Spawn, Pids
  <2>4. pt \in Tables
    BY <1>0, <1>a, <2>3, ChildFacts DEF Tables
  <2>5. procs' \in Tables /\ mem' \in Mems
    <3> HIDE DEF pt
    <3> QED BY <1>b, <2>2, <2>3, <2>4, EnsureResidentFacts
  <2>6. failed' \in BOOLEAN
    BY <2>2, Zenon
  <2> QED BY <2>3, <2>5, <2>6, SizesAssumption DEF Tables, Mems
<1>2. ASSUME NEW R \in Links, SpawnNoSwap(R) PROVE TypeOK'
  BY <1>0, <1>a, <1>2 DEF SpawnNoSwap, Tables
<1>3. ASSUME NEW R \in Links, SpawnRejected(R) PROVE TypeOK'
  BY <1>0, <1>a, <1>b, <1>3 DEF SpawnRejected, Tables, Mems
<1>4. ASSUME NEW R \in Links, SpawnLeaks(R) PROVE TypeOK'
  <2>1. [Blank EXCEPT !.used = TRUE] \in ProcRecord
    BY BlankType DEF ProcRecord
  <2> QED BY <1>0, <1>a, <1>b, <1>4, <2>1 DEF SpawnLeaks, Tables, Mems
<1>5. ASSUME NEW q \in Slots, WaitRun(q) PROVE TypeOK'
  <2>1. Handover(q) \in Tables
    BY <1>0, HandoverIs, SetStateFacts
  <2>2. PICK out \in EnsureResident(Handover(q), mem, q) :
          procs' = SetSaved(out.procs, q, "none") /\ mem' = out.mem
    BY <1>5 DEF WaitRun, SetSaved
  <2>3. procs' \in Tables /\ mem' \in Mems
    BY <1>0, <2>1, <2>2, EnsureResidentFacts, SetSavedFacts DEF FrameStates
  <2>4. stack' \in Seq(Slots) /\ current' \in Slots /\ esp0' \in Slots
        /\ UNCHANGED <<nextPid, halted, failed>>
    BY <1>5 DEF WaitRun
  <2> QED BY <2>3, <2>4 DEF Tables, Mems
<1>6. ASSUME NEW q \in Slots, WaitNoSwap(q) PROVE TypeOK'
  <2>1. Handover(q) \in Tables
    BY <1>0, HandoverIs, SetStateFacts
  <2>2. PICK out \in EnsureResident(Handover(q), mem, q) :
          /\ procs' = SetState(SetState(out.procs, current, "running"), q, "ready")
          /\ mem' = out.mem
          /\ failed' = (failed \/ out.short)
    BY <1>6 DEF WaitNoSwap, SetState
  <2>3. procs' \in Tables /\ mem' \in Mems
    BY <1>0, <2>1, <2>2, EnsureResidentFacts, SetStateFacts
  <2>5. failed' \in BOOLEAN
    BY <2>2, Zenon
  <2>4. esp0' \in Slots /\ UNCHANGED <<current, stack, nextPid, halted>>
    BY <1>6 DEF WaitNoSwap
  <2> QED BY <2>3, <2>4, <2>5 DEF Tables, Mems
<1>7. ASSUME NEW q \in Slots, WaitReap(q) PROVE TypeOK'
  BY <1>7, BlankType DEF WaitReap
<1>8. ASSUME NEW q \in Slots, Kill(q) PROVE TypeOK'
  <2>1. [procs[q] EXCEPT !.state = "zombie", !.saved = "none"] \in ProcRecord
    BY DEF ProcRecord
  <2>2. procs' \in [Slots -> ProcRecord]
    <3> DEFINE Z == [procs[q] EXCEPT !.state = "zombie", !.saved = "none"]
    <3>1. \/ procs' = procs
          \/ procs' = [s \in Slots |-> IF s = q THEN Z
                                       ELSE IF s \in Reached(q) THEN Blank ELSE procs[s]]
      BY <1>8 DEF Kill
    <3> HIDE DEF Z
    <3>2. Z \in ProcRecord
      BY <2>1 DEF Z
    <3> QED BY <3>1, <3>2, BlankType
  <2>3. halted' \in BOOLEAN /\ UNCHANGED <<mem, current, stack, nextPid, esp0, failed>>
    BY <1>8 DEF Kill
  <2> QED BY <2>2, <2>3
<1>9. CASE Exit
  <2> DEFINE pt == SetSaved(SetState(procs, current, "zombie"), current, "none")
  <2>1. pt \in Tables
    BY <1>0, SetStateFacts, SetSavedFacts DEF FrameStates
  <2>2. stack # <<>> /\ ReturnToKernel(pt)
    BY <1>9 DEF Exit, SetState, SetSaved
  <2>3. UNCHANGED <<nextPid, halted>>
    BY <2>2 DEF ReturnToKernel
  <2> HIDE DEF pt
  <2> QED BY <2>1, <2>2, <2>3, ReturnToKernelType DEF Tables, Mems
<1>10. CASE Yield
  <2> DEFINE pt == SetSaved(SetState(procs, current, "ready"), current, "kept")
  <2>1. pt \in Tables
    BY <1>0, SetStateFacts, SetSavedFacts DEF FrameStates
  <2>2. stack # <<>> /\ ReturnToKernel(pt)
    BY <1>10 DEF Yield, SetState, SetSaved
  <2>3. UNCHANGED <<nextPid, halted>>
    BY <2>2 DEF ReturnToKernel
  <2> HIDE DEF pt
  <2> QED BY <2>1, <2>2, <2>3, ReturnToKernelType DEF Tables, Mems
<1>11. ASSUME NEW q \in Slots, WaitOnItsStack(q) PROVE TypeOK'
  BY <1>11 DEF WaitOnItsStack
<1>12. CASE StrayTrap
  <2>1. PICK b \in FrameStates : b = "lost"
    BY DEF FrameStates
  <2>2. procs' = SetSaved(procs, esp0, b)
        /\ UNCHANGED <<mem, current, stack, nextPid, esp0, halted, failed>>
    BY <1>12, <2>1 DEF StrayTrap, SetSaved
  <2>3. procs' \in Tables
    BY <1>0, <2>2, SetSavedFacts
  <2> QED BY <2>2, <2>3 DEF Tables
<1>13. CASE UNCHANGED vars
  BY <1>13 DEF vars
<1> QED BY <1>1, <1>2, <1>3, <1>4, <1>5, <1>6, <1>7, <1>8, <1>9, <1>10, <1>11, <1>12, <1>13 DEF Next

LEMMA TypeInit == Init => TypeOK
<1> SUFFICES ASSUME Init PROVE TypeOK
  OBVIOUS
<1>1. [Blank EXCEPT !.used = TRUE, !.pid = 1, !.state = "running"] \in ProcRecord
  <2>1. 1 \in Pids
    BY SizesAssumption DEF Pids
  <2> QED BY <2>1, BlankType DEF ProcRecord
<1>2. procs \in [Slots -> ProcRecord]
  BY <1>1, BlankType DEF Init
<1>3. 0 \in Slots /\ 0 \in Pids /\ 2 \in 1 .. MaxPid + 1
  BY SizesAssumption DEF Slots, Pids
<1> QED BY <1>2, <1>3 DEF Init, TypeOK

\* Every reachable state is of the declared type.
THEOREM TypeCorrect == Spec => []TypeOK
  BY TypeInit, TypeStep, PTL DEF Spec

-----------------------------------------------------------------------------
(* What each action does to the table *)

IInv == TypeOK /\ PidsUnique /\ WaitChain /\ NoLostImage /\ ReturnIsSafe

LEMMA NoLostImageIsKept == NoLostImage <=> Kept(procs, mem)
  BY DEF NoLostImage, Kept

LEMMA FrameFacts ==
    ASSUME TypeOK
    PROVE  /\ Len(stack) \in Nat
           /\ \A i \in Frames : Frame(i) \in Slots
           /\ \A i \in 1 .. Len(stack) : Frame(i) = stack[i]
           /\ Frame(Len(stack) + 1) = current
<1>1. Len(stack) \in Nat /\ \A i \in 1 .. Len(stack) : stack[i] \in Slots
  BY LenProperties, ElementOfSeq DEF TypeOK
<1> QED BY <1>1 DEF Frame, Frames, TypeOK

\* No process is on the chain twice.
LEMMA FramesDistinct ==
    ASSUME TypeOK, WaitChain, NEW i \in Frames, NEW j \in Frames, Frame(i) = Frame(j)
    PROVE  i = j
<1>1. Frame(i) \in Slots /\ i \in Int /\ j \in Int
  BY FrameFacts DEF Frames
<1>2. procs[Frame(i)].pid \in Int
  BY <1>1 DEF TypeOK, ProcRecord, Pids
<1> QED BY <1>1, <1>2 DEF WaitChain

\* A live child of the current process is neither on the chain nor leaked.
LEMMA ChildOffChain ==
    ASSUME TypeOK, PidsUnique, WaitChain, NEW q \in Children
    PROVE  /\ procs[q].state \in {"ready", "zombie"}
           /\ procs[current].pid < procs[q].pid
           /\ q # 0
           /\ \A i \in Frames : Frame(i) # q
<1>1. /\ q \in Slots /\ current \in Slots
      /\ procs[q].used /\ procs[q].ppid = procs[current].pid
      /\ procs[current].used /\ procs[current].state = "running"
  BY FrameFacts DEF Children, TypeOK, WaitChain, Frames
<1>2. /\ procs[current].pid \in Int /\ procs[q].pid \in Int /\ procs[q].ppid \in Int
      /\ procs[current].ppid \in Nat
      /\ procs[q].state \in {"free", "ready", "running", "zombie"}
  BY <1>1 DEF TypeOK, ProcRecord, Pids
<1>3. procs[current].pid > 0
  BY <1>1, <1>2 DEF PidsUnique
<1>4. procs[q].state # "free"
  BY <1>1, <1>3 DEF PidsUnique
<1>5. procs[current].pid < procs[q].pid
  BY <1>1, <1>2, <1>4 DEF PidsUnique
<1>6. q # current /\ procs[q].state # "running"
  BY <1>1, <1>2, <1>5 DEF WaitChain
<1>7. q # 0
  BY <1>1, <1>3 DEF PidsUnique
<1>8. ASSUME NEW i \in Frames PROVE Frame(i) # q
  <2>1. CASE i = Len(stack) + 1
    BY <2>1, <1>6, FrameFacts
  <2>2. CASE i < Len(stack) + 1
    <3>1. procs[Frame(i)].pid < procs[Frame(Len(stack) + 1)].pid
      BY <2>2, FrameFacts DEF WaitChain, Frames
    <3> QED BY <1>2, <1>5, <3>1, FrameFacts
  <2> QED BY <2>1, <2>2, FrameFacts DEF Frames
<1> QED BY <1>2, <1>4, <1>5, <1>6, <1>7, <1>8

\* proc_evict_range, then the load: nobody is left in the range.
LEMMA EvictFacts ==
    ASSUME TypeOK, NEW R
    PROVE  LET S == SwapOut(procs, mem, Squatters(procs, R))
           IN  /\ S \in Tables /\ Same(procs, S)
               /\ Squatters(S, R) = {}
               /\ \A s \in Slots : s \notin Squatters(procs, R) => S[s] = procs[s]
               /\ NoLostImage => \A who : Kept(S, mem) /\ Kept(S, Fill(mem, R, who))
<1> DEFINE V == Squatters(procs, R)
           S == SwapOut(procs, mem, V)
<1>1. procs \in Tables /\ mem \in Mems
  BY DEF TypeOK, Tables, Mems
<1>2. /\ S \in Tables /\ Same(procs, S)
      /\ \A s \in Slots : /\ s \notin V => S[s] = procs[s]
                          /\ s \in V => S[s].evicted
  BY <1>1, SwapOutFacts
<1>3. \A s \in V : s \in Slots /\ procs[s].used /\ procs[s].state # "zombie"
                   /\ ~procs[s].evicted
  BY DEF Squatters
<1>4. Squatters(S, R) = {}
  <2> SUFFICES ASSUME NEW s \in Squatters(S, R) PROVE FALSE
    OBVIOUS
  <2>1. s \in Slots /\ ~S[s].evicted /\ S[s].used /\ S[s].state # "zombie"
        /\ S[s].image \cap R # {}
    BY DEF Squatters
  <2> HIDE DEF S
  <2>2. s \notin V /\ S[s] = procs[s]
    BY <1>2, <2>1
  <2> QED BY <2>1, <2>2 DEF Squatters
<1>5. ASSUME NoLostImage PROVE Kept(S, mem)
  <2>1. Kept(procs, mem)
    BY <1>5, NoLostImageIsKept
  <2> QED BY <1>1, <1>3, <2>1, SwapOutKeeps
<1>6. ASSUME NoLostImage, NEW who PROVE Kept(S, Fill(mem, R, who))
  <2> HIDE DEF S
  <2> QED BY <1>1, <1>2, <1>4, <1>5, <1>6, FillKeeps
<1> QED BY <1>2, <1>4, <1>5, <1>6

LEMMA SpawnEffect ==
    ASSUME IInv, NEW R \in Links, Spawn(R)
    PROVE  /\ \E f \in Slots \ {0} :
                 /\ ~procs[f].used
                 /\ procs'[f].used /\ procs'[f].pid = nextPid
                 /\ procs'[f].ppid = procs[current].pid /\ procs'[f].state = "ready"
                 /\ \A s \in Slots \ {f} : SameAt(procs, procs', s)
           /\ Kept(procs', mem')
           /\ ~failed' => ~failed /\ ~procs'[current].evicted
<1> USE DEF IInv
<1>1. PICK f \in Slots :
        /\ IsFirstFree(f)
        /\ LET pt == [SwapOut(procs, mem, Squatters(procs, R)) EXCEPT ![f] = Child(R)]
           IN  \E out \in EnsureResident(pt, Fill(mem, R, nextPid), current) :
                 /\ procs' = out.procs
                 /\ mem' = out.mem
                 /\ failed' = (failed \/ out.short)
  BY DEF Spawn
<1> DEFINE S == SwapOut(procs, mem, Squatters(procs, R))
           pt == [S EXCEPT ![f] = Child(R)]
           M == Fill(mem, R, nextPid)
<1>2. PICK out \in EnsureResident(pt, M, current) :
        procs' = out.procs /\ mem' = out.mem /\ failed' = (failed \/ out.short)
  BY <1>1
<1>3. nextPid <= MaxPid
  BY DEF Spawn
<1>4. /\ S \in Tables /\ Same(procs, S) /\ Kept(S, M)
  BY EvictFacts
<1>5. /\ Child(R) \in ProcRecord
      /\ Child(R).used /\ Child(R).pid = nextPid
      /\ Child(R).ppid = procs[current].pid /\ Child(R).state = "ready"
      /\ Child(R).image = R /\ ~Child(R).evicted
      /\ Child(R).shadow = "none"
  BY <1>3, ChildFacts
<1>6. f \in Slots \ {0} /\ ~procs[f].used
  BY <1>1 DEF IsFirstFree, FreeSlots
<1>7. M \in Mems
  BY <1>3, SizesAssumption DEF TypeOK, Mems, Fill, Pids
<1>8. R \subseteq Pages
  BY LinksAssumption
<1>9. \A g \in R : M[g] = nextPid
  BY <1>8 DEF Fill
<1>10. current \in Slots /\ procs[current].used /\ procs[current].state = "running"
  BY FrameFacts DEF TypeOK, WaitChain, Frames
<1> HIDE DEF S, M
<1>11. pt \in Tables /\ pt[f] = Child(R) /\ \A s \in Slots \ {f} : pt[s] = S[s]
  BY <1>4, <1>5 DEF Tables
<1> HIDE DEF pt
<1>12. Kept(pt, M)
  BY <1>4, <1>5, <1>9, <1>11 DEF Kept, Intact
<1>13. pt[current].used /\ pt[current].state # "zombie"
  BY <1>4, <1>6, <1>10, <1>11 DEF Same, SameAt
<1>14. Same(pt, procs') /\ Kept(procs', mem')
  BY <1>2, <1>7, <1>10, <1>11, <1>12, <1>13, EnsureResidentFacts, EnsureResidentKeeps
<1>15. \A s \in Slots \ {f} : SameAt(procs, procs', s)
  BY <1>4, <1>11, <1>14 DEF Same, SameAt
<1>16. /\ procs'[f].used /\ procs'[f].pid = nextPid
       /\ procs'[f].ppid = procs[current].pid /\ procs'[f].state = "ready"
  BY <1>5, <1>6, <1>11, <1>14 DEF Same, SameAt
<1>17. out.short \/ ~out.procs[current].evicted
  BY <1>7, <1>10, <1>11, <1>12, <1>13, EnsureResidentBrings
<1>18. ~failed' => ~failed /\ ~procs'[current].evicted
  BY <1>2, <1>17
<1> QED BY <1>6, <1>14, <1>15, <1>16, <1>18

LEMMA SpawnNoSwapEffect ==
    ASSUME IInv, NEW R \in Links, SpawnNoSwap(R)
    PROVE  Same(procs, procs') /\ Kept(procs', mem')
<1>1. procs \in Tables /\ Kept(procs, mem)
  BY NoLostImageIsKept DEF IInv, TypeOK, Tables
<1>2. PICK f \in Squatters(procs, R) :
        procs' = SwapOut(procs, mem, Before(Squatters(procs, R), f)) /\ mem' = mem
  BY DEF SpawnNoSwap
<1>3. \A s \in Before(Squatters(procs, R), f) :
        procs[s].used /\ procs[s].state # "zombie" /\ ~procs[s].evicted
  BY DEF Before, Squatters
<1> QED BY <1>1, <1>2, <1>3, SwapOutFacts, SwapOutKeeps

LEMMA SpawnRejectedEffect ==
    ASSUME IInv, NEW R \in Links, SpawnRejected(R)
    PROVE  Same(procs, procs') /\ Kept(procs', mem')
<1>1. procs' = SwapOut(procs, mem, Squatters(procs, R)) /\ mem' = Fill(mem, R, 0)
  BY DEF SpawnRejected
<1> QED BY <1>1, EvictFacts DEF IInv

LEMMA SpawnLeaksEffect ==
    ASSUME IInv, NEW R \in Links, SpawnLeaks(R)
    PROVE  /\ \E f \in Slots \ {0} :
                 /\ ~procs[f].used
                 /\ procs'[f].pid = 0 /\ procs'[f].ppid = 0
                 /\ procs'[f].state = "free" /\ procs'[f].used
                 /\ procs'[f].saved = "none"
                 /\ \A s \in Slots \ {f} : SameAt(procs, procs', s)
           /\ Kept(procs', mem')
<1> DEFINE S == SwapOut(procs, mem, Squatters(procs, R))
           B == [Blank EXCEPT !.used = TRUE]
<1>1. PICK f \in Slots : IsFirstFree(f) /\ procs' = [S EXCEPT ![f] = B]
  BY DEF SpawnLeaks
<1>2. mem' = Fill(mem, R, 0)
  BY DEF SpawnLeaks
<1>3. S \in Tables /\ Same(procs, S) /\ Kept(S, mem')
  BY <1>2, EvictFacts DEF IInv
<1>4. f \in Slots \ {0} /\ ~procs[f].used
  BY <1>1 DEF IsFirstFree, FreeSlots
<1>5. B.used /\ B.pid = 0 /\ B.ppid = 0 /\ B.state = "free" /\ B.image = {}
      /\ ~B.evicted /\ B.shadow = "none" /\ B.saved = "none"
  BY DEF Blank
<1> HIDE DEF S, B
<1>6. procs'[f] = B /\ \A s \in Slots \ {f} : procs'[s] = S[s]
  BY <1>1, <1>3 DEF Tables
<1>7. \A s \in Slots \ {f} : SameAt(procs, procs', s)
  BY <1>3, <1>6 DEF Same, SameAt
<1>8. Kept(procs', mem')
  BY <1>3, <1>5, <1>6 DEF Kept, Intact
<1> QED BY <1>4, <1>5, <1>6, <1>7, <1>8

\* The caller's and the child's state change hands; nothing else moves.
LEMMA HandoverFacts ==
    ASSUME IInv, NEW q \in Slots, Runnable(q)
    PROVE  /\ procs[q].used /\ procs[q].ppid = procs[current].pid
           /\ procs[q].state = "ready" /\ q # 0 /\ q # current
           /\ \A i \in Frames : Frame(i) # q
           /\ Handover(q) \in Tables /\ Kept(Handover(q), mem)
           /\ Handover(q)[q].state = "running" /\ Handover(q)[current].state = "ready"
           /\ \A s \in Slots :
                 /\ s \notin {q, current} => Handover(q)[s] = procs[s]
                 /\ Handover(q)[s].used = procs[s].used
                 /\ Handover(q)[s].pid = procs[s].pid
                 /\ Handover(q)[s].ppid = procs[s].ppid
                 /\ Handover(q)[s].image = procs[s].image
                 /\ Handover(q)[s].saved = procs[s].saved
<1> USE DEF IInv
<1>1. procs \in Tables /\ current \in Slots /\ Kept(procs, mem)
  BY NoLostImageIsKept DEF TypeOK, Tables
<1>2. q \in Children /\ procs[q].state # "zombie"
  BY DEF Runnable
<1>3. procs[q].state = "ready" /\ q # 0 /\ \A i \in Frames : Frame(i) # q
  BY <1>2, ChildOffChain
<1>4. q # current
  BY <1>3, FrameFacts DEF Frames
<1>5. procs[current].used /\ procs[current].state = "running"
  BY <1>1, FrameFacts DEF WaitChain, Frames
<1> DEFINE A == SetState(procs, current, "ready")
           H == SetState(A, q, "running")
<1>6. /\ A \in Tables /\ A[current].state = "ready"
      /\ \A s \in Slots :
            /\ s # current => A[s] = procs[s]
            /\ A[s].used = procs[s].used /\ A[s].pid = procs[s].pid
            /\ A[s].ppid = procs[s].ppid /\ A[s].image = procs[s].image
            /\ A[s].evicted = procs[s].evicted /\ A[s].shadow = procs[s].shadow
            /\ A[s].saved = procs[s].saved
  BY <1>1, SetStateFacts
<1> HIDE DEF A
<1>7. /\ H \in Tables /\ H[q].state = "running"
      /\ \A s \in Slots :
            /\ s # q => H[s] = A[s]
            /\ H[s].used = A[s].used /\ H[s].pid = A[s].pid
            /\ H[s].ppid = A[s].ppid /\ H[s].image = A[s].image
            /\ H[s].evicted = A[s].evicted /\ H[s].shadow = A[s].shadow
            /\ H[s].saved = A[s].saved
  BY <1>6, SetStateFacts
<1>8. Handover(q) = H
  BY HandoverIs DEF A
<1> HIDE DEF H
<1>9. Kept(H, mem)
  <2>1. \A s \in Slots : H[s].state # "zombie" => procs[s].state # "zombie"
    BY <1>3, <1>5, <1>6, <1>7
  <2>2. \A s \in Slots : Intact(procs, mem, s) => Intact(H, mem, s)
    BY <1>6, <1>7 DEF Intact
  <2> QED BY <1>1, <1>6, <1>7, <2>1, <2>2 DEF Kept
<1> QED BY <1>1, <1>2, <1>3, <1>4, <1>6, <1>7, <1>8, <1>9 DEF Children

LEMMA WaitRunEffect ==
    ASSUME IInv, NEW q \in Slots, WaitRun(q)
    PROVE  /\ procs[q].used /\ procs[q].ppid = procs[current].pid
           /\ procs[q].state = "ready" /\ q # 0 /\ q # current
           /\ \A i \in Frames : Frame(i) # q
           /\ procs'[q].state = "running" /\ procs'[q].saved = "none" /\ ~procs'[q].evicted
           /\ procs'[current].state = "ready"
           /\ procs'[current].saved = procs[current].saved
           /\ \A s \in Slots :
                 /\ s \notin {q, current} => SameAt(procs, procs', s)
                 /\ procs'[s].used = procs[s].used /\ procs'[s].pid = procs[s].pid
                 /\ procs'[s].ppid = procs[s].ppid /\ procs'[s].image = procs[s].image
           /\ Kept(procs', mem')
<1>0. Runnable(q) /\ current \in Slots /\ mem \in Mems
  BY DEF WaitRun, IInv, TypeOK, Mems
<1> DEFINE H == Handover(q)
<1>1. /\ procs[q].used /\ procs[q].ppid = procs[current].pid
      /\ procs[q].state = "ready" /\ q # 0 /\ q # current
      /\ \A i \in Frames : Frame(i) # q
      /\ H \in Tables /\ Kept(H, mem)
      /\ H[q].state = "running" /\ H[current].state = "ready"
      /\ \A s \in Slots :
            /\ s \notin {q, current} => H[s] = procs[s]
            /\ H[s].used = procs[s].used /\ H[s].pid = procs[s].pid
            /\ H[s].ppid = procs[s].ppid /\ H[s].image = procs[s].image
            /\ H[s].saved = procs[s].saved
  BY <1>0, HandoverFacts
<1>2. PICK out \in EnsureResident(H, mem, q) :
        /\ ~out.procs[q].evicted
        /\ procs' = SetSaved(out.procs, q, "none") /\ mem' = out.mem
  BY DEF WaitRun, SetSaved
<1> HIDE DEF H
<1> DEFINE P == out.procs
<1>3. P \in Tables /\ Same(H, P) /\ Kept(P, out.mem)
  BY <1>0, <1>1, EnsureResidentFacts, EnsureResidentKeeps
<1> HIDE DEF P
<1> DEFINE T == SetSaved(P, q, "none")
<1>4. /\ T[q].saved = "none"
      /\ \A s \in Slots :
            /\ s # q => T[s] = P[s]
            /\ T[s].used = P[s].used /\ T[s].pid = P[s].pid
            /\ T[s].ppid = P[s].ppid /\ T[s].state = P[s].state
            /\ T[s].image = P[s].image /\ T[s].evicted = P[s].evicted
            /\ T[s].shadow = P[s].shadow
  <2> DEFINE b == "none"
  <2>1. b \in FrameStates /\ b = "none"
    BY DEF FrameStates
  <2>2. T = SetSaved(P, q, b)
    OBVIOUS
  <2> HIDE DEF b, T
  <2> QED BY <1>3, <2>1, <2>2, SetSavedFacts
<1> HIDE DEF T
<1>5. procs' = T /\ ~P[q].evicted
  BY <1>2 DEF T, P
<1>6. Kept(T, out.mem)
  BY <1>3, <1>4 DEF Kept, Intact
<1>7. procs'[q].state = "running" /\ procs'[q].saved = "none" /\ ~procs'[q].evicted
  BY <1>1, <1>3, <1>4, <1>5 DEF Same, SameAt
<1>8. procs'[current].state = "ready" /\ procs'[current].saved = procs[current].saved
  BY <1>0, <1>1, <1>3, <1>4, <1>5 DEF Same, SameAt
<1>9. \A s \in Slots :
        /\ s \notin {q, current} => SameAt(procs, procs', s)
        /\ procs'[s].used = procs[s].used /\ procs'[s].pid = procs[s].pid
        /\ procs'[s].ppid = procs[s].ppid /\ procs'[s].image = procs[s].image
  BY <1>1, <1>3, <1>4, <1>5 DEF Same, SameAt
<1> QED BY <1>1, <1>2, <1>5, <1>6, <1>7, <1>8, <1>9

LEMMA WaitNoSwapEffect ==
    ASSUME IInv, NEW q \in Slots, WaitNoSwap(q)
    PROVE  Same(procs, procs') /\ Kept(procs', mem') /\ failed'
<1>0. /\ Runnable(q) /\ current \in Slots /\ mem \in Mems
      /\ procs[current].state = "running"
  BY DEF WaitNoSwap, IInv, TypeOK, Mems, WaitChain
<1> DEFINE H == Handover(q)
<1>1. /\ procs[q].state = "ready" /\ q # current
      /\ procs[q].used
      /\ H \in Tables /\ Kept(H, mem)
      /\ H[q].state = "running" /\ H[current].state = "ready"
      /\ \A s \in Slots :
            /\ s \notin {q, current} => H[s] = procs[s]
            /\ H[s].used = procs[s].used /\ H[s].pid = procs[s].pid
            /\ H[s].ppid = procs[s].ppid /\ H[s].image = procs[s].image
            /\ H[s].saved = procs[s].saved
  BY <1>0, HandoverFacts
<1>2. PICK out \in EnsureResident(H, mem, q) :
        /\ out.procs[q].evicted
        /\ procs' = SetState(SetState(out.procs, current, "running"), q, "ready")
        /\ mem' = out.mem
        /\ failed' = (failed \/ out.short)
  BY DEF WaitNoSwap, SetState
<1> HIDE DEF H
<1> DEFINE P == out.procs
<1>3. P \in Tables /\ Same(H, P) /\ Kept(P, out.mem)
  BY <1>0, <1>1, EnsureResidentFacts, EnsureResidentKeeps
<1>10. out.short
  BY <1>0, <1>1, <1>2, EnsureResidentBrings
<1> HIDE DEF P
<1> DEFINE A == SetState(P, current, "running")
           T == SetState(A, q, "ready")
<1>4. /\ A \in Tables /\ A[current].state = "running"
      /\ \A s \in Slots :
            /\ s # current => A[s] = P[s]
            /\ A[s].used = P[s].used /\ A[s].pid = P[s].pid
            /\ A[s].ppid = P[s].ppid /\ A[s].image = P[s].image
            /\ A[s].evicted = P[s].evicted /\ A[s].shadow = P[s].shadow
            /\ A[s].saved = P[s].saved
  BY <1>0, <1>3, SetStateFacts
<1> HIDE DEF A
<1>5. /\ T[q].state = "ready"
      /\ \A s \in Slots :
            /\ s # q => T[s] = A[s]
            /\ T[s].used = A[s].used /\ T[s].pid = A[s].pid
            /\ T[s].ppid = A[s].ppid /\ T[s].image = A[s].image
            /\ T[s].evicted = A[s].evicted /\ T[s].shadow = A[s].shadow
            /\ T[s].saved = A[s].saved
  BY <1>4, SetStateFacts
<1>6. procs' = T
  BY <1>2 DEF A, P
<1> HIDE DEF T
<1>7. \A s \in Slots : T[s].state = procs[s].state
  BY <1>0, <1>1, <1>3, <1>4, <1>5 DEF Same, SameAt
<1>8. Same(procs, T)
  BY <1>1, <1>3, <1>4, <1>5, <1>7 DEF Same, SameAt
<1>9. Kept(T, out.mem)
  <2>1. \A s \in Slots : T[s].state # "zombie" => P[s].state # "zombie"
    BY <1>1, <1>3, <1>4, <1>5 DEF Same, SameAt
  <2> QED BY <1>3, <1>4, <1>5, <2>1 DEF Kept, Intact
<1> QED BY <1>2, <1>6, <1>8, <1>9, <1>10

\* The process below on the chain takes over; pt is the table in which the
\* current one is a zombie (and gets reaped) or ready with a saved frame.
LEMMA ReturnEffect ==
    ASSUME IInv, NEW pt \in Tables, stack # <<>>, ReturnToKernel(pt),
           \A s \in Slots \ {current} : pt[s] = procs[s],
           pt[current].state \in {"zombie", "ready"},
           pt[current].used, pt[current].pid = procs[current].pid,
           pt[current].ppid = procs[current].ppid, Kept(pt, mem)
    PROVE  /\ current' = stack[Len(stack)] /\ current' \in Slots \ {current}
           /\ Len(stack') = Len(stack) - 1
           /\ \A i \in 1 .. Len(stack) - 1 : stack'[i] = stack[i]
           /\ procs'[current'].state = "running"
           /\ procs'[current'].used /\ procs'[current'].saved = procs[current'].saved
           /\ pt[current].state = "zombie" =>
                 ~procs'[current].used /\ procs'[current].state = "free"
           /\ pt[current].state = "ready" => SameAt(pt, procs', current)
           /\ \A s \in Slots \ {current} :
                 /\ s # current' => SameAt(procs, procs', s)
                 /\ procs'[s].used = procs[s].used /\ procs'[s].pid = procs[s].pid
                 /\ procs'[s].ppid = procs[s].ppid /\ procs'[s].image = procs[s].image
           /\ esp0' = current' /\ nextPid' = nextPid
           /\ ~failed' => ~procs'[current'].evicted
           /\ Kept(procs', mem')
<1> DEFINE n == Len(stack)
           parent == Last(stack)
           U == SetState(pt, parent, "running")
<1>1. /\ mem \in Mems /\ current \in Slots
  BY DEF IInv, TypeOK, Mems
<1>2. n \in Nat \ {0} /\ parent = stack[n] /\ parent \in Slots
      /\ Len(Front(stack)) = n - 1
      /\ \A i \in 1 .. n - 1 : Front(stack)[i] = stack[i]
  BY PopFacts DEF IInv, TypeOK
<1>3. parent = Frame(n) /\ n \in Frames
  BY <1>2, FrameFacts DEF Frames, IInv
<1>4. /\ procs[parent].state = "ready" /\ procs[parent].used
      /\ procs[current].state = "running"
  BY <1>1, <1>2, <1>3 DEF IInv, WaitChain
<1>5. /\ current' = parent /\ stack' = Front(stack)
      /\ \E out \in EnsureResident(U, mem, parent) :
            /\ procs' = IF pt[current].state = "zombie"
                        THEN [out.procs EXCEPT ![current] = Blank] ELSE out.procs
            /\ mem' = out.mem
            /\ failed' = (failed \/ out.short)
      /\ esp0' = parent /\ nextPid' = nextPid
  BY DEF ReturnToKernel, SetState
<1> HIDE DEF n, parent
<1>6. parent # current
  BY <1>4
<1>7. /\ U \in Tables /\ U[parent].state = "running"
      /\ \A s \in Slots :
            /\ s # parent => U[s] = pt[s]
            /\ U[s].used = pt[s].used /\ U[s].pid = pt[s].pid
            /\ U[s].ppid = pt[s].ppid /\ U[s].image = pt[s].image
            /\ U[s].evicted = pt[s].evicted /\ U[s].shadow = pt[s].shadow
            /\ U[s].saved = pt[s].saved
  <2>1. U = SetState(pt, parent, "running") /\ pt \in Tables /\ parent \in Slots
    BY <1>2
  <2> HIDE DEF U
  <2>2. U \in Tables /\ U[parent].state = "running"
    BY <2>1, SetStateFacts
  <2>3. ASSUME NEW s \in Slots
        PROVE  /\ s # parent => U[s] = pt[s]
               /\ U[s].used = pt[s].used /\ U[s].pid = pt[s].pid
               /\ U[s].ppid = pt[s].ppid /\ U[s].image = pt[s].image
               /\ U[s].evicted = pt[s].evicted /\ U[s].shadow = pt[s].shadow
               /\ U[s].saved = pt[s].saved
    BY <2>1 DEF SetState, Tables
  <2> QED BY <2>2, <2>3
<1> HIDE DEF U
<1>8. Kept(U, mem)
  <2>1. \A s \in Slots : U[s].state # "zombie" => pt[s].state # "zombie"
    BY <1>2, <1>4, <1>6, <1>7
  <2> QED BY <1>7, <2>1 DEF Kept, Intact
<1>9. PICK out \in EnsureResident(U, mem, parent) :
            /\ procs' = IF pt[current].state = "zombie"
                        THEN [out.procs EXCEPT ![current] = Blank] ELSE out.procs
            /\ mem' = out.mem
            /\ failed' = (failed \/ out.short)
  BY <1>5
<1>19. out.short \/ ~out.procs[parent].evicted
  <2>1. U[parent].used /\ U[parent].state # "zombie"
    BY <1>2, <1>4, <1>6, <1>7
  <2> QED BY <1>1, <1>2, <1>7, <1>8, <2>1, EnsureResidentBrings
<1> DEFINE P == out.procs
<1>10. P \in Tables /\ Same(U, P) /\ Kept(P, mem')
  <2>1. U[parent].used /\ U[parent].state # "zombie"
    BY <1>2, <1>4, <1>6, <1>7
  <2> QED BY <1>1, <1>2, <1>7, <1>8, <1>9, <2>1, EnsureResidentFacts, EnsureResidentKeeps
<1>11. /\ procs' = IF pt[current].state = "zombie"
                   THEN [P EXCEPT ![current] = Blank] ELSE P
       /\ ~failed' => ~P[parent].evicted
  BY <1>9, <1>19
<1> HIDE DEF P
<1>12. /\ \A s \in Slots \ {current} : procs'[s] = P[s]
       /\ pt[current].state = "zombie" => procs'[current] = Blank
       /\ pt[current].state = "ready" => procs'[current] = P[current]
  BY <1>1, <1>10, <1>11 DEF Tables
<1>13. \A s \in Slots \ {current} :
         /\ s # parent => SameAt(procs, procs', s)
         /\ procs'[s].used = procs[s].used /\ procs'[s].pid = procs[s].pid
         /\ procs'[s].ppid = procs[s].ppid /\ procs'[s].image = procs[s].image
  BY <1>7, <1>10, <1>12 DEF Same, SameAt
<1>14. pt[current].state = "ready" => SameAt(pt, procs', current)
  <2>1. U[current] = pt[current]
    BY <1>1, <1>6, <1>7
  <2>2. SameAt(U, P, current)
    BY <1>1, <1>10 DEF Same
  <2>3. pt[current].state = "ready" => procs'[current] = P[current]
    BY <1>12
  <2> QED BY <2>1, <2>2, <2>3 DEF SameAt
<1>15. /\ procs'[parent].state = "running" /\ procs'[parent].used
       /\ procs'[parent].saved = procs[parent].saved
  <2>1. procs'[parent] = P[parent] /\ pt[parent] = procs[parent]
    BY <1>2, <1>6, <1>12
  <2>2. SameAt(U, P, parent)
    BY <1>2, <1>10 DEF Same
  <2>3. /\ U[parent].state = "running" /\ U[parent].used = pt[parent].used
        /\ U[parent].saved = pt[parent].saved
    BY <1>2, <1>7
  <2> QED BY <1>4, <2>1, <2>2, <2>3 DEF SameAt
<1>16. Kept(procs', mem')
  BY <1>1, <1>10, <1>12 DEF Kept, Intact, Blank
<1>17. pt[current].state = "zombie" => ~procs'[current].used /\ procs'[current].state = "free"
  BY <1>12 DEF Blank
<1>18. ~failed' => ~procs'[parent].evicted
  BY <1>2, <1>6, <1>11, <1>12
<1> QED BY <1>2, <1>5, <1>6, <1>13, <1>14, <1>15, <1>16, <1>17, <1>18 DEF n

LEMMA ExitEffect ==
    ASSUME IInv, Exit
    PROVE  /\ current # 0
           /\ current' = stack[Len(stack)] /\ current' \in Slots \ {current}
           /\ stack # <<>> /\ Len(stack') = Len(stack) - 1
           /\ \A i \in 1 .. Len(stack) - 1 : stack'[i] = stack[i]
           /\ procs'[current'].state = "running"
           /\ procs'[current'].used /\ procs'[current'].saved = procs[current'].saved
           /\ ~procs'[current].used /\ procs'[current].state = "free"
           /\ \A s \in Slots \ {current} :
                 /\ s # current' => SameAt(procs, procs', s)
                 /\ procs'[s].used = procs[s].used /\ procs'[s].pid = procs[s].pid
                 /\ procs'[s].ppid = procs[s].ppid /\ procs'[s].image = procs[s].image
           /\ esp0' = current' /\ nextPid' = nextPid
           /\ ~failed' => ~procs'[current'].evicted
           /\ Kept(procs', mem')
<1> DEFINE Z == SetState(procs, current, "zombie")
           pt == SetSaved(Z, current, "none")
<1>1. procs \in Tables /\ current \in Slots /\ procs[current].used
      /\ Kept(procs, mem)
  BY NoLostImageIsKept, FrameFacts DEF IInv, TypeOK, Tables, WaitChain, Frames
<1>2. stack # <<>> /\ ReturnToKernel(pt) /\ current # 0
  BY DEF Exit, SetState, SetSaved, IInv, PidsUnique
<1>3. /\ Z \in Tables /\ Z[current].state = "zombie"
      /\ \A s \in Slots :
            /\ s # current => Z[s] = procs[s]
            /\ Z[s].used = procs[s].used /\ Z[s].pid = procs[s].pid
            /\ Z[s].ppid = procs[s].ppid
  <2>1. Z = SetState(procs, current, "zombie")
    OBVIOUS
  <2> HIDE DEF Z
  <2> HIDE DEF pt
  <2>2. Z \in Tables /\ Z[current].state = "zombie"
    BY <1>1, <2>1, SetStateFacts
  <2> QED BY <1>1, <2>1, <2>2 DEF SetState, Tables
<1> HIDE DEF Z
<1>4. /\ pt \in Tables
      /\ \A s \in Slots :
            /\ s # current => pt[s] = Z[s]
            /\ pt[s].used = Z[s].used /\ pt[s].pid = Z[s].pid
            /\ pt[s].ppid = Z[s].ppid /\ pt[s].state = Z[s].state
  <2> DEFINE b == "none"
  <2>1. b \in FrameStates /\ pt = SetSaved(Z, current, b)
    BY DEF FrameStates
  <2> HIDE DEF b, pt
  <2> QED BY <1>1, <1>3, <2>1, SetSavedFacts
<1> HIDE DEF pt
<1>5. Kept(pt, mem)
  BY <1>1, <1>3, <1>4 DEF Kept, Intact
<1>6. /\ pt[current].state = "zombie" /\ pt[current].used
      /\ pt[current].pid = procs[current].pid /\ pt[current].ppid = procs[current].ppid
      /\ \A s \in Slots \ {current} : pt[s] = procs[s]
  BY <1>1, <1>3, <1>4
<1> QED BY <1>2, <1>4, <1>5, <1>6, ReturnEffect

LEMMA YieldEffect ==
    ASSUME IInv, Yield
    PROVE  /\ current # 0
           /\ current' = stack[Len(stack)] /\ current' \in Slots \ {current}
           /\ stack # <<>> /\ Len(stack') = Len(stack) - 1
           /\ \A i \in 1 .. Len(stack) - 1 : stack'[i] = stack[i]
           /\ procs'[current'].state = "running"
           /\ procs'[current'].used /\ procs'[current'].saved = procs[current'].saved
           /\ procs'[current].used /\ procs'[current].state = "ready"
           /\ procs'[current].pid = procs[current].pid
           /\ procs'[current].ppid = procs[current].ppid
           /\ \A s \in Slots \ {current} :
                 /\ s # current' => SameAt(procs, procs', s)
                 /\ procs'[s].used = procs[s].used /\ procs'[s].pid = procs[s].pid
                 /\ procs'[s].ppid = procs[s].ppid /\ procs'[s].image = procs[s].image
           /\ esp0' = current' /\ nextPid' = nextPid
           /\ ~failed' => ~procs'[current'].evicted
           /\ Kept(procs', mem')
<1> DEFINE Z == SetState(procs, current, "ready")
           pt == SetSaved(Z, current, "kept")
<1>1. procs \in Tables /\ current \in Slots /\ procs[current].used
      /\ procs[current].state = "running" /\ Kept(procs, mem)
  BY NoLostImageIsKept, FrameFacts DEF IInv, TypeOK, Tables, WaitChain, Frames
<1>2. stack # <<>> /\ ReturnToKernel(pt) /\ current # 0
  BY DEF Yield, SetState, SetSaved
<1>3. /\ Z \in Tables /\ Z[current].state = "ready"
      /\ \A s \in Slots :
            /\ s # current => Z[s] = procs[s]
            /\ Z[s].used = procs[s].used /\ Z[s].pid = procs[s].pid
            /\ Z[s].ppid = procs[s].ppid /\ Z[s].image = procs[s].image
            /\ Z[s].evicted = procs[s].evicted /\ Z[s].shadow = procs[s].shadow
  BY <1>1, SetStateFacts
<1> HIDE DEF Z
<1>4. /\ pt \in Tables
      /\ \A s \in Slots :
            /\ s # current => pt[s] = Z[s]
            /\ pt[s].used = Z[s].used /\ pt[s].pid = Z[s].pid
            /\ pt[s].ppid = Z[s].ppid /\ pt[s].image = Z[s].image
            /\ pt[s].evicted = Z[s].evicted /\ pt[s].shadow = Z[s].shadow
            /\ pt[s].state = Z[s].state
  <2> DEFINE b == "kept"
  <2>1. b \in FrameStates /\ pt = SetSaved(Z, current, b)
    BY DEF FrameStates
  <2> HIDE DEF b, pt
  <2> QED BY <1>1, <1>3, <2>1, SetSavedFacts
<1> HIDE DEF pt
<1>5. Kept(pt, mem)
  BY <1>1, <1>3, <1>4 DEF Kept, Intact
<1>6. /\ pt[current].state = "ready" /\ pt[current].used
      /\ pt[current].pid = procs[current].pid /\ pt[current].ppid = procs[current].ppid
      /\ \A s \in Slots \ {current} : pt[s] = procs[s]
  BY <1>1, <1>3, <1>4
<1>7. SameAt(pt, procs', current)
  BY <1>2, <1>4, <1>5, <1>6, ReturnEffect
<1> QED BY <1>2, <1>4, <1>5, <1>6, <1>7, ReturnEffect DEF SameAt

\* Everything of a process but its trap frame is as before.
AllButSaved(s) ==
    /\ procs'[s].used = procs[s].used /\ procs'[s].pid = procs[s].pid
    /\ procs'[s].ppid = procs[s].ppid /\ procs'[s].state = procs[s].state
    /\ procs'[s].image = procs[s].image /\ procs'[s].evicted = procs[s].evicted
    /\ procs'[s].shadow = procs[s].shadow

\* A trap on the stack of another process costs that process its frame.
LEMMA StrayTrapEffect ==
    ASSUME TypeOK, StrayTrap
    PROVE  /\ esp0 \in Slots /\ procs[esp0].saved = "kept"
           /\ esp0 # current /\ current # 0
           /\ procs'[esp0].saved = "lost"
           /\ \A s \in Slots \ {esp0} : SameAt(procs, procs', s)
           /\ \A s \in Slots : AllButSaved(s)
           /\ UNCHANGED <<mem, current, stack, nextPid, esp0, failed>>
<1>1. PICK b \in FrameStates : b = "lost"
  BY DEF FrameStates
<1>2. procs' = SetSaved(procs, esp0, b) /\ esp0 \in Slots /\ procs \in Tables
  BY <1>1 DEF StrayTrap, SetSaved, TypeOK, Tables
<1>3. /\ procs'[esp0].saved = b
      /\ \A s \in Slots : AllButSaved(s) /\ (s # esp0 => procs'[s] = procs[s])
  BY <1>2, SetSavedFacts DEF AllButSaved
<1>4. \A s \in Slots \ {esp0} : SameAt(procs, procs', s)
  BY <1>3 DEF SameAt
<1> QED BY <1>1, <1>2, <1>3, <1>4 DEF StrayTrap, OwnStack

-----------------------------------------------------------------------------
(* proc_kill *)

\* Whoever is reached passes it on to the next process of the chain, so if one
\* process of the chain is reached then the caller is.
LEMMA ReachedSparesChain ==
    ASSUME IInv, NEW q \in Slots, current \notin Reached(q), NEW i \in Frames
    PROVE  Frame(i) \notin Reached(q)
<1> DEFINE n == Len(stack)
           T == {k \in Nat : k <= n /\ Frame(n + 1 - k) \in Reached(q)}
<1>1. /\ n \in Nat /\ Frame(n + 1) = current
      /\ \A k \in Frames : Frame(k) \in Slots
  BY FrameFacts DEF IInv
<1> HIDE DEF n
<1>2. SUFFICES ASSUME Frame(i) \in Reached(q) PROVE FALSE
  OBVIOUS
<1>3. n + 1 - i \in T
  BY <1>1, <1>2 DEF Frames, n
<1>4. PICK k \in T : \A l \in T : ~(l < k)
  BY <1>3, LeastElement
<1>5. k # 0
  BY <1>1, <1>4
<1>6. n + 1 - k \in 1 .. n /\ Frame(n + 1 - k) \in Slots
  BY <1>1, <1>4, <1>5 DEF Frames, n
<1>7. Frame(n + 1 - (k - 1)) \in Slots /\ procs[Frame(n + 1 - (k - 1))].used
      /\ n + 1 - (k - 1) = (n + 1 - k) + 1
  BY <1>1, <1>6, <1>4 DEF IInv, WaitChain, Frames, n
<1>8. /\ procs[Frame(n + 1 - k)].state = "ready"
      /\ procs[Frame((n + 1 - k) + 1)].ppid = procs[Frame(n + 1 - k)].pid
  BY <1>6 DEF IInv, WaitChain, n
<1>9. Frame(n + 1 - (k - 1)) \in Reached(q)
  <2> SUFFICES ASSUME NEW C \in SUBSET Slots, q \in C, Closed(C)
               PROVE  Frame(n + 1 - (k - 1)) \in C
    BY <1>7 DEF Reached
  <2>1. Frame(n + 1 - k) \in C
    BY <1>4 DEF Reached
  <2> QED BY <2>1, <1>7, <1>8 DEF Closed
<1>10. k - 1 \in T
  BY <1>1, <1>4, <1>5, <1>9
<1> QED BY <1>4, <1>10

LEMMA KillEffect ==
    ASSUME IInv, NEW q \in Slots, Kill(q)
    PROVE  \/ procs' = procs /\ Kept(procs', mem')
           \/ /\ procs[q].state # "free"
              /\ procs'[q].used = procs[q].used /\ procs'[q].pid = procs[q].pid
              /\ procs'[q].ppid = procs[q].ppid /\ procs'[q].state = "zombie"
              /\ procs'[q].image = procs[q].image
              /\ \A s \in Slots \ {q} :
                    \/ s # 0 /\ procs'[s] = Blank
                    \/ procs'[s] = procs[s]
              /\ \A i \in Frames : procs'[Frame(i)] = procs[Frame(i)]
              /\ Kept(procs', mem')
<1>0. Kept(procs, mem) /\ mem' = mem
  BY NoLostImageIsKept DEF IInv, Kill
<1>1. CASE current \in Reached(q)
  BY <1>0, <1>1 DEF Kill
<1>2. CASE current \notin Reached(q)
  <2> DEFINE Z == [procs[q] EXCEPT !.state = "zombie", !.saved = "none"]
  <2>1. procs' = [s \in Slots |-> IF s = q THEN Z
                                  ELSE IF s \in Reached(q) THEN Blank ELSE procs[s]]
    BY <1>2 DEF Kill
  <2>2. Z.used = procs[q].used /\ Z.pid = procs[q].pid /\ Z.ppid = procs[q].ppid
        /\ Z.image = procs[q].image /\ Z.state = "zombie"
    BY DEF IInv, TypeOK, ProcRecord
  <2> HIDE DEF Z
  <2>3. q \in Reached(q)
    BY DEF Reached
  <2>4. \A i \in Frames : Frame(i) \notin Reached(q) /\ Frame(i) \in Slots
    BY <1>2, ReachedSparesChain, FrameFacts DEF IInv
  <2>5. 0 \notin Reached(q)
    <3>1. 1 \in Frames /\ Frame(1) = 0
      BY FrameFacts DEF IInv, WaitChain, Frames
    <3> QED BY <2>4, <3>1
  <2>6. procs[q].state # "free"
    BY DEF Kill, IInv, PidsUnique
  <2>7. Kept(procs', mem')
    BY <1>0, <2>1, <2>2 DEF Kept, Intact, Blank
  <2>8. \A i \in Frames : procs'[Frame(i)] = procs[Frame(i)]
    BY <2>1, <2>3, <2>4
  <2>9. \A s \in Slots \ {q} : \/ s # 0 /\ procs'[s] = Blank
                               \/ procs'[s] = procs[s]
    BY <2>1, <2>5
  <2> QED BY <2>1, <2>2, <2>6, <2>7, <2>8, <2>9
<1> QED BY <1>1, <1>2

-----------------------------------------------------------------------------
(* The invariant *)

\* Steps that create no process keep pids unique.
LEMMA PidsKept ==
    ASSUME TypeOK, PidsUnique, nextPid' = nextPid,
           \A s \in Slots :
             \/ s # 0 /\ ~procs'[s].used /\ procs'[s].state = "free"
             \/ /\ procs'[s].used = procs[s].used /\ procs'[s].pid = procs[s].pid
                /\ procs'[s].ppid = procs[s].ppid
                /\ s = 0 => procs'[s].image = procs[s].image
                /\ procs'[s].state = "free" <=> procs[s].state = "free"
    PROVE  PidsUnique'
<1>1. 0 \in Slots
  BY SizesAssumption DEF Slots
<1> QED BY <1>1 DEF PidsUnique

\* Steps that leave the chain and its processes alone keep it a chain.
LEMMA ChainKept ==
    ASSUME TypeOK, WaitChain, stack' = stack, current' = current,
           \A i \in Frames : SameAt(procs, procs', Frame(i)),
           \A s \in Slots : procs'[s].state = "running" <=> procs[s].state = "running"
    PROVE  WaitChain'
<1>1. /\ Frames' = Frames
      /\ \A i \in Frames : Frame(i)' = Frame(i)
      /\ Frame(1)' = Frame(1)
  BY DEF Frames, Frame
<1>2. Len(stack) \in Nat /\ Len(stack') = Len(stack)
  BY FrameFacts
<1>3. \A i \in 1 .. Len(stack) : i \in Frames /\ i + 1 \in Frames
  BY <1>2 DEF Frames
<1>4. \A i \in Frames : /\ procs'[Frame(i)].used = procs[Frame(i)].used
                        /\ procs'[Frame(i)].pid = procs[Frame(i)].pid
                        /\ procs'[Frame(i)].ppid = procs[Frame(i)].ppid
                        /\ procs'[Frame(i)].state = procs[Frame(i)].state
                        /\ procs'[Frame(i)].saved = procs[Frame(i)].saved
  BY DEF SameAt
<1>5. \A i \in 1 .. Len(stack) : Frame(i)' = Frame(i) /\ Frame(i + 1)' = Frame(i + 1)
  BY <1>1, <1>3
<1>6. \A i \in 1 .. Len(stack) :
        /\ procs'[Frame(i)].state = "ready"
        /\ procs'[Frame(i + 1)].ppid = procs'[Frame(i)].pid
  BY <1>3, <1>4 DEF WaitChain
<1>7. \A i \in Frames : procs'[Frame(i)].used /\ procs'[Frame(i)].saved = "none"
  BY <1>4 DEF WaitChain
<1>8. \A i, j \in Frames : i < j => procs'[Frame(i)].pid < procs'[Frame(j)].pid
  BY <1>4 DEF WaitChain
<1>9. \A s \in Slots : procs'[s].state = "running" <=> s = current'
  BY DEF WaitChain
<1> QED BY <1>1, <1>2, <1>5, <1>6, <1>7, <1>8, <1>9 DEF WaitChain

\* The child joins the chain.
LEMMA ChainPushed ==
    ASSUME IInv, NEW q \in Slots, WaitRun(q)
    PROVE  WaitChain'
<1> DEFINE n == Len(stack)
<1>1. n \in Nat /\ (\A i \in Frames : Frame(i) \in Slots)
      /\ (\A i \in 1 .. n : Frame(i) = stack[i]) /\ Frame(n + 1) = current
  BY FrameFacts DEF IInv
<1>2. stack' = Append(stack, current) /\ current' = q
  BY DEF WaitRun
<1>3. Len(stack') = n + 1 /\ stack'[n + 1] = current
      /\ \A i \in 1 .. n : stack'[i] = stack[i]
  BY <1>2, AppendProperties DEF IInv, TypeOK
<1>4. /\ procs[q].used /\ procs[q].ppid = procs[current].pid
      /\ procs[q].state = "ready" /\ q # 0 /\ q # current
      /\ \A i \in Frames : Frame(i) # q
      /\ procs'[q].state = "running" /\ procs'[q].saved = "none" /\ ~procs'[q].evicted
      /\ procs'[current].state = "ready"
      /\ procs'[current].saved = procs[current].saved
      /\ \A s \in Slots :
            /\ s \notin {q, current} => SameAt(procs, procs', s)
            /\ procs'[s].used = procs[s].used /\ procs'[s].pid = procs[s].pid
            /\ procs'[s].ppid = procs[s].ppid /\ procs'[s].image = procs[s].image
  BY WaitRunEffect
<1> HIDE DEF n
<1>5. /\ Frames = 1 .. n + 1 /\ Frames' = 1 .. n + 2
      /\ \A i \in Frames : Frame(i)' = Frame(i)
      /\ Frame(n + 2)' = q
  BY <1>1, <1>2, <1>3 DEF Frames, Frame, n
<1>6. \A i \in 1 .. n : Frame(i) # current
  BY <1>1, <1>5, FramesDistinct DEF IInv
<1>7. \A i \in Frames : /\ procs'[Frame(i)].state = "ready"
                        /\ procs'[Frame(i)].used /\ procs'[Frame(i)].saved = "none"
                        /\ procs'[Frame(i)].pid = procs[Frame(i)].pid
                        /\ procs'[Frame(i)].ppid = procs[Frame(i)].ppid
  <2> SUFFICES ASSUME NEW i \in Frames
               PROVE  /\ procs'[Frame(i)].state = "ready"
                      /\ procs'[Frame(i)].used /\ procs'[Frame(i)].saved = "none"
                      /\ procs'[Frame(i)].pid = procs[Frame(i)].pid
                      /\ procs'[Frame(i)].ppid = procs[Frame(i)].ppid
    OBVIOUS
  <2>1. procs[Frame(i)].used /\ procs[Frame(i)].saved = "none"
    BY DEF IInv, WaitChain
  <2>2. CASE i = n + 1
    BY <1>1, <1>4, <2>1, <2>2
  <2>3. CASE i \in 1 .. n
    <3>1. procs[Frame(i)].state = "ready"
      BY <2>3 DEF IInv, WaitChain, n
    <3> QED BY <1>1, <1>4, <1>6, <2>1, <2>3, <3>1 DEF SameAt
  <2> QED BY <1>1, <1>5, <2>2, <2>3
<1> DEFINE F(i) == IF i = n + 2 THEN q ELSE Frame(i)
<1>f. /\ \A i \in 1 .. n + 2 : Frame(i)' = F(i)
      /\ \A i \in 1 .. n + 1 : F(i) = Frame(i)
      /\ F(n + 2) = q /\ Frame(n + 1) = current
  <2>1. \A i \in 1 .. n + 2 : Frame(i)' = IF i <= n + 1 THEN stack'[i] ELSE current'
    BY <1>3 DEF Frame, n
  <2>2. \A i \in 1 .. n + 1 : Frame(i) = stack'[i]
    BY <1>1, <1>3 DEF Frame, n
  <2>3. \A i \in 1 .. n + 2 : \/ i \in 1 .. n + 1 /\ i <= n + 1 /\ i # n + 2
                              \/ i = n + 2 /\ ~(i <= n + 1)
    BY <1>1
  <2>4. \A i \in 1 .. n + 1 : i \in 1 .. n + 2 /\ i # n + 2
    BY <1>1
  <2>5. \A i \in 1 .. n + 2 : Frame(i)' = F(i)
    <3> TAKE i \in 1 .. n + 2
    <3>1. CASE i = n + 2
      BY <1>2, <2>1, <2>3, <3>1
    <3>2. CASE i # n + 2
      BY <2>1, <2>2, <2>3, <3>2
    <3> QED BY <3>1, <3>2
  <2>6. \A i \in 1 .. n + 1 : F(i) = Frame(i)
    BY <2>4
  <2> QED BY <1>1, <2>5, <2>6
<1> HIDE DEF F
<1>g. \A i \in 1 .. n + 2 : /\ procs'[F(i)].used /\ procs'[F(i)].saved = "none"
                           /\ procs'[F(i)].pid = procs[F(i)].pid
                           /\ procs'[F(i)].ppid = procs[F(i)].ppid
  <2>1. \A i \in 1 .. n + 2 : i \in Frames \/ i = n + 2
    BY <1>1, <1>5
  <2>2. \A i \in Frames : F(i) = Frame(i)
    BY <1>5, <1>f
  <2> QED BY <1>4, <1>7, <1>f, <2>1, <2>2
<1>8. \A i \in 1 .. n + 1 :
        /\ procs'[F(i)].state = "ready"
        /\ procs'[F(i + 1)].ppid = procs'[F(i)].pid
  <2> SUFFICES ASSUME NEW i \in 1 .. n + 1
               PROVE  /\ procs'[F(i)].state = "ready"
                      /\ procs[F(i + 1)].ppid = procs[F(i)].pid
    BY <1>1, <1>g
  <2>1. procs'[F(i)].state = "ready"
    BY <1>5, <1>7, <1>f
  <2>2. CASE i = n + 1
    <3>1. F(i) = current /\ F(i + 1) = q
      BY <1>1, <1>f, <2>2
    <3> QED BY <1>4, <2>1, <3>1
  <2>3. CASE i \in 1 .. n
    <3>1. procs[Frame(i + 1)].ppid = procs[Frame(i)].pid
      BY <2>3 DEF IInv, WaitChain, n
    <3>2. F(i) = Frame(i) /\ F(i + 1) = Frame(i + 1)
      BY <1>1, <1>f, <2>3
    <3> QED BY <2>1, <3>1, <3>2
  <2> QED BY <1>1, <2>2, <2>3
<1>10. \A i, j \in 1 .. n + 2 : i < j => procs'[F(i)].pid < procs'[F(j)].pid
  <2> SUFFICES ASSUME NEW i \in 1 .. n + 2, NEW j \in 1 .. n + 2, i < j
               PROVE  procs[F(i)].pid < procs[F(j)].pid
    BY <1>g
  <2>1. i \in Frames /\ n + 1 \in Frames /\ F(i) = Frame(i)
    BY <1>1, <1>5, <1>f
  <2>2. CASE j \in Frames
    BY <1>5, <1>f, <2>1, <2>2 DEF IInv, WaitChain
  <2>3. CASE j = n + 2
    <3>1. \A s \in Slots : procs[s].pid \in Int
      BY DEF IInv, TypeOK, ProcRecord, Pids
    <3>2. procs[current].pid < procs[q].pid
      BY ChildOffChain DEF WaitRun, Runnable, IInv
    <3>3. i = n + 1 \/ procs[Frame(i)].pid < procs[current].pid
      BY <1>1, <1>5, <1>f, <2>1 DEF IInv, WaitChain
    <3>4. CASE i = n + 1
      BY <1>f, <2>1, <2>3, <3>2, <3>4
    <3>5. CASE procs[Frame(i)].pid < procs[current].pid
      <4>1. Frame(i) \in Slots /\ current \in Slots
        BY <1>1, <2>1 DEF IInv, TypeOK
      <4>2. procs[Frame(i)].pid < procs[q].pid
        BY <3>1, <3>2, <3>5, <4>1
      <4> QED BY <1>f, <2>1, <2>3, <4>2
    <3> QED BY <3>3, <3>4, <3>5
  <2> QED BY <1>1, <1>5, <2>2, <2>3
<1>11. \A s \in Slots : procs'[s].state = "running" <=> s = current'
  <2> SUFFICES ASSUME NEW s \in Slots PROVE procs'[s].state = "running" <=> s = q
    BY <1>2
  <2>1. procs[s].state = "running" <=> s = current
    BY DEF IInv, WaitChain
  <2> QED BY <1>4, <2>1 DEF SameAt
<1>12. Frame(1)' = 0
  BY <1>1, <1>5 DEF IInv, WaitChain
<1>13. Len(stack') = n + 1
  BY <1>3 DEF n
<1>14. \A i \in 1 .. n + 1 : Frame(i)' = F(i) /\ Frame(i + 1)' = F(i + 1)
  BY <1>1, <1>f
<1>15. \A i \in 1 .. Len(stack') : /\ procs'[Frame(i)'].state = "ready"
                                  /\ procs'[Frame(i + 1)'].ppid = procs'[Frame(i)'].pid
  BY <1>8, <1>13, <1>14
<1>16. \A i \in Frames' : procs'[Frame(i)'].used /\ procs'[Frame(i)'].saved = "none"
  BY <1>5, <1>f, <1>g
<1>17. \A i, j \in Frames' : i < j => procs'[Frame(i)'].pid < procs'[Frame(j)'].pid
  BY <1>5, <1>f, <1>10
<1> QED BY <1>11, <1>12, <1>15, <1>16, <1>17 DEF WaitChain

\* The last process leaves the chain and the one that waited for it runs.
LEMMA ChainPopped ==
    ASSUME IInv, stack # <<>>, current' = stack[Len(stack)],
           Len(stack') = Len(stack) - 1,
           \A i \in 1 .. Len(stack) - 1 : stack'[i] = stack[i],
           procs'[current].state # "running",
           procs'[current'].state = "running",
           procs'[current'].used, procs'[current'].saved = procs[current'].saved,
           \A s \in Slots \ {current} :
              /\ s # current' => SameAt(procs, procs', s)
              /\ procs'[s].used = procs[s].used /\ procs'[s].pid = procs[s].pid
              /\ procs'[s].ppid = procs[s].ppid /\ procs'[s].image = procs[s].image
    PROVE  WaitChain'
<1> DEFINE n == Len(stack)
<1>1. /\ n \in Nat /\ n > 0
      /\ \A i \in Frames : Frame(i) \in Slots
      /\ \A i \in 1 .. n : Frame(i) = stack[i]
      /\ Frame(n + 1) = current
  <2>1. n # 0
    BY EmptySeq DEF IInv, TypeOK
  <2> QED BY <2>1, FrameFacts DEF IInv
<1>2. /\ Len(stack') = n - 1
      /\ \A i \in 1 .. n - 1 : stack'[i] = stack[i]
      /\ current' = Frame(n)
  BY <1>1
<1> HIDE DEF n
<1>3. Frames = 1 .. n + 1 /\ Frames' = 1 .. n
  BY <1>1, <1>2 DEF Frames, n
<1>4. \A i \in 1 .. n : i \in Frames /\ i + 1 \in Frames /\ i # n + 1
  BY <1>1, <1>3
<1>5. n \in 1 .. n /\ n + 1 \in Frames
  BY <1>1, <1>3
<1>6. \A i \in 1 .. n : Frame(i)' = IF i <= n - 1 THEN stack'[i] ELSE current'
  BY <1>2 DEF Frame
<1>7. \A i \in 1 .. n : Frame(i)' = Frame(i)
  <2> TAKE i \in 1 .. n
  <2>1. (i \in 1 .. n - 1 /\ i <= n - 1) \/ (i = n /\ ~(i <= n - 1))
    BY <1>1
  <2>2. CASE i \in 1 .. n - 1 /\ i <= n - 1
    <3>1. Frame(i)' = stack'[i]
      BY <1>6, <2>2
    <3>2. stack'[i] = stack[i]
      BY <1>2, <2>2
    <3>3. Frame(i) = stack[i]
      BY <1>1
    <3> QED BY <3>1, <3>2, <3>3
  <2>3. CASE i = n /\ ~(i <= n - 1)
    BY <1>2, <1>6, <2>3
  <2> QED BY <2>1, <2>2, <2>3
<1>8. \A i \in 1 .. n : Frame(i) \in Slots \ {current}
  BY <1>1, <1>4, <1>5, FramesDistinct DEF IInv
<1>9. \A i \in 1 .. n : /\ procs'[Frame(i)].used /\ procs'[Frame(i)].saved = "none"
                        /\ procs'[Frame(i)].pid = procs[Frame(i)].pid
                        /\ procs'[Frame(i)].ppid = procs[Frame(i)].ppid
  <2> TAKE i \in 1 .. n
  <2>1. procs[Frame(i)].used /\ procs[Frame(i)].saved = "none"
    BY <1>4 DEF IInv, WaitChain
  <2>2. CASE Frame(i) = current'
    BY <1>8, <2>1, <2>2
  <2>3. CASE Frame(i) # current'
    BY <1>8, <2>1, <2>3 DEF SameAt
  <2> QED BY <2>2, <2>3
<1>10. \A i \in 1 .. n - 1 :
          /\ procs'[Frame(i)].state = "ready"
          /\ procs'[Frame(i + 1)].ppid = procs'[Frame(i)].pid
  <2> SUFFICES ASSUME NEW i \in 1 .. n - 1
               PROVE  /\ procs'[Frame(i)].state = "ready"
                      /\ procs'[Frame(i + 1)].ppid = procs'[Frame(i)].pid
    OBVIOUS
  <2>1. i \in 1 .. n /\ i + 1 \in 1 .. n /\ i # n
    BY <1>1
  <2>2. procs[Frame(i)].state = "ready" /\ procs[Frame(i + 1)].ppid = procs[Frame(i)].pid
    BY <2>1 DEF IInv, WaitChain, n
  <2>3. Frame(i) # current'
    BY <1>2, <1>4, <1>5, <2>1, FramesDistinct DEF IInv
  <2>4. procs'[Frame(i)].state = "ready"
    BY <1>8, <2>1, <2>2, <2>3 DEF SameAt
  <2> QED BY <1>9, <2>1, <2>2, <2>4
<1>11. \A i, j \in 1 .. n : i < j => procs'[Frame(i)].pid < procs'[Frame(j)].pid
  BY <1>4, <1>9 DEF IInv, WaitChain
<1>12. \A s \in Slots : procs'[s].state = "running" <=> s = current'
  <2> TAKE s \in Slots
  <2>1. procs[s].state = "running" <=> s = current
    BY DEF IInv, WaitChain
  <2>2. current' # current
    BY <1>2, <1>5, <1>8
  <2> QED BY <2>1, <2>2 DEF SameAt
<1>13. Frame(1)' = 0
  <2>1. 1 \in 1 .. n
    BY <1>1
  <2> QED BY <1>7, <2>1 DEF IInv, WaitChain
<1>14. \A i \in 1 .. Len(stack') : i \in 1 .. n - 1 /\ i \in 1 .. n /\ i + 1 \in 1 .. n
  BY <1>1, <1>2
<1> QED BY <1>3, <1>7, <1>9, <1>10, <1>11, <1>12, <1>13, <1>14 DEF WaitChain

-----------------------------------------------------------------------------
(* Every step keeps the invariant *)

\* A free slot becomes a process, or is leaked.
LEMMA PidsBorn ==
    ASSUME TypeOK, PidsUnique, WaitChain, nextPid' \in {nextPid, nextPid + 1},
           NEW f \in Slots \ {0}, ~procs[f].used, procs'[f].used,
           \/ /\ procs'[f].state = "free"
              /\ procs'[f].pid = 0 /\ procs'[f].ppid = 0
           \/ /\ nextPid' = nextPid + 1 /\ procs'[f].state # "free"
              /\ procs'[f].pid = nextPid /\ procs'[f].ppid = procs[current].pid,
           \A s \in Slots \ {f} : SameAt(procs, procs', s)
    PROVE  PidsUnique'
<1> USE DEF PidsUnique, SameAt
<1>1. 0 \in Slots \ {f} /\ current \in Slots
  BY SizesAssumption DEF Slots, TypeOK
<1>2. nextPid \in Nat /\ nextPid > 0 /\ nextPid' \in Nat /\ nextPid <= nextPid'
  BY DEF TypeOK
<1>3. \A s \in Slots : procs[s].pid \in Nat /\ procs[s].ppid \in Nat
  BY DEF TypeOK, ProcRecord, Pids
<1>4. procs[current].used /\ procs[current].state # "free"
  BY <1>1, FrameFacts DEF WaitChain, Frames
<1>5. procs[current].pid < nextPid
  BY <1>1, <1>4
<1>6. \A s \in Slots \ {f} :
        /\ procs'[s].used = procs[s].used /\ procs'[s].pid = procs[s].pid
        /\ procs'[s].ppid = procs[s].ppid /\ procs'[s].state = procs[s].state
        /\ procs'[s].image = procs[s].image
  OBVIOUS
<1>7. /\ procs'[0].used /\ procs'[0].pid = 1 /\ procs'[0].ppid = 0
      /\ procs'[0].image = {}
  BY <1>1, <1>6
<1>8. ASSUME NEW s \in Slots, procs'[s].used, procs'[s].state # "free"
      PROVE  procs'[s].ppid < procs'[s].pid /\ procs'[s].pid < nextPid'
  <2>1. CASE s = f
    BY <1>2, <1>5, <1>8, <2>1
  <2>2. CASE s # f
    <3>1. procs[s].ppid < procs[s].pid /\ procs[s].pid < nextPid
      BY <1>6, <1>8, <2>2
    <3>2. procs[s].pid < nextPid'
      BY <1>2, <1>3, <3>1
    <3> QED BY <1>6, <2>2, <3>1, <3>2
  <2> QED BY <2>1, <2>2
<1>9. ASSUME NEW s \in Slots, procs'[s].used, procs'[s].state # "free",
             NEW t \in Slots, procs'[t].used, procs'[t].pid = procs'[s].pid
      PROVE  t = s
  <2>1. \A r \in Slots \ {f} : procs[r].used => procs[r].pid < nextPid
    BY <1>2
  <2>2. procs'[s].pid > 0
    <3>1. CASE s = f
      BY <1>2, <1>9, <3>1
    <3>2. CASE s # f
      <4>1. procs[s].ppid < procs[s].pid
        BY <1>6, <1>9, <3>2
      <4> QED BY <1>3, <1>6, <3>2, <4>1
    <3> QED BY <3>1, <3>2
  <2>3. CASE s = f
    BY <1>2, <1>3, <1>6, <1>9, <2>1, <2>2, <2>3
  <2>4. CASE s # f /\ t = f
    BY <1>2, <1>3, <1>6, <1>9, <2>1, <2>2, <2>4
  <2>5. CASE s # f /\ t # f
    BY <1>6, <1>9, <2>5
  <2> QED BY <2>3, <2>4, <2>5
<1>10. \A s \in Slots : /\ procs'[s].used /\ procs'[s].state = "free"
                            => procs'[s].pid = 0 /\ procs'[s].ppid = 0
                        /\ ~procs'[s].used => procs'[s].state = "free"
  BY <1>2, <1>6
<1> QED BY <1>7, <1>8, <1>9, <1>10

\* The slot that a spawn takes is not on the chain.
LEMMA ChainUntouched ==
    ASSUME TypeOK, WaitChain, stack' = stack, current' = current,
           NEW f \in Slots, ~procs[f].used, procs'[f].state # "running",
           \A s \in Slots \ {f} : SameAt(procs, procs', s)
    PROVE  WaitChain'
<1>1. \A i \in Frames : Frame(i) \in Slots \ {f}
  BY FrameFacts DEF WaitChain
<1>2. current \in Slots /\ current # f
  BY <1>1, FrameFacts DEF Frames
<1>3. \A s \in Slots : procs'[s].state = "running" <=> procs[s].state = "running"
  BY <1>2 DEF WaitChain, SameAt
<1> QED BY <1>1, <1>3, ChainKept

\* The invariant holds after a step that leaves the chain as it is and sets
\* failed, or that brings nothing but the table up to date.
LEMMA ReturnKept ==
    ASSUME IInv, UNCHANGED <<current, esp0, failed>>,
           procs'[current].evicted = procs[current].evicted
    PROVE  ReturnIsSafe'
  BY DEF IInv, ReturnIsSafe, Resident, OwnStack

LEMMA CurrentUsed == ASSUME TypeOK, WaitChain PROVE procs[current].used
  BY FrameFacts DEF WaitChain, Frames

\* The process that waits for the running one.
LEMMA ParentReady ==
    ASSUME IInv, stack # <<>>
    PROVE  procs[stack[Len(stack)]].state = "ready" /\ procs[stack[Len(stack)]].saved = "none"
<1>1. Len(stack) \in 1 .. Len(stack) /\ Len(stack) \in Frames
      /\ Frame(Len(stack)) = stack[Len(stack)]
  BY EmptySeq, FrameFacts DEF IInv, TypeOK, Frames
<1> QED BY <1>1 DEF IInv, WaitChain

LEMMA IInvStep ==
    ASSUME IInv, [Next]_vars
    PROVE  IInv'
<1>a. TypeOK /\ PidsUnique /\ WaitChain /\ ReturnIsSafe /\ TypeOK'
  BY TypeStep DEF IInv
<1>b. ASSUME Kept(procs', mem') PROVE NoLostImage'
  BY <1>b DEF NoLostImage, Kept
<1>c. nextPid \in Nat /\ current \in Slots
  BY <1>a DEF TypeOK
<1>d. Kept(procs, mem)
  BY NoLostImageIsKept DEF IInv
<1>e. ASSUME Same(procs, procs'), UNCHANGED <<current, stack, nextPid>>
      PROVE  PidsUnique' /\ WaitChain'
  <2>1. PidsUnique'
    <3> QED BY <1>a, <1>e, PidsKept DEF Same, SameAt
  <2>2. \A i \in Frames : SameAt(procs, procs', Frame(i))
    BY <1>a, <1>e, FrameFacts DEF Same
  <2>3. \A s \in Slots : procs'[s].state = "running" <=> procs[s].state = "running"
    BY <1>e DEF Same, SameAt
  <2> QED BY <1>a, <1>e, <2>1, <2>2, <2>3, ChainKept
<1>f. ASSUME failed' PROVE ReturnIsSafe'
  BY <1>f DEF ReturnIsSafe
<1>1. ASSUME NEW R \in Links, Spawn(R) PROVE IInv'
  <2>1. PICK f \in Slots \ {0} :
           /\ ~procs[f].used
           /\ procs'[f].used /\ procs'[f].pid = nextPid
           /\ procs'[f].ppid = procs[current].pid /\ procs'[f].state = "ready"
           /\ \A s \in Slots \ {f} : SameAt(procs, procs', s)
    BY <1>1, SpawnEffect
  <2>2. nextPid' = nextPid + 1 /\ UNCHANGED <<current, stack, esp0, halted>>
    BY <1>1 DEF Spawn
  <2>3. PidsUnique'
    BY <1>a, <2>1, <2>2, PidsBorn
  <2>4. WaitChain'
    BY <1>a, <2>1, <2>2, ChainUntouched
  <2>5. Kept(procs', mem')
    BY <1>1, SpawnEffect
  <2>6. ~failed' => ~failed /\ ~procs'[current].evicted
    BY <1>1, SpawnEffect
  <2>7. ReturnIsSafe'
    BY <1>a, <2>2, <2>6 DEF ReturnIsSafe, Resident, OwnStack
  <2> QED BY <1>a, <1>b, <2>3, <2>4, <2>5, <2>7 DEF IInv
<1>2. ASSUME NEW R \in Links, SpawnNoSwap(R) PROVE IInv'
  <2>1. failed' /\ UNCHANGED <<current, stack, nextPid>>
    BY <1>2 DEF SpawnNoSwap
  <2> QED BY <1>2, <1>a, <1>b, <1>e, <1>f, <2>1, SpawnNoSwapEffect DEF IInv
<1>3. ASSUME NEW R \in Links, SpawnRejected(R) PROVE IInv'
  <2>1. failed' /\ UNCHANGED <<current, stack, nextPid>>
    BY <1>3 DEF SpawnRejected
  <2> QED BY <1>3, <1>a, <1>b, <1>e, <1>f, <2>1, SpawnRejectedEffect DEF IInv
<1>4. ASSUME NEW R \in Links, SpawnLeaks(R) PROVE IInv'
  <2>1. PICK f \in Slots \ {0} :
           /\ ~procs[f].used
           /\ procs'[f].pid = 0 /\ procs'[f].ppid = 0
           /\ procs'[f].state = "free" /\ procs'[f].used
           /\ \A s \in Slots \ {f} : SameAt(procs, procs', s)
    BY <1>4, SpawnLeaksEffect
  <2>2. failed' /\ UNCHANGED <<current, stack, nextPid>>
    BY <1>4 DEF SpawnLeaks
  <2>3. PidsUnique'
    BY <1>a, <2>1, <2>2, PidsBorn
  <2>4. WaitChain'
    BY <1>a, <2>1, <2>2, ChainUntouched
  <2> QED BY <1>4, <1>a, <1>b, <1>f, <2>2, <2>3, <2>4, SpawnLeaksEffect DEF IInv
<1>5. ASSUME NEW q \in Slots, WaitRun(q) PROVE IInv'
  <2>1. /\ procs[q].state = "ready" /\ procs[current].state = "running"
        /\ procs'[q].state = "running" /\ procs'[current].state = "ready"
        /\ ~procs'[q].evicted
        /\ \A s \in Slots :
              /\ s \notin {q, current} => SameAt(procs, procs', s)
              /\ procs'[s].used = procs[s].used /\ procs'[s].pid = procs[s].pid
              /\ procs'[s].ppid = procs[s].ppid /\ procs'[s].image = procs[s].image
    BY <1>5, <1>c, WaitRunEffect DEF IInv, WaitChain
  <2>2. nextPid' = nextPid /\ current' = q /\ esp0' = q
    BY <1>5 DEF WaitRun
  <2>3. PidsUnique'
    <3>1. \A s \in Slots : procs'[s].state = "free" <=> procs[s].state = "free"
      BY <2>1 DEF SameAt
    <3> QED BY <1>a, <2>1, <2>2, <3>1, PidsKept
  <2>4. WaitChain'
    BY <1>5, ChainPushed
  <2>5. ReturnIsSafe'
    BY <2>1, <2>2 DEF ReturnIsSafe, Resident, OwnStack
  <2>6. Kept(procs', mem')
    BY <1>5, WaitRunEffect
  <2> QED BY <1>a, <1>b, <2>3, <2>4, <2>5, <2>6 DEF IInv
<1>6. ASSUME NEW q \in Slots, WaitNoSwap(q) PROVE IInv'
  <2>1. failed' /\ UNCHANGED <<current, stack, nextPid>>
    BY <1>6, WaitNoSwapEffect DEF WaitNoSwap
  <2> QED BY <1>6, <1>a, <1>b, <1>e, <1>f, <2>1, WaitNoSwapEffect DEF IInv
<1>7. ASSUME NEW q \in Slots, WaitReap(q) PROVE IInv'
  <2>1. /\ q \in Children /\ procs[q].state = "zombie"
        /\ procs' = [procs EXCEPT ![q] = Blank]
        /\ UNCHANGED <<mem, current, stack, nextPid, esp0, failed>>
    BY <1>7 DEF WaitReap
  <2>2. q # 0 /\ \A i \in Frames : Frame(i) # q
    BY <1>a, <2>1, ChildOffChain
  <2>3. procs'[q] = Blank /\ \A s \in Slots \ {q} : procs'[s] = procs[s]
    BY <1>a, <2>1 DEF TypeOK
  <2>4. PidsUnique'
    <3>1. ~procs'[q].used /\ procs'[q].state = "free"
      BY <2>3 DEF Blank
    <3> QED BY <1>a, <2>1, <2>2, <2>3, <3>1, PidsKept
  <2>5. WaitChain'
    <3>1. \A i \in Frames : Frame(i) \in Slots \ {q}
      BY <1>a, <2>2, FrameFacts
    <3>2. \A s \in Slots : procs'[s].state = "running" <=> procs[s].state = "running"
      BY <2>1, <2>3 DEF Blank
    <3> QED BY <1>a, <2>1, <2>3, <3>1, <3>2, ChainKept DEF SameAt
  <2>6. Kept(procs', mem')
    BY <1>d, <2>1, <2>3 DEF Kept, Intact, Blank
  <2>7. ReturnIsSafe'
    <3>1. current # q
      BY <1>a, <2>2, FrameFacts DEF Frames
    <3> QED BY <1>c, <2>1, <2>3, <3>1, ReturnKept
  <2> QED BY <1>a, <1>b, <2>4, <2>5, <2>6, <2>7 DEF IInv
<1>8. ASSUME NEW q \in Slots, Kill(q) PROVE IInv'
  <2>1. UNCHANGED <<current, stack, nextPid, esp0, failed>>
    BY <1>8 DEF Kill
  <2>2. Kept(procs', mem')
    BY <1>8, KillEffect
  <2>3. CASE procs' = procs
    <3>1. ReturnIsSafe'
      BY <2>1, <2>3, ReturnKept
    <3> QED BY <1>a, <1>b, <1>e, <2>1, <2>2, <2>3, <3>1 DEF IInv, Same, SameAt
  <2>4. CASE procs' # procs
    <3>1. /\ procs[q].state # "free"
          /\ procs'[q].used = procs[q].used /\ procs'[q].pid = procs[q].pid
          /\ procs'[q].ppid = procs[q].ppid /\ procs'[q].state = "zombie"
          /\ procs'[q].image = procs[q].image
          /\ \A s \in Slots \ {q} : \/ s # 0 /\ procs'[s] = Blank
                                    \/ procs'[s] = procs[s]
          /\ \A i \in Frames : procs'[Frame(i)] = procs[Frame(i)]
      BY <1>8, <2>4, KillEffect
    <3>2. PidsUnique'
      BY <1>a, <2>1, <3>1, PidsKept DEF Blank
    <3>3. procs'[current] = procs[current] /\ procs[current].state = "running"
      <4>1. Len(stack) + 1 \in Frames /\ Frame(Len(stack) + 1) = current
        BY <1>a, FrameFacts DEF Frames
      <4>2. procs[current].state = "running"
        BY <1>a, <1>c DEF WaitChain
      <4> QED BY <3>1, <4>1, <4>2
    <3>4. WaitChain'
      <4>1. \A s \in Slots : procs'[s].state = "running" <=> procs[s].state = "running"
        BY <1>a, <3>1, <3>3 DEF Blank, WaitChain
      <4> QED BY <1>a, <2>1, <3>1, <4>1, ChainKept DEF SameAt
    <3>5. ReturnIsSafe'
      BY <2>1, <3>3, ReturnKept
    <3> QED BY <1>a, <1>b, <2>2, <3>2, <3>4, <3>5 DEF IInv
  <2> QED BY <2>3, <2>4
<1>9. CASE Exit
  <2>1. PidsUnique'
    <3>1. procs[current'].state = "ready" /\ procs[current].state = "running"
      BY <1>9, <1>a, <1>c, ExitEffect, ParentReady DEF WaitChain
    <3>2. \A s \in Slots \ {current} :
            /\ procs'[s].used = procs[s].used /\ procs'[s].pid = procs[s].pid
            /\ procs'[s].ppid = procs[s].ppid /\ procs'[s].image = procs[s].image
            /\ procs'[s].state = "free" <=> procs[s].state = "free"
      BY <1>9, ExitEffect, <3>1 DEF SameAt
    <3>3. current # 0 /\ ~procs'[current].used /\ procs'[current].state = "free"
          /\ nextPid' = nextPid
      BY <1>9, ExitEffect
    <3> QED BY <1>a, <1>c, <3>1, <3>2, <3>3, PidsKept
  <2>2. WaitChain'
    BY <1>9, ExitEffect, ChainPopped
  <2>3. ReturnIsSafe'
    BY <1>9, ExitEffect DEF ReturnIsSafe, Resident, OwnStack
  <2> QED BY <1>9, <1>a, <1>b, <2>1, <2>2, <2>3, ExitEffect DEF IInv
<1>10. CASE Yield
  <2>1. PidsUnique'
    <3>1. procs[current'].state = "ready" /\ procs[current].state = "running"
      BY <1>10, <1>a, <1>c, YieldEffect, ParentReady DEF WaitChain
    <3>2. \A s \in Slots \ {current} :
            /\ procs'[s].used = procs[s].used /\ procs'[s].pid = procs[s].pid
            /\ procs'[s].ppid = procs[s].ppid /\ procs'[s].image = procs[s].image
            /\ procs'[s].state = "free" <=> procs[s].state = "free"
      BY <1>10, YieldEffect, <3>1 DEF SameAt
    <3>3. /\ procs'[current].used /\ procs[current].used
          /\ procs'[current].state = "ready"
          /\ procs'[current].pid = procs[current].pid
          /\ procs'[current].ppid = procs[current].ppid
          /\ current # 0 /\ nextPid' = nextPid
      BY <1>10, <1>a, CurrentUsed, YieldEffect
    <3>4. procs'[current].used = procs[current].used
      BY <1>a, <1>c, <3>3 DEF TypeOK, ProcRecord
    <3> QED BY <1>a, <1>c, <3>1, <3>2, <3>3, <3>4, PidsKept
  <2>2. WaitChain'
    BY <1>10, YieldEffect, ChainPopped
  <2>3. ReturnIsSafe'
    BY <1>10, YieldEffect DEF ReturnIsSafe, Resident, OwnStack
  <2> QED BY <1>10, <1>a, <1>b, <2>1, <2>2, <2>3, YieldEffect DEF IInv
<1>11. ASSUME procs' = procs, UNCHANGED <<mem, current, stack, nextPid, esp0, failed>>
       PROVE  IInv'
  <2>1. ReturnIsSafe'
    BY <1>11, ReturnKept
  <2>2. NoLostImage'
    BY <1>11, <1>b, <1>d
  <2>3. Same(procs, procs')
    BY <1>11 DEF Same, SameAt
  <2> QED BY <1>11, <1>a, <1>e, <2>1, <2>2, <2>3 DEF IInv
<1>12. ASSUME NEW q \in Slots, WaitOnItsStack(q) PROVE IInv'
  BY <1>11, <1>12 DEF WaitOnItsStack
<1>13. CASE StrayTrap
  <2>1. /\ esp0 \in Slots /\ procs[esp0].saved = "kept"
        /\ \A s \in Slots \ {esp0} : SameAt(procs, procs', s)
        /\ \A s \in Slots : AllButSaved(s)
        /\ UNCHANGED <<mem, current, stack, nextPid, esp0, failed>>
    BY <1>13, StrayTrapEffect DEF IInv
  <2>2. PidsUnique'
    BY <1>a, <2>1, PidsKept DEF AllButSaved
  <2>3. WaitChain'
    <3>1. \A i \in Frames : Frame(i) \in Slots \ {esp0}
      BY <1>a, <2>1, FrameFacts DEF WaitChain
    <3>2. \A s \in Slots : procs'[s].state = "running" <=> procs[s].state = "running"
      BY <2>1 DEF AllButSaved
    <3> QED BY <1>a, <2>1, <3>1, <3>2, ChainKept
  <2>4. Kept(procs', mem')
    BY <1>d, <2>1 DEF Kept, Intact, AllButSaved
  <2>5. ReturnIsSafe'
    BY <1>c, <2>1, ReturnKept DEF AllButSaved
  <2> QED BY <1>a, <1>b, <2>2, <2>3, <2>4, <2>5 DEF IInv
<1>14. CASE UNCHANGED vars
  BY <1>11, <1>14 DEF vars
<1> QED
  BY <1>1, <1>2, <1>3, <1>4, <1>5, <1>6, <1>7, <1>8, <1>9, <1>10, <1>12, <1>13, <1>14 DEF Next

LEMMA IInvInit == Init => IInv
<1> SUFFICES ASSUME Init PROVE IInv
  OBVIOUS
<1>1. /\ \A s \in Slots : procs[s] = IF s = 0 THEN [Blank EXCEPT !.used = TRUE, !.pid = 1,
                                                                  !.state = "running"]
                                              ELSE Blank
      /\ 0 \in Slots /\ current = 0 /\ stack = <<>> /\ nextPid = 2 /\ esp0 = 0
  BY SizesAssumption DEF Init, Slots
<1>2. /\ procs[0].used /\ procs[0].pid = 1 /\ procs[0].ppid = 0 /\ procs[0].image = {}
      /\ procs[0].state = "running" /\ ~procs[0].evicted /\ procs[0].shadow = "none"
      /\ procs[0].saved = "none"
      /\ \A s \in Slots \ {0} : ~procs[s].used /\ procs[s].state = "free"
  <2>1. procs[0] = [Blank EXCEPT !.used = TRUE, !.pid = 1, !.state = "running"]
    BY <1>1
  <2>2. procs[0] = [used |-> TRUE, pid |-> 1, ppid |-> 0, state |-> "running",
                    image |-> {}, evicted |-> FALSE, shadow |-> "none",
                    saved |-> "none"]
    BY <2>1 DEF Blank
  <2>3. \A s \in Slots \ {0} : procs[s] = Blank
    BY <1>1
  <2>4. ~Blank.used /\ Blank.state = "free"
    BY DEF Blank
  <2> QED BY <2>2, <2>3, <2>4
<1>3. PidsUnique
  BY <1>1, <1>2 DEF PidsUnique
<1>4. Len(stack) = 0 /\ Frames = 1 .. 1 /\ \A i \in 1 .. 1 : Frame(i) = 0
  BY <1>1 DEF Frames, Frame
<1>5. WaitChain
  <2>1. \A i \in 1 .. Len(stack) : FALSE
    BY <1>4
  <2> QED BY <1>1, <1>2, <1>4, <2>1 DEF WaitChain
<1>6. NoLostImage
  BY <1>2 DEF NoLostImage, Intact
<1>7. ReturnIsSafe
  BY <1>1 DEF ReturnIsSafe, Resident, OwnStack
<1> QED BY TypeInit, <1>3, <1>5, <1>6, <1>7 DEF IInv

LEMMA Inductive == Spec => []IInv
<1>1. IInv /\ [Next]_vars => IInv'
  BY IInvStep
<1> QED BY <1>1, IInvInit, PTL DEF Spec

-----------------------------------------------------------------------------
(* The theorems *)

\* No two processes ever share a pid and parents are older than their children,
\* whatever is spawned, reaped, killed or leaked: proc_get, proc_wait and the
\* descent of proc_kill_one may go by pid.
THEOREM PidsAreUnique == Spec => []PidsUnique
  BY Inductive, PTL DEF IInv

\* The blocked callers of proc_run_blocking and the running process always form
\* a line of descent from slot 0, so that proc_return_to_kernel goes back to a
\* live parent, at every nesting depth and after every failed swap.
THEOREM ChainOfWaits == Spec => []WaitChain
  BY Inductive, PTL DEF IInv

\* Every live process has its image in place or in its shadow, for every layout
\* of link addresses and with any shadow allocation failing half way.
THEOREM ImagesKept == Spec => []NoLostImage
  BY Inductive, PTL DEF IInv

\* While the heap has had what it was asked for and no spawn was refused, the
\* kernel returns only to a process whose image is in place, at every depth of
\* nested waits over overlapping images: it was brought back because a shadow of
\* its own bytes was kept all the while.
THEOREM SafeReturn == Spec => []ReturnIsSafe
  BY Inductive, PTL DEF IInv

-----------------------------------------------------------------------------
(* What no system call does to a process: the action properties.          *)

LEMMA RunningIs ==
    ASSUME IInv
    PROVE  /\ current \in Slots /\ procs \in Tables
           /\ procs[current].state = "running" /\ procs[current].saved = "none"
<1>1. current \in Slots /\ procs \in Tables /\ WaitChain /\ TypeOK
  BY DEF IInv, TypeOK, Tables
<1>2. Len(stack) + 1 \in Frames /\ Frame(Len(stack) + 1) = current
  BY <1>1, FrameFacts DEF Frames
<1> QED BY <1>1, <1>2, FrameFacts DEF WaitChain

-----------------------------------------------------------------------------
(* Trap frames.                                                             *)

\* Only a process that waits for its turn has a trap frame.
FramesReady ==
    \A s \in Slots : procs[s].saved # "none" => procs[s].used /\ procs[s].state = "ready"

\* proc_wait reaps a process that exits: nothing of it is left.
LEMMA ExitLeavesBlank ==
    ASSUME IInv, Exit
    PROVE  procs'[current] = Blank
<1>1. current \in Slots /\ procs \in Tables /\ TypeOK
  BY RunningIs DEF IInv
<1> DEFINE pt == [procs EXCEPT ![current].state = "zombie", ![current].saved = "none"]
           parent == Last(stack)
           pt2 == [pt EXCEPT ![parent].state = "running"]
<1>2. pt \in Tables /\ pt[current].state = "zombie"
  <2> DEFINE mid == SetState(procs, current, "zombie")
  <2>1. mid \in Tables /\ mid[current].state = "zombie"
    BY <1>1, SetStateFacts
  <2>2. PICK b \in FrameStates : b = "none"
    BY DEF FrameStates
  <2>3. pt = SetSaved(mid, current, b)
    BY <2>2 DEF SetState, SetSaved
  <2> HIDE DEF mid, pt
  <2>4. /\ SetSaved(mid, current, b) \in Tables
        /\ SetSaved(mid, current, b)[current].state = mid[current].state
    BY <1>1, <2>1, SetSavedFacts
  <2> QED BY <2>1, <2>3, <2>4
<1>3. stack # <<>> /\ ReturnToKernel(pt)
  BY DEF Exit
<1>4. parent \in Slots
  BY <1>1, <1>3, PopFacts DEF TypeOK
<1> HIDE DEF pt
<1>5. pt2 = SetState(pt, parent, "running")
  BY DEF SetState
<1>6. PICK out \in EnsureResident(pt2, mem, parent) :
        procs' = [out.procs EXCEPT ![current] = Blank]
  BY <1>2, <1>3 DEF ReturnToKernel
<1> HIDE DEF pt2, parent
<1>7. pt2 \in Tables
  BY <1>2, <1>4, <1>5, SetStateFacts
<1>8. mem \in Mems
  BY <1>1 DEF TypeOK, Mems
<1>9. out.procs \in Tables
  BY <1>4, <1>6, <1>7, <1>8, EnsureResidentFacts
<1> QED BY <1>1, <1>6, <1>9 DEF Tables

\* What a step does to the frame in slot s.
FrameKept(s) ==
    \/ procs'[s].saved = "kept" \/ current' = s
    \/ procs'[s].state = "zombie" \/ ~procs'[s].used
    \/ OnStackOf(s) /\ current # s

\* Both claims of a step, at one slot.
FrameGoal(s) ==
    /\ procs'[s].saved # "none" => procs'[s].used /\ procs'[s].state = "ready"
    /\ procs[s].saved = "kept" => FrameKept(s)

LEMMA FrameStep ==
    ASSUME IInv, FramesReady, Next, NEW s \in Slots
    PROVE  FrameGoal(s)
<1>1. procs \in Tables /\ current \in Slots /\ procs[current].saved = "none"
  BY RunningIs
<1>2. procs[s].saved # "none" => procs[s].used /\ procs[s].state = "ready"
  BY DEF FramesReady
<1>3. ASSUME SameAt(procs, procs', s) PROVE FrameGoal(s)
  BY <1>2, <1>3 DEF SameAt, FrameGoal, FrameKept
<1>4. ASSUME procs'[s] = Blank PROVE FrameGoal(s)
  BY <1>4 DEF Blank, FrameGoal, FrameKept
<1>5. ASSUME procs'[s] = procs[s] PROVE FrameGoal(s)
  BY <1>3, <1>5 DEF SameAt
<1>6. ASSUME NEW f \in Slots, ~procs[f].used, procs'[f].used,
             procs'[f].state = "ready" \/ procs'[f].saved = "none",
             \A t \in Slots \ {f} : SameAt(procs, procs', t)
      PROVE  FrameGoal(s)
  <2>1. CASE s = f
    BY <1>2, <1>6, <2>1 DEF FrameGoal
  <2> QED BY <1>3, <1>6, <2>1
<1>7. ASSUME NEW R \in Links, Spawn(R) PROVE FrameGoal(s)
  BY <1>6, <1>7, SpawnEffect
<1>8. ASSUME NEW R \in Links, SpawnNoSwap(R) \/ SpawnRejected(R) PROVE FrameGoal(s)
  BY <1>3, <1>8, SpawnNoSwapEffect, SpawnRejectedEffect DEF Same
<1>9. ASSUME NEW R \in Links, SpawnLeaks(R) PROVE FrameGoal(s)
  BY <1>6, <1>9, SpawnLeaksEffect
<1>10. ASSUME NEW q \in Slots, WaitRun(q) PROVE FrameGoal(s)
  <2>1. CASE s = q
    BY <1>10, <2>1, WaitRunEffect DEF WaitRun, FrameGoal, FrameKept
  <2>2. CASE s = current
    BY <1>1, <1>10, <2>2, WaitRunEffect DEF FrameGoal
  <2>3. CASE s \notin {q, current}
    BY <1>3, <1>10, <2>3, WaitRunEffect
  <2> QED BY <2>1, <2>2, <2>3
<1>11. ASSUME NEW q \in Slots, WaitNoSwap(q) PROVE FrameGoal(s)
  BY <1>3, <1>11, WaitNoSwapEffect DEF Same
<1>12. ASSUME NEW q \in Slots, WaitReap(q) PROVE FrameGoal(s)
  <2>1. procs'[s] = IF s = q THEN Blank ELSE procs[s]
    BY <1>1, <1>12 DEF WaitReap, Tables
  <2> QED BY <1>4, <1>5, <2>1
<1>13. ASSUME NEW q \in Slots, Kill(q) PROVE FrameGoal(s)
  <2>1. CASE procs' = procs
    BY <1>5, <2>1
  <2>2. CASE s = q /\ procs' # procs /\ procs'[q].state = "zombie"
    <3>1. procs'[q] = [procs[q] EXCEPT !.state = "zombie", !.saved = "none"]
      BY <1>13, <2>2 DEF Kill
    <3>2. procs'[q].saved = "none"
      BY <1>1, <3>1 DEF Tables, ProcRecord
    <3> QED BY <2>2, <3>2 DEF FrameGoal, FrameKept
  <2>3. CASE procs'[s] = Blank \/ procs'[s] = procs[s]
    BY <1>4, <1>5, <2>3
  <2> QED BY <1>13, <2>1, <2>2, <2>3, KillEffect
<1>14. CASE Exit
  <2>1. CASE s = current
    BY <1>4, <1>14, <2>1, ExitLeavesBlank
  <2>2. CASE s = current'
    BY <1>14, <2>2, ExitEffect, ParentReady DEF FrameGoal, FrameKept
  <2>3. CASE s \notin {current, current'}
    BY <1>3, <1>14, <2>3, ExitEffect
  <2> QED BY <2>1, <2>2, <2>3
<1>15. CASE Yield
  <2>1. CASE s = current
    BY <1>1, <1>15, <2>1, YieldEffect DEF FrameGoal
  <2>2. CASE s = current'
    BY <1>15, <2>2, YieldEffect, ParentReady DEF FrameGoal, FrameKept
  <2>3. CASE s \notin {current, current'}
    BY <1>3, <1>15, <2>3, YieldEffect
  <2> QED BY <2>1, <2>2, <2>3
<1>16. ASSUME NEW q \in Slots, WaitOnItsStack(q) PROVE FrameGoal(s)
  BY <1>5, <1>16 DEF WaitOnItsStack
<1>17. CASE StrayTrap
  <2>1. CASE s = esp0
    BY <1>2, <1>17, <2>1, StrayTrapEffect
       DEF IInv, AllButSaved, FrameGoal, FrameKept, OnStackOf
  <2>2. CASE s # esp0
    BY <1>3, <1>17, <2>2, StrayTrapEffect DEF IInv
  <2> QED BY <2>1, <2>2
<1> QED
  BY <1>7, <1>8, <1>9, <1>10, <1>11, <1>12, <1>13, <1>14, <1>15, <1>16, <1>17 DEF Next

LEMMA FramesReadyInductive == Spec => []FramesReady
<1>1. Init => FramesReady
  BY SizesAssumption DEF Init, FramesReady, Blank, Slots
<1>2. FramesReady /\ IInv /\ [Next]_vars => FramesReady'
  <2>1. CASE Next
    BY <2>1, FrameStep DEF FrameGoal, FramesReady
  <2>2. CASE UNCHANGED vars
    BY <2>2 DEF vars, FramesReady
  <2> QED BY <2>1, <2>2
<1> QED BY <1>1, <1>2, Inductive, PTL DEF Spec

\* The trap frame of a process that yielded lasts until the process runs again
\* or dies, for every number of processes and any allocation failing, except
\* under a caller that a failed swap-in left on that process's kernel stack.
THEOREM FramesAreKept == Spec => FramesKept
<1>1. IInv /\ FramesReady /\ [Next]_vars =>
        [\A s \in Slots : procs[s].saved = "kept" =>
            \/ procs'[s].saved = "kept" \/ current' = s
            \/ procs'[s].state = "zombie" \/ ~procs'[s].used
            \/ OnStackOf(s) /\ current # s]_vars
  BY FrameStep DEF FrameGoal, FrameKept
<1> QED BY <1>1, Inductive, FramesReadyInductive, PTL DEF Spec, FramesKept

-----------------------------------------------------------------------------
(* Zombies.                                                                 *)

\* Swapping leaves zombies alone.
LEMMA EvictSparesZombies ==
    ASSUME NEW pt \in Tables, NEW m, NEW E, NEW s \in Slots,
           \A t \in E : pt[t].state # "zombie", pt[s].state = "zombie"
    PROVE  SwapOut(pt, m, E)[s] = pt[s]
  BY SwapOutFacts

LEMMA EnsureResidentSparesZombies ==
    ASSUME NEW pt \in Tables, NEW m, NEW p \in Slots, NEW out \in EnsureResident(pt, m, p),
           NEW s \in Slots, s # p, pt[s].state = "zombie"
    PROVE  out.procs[s] = pt[s]
<1> DEFINE E == {t \in Squatters(pt, pt[p].image) \ {p} : pt[t].shadow = "none"}
           back == IF pt[p].shadow = "good" THEN pt[p].pid ELSE 0
<1>1. \A t \in E : pt[t].state # "zombie"
  BY DEF Squatters
<1>2. \A f \in E : \A t \in Before(E, f) : pt[t].state # "zombie"
  BY <1>1 DEF Before
<1>3. SwapOut(pt, m, E) \in Tables /\ SwapOut(pt, m, E)[s] = pt[s]
  BY <1>1, SwapOutFacts, EvictSparesZombies
<1>4. \A f \in E : SwapOut(pt, m, Before(E, f))[s] = pt[s]
  BY <1>2, EvictSparesZombies
<1>5. CASE out.procs = pt
  BY <1>5
<1>6. CASE out.procs = [SwapOut(pt, m, E) EXCEPT ![p].shadow = "none", ![p].evicted = FALSE]
  BY <1>3, <1>6 DEF Tables
<1>7. CASE \E f \in E : out.procs = SwapOut(pt, m, Before(E, f))
  BY <1>4, <1>7
<1>8. \/ out.procs = pt
      \/ out.procs = [SwapOut(pt, m, E) EXCEPT ![p].shadow = "none", ![p].evicted = FALSE]
      \/ \E f \in E : out.procs = SwapOut(pt, m, Before(E, f))
  BY DEF EnsureResident
<1> QED BY <1>5, <1>6, <1>7, <1>8

\* The zombie in slot s after the step.
StaysDead(s) == procs'[s] \in {procs[s], Blank}

LEMMA SpawnSparesZombies ==
    ASSUME IInv, NEW R \in Links, Spawn(R) \/ SpawnNoSwap(R) \/ SpawnRejected(R) \/ SpawnLeaks(R),
           NEW s \in Slots, procs[s].state = "zombie"
    PROVE  StaysDead(s)
<1>1. current \in Slots /\ procs \in Tables /\ s # current
  BY RunningIs
<1>2. procs[s].used
  BY DEF IInv, PidsUnique
<1> DEFINE S == SwapOut(procs, mem, Squatters(procs, R))
<1>3. S \in Tables /\ S[s] = procs[s]
  BY <1>1, SwapOutFacts, EvictSparesZombies DEF Squatters
<1>4. CASE Spawn(R)
  <2>1. PICK f \in Slots :
          /\ IsFirstFree(f)
          /\ \E out \in EnsureResident([S EXCEPT ![f] = Child(R)], Fill(mem, R, nextPid), current) :
                procs' = out.procs
    BY <1>4 DEF Spawn
  <2> DEFINE pt == [S EXCEPT ![f] = Child(R)]
  <2>2. s # f
    BY <1>2, <2>1 DEF IsFirstFree, FreeSlots
  <2>3. Child(R) \in ProcRecord
    BY <1>4, ChildFacts DEF Spawn, IInv
  <2> HIDE DEF S
  <2>4. pt \in Tables /\ pt[s] = procs[s]
    BY <1>3, <2>2, <2>3 DEF Tables
  <2>5. PICK out \in EnsureResident(pt, Fill(mem, R, nextPid), current) : procs' = out.procs
    BY <2>1
  <2> HIDE DEF pt
  <2>6. out.procs[s] = pt[s]
    BY <1>1, <2>4, <2>5, EnsureResidentSparesZombies
  <2> QED BY <2>4, <2>5, <2>6 DEF StaysDead
<1>5. CASE SpawnNoSwap(R)
  BY <1>1, <1>5, EvictSparesZombies DEF SpawnNoSwap, Squatters, Before, StaysDead
<1>6. CASE SpawnRejected(R)
  BY <1>3, <1>6 DEF SpawnRejected, StaysDead
<1>7. CASE SpawnLeaks(R)
  <2>1. PICK f \in Slots :
          IsFirstFree(f) /\ procs' = [S EXCEPT ![f] = [Blank EXCEPT !.used = TRUE]]
    BY <1>7 DEF SpawnLeaks
  <2>2. s # f
    BY <1>2, <2>1 DEF IsFirstFree, FreeSlots
  <2> QED BY <1>3, <2>1, <2>2 DEF StaysDead, Tables
<1> QED BY <1>4, <1>5, <1>6, <1>7

LEMMA WaitSparesZombies ==
    ASSUME IInv, NEW q \in Slots, WaitRun(q) \/ WaitNoSwap(q) \/ WaitReap(q),
           NEW s \in Slots, procs[s].state = "zombie"
    PROVE  StaysDead(s)
<1>1. current \in Slots /\ procs \in Tables /\ s # current /\ TypeOK
  BY RunningIs DEF IInv
<1>2. ASSUME Runnable(q), NEW out \in EnsureResident(Handover(q), mem, q)
      PROVE  out.procs \in Tables /\ s # q /\ out.procs[s] = procs[s]
  <2>1. s # q
    BY <1>2 DEF Runnable
  <2>2. Handover(q) \in Tables /\ Handover(q)[s] = procs[s]
    BY <1>1, <1>2, <2>1, HandoverFacts
  <2>3. mem \in Mems
    BY <1>1 DEF TypeOK, Mems
  <2> QED BY <1>2, <2>1, <2>2, <2>3, EnsureResidentFacts, EnsureResidentSparesZombies
<1>3. CASE WaitRun(q)
  <2>1. PICK out \in EnsureResident(Handover(q), mem, q) :
          procs' = [out.procs EXCEPT ![q].saved = "none"]
    BY <1>3 DEF WaitRun
  <2>2. out.procs \in Tables /\ s # q /\ out.procs[s] = procs[s]
    BY <1>2, <1>3 DEF WaitRun
  <2> QED BY <2>1, <2>2 DEF Tables, StaysDead
<1>4. CASE WaitNoSwap(q)
  <2>1. PICK out \in EnsureResident(Handover(q), mem, q) :
          procs' = [out.procs EXCEPT ![current].state = "running", ![q].state = "ready"]
    BY <1>4 DEF WaitNoSwap
  <2>2. out.procs \in Tables /\ s # q /\ out.procs[s] = procs[s]
    BY <1>2, <1>4 DEF WaitNoSwap
  <2> QED BY <1>1, <2>1, <2>2 DEF Tables, StaysDead
<1>5. CASE WaitReap(q)
  BY <1>1, <1>5 DEF WaitReap, StaysDead, Tables
<1> QED BY <1>3, <1>4, <1>5

LEMMA ReturnSparesZombies ==
    ASSUME IInv, NEW pt \in Tables, stack # <<>>, ReturnToKernel(pt),
           \A t \in Slots \ {current} : pt[t] = procs[t],
           NEW s \in Slots, procs[s].state = "zombie"
    PROVE  StaysDead(s)
<1>1. current \in Slots /\ procs \in Tables /\ s # current /\ TypeOK
  BY RunningIs DEF IInv
<1> DEFINE parent == Last(stack)
           pt2 == [pt EXCEPT ![parent].state = "running"]
<1>2. parent \in Slots /\ procs[parent].state = "ready"
  BY <1>1, PopFacts, ParentReady DEF TypeOK
<1>3. pt2 = SetState(pt, parent, "running")
  BY DEF SetState
<1>4. s # parent /\ pt2 \in Tables /\ pt2[s] = procs[s]
  <2> HIDE DEF pt2, parent
  <2>1. s # parent /\ pt[s] = procs[s]
    BY <1>1, <1>2
  <2>2. /\ SetState(pt, parent, "running") \in Tables
        /\ SetState(pt, parent, "running")[s] = pt[s]
    BY <1>2, <2>1, SetStateFacts
  <2> QED BY <1>3, <2>1, <2>2
<1>5. PICK out \in EnsureResident(pt2, mem, parent) :
        procs' = IF pt[current].state = "zombie" THEN [out.procs EXCEPT ![current] = Blank]
                 ELSE out.procs
  BY DEF ReturnToKernel
<1>6. mem \in Mems
  BY <1>1 DEF TypeOK, Mems
<1> HIDE DEF pt2, parent
<1>7. out.procs \in Tables /\ out.procs[s] = procs[s]
  BY <1>2, <1>4, <1>6, EnsureResidentFacts, EnsureResidentSparesZombies
<1> QED BY <1>1, <1>5, <1>7 DEF Tables, StaysDead

LEMMA ExitSparesZombies ==
    ASSUME IInv, Exit \/ Yield, NEW s \in Slots, procs[s].state = "zombie"
    PROVE  StaysDead(s)
<1>1. current \in Slots /\ procs \in Tables
  BY RunningIs
<1>2. CASE Exit
  <2> DEFINE mid == SetState(procs, current, "zombie")
             pt == [procs EXCEPT ![current].state = "zombie", ![current].saved = "none"]
  <2>1. pt \in Tables /\ \A t \in Slots \ {current} : pt[t] = procs[t]
    <3>1. mid \in Tables /\ \A t \in Slots \ {current} : mid[t] = procs[t]
      BY <1>1, SetStateFacts
    <3>2. PICK b \in FrameStates : b = "none"
      BY DEF FrameStates
    <3>3. pt = SetSaved(mid, current, b)
      BY <3>2 DEF SetState, SetSaved
    <3> HIDE DEF mid, pt
    <3>4. /\ SetSaved(mid, current, b) \in Tables
          /\ \A t \in Slots : t # current => SetSaved(mid, current, b)[t] = mid[t]
      BY <1>1, <3>1, SetSavedFacts
    <3> QED BY <3>1, <3>3, <3>4
  <2>2. stack # <<>> /\ ReturnToKernel(pt)
    BY <1>2 DEF Exit
  <2> QED BY <2>1, <2>2, ReturnSparesZombies
<1>3. CASE Yield
  <2> DEFINE mid == SetState(procs, current, "ready")
             pt == [procs EXCEPT ![current].state = "ready", ![current].saved = "kept"]
  <2>1. pt \in Tables /\ \A t \in Slots \ {current} : pt[t] = procs[t]
    <3>1. mid \in Tables /\ \A t \in Slots \ {current} : mid[t] = procs[t]
      BY <1>1, SetStateFacts
    <3>2. PICK b \in FrameStates : b = "kept"
      BY DEF FrameStates
    <3>3. pt = SetSaved(mid, current, b)
      BY <3>2 DEF SetState, SetSaved
    <3> HIDE DEF mid, pt
    <3>4. /\ SetSaved(mid, current, b) \in Tables
          /\ \A t \in Slots : t # current => SetSaved(mid, current, b)[t] = mid[t]
      BY <1>1, <3>1, SetSavedFacts
    <3> QED BY <3>1, <3>3, <3>4
  <2>2. stack # <<>> /\ ReturnToKernel(pt)
    BY <1>3 DEF Yield
  <2> QED BY <2>1, <2>2, ReturnSparesZombies
<1> QED BY <1>2, <1>3

LEMMA StraySparesZombies ==
    ASSUME IInv, FramesReady, StrayTrap, NEW s \in Slots, procs[s].state = "zombie"
    PROVE  StaysDead(s)
<1>1. procs'[s] = procs[s]
  <2>1. procs \in Tables /\ procs[esp0].saved = "kept" /\ esp0 \in Slots
    BY RunningIs, StrayTrapEffect DEF IInv
  <2>2. s # esp0
    BY <2>1 DEF FramesReady
  <2> QED BY <2>1, <2>2 DEF StrayTrap, Tables
<1> QED BY <1>1 DEF StaysDead

LEMMA KillSparesZombies ==
    ASSUME IInv, NEW q \in Slots, Kill(q), NEW s \in Slots, procs[s].state = "zombie"
    PROVE  StaysDead(s)
  BY DEF Kill, StaysDead

\* proc_exit and proc_kill are final, for every number of processes: a zombie
\* changes only by being reaped.
THEOREM ZombiesAreDead == Spec => ZombiesStayDead
<1>1. IInv /\ FramesReady /\ [Next]_vars =>
        [\A s \in Slots : procs[s].state = "zombie" => procs'[s] \in {procs[s], Blank}]_vars
  <2>1. ASSUME NEW q \in Slots, WaitOnItsStack(q), NEW s \in Slots
        PROVE  StaysDead(s)
    BY <2>1 DEF WaitOnItsStack, StaysDead
  <2> QED BY <2>1, SpawnSparesZombies, WaitSparesZombies, ExitSparesZombies,
             KillSparesZombies, StraySparesZombies DEF Next, StaysDead
<1> QED BY <1>1, Inductive, FramesReadyInductive, PTL DEF Spec, ZombiesStayDead
=============================================================================
