----------------------------- MODULE RingProofs -----------------------------
(***************************************************************************)
(* What the operators of GuiRing do, for every size of the ring: the       *)
(* indices wrap around, the queue that they describe does not.  At the     *)
(* end, that GuiEvents implements the bounded queue GuiQueue.              *)
(***************************************************************************)
EXTENDS GuiEvents, TLAPS

\* Indices wrap around at most once.
LEMMA Modulo ==
    ASSUME NEW a \in 0 .. 2 * EvtMax - 1
    PROVE  a % EvtMax = IF a < EvtMax THEN a ELSE a - EvtMax
  BY RingAssumption

LEMMA NextIndex ==
    ASSUME NEW i \in Index
    PROVE  Next1(i) = IF i = EvtMax - 1 THEN 0 ELSE i + 1
<1>1. i + 1 \in 0 .. 2 * EvtMax - 1
  BY RingAssumption DEF Index
<1> QED BY <1>1, Modulo, RingAssumption DEF Next1, Index

LEMMA QueuedIs ==
    ASSUME NEW g \in Ring
    PROVE  /\ Queued(g) = IF g.w < g.r THEN g.w - g.r + EvtMax ELSE g.w - g.r
           /\ Queued(g) \in Index
<1>1. g.w \in Index /\ g.r \in Index
  BY DEF Ring
<1>2. g.w - g.r + EvtMax \in 0 .. 2 * EvtMax - 1
  BY <1>1, RingAssumption DEF Index
<1>3. Queued(g) = IF g.w < g.r THEN g.w - g.r + EvtMax ELSE g.w - g.r
  BY <1>1, <1>2, Modulo, RingAssumption DEF Queued, Index
<1> QED BY <1>1, <1>3, RingAssumption DEF Index

LEMMA SlotIs ==
    ASSUME NEW g \in Ring, NEW k \in 1 .. EvtMax
    PROVE  /\ Slot(g, k) = IF g.r + k - 1 < EvtMax THEN g.r + k - 1 ELSE g.r + k - 1 - EvtMax
           /\ Slot(g, k) \in Index
<1>1. g.r \in Index
  BY DEF Ring
<1>2. g.r + k - 1 \in 0 .. 2 * EvtMax - 1
  BY <1>1, RingAssumption DEF Index
<1>3. (g.r + k - 1) % EvtMax = IF g.r + k - 1 < EvtMax THEN g.r + k - 1 ELSE g.r + k - 1 - EvtMax
  <2> DEFINE a == g.r + k - 1
  <2>1. a \in 0 .. 2 * EvtMax - 1
    BY <1>2
  <2> HIDE DEF a
  <2>2. a % EvtMax = IF a < EvtMax THEN a ELSE a - EvtMax
    BY <2>1, Modulo
  <2> QED BY <2>2, <1>1, RingAssumption DEF a, Index
<1>4. Slot(g, k) = (g.r + k - 1) % EvtMax
  BY DEF Slot
<1> QED BY <1>1, <1>3, <1>4, RingAssumption DEF Index

\* The slots of the queued events are apart from one another and from ev_w.
LEMMA SlotsApart ==
    ASSUME NEW g \in Ring, NEW j \in 1 .. EvtMax, NEW k \in 1 .. EvtMax, Slot(g, j) = Slot(g, k)
    PROVE  j = k
<1>1. g.r \in Index
  BY DEF Ring
<1>2. Slot(g, j) = IF g.r + j - 1 < EvtMax THEN g.r + j - 1 ELSE g.r + j - 1 - EvtMax
  BY SlotIs
<1>3. Slot(g, k) = IF g.r + k - 1 < EvtMax THEN g.r + k - 1 ELSE g.r + k - 1 - EvtMax
  BY SlotIs
<1>4. g.r \in Int /\ EvtMax \in Int /\ j \in Int /\ k \in Int
  BY <1>1, RingAssumption DEF Index
<1>5. j <= EvtMax /\ k <= EvtMax /\ 1 <= j /\ 1 <= k
  BY <1>4
<1>6. (IF g.r + j - 1 < EvtMax THEN g.r + j - 1 ELSE g.r + j - 1 - EvtMax)
        = (IF g.r + k - 1 < EvtMax THEN g.r + k - 1 ELSE g.r + k - 1 - EvtMax)
  BY <1>2, <1>3
<1> DEFINE r == g.r
<1>7. r \in Int
  BY <1>4
<1>8. (IF r + j - 1 < EvtMax THEN r + j - 1 ELSE r + j - 1 - EvtMax)
        = (IF r + k - 1 < EvtMax THEN r + k - 1 ELSE r + k - 1 - EvtMax)
  BY <1>6
<1> HIDE DEF r
<1> QED BY <1>4, <1>5, <1>7, <1>8

LEMMA SlotOfEnd ==
    ASSUME NEW g \in Ring
    PROVE  Slot(g, Queued(g) + 1) = g.w
<1>1. Queued(g) + 1 \in 1 .. EvtMax
  BY QueuedIs, RingAssumption DEF Index
<1>2. g.w \in Index /\ g.r \in Index
  BY DEF Ring
<1> DEFINE n == Queued(g) + 1
<1>3. n = IF g.w < g.r THEN g.w - g.r + EvtMax + 1 ELSE g.w - g.r + 1
  BY <1>2, QueuedIs, RingAssumption DEF Index
<1>4. n \in 1 .. EvtMax
  BY <1>1
<1> HIDE DEF n
<1>5. Slot(g, n) = IF g.r + n - 1 < EvtMax THEN g.r + n - 1 ELSE g.r + n - 1 - EvtMax
  BY <1>4, SlotIs
<1>6. Slot(g, n) = g.w
  BY <1>2, <1>3, <1>5, RingAssumption DEF Index
<1> QED BY <1>6 DEF n

\* One slot stays empty: a full ring has EvtMax - 1 events.
LEMMA FullIs ==
    ASSUME NEW g \in Ring
    PROVE  Full(g) <=> Queued(g) = EvtMax - 1
  BY NextIndex, QueuedIs, RingAssumption DEF Full, Ring, Index

LEMMA QueueIsSeq ==
    ASSUME NEW g \in Ring
    PROVE  /\ Queue(g) \in Seq(Event \cup {NoEvent})
           /\ Len(Queue(g)) = Queued(g)
           /\ \A k \in 1 .. Queued(g) : Queue(g)[k] = g.ev[Slot(g, k)]
<1>1. Queued(g) \in Nat /\ Queued(g) <= EvtMax
  BY QueuedIs, RingAssumption DEF Index
<1>2. \A k \in 1 .. Queued(g) : g.ev[Slot(g, k)] \in Event \cup {NoEvent}
  BY <1>1, SlotIs, RingAssumption DEF Ring
<1>3. Queue(g) \in [1 .. Queued(g) -> Event \cup {NoEvent}]
  BY <1>2 DEF Queue
<1> QED BY <1>1, <1>3 DEF Queue

LEMMA EmptyQueue == EmptyRing \in Ring /\ Queue(EmptyRing) = <<>>
<1>1. EmptyRing \in Ring /\ EmptyRing.r = 0 /\ EmptyRing.w = 0
  BY RingAssumption DEF EmptyRing, Ring, Index
<1>2. Queued(EmptyRing) = 0
  BY <1>1, QueuedIs, RingAssumption
<1> QED BY <1>1, <1>2, QueueIsSeq

-----------------------------------------------------------------------------
(* What the three ways to change the ring do to the queue.                 *)

LEMMA EnqueueAppends ==
    ASSUME NEW g \in Ring, NEW e \in Event, ~Full(g)
    PROVE  Enqueue(g, e) \in Ring /\ Queue(Enqueue(g, e)) = Append(Queue(g), e)
<1> DEFINE h == Enqueue(g, e)
<1>1. Next1(g.w) \in Index
  BY NextIndex, RingAssumption DEF Ring, Index
<1>2. h \in Ring /\ h.r = g.r /\ h.w = Next1(g.w) /\ h.ev = [g.ev EXCEPT ![g.w] = e]
  BY <1>1 DEF Enqueue, Ring
<1>3. Queued(h) = Queued(g) + 1
  <2>1. g.w \in Index /\ g.r \in Index /\ h.w # g.r
    BY <1>2 DEF Ring, Full
  <2>2. h.w = IF g.w = EvtMax - 1 THEN 0 ELSE g.w + 1
    BY <1>2, <2>1, NextIndex
  <2>3. Queued(h) = IF h.w < g.r THEN h.w - g.r + EvtMax ELSE h.w - g.r
    BY <1>2, QueuedIs
  <2>4. Queued(g) = IF g.w < g.r THEN g.w - g.r + EvtMax ELSE g.w - g.r
    BY QueuedIs
  <2> QED BY <2>1, <2>2, <2>3, <2>4, RingAssumption DEF Index
<1>4. \A k \in 1 .. EvtMax : Slot(h, k) = Slot(g, k)
  BY <1>2 DEF Slot
<1>5. Queued(g) + 1 \in 1 .. EvtMax
  BY QueuedIs, RingAssumption DEF Index
<1>6. h.ev[g.w] = e /\ \A i \in Index : i # g.w => h.ev[i] = g.ev[i]
  BY <1>2 DEF Ring
<1>7. ASSUME NEW k \in 1 .. Queued(g)
      PROVE  Queue(h)[k] = Queue(g)[k]
  <2>1. k \in 1 .. EvtMax /\ k \in 1 .. Queued(h) /\ k # Queued(g) + 1
    BY <1>3, QueuedIs, RingAssumption DEF Index
  <2>2. Slot(g, k) # g.w /\ Slot(g, k) \in Index
    BY <2>1, <1>5, SlotsApart, SlotOfEnd, SlotIs
  <2>3. Queue(h)[k] = h.ev[Slot(h, k)]
    BY <2>1, <1>2, QueueIsSeq
  <2>4. Queue(g)[k] = g.ev[Slot(g, k)]
    BY QueueIsSeq
  <2> QED BY <2>1, <2>2, <2>3, <2>4, <1>4, <1>6
<1>8. Queue(h)[Queued(g) + 1] = e
  <2>1. Queued(h) \in Nat /\ Queued(h) >= 1
    BY <1>3, QueuedIs, RingAssumption DEF Index
  <2>4. Queued(h) \in 1 .. Queued(h)
    BY <2>1
  <2>2. Queue(h)[Queued(h)] = h.ev[Slot(h, Queued(h))]
    BY <2>4, <1>2, QueueIsSeq
  <2>3. Slot(h, Queued(h)) = g.w
    BY <1>3, <1>4, <1>5, SlotOfEnd
  <2> QED BY <2>2, <2>3, <1>3, <1>6
<1>9. Queue(h) = Append(Queue(g), e)
  <2>1. Queue(h) \in Seq(Event \cup {NoEvent}) /\ Len(Queue(h)) = Queued(g) + 1
    BY <1>2, <1>3, QueueIsSeq
  <2>2. Queue(g) \in Seq(Event \cup {NoEvent}) /\ Len(Queue(g)) = Queued(g)
    BY QueueIsSeq
  <2> QED BY <2>1, <2>2, <1>7, <1>8
<1> QED BY <1>2, <1>9

LEMMA PollTakesFirst ==
    ASSUME NEW g \in Ring, ~IsEmpty(g)
    PROVE  /\ Poll(g) \in Ring
           /\ Queue(g) # <<>>
           /\ Queue(Poll(g)) = Tail(Queue(g))
<1> DEFINE h == Poll(g)
<1>1. Next1(g.r) \in Index
  BY NextIndex, RingAssumption DEF Ring, Index
<1>2. h \in Ring /\ h.w = g.w /\ h.r = Next1(g.r) /\ h.ev = [g.ev EXCEPT ![g.r] = NoEvent]
  BY <1>1 DEF Poll, Ring
<1>3. Queued(g) \in Nat /\ Queued(g) >= 1 /\ Queued(g) < EvtMax /\ Queued(h) = Queued(g) - 1
  <2>1. g.w \in Index /\ g.r \in Index /\ g.r # g.w
    BY DEF Ring, IsEmpty
  <2>2. h.r = IF g.r = EvtMax - 1 THEN 0 ELSE g.r + 1
    BY <1>2, <2>1, NextIndex
  <2>3. Queued(h) = IF g.w < h.r THEN g.w - h.r + EvtMax ELSE g.w - h.r
    BY <1>2, QueuedIs
  <2>4. Queued(g) = IF g.w < g.r THEN g.w - g.r + EvtMax ELSE g.w - g.r
    BY QueuedIs
  <2> QED BY <2>1, <2>2, <2>3, <2>4, RingAssumption DEF Index
<1>4. ASSUME NEW k \in 1 .. Queued(h)
      PROVE  Queue(h)[k] = Queue(g)[k + 1]
  <2>1. k \in 1 .. EvtMax /\ k + 1 \in 1 .. EvtMax /\ k + 1 \in 1 .. Queued(g) /\ 1 \in 1 .. EvtMax
    BY <1>3, RingAssumption
  <2>2. Slot(h, k) = Slot(g, k + 1)
    <3>1. g.r \in Index /\ h.r = IF g.r = EvtMax - 1 THEN 0 ELSE g.r + 1
      BY <1>2, NextIndex DEF Ring
    <3>2. Slot(h, k) = IF h.r + k - 1 < EvtMax THEN h.r + k - 1 ELSE h.r + k - 1 - EvtMax
      BY <2>1, <1>2, SlotIs
    <3>3. Slot(g, k + 1) = IF g.r + (k + 1) - 1 < EvtMax THEN g.r + (k + 1) - 1
                           ELSE g.r + (k + 1) - 1 - EvtMax
      BY <2>1, SlotIs
    <3> QED BY <2>1, <3>1, <3>2, <3>3, RingAssumption DEF Index
  <2>3. Slot(g, 1) = g.r
    BY <2>1, SlotIs, RingAssumption DEF Ring, Index
  <2>4. Slot(g, k + 1) # g.r /\ Slot(g, k + 1) \in Index
    BY <2>1, <2>3, SlotsApart, SlotIs
  <2>5. h.ev[Slot(g, k + 1)] = g.ev[Slot(g, k + 1)]
    BY <2>4, <1>2 DEF Ring
  <2>6. Queue(h)[k] = h.ev[Slot(h, k)] /\ Queue(g)[k + 1] = g.ev[Slot(g, k + 1)]
    <3>1. k \in 1 .. Queued(h) /\ k + 1 \in 1 .. Queued(g)
      BY <2>1
    <3> HIDE DEF h
    <3> QED BY <3>1, <1>2, QueueIsSeq
  <2> HIDE DEF h
  <2> QED BY <2>2, <2>5, <2>6
<1>5. /\ Queue(h) \in Seq(Event \cup {NoEvent}) /\ Len(Queue(h)) = Queued(g) - 1
      /\ Queue(g) \in Seq(Event \cup {NoEvent}) /\ Len(Queue(g)) = Queued(g)
  BY <1>2, <1>3, QueueIsSeq
<1>6. Queue(g) # <<>>
  BY <1>3, <1>5
<1> QED BY <1>2, <1>3, <1>4, <1>5, <1>6

LEMMA MergeReplaces ==
    ASSUME NEW g \in Ring, NEW e \in Event, NEW k \in 1 .. Queued(g)
    PROVE  MergeAt(g, k, e) \in Ring /\ Queue(MergeAt(g, k, e)) = [Queue(g) EXCEPT ![k] = e]
<1> DEFINE h == MergeAt(g, k, e)
<1>1. Queued(g) \in Nat /\ Queued(g) < EvtMax /\ k \in 1 .. EvtMax /\ Slot(g, k) \in Index
  BY QueuedIs, SlotIs, RingAssumption DEF Index
<1>2. h \in Ring /\ h.r = g.r /\ h.w = g.w /\ h.ev = [g.ev EXCEPT ![Slot(g, k)] = e]
  BY <1>1 DEF MergeAt, Ring
<1>3. Queued(h) = Queued(g) /\ \A j \in 1 .. EvtMax : Slot(h, j) = Slot(g, j)
  BY <1>2 DEF Queued, Slot
<1>4. ASSUME NEW j \in 1 .. Queued(g)
      PROVE  Queue(h)[j] = IF j = k THEN e ELSE Queue(g)[j]
  <2>1. j \in 1 .. EvtMax
    BY <1>1, RingAssumption
  <2>4. Slot(g, j) \in Index
    BY <2>1, SlotIs
  <2>2. j # k => Slot(g, j) # Slot(g, k)
    BY <1>1, <2>1, SlotsApart
  <2>3. h.ev[Slot(g, j)] = IF j = k THEN e ELSE g.ev[Slot(g, j)]
    BY <2>2, <2>4, <1>1, <1>2 DEF Ring
  <2>5. Queue(h)[j] = h.ev[Slot(h, j)] /\ Queue(g)[j] = g.ev[Slot(g, j)]
    <3>1. j \in 1 .. Queued(h)
      BY <1>3
    <3> HIDE DEF h
    <3> QED BY <3>1, <1>2, QueueIsSeq
  <2>6. Slot(h, j) = Slot(g, j)
    BY <2>1, <1>3
  <2> HIDE DEF h
  <2> QED BY <2>3, <2>5, <2>6
<1>5. /\ Queue(h) \in Seq(Event \cup {NoEvent}) /\ Len(Queue(h)) = Queued(g)
      /\ Queue(g) \in Seq(Event \cup {NoEvent}) /\ Len(Queue(g)) = Queued(g)
  BY <1>2, <1>3, QueueIsSeq
<1> QED BY <1>1, <1>2, <1>4, <1>5

\* Only queued events of the same type are merged into, and the pointer only
\* into the newest unless the ring is full.
LEMMA MergesWell ==
    ASSUME NEW g \in Ring, NEW e \in Event, NEW k \in Merges(g, e)
    PROVE  /\ k \in 1 .. Queued(g) /\ e.type # "key" /\ Queue(g)[k].type = e.type
           /\ e.type = "mouse" => k = Queued(g) \/ Full(g)
<1>1. e.type \in {"key", "mouse", "resize"}
  BY DEF Event
<1>2. Queued(g) \in Nat /\ (~IsEmpty(g) => Queued(g) >= 1)
  BY QueuedIs, RingAssumption DEF IsEmpty, Ring, Index
<1>3. CASE e.type = "resize"
  BY <1>3 DEF Merges, Oldest
<1>4. CASE e.type = "mouse"
  BY <1>2, <1>4 DEF Merges, Oldest
<1>5. CASE e.type = "key"
  BY <1>5 DEF Merges
<1> QED BY <1>1, <1>3, <1>4, <1>5

\* The three outcomes of display_post_event.
LEMMA PostIs ==
    ASSUME NEW g \in Ring, NEW e \in Event
    PROVE  /\ Post(g, e) \in Ring
           /\ \/ \E k \in Merges(g, e) :
                    /\ k \in 1 .. Queued(g)
                    /\ Queue(Post(g, e)) = [Queue(g) EXCEPT ![k] = e]
              \/ Merges(g, e) = {} /\ Full(g) /\ Post(g, e) = g
              \/ /\ Merges(g, e) = {} /\ ~Full(g)
                 /\ Queue(Post(g, e)) = Append(Queue(g), e)
<1>1. CASE Merges(g, e) # {}
  <2> DEFINE k == CHOOSE j \in Merges(g, e) : TRUE
  <2>1. k \in Merges(g, e)
    BY <1>1
  <2>2. Post(g, e) = MergeAt(g, k, e)
    BY <1>1 DEF Post
  <2> HIDE DEF k
  <2>3. k \in 1 .. Queued(g)
    BY <2>1, MergesWell
  <2>4. Post(g, e) \in Ring /\ Queue(Post(g, e)) = [Queue(g) EXCEPT ![k] = e]
    BY <2>2, <2>3, MergeReplaces
  <2> QED BY <2>1, <2>3, <2>4
<1>2. CASE Merges(g, e) = {} /\ Full(g)
  BY <1>2 DEF Post
<1>3. CASE Merges(g, e) = {} /\ ~Full(g)
  BY <1>3, EnqueueAppends DEF Post
<1> QED BY <1>1, <1>2, <1>3

-----------------------------------------------------------------------------
(* The refinement.  The invariant is the type of the ring; the work is in   *)
(* the indices.                                                             *)

RingOK == ring \in Ring

LEMMA InitRefines == RingInit => RingOK /\ Abs!Init
<1> SUFFICES ASSUME RingInit PROVE RingOK /\ Abs!Init
  OBVIOUS
<1> QED BY EmptyQueue DEF RingInit, RingOK, Abs!Init

LEMMA PostRefines ==
    ASSUME RingOK, NEW e \in Event, ServerPosts(e)
    PROVE  RingOK' /\ Abs!Next
<1> USE DEF RingOK
<1>1. ring' = Post(ring, e) /\ Len(Queue(ring)) = Queued(ring)
  BY QueueIsSeq DEF ServerPosts
<1>2. e \in Abs!Event
  BY DEF Event, Abs!Event
<1>3. ring' \in Ring
  BY <1>1, PostIs
<1>4. CASE \E k \in Merges(ring, e) :
              k \in 1 .. Queued(ring) /\ Queue(ring') = [Queue(ring) EXCEPT ![k] = e]
  <2>1. PICK k \in Merges(ring, e) :
               k \in 1 .. Queued(ring) /\ Queue(ring') = [Queue(ring) EXCEPT ![k] = e]
    BY <1>4
  <2>2. /\ e.type # "key" /\ Queue(ring)[k].type = e.type
        /\ e.type = "mouse" => k = Queued(ring) \/ Full(ring)
    BY MergesWell
  <2>3. Abs!Merge(e, k)
    BY <1>1, <2>1, <2>2, FullIs DEF Abs!Merge
  <2> QED BY <1>1, <1>2, <1>3, <2>1, <2>3 DEF Abs!Next
<1>5. CASE Merges(ring, e) = {} /\ Full(ring) /\ ring' = ring
  BY <1>1, <1>2, <1>5, FullIs DEF Abs!Next, Abs!Refuse
<1>6. CASE Merges(ring, e) = {} /\ ~Full(ring) /\ Queue(ring') = Append(Queue(ring), e)
  <2>1. Len(Queue(ring)) < EvtMax - 1
    BY <1>1, <1>6, FullIs, QueuedIs, RingAssumption DEF Index
  <2> QED BY <1>2, <1>3, <1>6, <2>1 DEF Abs!Next, Abs!Accept
<1> QED BY <1>1, <1>4, <1>5, <1>6, PostIs

LEMMA PollRefines ==
    ASSUME RingOK, ClientPolls
    PROVE  RingOK' /\ Abs!Next
  BY PollTakesFirst DEF RingOK, ClientPolls, Abs!Next, Abs!Deliver

LEMMA StepRefines == RingOK /\ [RingNext]_ringVars => RingOK' /\ [Abs!Next]_(Queue(ring))
<1> SUFFICES ASSUME RingOK, [RingNext]_ringVars PROVE RingOK' /\ [Abs!Next]_(Queue(ring))
  OBVIOUS
<1>1. CASE UNCHANGED ringVars
  BY <1>1 DEF ringVars, RingOK, Queue, Queued, Slot
<1> QED BY <1>1, PostRefines, PollRefines DEF RingNext

\* display_post_event and display_poll_event treat the ring as a bounded queue,
\* for every GUI_EVT_MAX and whatever is posted and polled: an event is dropped
\* only when the ring is full, keys keep their order and come out once, the
\* pointer and a resize take the place of their like only.
THEOREM RingIsAQueue == RingSpec => IsAQueue
<1>1. RingSpec => []RingOK
  BY InitRefines, StepRefines, PTL DEF RingSpec
<1>2. RingOK /\ [RingNext]_ringVars => [Abs!Next]_(Queue(ring))
  BY StepRefines
<1> QED BY <1>1, <1>2, InitRefines, PTL DEF RingSpec, IsAQueue, Abs!Spec
=============================================================================
