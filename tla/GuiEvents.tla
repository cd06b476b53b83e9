----------------------------- MODULE GuiEvents -----------------------------
(***************************************************************************)
(* The display server posts events to one window and its client polls them *)
(* (src/kernel/gui/display.c).  The server ignores the result of a post,   *)
(* so what the ring drops nobody posts again.                              *)
(***************************************************************************)
EXTENDS GuiRing

CONSTANTS Point0, Size0     \* what client and server start from

ASSUME StartAssumption == Point0 \in Points /\ Size0 \in Sizes

VARIABLES
    ring,       \* ev[], ev_r, ev_w of the window
    posted,     \* history: the last pointer and the last size posted
    seen,       \* history: the last pointer and the last size polled
    late        \* history: the types of which an event found no room at the end

ringVars == <<ring, posted, seen, late>>

RingInit ==
    /\ ring = EmptyRing
    /\ posted = [mouse |-> Point0, resize |-> Size0]
    /\ seen = posted
    /\ late = {}

Learn(known, e) == IF e.type = "key" THEN known ELSE [known EXCEPT ![e.type] = e.v]

ServerPosts(e) ==
    /\ ring' = Post(ring, e)
    /\ posted' = Learn(posted, e)
    /\ late' = IF OutOfRoom(ring, e) THEN late \cup {e.type} ELSE late
    /\ UNCHANGED seen

ClientPolls ==
    /\ ~IsEmpty(ring)
    /\ seen' = Learn(seen, Polled(ring))
    /\ ring' = Poll(ring)
    /\ UNCHANGED <<posted, late>>

RingNext == (\E e \in Event : ServerPosts(e)) \/ ClientPolls
RingSpec == RingInit /\ [][RingNext]_ringVars /\ WF_ringVars(ClientPolls)

-----------------------------------------------------------------------------
(* Properties *)

\* The ring is a queue: see GuiQueue.
Abs == INSTANCE GuiQueue WITH queue <- Queue(ring), Cap <- EvtMax - 1
IsAQueue == Abs!Spec

\* A client that keeps polling gets to see a resize, whatever else is posted,
\* unless a later resize replaces it.
ResizeArrives ==
    \A s \in Sizes : (posted.resize = s /\ "resize" \notin late) ~>
                        (seen.resize = s \/ posted.resize # s)

=============================================================================
