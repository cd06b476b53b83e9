------------------------------ MODULE GuiRing ------------------------------
(***************************************************************************)
(* The event ring of one window: the arrays ev[], ev_r and ev_w of GuiWin  *)
(* in src/kernel/gui/display.c, and what display_post_event and            *)
(* display_poll_event do to them once the caller has been accepted.        *)
(***************************************************************************)
EXTENDS Integers, Sequences

CONSTANTS
    EvtMax,     \* GUI_EVT_MAX: slots of the ring, one of which stays empty
    Keys,       \* what a key or close event carries
    Points,     \* pointer positions and buttons
    Sizes       \* window sizes

ASSUME RingAssumption == EvtMax \in Nat /\ EvtMax >= 2

Event == [type : {"key"}, v : Keys] \cup [type : {"mouse"}, v : Points]
         \cup [type : {"resize"}, v : Sizes]

\* A slot outside ev_r .. ev_w.  The code leaves the old event there and
\* nothing reads it.
NoEvent == [type |-> "none"]

Index == 0 .. EvtMax - 1
Ring == [ev : [Index -> Event \cup {NoEvent}], r : Index, w : Index]
EmptyRing == [ev |-> [i \in Index |-> NoEvent], r |-> 0, w |-> 0]

Next1(i) == (i + 1) % EvtMax
Queued(g) == (g.w - g.r + EvtMax) % EvtMax
Slot(g, k) == (g.r + k - 1) % EvtMax        \* of the k-th queued event
IsEmpty(g) == g.r = g.w

FullLate(g) == g.w = g.r /\ g.ev[g.r] # NoEvent     \* mutant: ev_w catches up with ev_r
Full(g) == Next1(g.w) = g.r

\* The queued events, oldest first.
Queue(g) == [k \in 1 .. Queued(g) |-> g.ev[Slot(g, k)]]

\* The queued events that an event of this type may be merged into: the oldest
\* resize, the newest event if it is a mouse event, or, when the ring is full,
\* the oldest mouse event.
Oldest(g, type) ==
    {k \in 1 .. Queued(g) : /\ Queue(g)[k].type = type
                            /\ \A j \in 1 .. k - 1 : Queue(g)[j].type # type}

Merges(g, e) ==
    CASE e.type = "resize" -> Oldest(g, "resize")
      [] e.type = "mouse" /\ ~IsEmpty(g) /\ Queue(g)[Queued(g)].type = "mouse" -> {Queued(g)}
      [] e.type = "mouse" /\ Full(g) -> Oldest(g, "mouse")
      [] OTHER -> {}

MergeKeepsOld(g, k, e) == g         \* mutant: the queued event keeps its values
MergeAt(g, k, e) == [g EXCEPT !.ev[Slot(g, k)] = e]
Enqueue(g, e) == [g EXCEPT !.ev[g.w] = e, !.w = Next1(g.w)]

\* display_post_event: merged, dropped or queued.
Post(g, e) ==
    IF Merges(g, e) # {} THEN MergeAt(g, CHOOSE k \in Merges(g, e) : TRUE, e)
    ELSE IF Full(g) THEN g
    ELSE Enqueue(g, e)

\* There is no room for e at the end of the queue, or where the resize was: it
\* is dropped, or a mouse event is merged out of order.
OutOfRoom(g, e) == Full(g) /\ (e.type = "mouse" => Merges(g, e) # {Queued(g)})
                           /\ (e.type = "resize" => Merges(g, e) = {})

\* display_poll_event, for a ring that is not empty.
Poll(g) == [g EXCEPT !.ev[g.r] = NoEvent, !.r = Next1(g.r)]
Polled(g) == g.ev[g.r]
=============================================================================
