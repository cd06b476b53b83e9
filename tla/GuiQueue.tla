------------------------------ MODULE GuiQueue ------------------------------
(***************************************************************************)
(* What a window's client may rely on: a bounded queue of events in order. *)
(* An event is only ever refused by a full queue, and a pointer or resize  *)
(* event may take the place of an earlier one of its kind.  Keys are       *)
(* neither merged, reordered nor delivered twice.                          *)
(***************************************************************************)
EXTENDS Integers, SequencesExt

CONSTANTS Cap, Keys, Points, Sizes
VARIABLE queue

Event == [type : {"key"}, v : Keys] \cup [type : {"mouse"}, v : Points]
         \cup [type : {"resize"}, v : Sizes]

Init == queue = <<>>

Accept(e) == Len(queue) < Cap /\ queue' = Append(queue, e)

\* A resize finds any earlier one; the pointer is merged into an older event
\* than the last only when there is no room.
Merge(e, k) ==
    /\ e.type # "key" /\ queue[k].type = e.type
    /\ e.type = "mouse" => k = Len(queue) \/ Len(queue) = Cap
    /\ queue' = [queue EXCEPT ![k] = e]

Refuse(e) == Len(queue) = Cap /\ UNCHANGED queue

Deliver == queue # <<>> /\ queue' = Tail(queue)

Next ==
    \/ \E e \in Event : \/ Accept(e) \/ Refuse(e)
                        \/ \E k \in 1 .. Len(queue) : Merge(e, k)
    \/ Deliver

Spec == Init /\ [][Next]_queue
=============================================================================
