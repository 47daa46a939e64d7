----------------------------- MODULE BevyEvents -----------------------------
(***************************************************************************)
(* The event queues of bevy_ecs 0.9 (Events<E>, EventReader, EventWriter), *)
(* as src/src/events.rs uses them: every event type has one reader, so a   *)
(* queue is the events that reader has not read yet.  A queue is a double  *)
(* buffer: Events::update_system drops the old buffer, read or not, and    *)
(* makes the new buffer the old one.  EventReader::iter takes events out   *)
(* one by one; EventReader::is_empty looks at them and takes none.         *)
(*                                                                         *)
(* Two representations: sets, where neither the order nor the number of    *)
(* equal events changes what the reader does, and sequences.               *)
(***************************************************************************)
EXTENDS Integers, Sequences

Queue(E) == [old : SUBSET E, new : SUBSET E]
NoEvents == [old |-> {}, new |-> {}]
Send(q, S) == [q EXCEPT !.new = @ \cup S]
(* Variant for mutation runs: an update that keeps nothing for the next reading. *)
SwapClears(q) == NoEvents
Swap(q)    == [old |-> q.new, new |-> {}]
Unread(q)  == q.old \cup q.new

OrderedQueue(E) == [old : Seq(E), new : Seq(E)]
NoOrdered == [old |-> <<>>, new |-> <<>>]
SendLast(q, e)   == [q EXCEPT !.new = Append(@, e)]
UnreadInOrder(q) == q.old \o q.new
(* Variant for mutation runs: an update that drops nothing. *)
SwapOrderedKeeps(q) == [old |-> UnreadInOrder(q), new |-> <<>>]
SwapOrdered(q)   == [old |-> q.new, new |-> <<>>]

(* What is left unread after the reader has taken the first n events. *)
DropFirst(q, n) ==
    [old |-> SubSeq(q.old, n + 1, Len(q.old)),
     new |-> IF n <= Len(q.old) THEN q.new
                                ELSE SubSeq(q.new, n - Len(q.old) + 1, Len(q.new))]
=============================================================================
