----------------------------- MODULE BoundedFifo -----------------------------
(***************************************************************************)
(* What a circular buffer promises: values come out in the order they went *)
(* in, and a value that finds the buffer full is refused and changes       *)
(* nothing.                                                                *)
(***************************************************************************)
EXTENDS Naturals, Sequences

CONSTANTS Value, Size

VARIABLE queue

Init == queue = <<>>

Put(v) == Len(queue) < Size /\ queue' = Append(queue, v)

Get == queue # <<>> /\ queue' = Tail(queue)

Next == (\E v \in Value : Put(v)) \/ Get

Spec == Init /\ [][Next]_queue
=============================================================================
