----------------------------- MODULE EventQueue -----------------------------
(***************************************************************************)
(* What a bounded event buffer promises: first in, first out.  A push into *)
(* a full buffer loses either the new event or the oldest one.             *)
(***************************************************************************)
EXTENDS Naturals, Sequences

CONSTANTS Events, Capacity, DropOldest

VARIABLE queue

Init == queue = <<>>

Push(e) ==
  queue' = IF Len(queue) < Capacity THEN Append(queue, e)
           ELSE IF DropOldest THEN Append(Tail(queue), e)
           ELSE queue

Pop == queue # <<>> /\ queue' = Tail(queue)

Next == Pop \/ \E e \in Events : Push(e)

Spec == Init /\ [][Next]_queue
=============================================================================
