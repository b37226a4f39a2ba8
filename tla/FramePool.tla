------------------------------ MODULE FramePool ------------------------------
(***************************************************************************)
(* What the frame allocator promises its clients: a set of free frames     *)
(* from which allocate_frame takes the lowest one,                         *)
(* allocate_contiguous_frames the lowest run of the length asked for, and  *)
(* which free_frame gives a frame back to.  An allocation fails only when  *)
(* no frame (no run) is free.  There is neither bitmap, counter nor hint.  *)
(***************************************************************************)
EXTENDS Integers

CONSTANTS MAX_FRAMES, Counts

VARIABLES free, owned, result

Outcome(op, first, count) == [op |-> op, first |-> first, count |-> count]

Init ==
  /\ free = {}
  /\ owned = {}
  /\ result = Outcome("boot", 0, 0)

Boot ==
  /\ result.op = "boot"
  /\ free' \subseteq 0 .. MAX_FRAMES - 1
  /\ owned' = owned
  /\ result' = Outcome("idle", 0, 0)

\* The n frames from s on change hands.
Take(s, n, op) ==
  /\ result.op # "boot"
  /\ s .. s + n - 1 \subseteq free
  /\ \A t \in 0 .. s - 1 : ~(t .. t + n - 1 \subseteq free)
  /\ free' = free \ (s .. s + n - 1)
  /\ owned' = owned \cup (s .. s + n - 1)
  /\ result' = Outcome(op, s, n)

\* No n consecutive frames are free.
Refuse(n, op, reported) ==
  /\ result.op # "boot"
  /\ \A s \in 0 .. MAX_FRAMES - 1 : ~(s .. s + n - 1 \subseteq free)
  /\ result' = Outcome(op, 0, reported)
  /\ UNCHANGED <<free, owned>>

Give(f) ==
  /\ result.op # "boot"
  /\ f \in owned
  /\ free' = free \cup {f}
  /\ owned' = owned \ {f}
  /\ result' = Outcome("idle", 0, 0)

Next ==
  \/ Boot
  \/ \E s \in 0 .. MAX_FRAMES - 1 : Take(s, 1, "single")
  \/ \E s \in 0 .. MAX_FRAMES - 1, n \in Counts : Take(s, n, "run")
  \/ Refuse(1, "none", 0)
  \/ \E n \in Counts : Refuse(n, "no_run", n)
  \/ \E f \in 0 .. MAX_FRAMES - 1 : Give(f)

Spec == Init /\ [][Next]_<<free, owned, result>>
=============================================================================
