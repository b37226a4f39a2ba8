----------------------------- MODULE MCScheduler -----------------------------
(* Small instances of the scheduler.                                       *)
EXTENDS Scheduler, TLC

CONSTANTS k1, k2

TwoStacks == {k1, k2}

\* Two levels; the higher one has the longer time slice, as in the code.
TwoLevels == {0, 1}
Slices == 0 :> 2 @@ 1 :> 3

LongDelay == {3}
OneDelay == {1}

StackSymmetry == Permutations({k1, k2})
=============================================================================
