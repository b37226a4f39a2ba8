---------------------------- MODULE MCKernelLocks ----------------------------
(* Instances of the lock model: which calls and interrupts are combined.   *)
EXTENDS KernelLocks

TwoTasks == {"a", "b"}

\* Logging, the heap and the mouse, from both tasks.
Quiet == [calls |-> {"log", "alloc", "dealloc", "get_log_entries", "try_read_event", "buttons"},
          irqs |-> {"timer", "mouse"}]

\* The calls that hold SCHEDULER, with logging and the keyboard.
Scheduling == [calls |-> SchedulerCalls \cup {"log", "read_key"}, irqs |-> {"timer", "keyboard"}]

Keys == [calls |-> {"read_key"}, irqs |-> {"timer", "keyboard"}]

QuietOrScheduling == {Quiet, Scheduling}
KeysOnly == {Keys}
=============================================================================
