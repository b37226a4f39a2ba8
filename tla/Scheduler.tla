------------------------------ MODULE Scheduler ------------------------------
(***************************************************************************)
(* The preemptive task scheduler of the kernel                             *)
(* (kernel/src/core_kernel/scheduler.rs) on its single CPU: the task       *)
(* table, the timer interrupt that switches stacks, and the calls tasks    *)
(* make.  The timer interrupt runs with interrupts off, so timer_tick is   *)
(* one action; it may fire between any two steps of the executing task.    *)
(*                                                                         *)
(* The SCHEDULER lock is held across an explicit step (Unlock), so that a  *)
(* tick may find it taken.  What a call does under the lock is visible to  *)
(* nobody before the release, except DEFERRED_FREE, which the tick         *)
(* consumes first: exit_current_task is therefore two steps under the lock.*)
(*                                                                         *)
(* The CPU is represented by rsp, the stack it executes on, and fpu, the   *)
(* task whose values are in the FPU registers.  A saved stack pointer and  *)
(* an FXSAVE area are represented by whose they are.  Task 0 is the shell; *)
(* the shell commands and the task manager run in it.                      *)
(*                                                                         *)
(* Time is relative: wake_tick is the number of ticks still to go, so      *)
(* "current_tick >= wake_tick" is "none to go".  A wake_tick of 0 in the   *)
(* code (not sleeping) is NoWake.                                          *)
(***************************************************************************)
EXTENDS Integers, FiniteSets

CONSTANTS MAX_TASKS,   \* slots of the task table
          Stacks,      \* the stacks that fit in memory (5 frames each)
          BootStack,   \* the stack task 0 runs on
          NoStack,     \* a stack_base of 0, an empty DEFERRED_FREE
          Priorities,  \* priority levels, a set of numbers
          Normal,      \* TaskPriority::Normal
          Quantum,     \* ticks per time slice of each level
          Delays,      \* arguments of sleep_ms
          MaxId        \* bound on the ids handed out (u32 in the code)

ASSUME ConstantsAssumption ==
  /\ MAX_TASKS \in Nat \ {0}
  /\ BootStack \notin Stacks
  /\ NoStack \notin Stacks \cup {BootStack}
  /\ Priorities \subseteq Nat
  /\ Normal \in Priorities
  /\ Quantum \in [Priorities -> Nat \ {0}]
  /\ Delays \subseteq Nat \ {0}
  /\ MaxId \in Nat

VARIABLES
  \* the Scheduler struct, one function per field of Task
  state, id, priority, quantum_remaining, wake_tick, stack_base, saved_rsp,
  fxsave, current, next_id,
  DEFERRED_FREE,  \* the stack waiting to be freed, or NoStack
  free_stacks,    \* stacks the frame allocator can hand out
  locked,         \* SCHEDULER is held (by the executing task)
  rsp, fpu,       \* the CPU: executing stack, owner of the FPU registers
  pc,             \* where the code on each stack stands
  due             \* ghost: ticks to go until the sleep_ms on a stack may return

tasks == <<state, id, priority, quantum_remaining, wake_tick, stack_base,
           saved_rsp, fxsave>>
vars == <<tasks, current, next_id, DEFERRED_FREE, free_stacks, locked, rsp, fpu,
          pc, due>>

Slots == 0 .. MAX_TASKS - 1
AllStacks == Stacks \cup {BootStack}
NoWake == -1
NoFpu == -1   \* fpu_initialized is FALSE
TaskState == {"Empty", "Ready", "Running", "Blocked", "Exited"}

(* pc: "run" in task code; "call_*" about to take the lock; "crit_*" holding *)
(* it, until Unlock; "sleeping" in the loop of sleep_ms, "halting" and       *)
(* "halted" before and in its hlt; "dead" in the last loop of a task.        *)
PC == {"run", "call_sleep", "crit_run", "crit_sleep", "crit_halt", "crit_exit",
       "crit_dead", "sleeping", "halting", "halted", "dead"}
Critical == {"crit_run", "crit_sleep", "crit_halt", "crit_exit", "crit_dead"}

Init ==
  /\ state = [s \in Slots |-> IF s = 0 THEN "Running" ELSE "Empty"]
  /\ id = [s \in Slots |-> 0]
  /\ priority = [s \in Slots |-> Normal]
  /\ quantum_remaining = [s \in Slots |-> IF s = 0 THEN Quantum[Normal] ELSE 0]
  /\ wake_tick = [s \in Slots |-> NoWake]
  /\ stack_base = [s \in Slots |-> NoStack]
  /\ saved_rsp = [s \in Slots |-> NoStack]
  /\ fxsave = [s \in Slots |-> IF s = 0 THEN 0 ELSE NoFpu]
  /\ current = 0
  /\ next_id = 1
  /\ DEFERRED_FREE = NoStack
  /\ free_stacks = Stacks
  /\ locked = FALSE
  /\ rsp = BootStack
  /\ fpu = 0
  /\ pc = [k \in AllStacks |-> IF k = BootStack THEN "run" ELSE "dead"]
  /\ due = [k \in AllStacks |-> 0]

-----------------------------------------------------------------------------
(* The timer interrupt                                                     *)

\* Mutant: the unsigned counters wrap.
Countdown_wraps(n) == n - 1

Countdown(n) == IF n > 0 THEN n - 1 ELSE n

\* shell::timer_tick: one more tick, one fewer to go.  An interrupt also ends
\* the hlt it hit, not one that is still to come.
ClockAdvances(wake) ==
  /\ wake_tick' = [s \in Slots |-> Countdown(wake[s])]
  /\ due' = [k \in AllStacks |-> Countdown(due[k])]
  /\ pc' = IF pc[rsp] = "halted" THEN [pc EXCEPT ![rsp] = "sleeping"] ELSE pc

\* Mutant: the option is read but not taken.
process_deferred_free_keeps ==
  /\ free_stacks' = free_stacks \cup ({DEFERRED_FREE} \ {NoStack})
  /\ DEFERRED_FREE' = DEFERRED_FREE

\* Mutant: the stack is not returned.
process_deferred_free_leaks ==
  /\ free_stacks' = free_stacks
  /\ DEFERRED_FREE' = NoStack

process_deferred_free ==
  /\ free_stacks' = free_stacks \cup ({DEFERRED_FREE} \ {NoStack})
  /\ DEFERRED_FREE' = NoStack

\* Mutant: the deadline is ignored.
Waking_early(s) == state[s] = "Blocked"

\* Mutant: the current task is not woken.
Waking_others(s) == state[s] = "Blocked" /\ wake_tick[s] = 0 /\ s # current

\* The tasks wake_sleeping_tasks makes Ready.
Waking(s) == state[s] = "Blocked" /\ wake_tick[s] = 0

\* pick_next over the states st: the first Ready slot after current, wrapping,
\* among those of the highest Ready priority.
Distance(s) == IF s > current THEN s - current ELSE s - current + MAX_TASKS

\* Mutant: ties go to the lowest slot.
IsPicked_lowest(n, st) ==
  /\ st[n] = "Ready"
  /\ \A s \in Slots : st[s] = "Ready" =>
       \/ priority[s] < priority[n]
       \/ priority[s] = priority[n] /\ s >= n

IsPicked(n, st) ==
  /\ st[n] = "Ready"
  /\ \A s \in Slots : st[s] = "Ready" =>
       \/ priority[s] < priority[n]
       \/ priority[s] = priority[n] /\ Distance(s) >= Distance(n)

\* SCHEDULER.try_lock() in the tick.
try_lock == ~locked

\* The tick finds SCHEDULER taken and returns to the interrupted code.
timer_tick_busy ==
  /\ ~try_lock
  /\ process_deferred_free
  /\ ClockAdvances(wake_tick)
  /\ UNCHANGED <<state, id, priority, quantum_remaining, stack_base, saved_rsp,
                 fxsave, current, next_id, locked, rsp, fpu>>

\* The states after waking and, when a switch is needed, after the current
\* task has been retired.
Woken == [s \in Slots |-> IF Waking(s) THEN "Ready" ELSE state[s]]

SliceLeft == Countdown(IF Waking(current) THEN Quantum[priority[current]]
                                          ELSE quantum_remaining[current])

NeedsSwitch == SliceLeft = 0 \/ Woken[current] \in {"Exited", "Blocked"}

\* Mutant: the preempted task stays Running.
Retired_running == [Woken EXCEPT ![current] = IF @ = "Exited" THEN "Empty" ELSE @]

\* Mutant: an exited task keeps its slot.
Retired_exited == [Woken EXCEPT ![current] = IF @ = "Running" THEN "Ready" ELSE @]

Retired == [Woken EXCEPT ![current] =
             CASE @ = "Exited" -> "Empty" [] @ = "Running" -> "Ready" [] OTHER -> @]

\* The fields of slot s after waking, saving, charging and retiring; empty
\* tells whether the exited current task is replaced by Task::empty().
Charged(s, empty) ==
  IF s = current
  THEN IF empty THEN 0
       ELSE IF NeedsSwitch /\ Woken[s] = "Running" THEN Quantum[priority[s]]
       ELSE SliceLeft
  ELSE IF Waking(s) THEN Quantum[priority[s]] ELSE quantum_remaining[s]

SavedFpu == IF Woken[current] \in {"Exited", "Empty"} THEN fxsave
            ELSE [fxsave EXCEPT ![current] = fpu]

Clear(f, empty, value) == IF empty THEN [f EXCEPT ![current] = value] ELSE f

\* Everything the tick does to the table before it picks a task.
TickTable(st, q) ==
  LET empty == NeedsSwitch /\ Woken[current] = "Exited"
      wake == [s \in Slots |-> IF Waking(s) THEN NoWake ELSE wake_tick[s]] IN
  /\ state' = st
  /\ quantum_remaining' = q
  /\ saved_rsp' = Clear([saved_rsp EXCEPT ![current] = rsp], empty, NoStack)
  /\ id' = Clear(id, empty, 0)
  /\ priority' = Clear(priority, empty, Normal)
  /\ stack_base' = Clear(stack_base, empty, NoStack)
  /\ ClockAdvances(Clear(wake, empty, NoWake))
  /\ process_deferred_free
  /\ UNCHANGED <<next_id, locked>>

ChargedAll == [s \in Slots |->
                 Charged(s, NeedsSwitch /\ Woken[current] = "Exited")]

\* No switch needed.
timer_tick_continue ==
  /\ try_lock
  /\ ~NeedsSwitch
  /\ TickTable(Woken, ChargedAll)
  /\ fxsave' = SavedFpu
  /\ UNCHANGED <<current, rsp, fpu>>

\* Mutant: the saved pointer is read before the tick stores the new one.
ResumeOn_stale(n) == saved_rsp[n]

\* The stack pointer timer_tick returns for slot n: the one just saved if n is
\* the current task itself.
ResumeOn(n) == IF n = current THEN rsp ELSE saved_rsp[n]

\* Switch to the task pick_next finds (possibly the current one again).
timer_tick_switch ==
  /\ try_lock
  /\ NeedsSwitch
  /\ \E n \in Slots :
       LET kept == Clear(SavedFpu, Woken[current] = "Exited", NoFpu)
           mine == IF kept[n] = NoFpu THEN id[n] ELSE kept[n] IN
       /\ IsPicked(n, Retired)
       /\ TickTable([Retired EXCEPT ![n] = "Running"],
                    [ChargedAll EXCEPT ![n] = Quantum[priority[n]]])
       /\ current' = n
       /\ rsp' = ResumeOn(n)
       /\ fpu' = mine
       /\ fxsave' = IF kept[n] = NoFpu THEN [kept EXCEPT ![n] = mine] ELSE kept

\* A switch is needed but nothing is Ready: an empty current slot falls back
\* to task 0 if that can run; a task that is not Blocked runs on; else the
\* CPU stays where it is.
timer_tick_idle ==
  /\ try_lock
  /\ NeedsSwitch
  /\ \A s \in Slots : Retired[s] # "Ready"
  /\ LET kept == Clear(SavedFpu, Woken[current] = "Exited", NoFpu)
         gone == Retired[current] = "Empty"
         fallback == gone /\ Retired[0] \in {"Ready", "Running"}
         resume == ~gone /\ Retired[current] # "Blocked" IN
     /\ TickTable(IF fallback THEN [Retired EXCEPT ![0] = "Running"]
                  ELSE IF resume THEN [Retired EXCEPT ![current] = "Running"]
                  ELSE Retired,
                  IF resume THEN [ChargedAll EXCEPT ![current] = Quantum[priority[current]]]
                  ELSE ChargedAll)
     /\ current' = IF fallback THEN 0 ELSE current
     /\ rsp' = IF fallback THEN saved_rsp[0] ELSE rsp
     /\ fpu' = IF fallback /\ kept[0] # NoFpu THEN kept[0] ELSE fpu
     /\ fxsave' = kept

timer_tick == timer_tick_busy \/ timer_tick_continue \/ timer_tick_switch
              \/ timer_tick_idle

-----------------------------------------------------------------------------
(* Calls of the executing task                                             *)

\* Take SCHEDULER at point `from` of the executing code,
Acquire(from) ==
  /\ pc[rsp] = from
  /\ ~locked
  /\ locked' = TRUE

\* and stay in the critical section `crit`.
Lock(from, crit) ==
  /\ Acquire(from)
  /\ pc' = [pc EXCEPT ![rsp] = crit]

\* The lock guard goes out of scope.
Unlock ==
  /\ pc[rsp] \in Critical \ {"crit_exit"}
  /\ locked' = FALSE
  /\ pc' = [pc EXCEPT ![rsp] = CASE @ = "crit_run" -> "run"
                                 [] @ = "crit_sleep" -> "sleeping"
                                 [] @ = "crit_halt" -> "halting"
                                 [] @ = "crit_dead" -> "dead"]
  /\ UNCHANGED <<tasks, current, next_id, DEFERRED_FREE, free_stacks, rsp, fpu, due>>

EmptySlot(s) == state[s] = "Empty" /\ \A t \in 0 .. s - 1 : state[t] # "Empty"

\* spawn_with_priority, from the shell: the first empty slot and a new stack.
spawn_with_priority(p) ==
  \E s \in Slots, k \in free_stacks :
    /\ rsp = BootStack
    /\ next_id <= MaxId
    /\ Acquire("run")
    /\ EmptySlot(s)
    /\ free_stacks' = free_stacks \ {k}
    /\ next_id' = next_id + 1
    /\ state' = [state EXCEPT ![s] = "Ready"]
    /\ id' = [id EXCEPT ![s] = next_id]
    /\ priority' = [priority EXCEPT ![s] = p]
    /\ quantum_remaining' = [quantum_remaining EXCEPT ![s] = Quantum[p]]
    /\ wake_tick' = [wake_tick EXCEPT ![s] = NoWake]
    /\ stack_base' = [stack_base EXCEPT ![s] = k]
    /\ saved_rsp' = [saved_rsp EXCEPT ![s] = k]
    /\ fxsave' = [fxsave EXCEPT ![s] = NoFpu]
    /\ pc' = [pc EXCEPT ![rsp] = "crit_run", ![k] = "run"]
    /\ due' = [due EXCEPT ![k] = 0]
    /\ UNCHANGED <<current, DEFERRED_FREE, rsp, fpu>>

\* No slot, or no stack: None, with nothing changed.
spawn_fails ==
  /\ rsp = BootStack
  /\ Lock("run", "crit_run")
  /\ free_stacks = {} \/ \A s \in Slots : state[s] # "Empty"
  /\ UNCHANGED <<tasks, current, next_id, DEFERRED_FREE, free_stacks, rsp, fpu, due>>

\* The calls that only read: task_list and the counters.  kill and
\* set_priority of an id that is not found end the same way.
task_list ==
  /\ Lock("run", "crit_run")
  /\ UNCHANGED <<tasks, current, next_id, DEFERRED_FREE, free_stacks, rsp, fpu, due>>

\* The slot kill and set_priority act on.
Found(i, s) == id[s] = i /\ state[s] \notin {"Empty", "Exited"}

\* kill, from the shell or the task manager: the stack is freed at once.
kill(i) ==
  \E s \in Slots :
    /\ rsp = BootStack
    /\ Lock("run", "crit_run")
    /\ Found(i, s)
    /\ free_stacks' = free_stacks \cup ({stack_base[s]} \ {NoStack})
    /\ state' = [state EXCEPT ![s] = "Empty"]
    /\ id' = [id EXCEPT ![s] = 0]
    /\ priority' = [priority EXCEPT ![s] = Normal]
    /\ quantum_remaining' = [quantum_remaining EXCEPT ![s] = 0]
    /\ wake_tick' = [wake_tick EXCEPT ![s] = NoWake]
    /\ stack_base' = [stack_base EXCEPT ![s] = NoStack]
    /\ saved_rsp' = [saved_rsp EXCEPT ![s] = NoStack]
    /\ fxsave' = [fxsave EXCEPT ![s] = NoFpu]
    /\ UNCHANGED <<current, next_id, DEFERRED_FREE, rsp, fpu, due>>

set_priority(i, p) ==
  \E s \in Slots :
    /\ rsp = BootStack
    /\ Lock("run", "crit_run")
    /\ Found(i, s)
    /\ priority' = [priority EXCEPT ![s] = p]
    /\ quantum_remaining' = [quantum_remaining EXCEPT ![s] = Quantum[p]]
    /\ UNCHANGED <<state, id, wake_tick, stack_base, saved_rsp, fxsave, current,
                   next_id, DEFERRED_FREE, free_stacks, rsp, fpu, due>>

yield_now ==
  /\ Lock("run", "crit_run")
  /\ quantum_remaining' = [quantum_remaining EXCEPT ![current] = 0]
  /\ UNCHANGED <<state, id, priority, wake_tick, stack_base, saved_rsp, fxsave,
                 current, next_id, DEFERRED_FREE, free_stacks, rsp, fpu, due>>

\* sleep_ms reads the clock before it takes the lock,
sleep_ms_enter(ms) ==
  /\ pc[rsp] = "run"
  /\ pc' = [pc EXCEPT ![rsp] = "call_sleep"]
  /\ due' = [due EXCEPT ![rsp] = ms]
  /\ UNCHANGED <<tasks, current, next_id, DEFERRED_FREE, free_stacks, locked, rsp, fpu>>

\* blocks the current task until that deadline,
sleep_ms_block ==
  /\ Lock("call_sleep", "crit_sleep")
  /\ state' = [state EXCEPT ![current] = "Blocked"]
  /\ wake_tick' = [wake_tick EXCEPT ![current] = due[rsp]]
  /\ quantum_remaining' = [quantum_remaining EXCEPT ![current] = 0]
  /\ UNCHANGED <<id, priority, stack_base, saved_rsp, fxsave, current, next_id,
                 DEFERRED_FREE, free_stacks, rsp, fpu, due>>

\* looks whether it is Running again,
sleep_ms_check ==
  /\ Lock("sleeping", IF state[current] = "Running" THEN "crit_run" ELSE "crit_halt")
  /\ UNCHANGED <<tasks, current, next_id, DEFERRED_FREE, free_stacks, rsp, fpu, due>>

\* and if not, halts until the next interrupt, which may not be the timer's.
sleep_ms_hlt ==
  /\ pc[rsp] = "halting"
  /\ pc' = [pc EXCEPT ![rsp] = "halted"]
  /\ UNCHANGED <<tasks, current, next_id, DEFERRED_FREE, free_stacks, locked, rsp, fpu, due>>

other_interrupt ==
  /\ pc[rsp] = "halted"
  /\ pc' = [pc EXCEPT ![rsp] = "sleeping"]
  /\ UNCHANGED <<tasks, current, next_id, DEFERRED_FREE, free_stacks, locked, rsp, fpu, due>>

\* exit_current_task marks the task Exited,
exit_current_task ==
  /\ rsp # BootStack
  /\ Lock("run", "crit_exit")
  /\ state' = [state EXCEPT ![current] = "Exited"]
  /\ UNCHANGED <<id, priority, quantum_remaining, wake_tick, stack_base, saved_rsp,
                 fxsave, current, next_id, DEFERRED_FREE, free_stacks, rsp, fpu, due>>

\* then leaves its stack in DEFERRED_FREE, and halts after the release.
exit_defer_free ==
  /\ pc[rsp] = "crit_exit"
  /\ DEFERRED_FREE' = IF stack_base[current] = NoStack THEN DEFERRED_FREE
                      ELSE stack_base[current]
  /\ pc' = [pc EXCEPT ![rsp] = "crit_dead"]
  /\ UNCHANGED <<tasks, current, next_id, free_stacks, locked, rsp, fpu, due>>

-----------------------------------------------------------------------------

\* What the executing task does on its own: finish the call it is in.
Finish == Unlock \/ exit_defer_free \/ sleep_ms_block \/ sleep_ms_check \/ sleep_ms_hlt

Call ==
  \/ \E p \in Priorities : spawn_with_priority(p)
  \/ spawn_fails
  \/ task_list
  \/ \E i \in 1 .. MaxId : kill(i)
  \/ yield_now
  \/ \E ms \in Delays : sleep_ms_enter(ms)
  \/ exit_current_task
  \/ other_interrupt

Reprioritise == \E i \in 0 .. MaxId, p \in Priorities : set_priority(i, p)

Next == timer_tick \/ Finish \/ Call \/ Reprioritise

Spec == Init /\ [][Next]_vars

-----------------------------------------------------------------------------
(* Safety                                                                  *)

Live(s) == state[s] \notin {"Empty", "Exited"}

\* The stack task s runs on: task 0 keeps the boot stack.
StackOf(s) == IF s = 0 THEN BootStack ELSE stack_base[s]

\* Type invariant.
TypeOK ==
  /\ state \in [Slots -> TaskState]
  /\ id \in [Slots -> 0 .. MaxId]
  /\ priority \in [Slots -> Priorities]
  /\ quantum_remaining \in [Slots -> Nat]
  /\ wake_tick \in [Slots -> Nat \cup {NoWake}]
  /\ stack_base \in [Slots -> Stacks \cup {NoStack}]
  /\ saved_rsp \in [Slots -> AllStacks \cup {NoStack}]
  /\ fxsave \in [Slots -> (0 .. MaxId) \cup {NoFpu}]
  /\ current \in Slots
  /\ next_id \in 1 .. MaxId + 1
  /\ DEFERRED_FREE \in Stacks \cup {NoStack}
  /\ free_stacks \subseteq Stacks
  /\ locked \in BOOLEAN
  /\ rsp \in AllStacks
  /\ fpu \in 0 .. MaxId
  /\ pc \in [AllStacks -> PC]
  /\ due \in [AllStacks -> Nat]

\* At most one task is Running, and the scheduler calls it current: no task is
\* left Running behind when timer_tick switches, wakes or falls back.
OneRunning == \A s \in Slots : state[s] = "Running" => s = current

\* The CPU executes the current task with its own stack and its own FPU
\* registers, and every other live task is saved with its own: no sequence of
\* switches, spawns, exits and kills resumes a task on somebody else's context.
ContextInv ==
  /\ state[current] # "Empty" => rsp = StackOf(current)
  /\ Live(current) => fpu = id[current]
  /\ \A s \in Slots \ {current} : Live(s) =>
       /\ saved_rsp[s] = StackOf(s)
       /\ fxsave[s] \in {id[s], NoFpu}

\* The stacks of live tasks are in use: distinct, neither free nor waiting to
\* be freed, and the CPU never executes on the stack of a task that is not
\* current (a freed stack may be handed to a new task only after the CPU has
\* left it).
StackInv ==
  \A s \in Slots : Live(s) /\ s # 0 =>
    /\ stack_base[s] \in Stacks \ (free_stacks \cup {DEFERRED_FREE})
    /\ \A t \in Slots \ {s} : stack_base[t] # stack_base[s]
    /\ s # current => rsp # stack_base[s]

\* Only the executing task is ever inside a critical section: a task that
\* holds SCHEDULER is never switched away from, so no task spins on it.
LockInv ==
  /\ locked <=> pc[rsp] \in Critical
  /\ \A s \in Slots \ {current} : Live(s) => pc[StackOf(s)] \notin Critical

\* Task 0 is the shell for ever: it lives, and has neither an id that kill is
\* given nor a stack that could be freed.
ShellInv == Live(0) /\ id[0] = 0 /\ stack_base[0] = NoStack

\* Only the current task can have exited, and it executes nothing but the end
\* of exit_current_task, even after its slot has become free.  Its stack waits
\* in DEFERRED_FREE, or is free, from the end of the critical section on.
Leaving == {"crit_exit", "crit_dead", "dead"}
ExitInv ==
  /\ \A s \in Slots : state[s] = "Exited" => s = current
  /\ \A s \in Slots : state[s] = "Empty" => stack_base[s] = NoStack
  /\ pc[rsp] \in Leaving <=> ~Live(current)
  /\ state[current] = "Empty" => rsp # BootStack /\ pc[rsp] = "dead"
  /\ \A s \in Slots \ {current} : Live(s) => pc[StackOf(s)] \notin Leaving
  /\ DEFERRED_FREE # NoStack =>
       state[current] = "Exited" /\ pc[rsp] # "crit_exit" /\ DEFERRED_FREE = stack_base[current]
  /\ state[current] = "Exited" /\ pc[rsp] # "crit_exit" =>
       stack_base[current] \in free_stacks \cup {DEFERRED_FREE}

\* A Blocked task is in the loop of sleep_ms and its wake_tick is the deadline
\* of that call; a task in the loop that is no longer Blocked has slept enough.
Asleep == {"crit_sleep", "sleeping", "crit_halt", "halting", "halted"}
SleepInv ==
  \A s \in Slots : Live(s) =>
    /\ state[s] = "Blocked" => pc[StackOf(s)] \in Asleep /\ wake_tick[s] = due[StackOf(s)]
    /\ state[s] # "Blocked" /\ pc[StackOf(s)] \in Asleep => due[StackOf(s)] = 0

\* The task table, the CPU, the stacks and the lock agree.  The last three are
\* what makes the conjunction inductive.
TasksConsistent ==
  /\ TypeOK /\ OneRunning /\ ContextInv /\ StackInv /\ LockInv
  /\ ShellInv /\ ExitInv /\ SleepInv

\* Task s still has stack k: exit_current_task has not given it up yet.
Holds(s, k) == stack_base[s] = k /\ (Live(s) \/ pc[rsp] = "crit_exit")

\* Every stack is in exactly one place: free, waiting in DEFERRED_FREE, or held
\* by one task.  So none is lost (DEFERRED_FREE is never overwritten while it is
\* full), none is shared, and what the tick or kill frees is not free already.
StackConservation ==
  \A k \in Stacks :
    LET holders == {s \in Slots : Holds(s, k)} IN
    \/ k \in free_stacks /\ k # DEFERRED_FREE /\ holders = {}
    \/ k \notin free_stacks /\ k = DEFERRED_FREE /\ holders = {}
    \/ k \notin free_stacks /\ k # DEFERRED_FREE /\ \E s \in Slots : holders = {s}

\* sleep_ms returns only when the whole delay has passed, counted from the
\* call: no wake-up, yield, kill or priority change cuts a sleep short.
SleepNeverShort ==
  [][pc[rsp] = "sleeping" /\ pc'[rsp] = "crit_run" => due[rsp] = 0]_vars

-----------------------------------------------------------------------------
(* Liveness, for priorities that no longer change: set_priority restarts   *)
(* the time slice of the task it names.                                    *)

\* The timer keeps firing and does not find SCHEDULER taken every time: the
\* critical sections are short and not synchronised with the PIT.  A task
\* that gets the CPU again and again executes its pending step.
LiveSpec ==
  /\ Init /\ [][timer_tick \/ Finish \/ Call]_vars
  /\ SF_vars(~locked /\ timer_tick)
  /\ \A k \in AllStacks : SF_vars(rsp = k /\ Finish)

\* No task that could run has a higher priority than s.
Top(s) ==
  \A t \in Slots : state[t] \in {"Ready", "Running"} => priority[t] <= priority[s]

\* A Ready task does not wait for ever unless a task of higher priority can
\* run: round-robin among equals.
TopTaskRuns == \A s \in Slots : []<>~(state[s] = "Ready" /\ Top(s))

\* A sleeping task of that kind returns from sleep_ms.
SleepReturns ==
  \A s \in Slots :
    []<>~(/\ Live(s) /\ Top(s)
          /\ pc[StackOf(s)] \in {"call_sleep", "crit_sleep", "sleeping",
                                "crit_halt", "halting", "halted"})

\* The slot of a task that exits becomes free for spawn again.
ExitedReclaimed == \A s \in Slots : state[s] = "Exited" ~> state[s] = "Empty"

-----------------------------------------------------------------------------
(* What comments of the code say                                           *)

\* "Set by exit_current_task(), consumed by timer_tick() after switching
\* away": the stack the CPU executes on is never free.
FreedAfterSwitch == rsp \notin free_stacks

\* "Highest priority -- preempts everything": a tick that finds a task of the
\* highest level ready does not leave the CPU with a lower one.
PreemptsEverything ==
  [][~locked /\ timer_tick =>
       \A s \in Slots : state'[s] = "Ready" /\ (\A p \in Priorities : p <= priority'[s])
                        => priority'[current'] = priority'[s]]_vars
=============================================================================
