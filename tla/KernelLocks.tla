----------------------------- MODULE KernelLocks -----------------------------
(***************************************************************************)
(* The spin locks of the kernel, its tasks and its interrupt handlers on   *)
(* one CPU.  A task that waits for a lock spins until the timer takes the  *)
(* CPU away from it; a handler that waits for one spins for ever, because  *)
(* it runs with interrupts off on top of the task that would release it.   *)
(*                                                                         *)
(* A function of the kernel is represented by the locks it takes and       *)
(* releases, in order, with the calls it makes spliced in; "cli" and "sti" *)
(* are without_interrupts, "try" is try_lock (skipping to behind the       *)
(* release when the lock is taken), "defer" fills DEFERRED_FREE, and       *)
(* "resched" is the part of timer_tick that needs SCHEDULER.  Which task   *)
(* the scheduler picks is left open here.                                  *)
(***************************************************************************)
EXTENDS Integers, Sequences

CONSTANTS Tasks,      \* the tasks that share the CPU
          Workloads   \* the functions they call with the interrupts unmasked

ASSUME TasksAssumption == {"handler", "free"} \cap Tasks = {}

Locks == {"SCHEDULER", "DEFERRED_FREE", "FRAME_ALLOCATOR", "ALLOCATOR", "SERIAL",
          "LOG_RING", "EXTENDED_KEY", "MODIFIERS", "KEY_BUFFER", "MOUSE_PACKET",
          "MOUSE_BUTTONS", "MOUSE_BUFFER"}

On(lock, body) == <<<<"lock", lock>>>> \o body \o <<<<"unlock", lock>>>>
Masked(body) == <<<<"cli", "">>>> \o body \o <<<<"sti", "">>>>

-----------------------------------------------------------------------------
(* Functions called by tasks                                               *)

\* Mutant: formatting allocates under the serial lock.
log_allocates == On("SERIAL", On("ALLOCATOR", <<>>))

\* Mutant: the guard is leaked.
log_leaks == <<<<"lock", "SERIAL">>>>

\* KernelLogger::log: the serial port, then the ring if it is free.
log == On("SERIAL", <<>>) \o <<<<"try", "LOG_RING">>, <<"unlock", "LOG_RING">>>>

allocate_contiguous_frames == On("FRAME_ALLOCATOR", <<>>)

\* Mutant: the heap is locked with interrupts off.
alloc_masked == Masked(On("ALLOCATOR", allocate_contiguous_frames \o log))

\* Heap::allocate when it has to grow: frames and a log line under the lock.
alloc == On("ALLOCATOR", allocate_contiguous_frames \o log)

dealloc == On("ALLOCATOR", <<>>)

\* dmesg copies the ring into freshly allocated strings.
get_log_entries == On("LOG_RING", alloc)

\* spawn_with_priority logs before the guard is dropped.
spawn_with_priority == On("SCHEDULER", allocate_contiguous_frames \o log)

\* kill frees the stack and logs under the lock.
kill == On("SCHEDULER", On("FRAME_ALLOCATOR", <<>>) \o log)

\* task_list builds a vector of strings under the lock.
task_list == On("SCHEDULER", alloc)

exit_current_task == On("SCHEDULER", On("DEFERRED_FREE", <<<<"defer", "">>>>))

\* read_key pops with interrupts on.
read_key == On("KEY_BUFFER", <<>>)

\* Mutant: the mouse buffer is read like the key buffer.
try_read_event_unmasked == On("MOUSE_BUFFER", <<>>)

\* try_read_event and buttons mask interrupts around their lock.
try_read_event == Masked(On("MOUSE_BUFFER", <<>>))
buttons == Masked(On("MOUSE_BUTTONS", <<>>))

TaskCalls == {"log", "alloc", "dealloc", "get_log_entries", "spawn", "kill", "task_list",
              "exit", "read_key", "try_read_event", "buttons"}

Body(call) ==
  CASE call = "log" -> log
    [] call = "alloc" -> alloc
    [] call = "dealloc" -> dealloc
    [] call = "get_log_entries" -> get_log_entries
    [] call = "spawn" -> spawn_with_priority
    [] call = "kill" -> kill
    [] call = "task_list" -> task_list
    [] call = "exit" -> exit_current_task
    [] call = "read_key" -> read_key
    [] call = "try_read_event" -> try_read_event
    [] call = "buttons" -> buttons

-----------------------------------------------------------------------------
(* Interrupt handlers                                                      *)

\* process_deferred_free, then the scheduler.
timer_tick(pending) ==
  On("DEFERRED_FREE", IF pending THEN On("FRAME_ALLOCATOR", <<>>) ELSE <<>>)
    \o <<<<"resched", "SCHEDULER">>>>

handle_scancode == On("EXTENDED_KEY", <<>>) \o On("MODIFIERS", <<>>)
                   \o On("KEY_BUFFER", <<>>)

handle_irq == On("MOUSE_PACKET", On("MOUSE_BUTTONS", <<>>) \o On("MOUSE_BUFFER", <<>>))

Handler(irq, pending) ==
  CASE irq = "timer" -> timer_tick(pending)
    [] irq = "keyboard" -> handle_scancode
    [] irq = "mouse" -> handle_irq

-----------------------------------------------------------------------------

VARIABLES code,     \* what each task, and the handler, still has to do
          holder,   \* who holds each lock
          cur,      \* the task on the CPU
          irq,      \* the handler on top of it, or "none"
          if_flag,  \* each task's interrupt flag
          pending,  \* DEFERRED_FREE holds a stack
          exited,   \* tasks in the final loop of exit_current_task
          workload  \* one of Workloads, fixed

vars == <<code, holder, cur, irq, if_flag, pending, exited, workload>>

Handlers == {"timer", "keyboard", "mouse"}

\* Who executes: the handler if there is one, else the current task.
Who == IF irq = "none" THEN cur ELSE "handler"

Init ==
  /\ code = [x \in Tasks \cup {"handler"} |-> <<>>]
  /\ holder = [l \in Locks |-> "free"]
  /\ cur \in Tasks
  /\ irq = "none"
  /\ if_flag = [t \in Tasks |-> TRUE]
  /\ pending = FALSE
  /\ exited = {}
  /\ workload \in Workloads

\* A task calls the next function.
Call(c) ==
  /\ c \in workload.calls
  /\ irq = "none"
  /\ code[cur] = <<>>
  /\ cur \notin exited
  /\ code' = [code EXCEPT ![cur] = Body(c)]
  /\ exited' = IF c = "exit" THEN exited \cup {cur} ELSE exited
  /\ UNCHANGED <<holder, cur, irq, if_flag, pending, workload>>

\* Mutant: the deferred stack is freed but not taken out.
Interrupt_keeps_pending(i) ==
  /\ i \in workload.irqs
  /\ irq = "none"
  /\ if_flag[cur]
  /\ irq' = i
  /\ code' = [code EXCEPT !["handler"] = Handler(i, pending)]
  /\ UNCHANGED <<holder, cur, if_flag, pending, exited, workload>>

\* An unmasked interrupt hits the current task.
Interrupt(i) ==
  /\ i \in workload.irqs
  /\ irq = "none"
  /\ if_flag[cur]
  /\ irq' = i
  /\ code' = [code EXCEPT !["handler"] = Handler(i, pending)]
  /\ pending' = (pending /\ i # "timer")
  /\ UNCHANGED <<holder, cur, if_flag, exited, workload>>

\* The step the executing code is about to take.
AtStep(kind) == code[Who] # <<>> /\ Head(code[Who])[1] = kind
Lock == Head(code[Who])[2]
Advance == code' = [code EXCEPT ![Who] = Tail(@)]

\* Mutex::lock gets the lock; while somebody holds it the code spins.
Acquire ==
  /\ AtStep("lock")
  /\ holder[Lock] = "free"
  /\ holder' = [holder EXCEPT ![Lock] = Who]
  /\ Advance
  /\ UNCHANGED <<cur, irq, if_flag, pending, exited, workload>>

\* Mutex::try_lock: a failure skips the critical section.
TryAcquire ==
  /\ AtStep("try")
  /\ IF holder[Lock] = "free"
     THEN holder' = [holder EXCEPT ![Lock] = Who] /\ Advance
     ELSE holder' = holder /\ code' = [code EXCEPT ![Who] = SubSeq(@, 3, Len(@))]
  /\ UNCHANGED <<cur, irq, if_flag, pending, exited, workload>>

Release ==
  /\ AtStep("unlock")
  /\ holder' = [holder EXCEPT ![Lock] = "free"]
  /\ Advance
  /\ UNCHANGED <<cur, irq, if_flag, pending, exited, workload>>

\* without_interrupts, entered with interrupts on.
Mask ==
  /\ AtStep("cli") \/ AtStep("sti")
  /\ if_flag' = [if_flag EXCEPT ![cur] = AtStep("sti")]
  /\ Advance
  /\ UNCHANGED <<holder, cur, irq, pending, exited, workload>>

Defer ==
  /\ AtStep("defer")
  /\ pending' = TRUE
  /\ Advance
  /\ UNCHANGED <<holder, cur, irq, if_flag, exited, workload>>

\* Mutant: the scheduler switches although SCHEDULER is taken.
Resched_unlocked(t) ==
  /\ AtStep("resched")
  /\ t \notin exited \/ code[t] # <<>>
  /\ cur' = t
  /\ irq' = "none"
  /\ Advance
  /\ UNCHANGED <<holder, if_flag, pending, exited, workload>>

\* timer_tick with SCHEDULER free lets the scheduler choose; a task that has
\* finished exit_current_task is not chosen.
Resched(t) ==
  /\ AtStep("resched")
  /\ holder["SCHEDULER"] = "free"
  /\ t \notin exited \/ code[t] # <<>>
  /\ cur' = t
  /\ irq' = "none"
  /\ Advance
  /\ UNCHANGED <<holder, if_flag, pending, exited, workload>>

\* timer_tick with SCHEDULER taken, or with nobody to run, returns.
ReschedSkipped ==
  /\ AtStep("resched")
  /\ holder["SCHEDULER"] # "free" \/ \A t \in Tasks : t \in exited /\ code[t] = <<>>
  /\ irq' = "none"
  /\ Advance
  /\ UNCHANGED <<holder, cur, if_flag, pending, exited, workload>>

\* The other handlers return to the interrupted task.
Iret ==
  /\ irq # "none"
  /\ code["handler"] = <<>>
  /\ irq' = "none"
  /\ UNCHANGED <<code, holder, cur, if_flag, pending, exited, workload>>

Step == Acquire \/ TryAcquire \/ Release \/ Mask \/ Defer

Next ==
  \/ \E c \in TaskCalls : Call(c)
  \/ \E i \in Handlers : Interrupt(i)
  \/ Step
  \/ \E t \in Tasks : Resched(t)
  \/ ReschedSkipped
  \/ Iret

Spec == Init /\ [][Next]_vars

\* The CPU executes: an enabled step of a handler, or of a task that gets the
\* CPU again and again, is taken; the timer keeps firing; and the scheduler
\* picks every task again and again (Scheduler's TopTaskRuns, for tasks of
\* equal priority).
LiveSpec ==
  /\ Spec
  /\ WF_vars(irq # "none" /\ (Step \/ ReschedSkipped \/ Iret))
  /\ \A t \in Tasks : SF_vars(irq = "none" /\ cur = t /\ Step)
  /\ \A t \in Tasks : SF_vars(Resched(t))
  /\ SF_vars(Interrupt("timer"))

-----------------------------------------------------------------------------
(* Properties                                                              *)

Take(l) == <<"lock", l>>
Try(l) == <<"try", l>>
Give(l) == <<"unlock", l>>
Cli == <<"cli", "">>
Sti == <<"sti", "">>
DeferStep == <<"defer", "">>
Resume == <<"resched", "SCHEDULER">>

AStep == {Take(l) : l \in Locks} \cup {Try(l) : l \in Locks} \cup {Give(l) : l \in Locks}
         \cup {Cli, Sti, DeferStep, Resume}

\* Type invariant.
TypeOK ==
  /\ code \in [Tasks \cup {"handler"} -> Seq(AStep)]
  /\ holder \in [Locks -> Tasks \cup {"handler", "free"}]
  /\ cur \in Tasks
  /\ irq \in Handlers \cup {"none"}
  /\ if_flag \in [Tasks -> BOOLEAN]
  /\ pending \in BOOLEAN
  /\ exited \subseteq Tasks
  /\ workload \in Workloads

Calling(calls) == workload.calls \cap calls # {}

Spinning(x) ==
  /\ code[x] # <<>>
  /\ Head(code[x])[1] = "lock"
  /\ holder[Head(code[x])[2]] # "free"

\* No interrupt handler ever finds one of its locks taken: it would spin with
\* interrupts off on top of the task that holds it.
HandlersNeverSpin == irq # "none" => ~Spinning("handler")

\* As long as no task reads a key or exits (read_key and exit_current_task take
\* a lock of a handler with interrupts on), no handler spins.
OthersNeverStopHandlers == ~Calling({"read_key", "exit"}) => HandlersNeverSpin

\* The calls that hold SCHEDULER while they take other locks.
SchedulerCalls == {"spawn", "kill", "task_list", "exit"}

\* The CPU never gets stuck in a task outside SchedulerCalls: a task that spins
\* can be preempted in favour of the holder, because the timer will find
\* SCHEDULER free.
SpinnersPreemptible ==
  ~Calling(SchedulerCalls) /\ irq = "none" /\ Spinning(cur) => if_flag[cur] /\ holder["SCHEDULER"] = "free"

\* A task that holds SCHEDULER stays on the CPU until it releases it, so no
\* task ever spins on SCHEDULER itself.
SchedulerHolderRuns ==
  holder["SCHEDULER"] # "free" => holder["SCHEDULER"] = cur

Steps(c) == {c[i] : i \in DOMAIN c}

\* What a handler holds at each of its points.
Holding(h, held, c) == [irq |-> h, held |-> held, code |-> c]

TimerStates ==
  LET D == "DEFERRED_FREE"
      F == "FRAME_ALLOCATOR"
  IN  {Holding("timer", {}, <<Take(D), Give(D), Resume>>),
       Holding("timer", {}, <<Take(D), Take(F), Give(F), Give(D), Resume>>),
       Holding("timer", {D}, <<Take(F), Give(F), Give(D), Resume>>),
       Holding("timer", {D, F}, <<Give(F), Give(D), Resume>>),
       Holding("timer", {D}, <<Give(D), Resume>>),
       Holding("timer", {}, <<Resume>>)}

KeyboardStates ==
  LET E == "EXTENDED_KEY"
      M == "MODIFIERS"
      K == "KEY_BUFFER"
  IN  {Holding("keyboard", {}, <<Take(E), Give(E), Take(M), Give(M), Take(K), Give(K)>>),
       Holding("keyboard", {E}, <<Give(E), Take(M), Give(M), Take(K), Give(K)>>),
       Holding("keyboard", {}, <<Take(M), Give(M), Take(K), Give(K)>>),
       Holding("keyboard", {M}, <<Give(M), Take(K), Give(K)>>),
       Holding("keyboard", {}, <<Take(K), Give(K)>>),
       Holding("keyboard", {K}, <<Give(K)>>),
       Holding("keyboard", {}, <<>>)}

MouseStates ==
  LET P == "MOUSE_PACKET"
      B == "MOUSE_BUTTONS"
      R == "MOUSE_BUFFER"
  IN  {Holding("mouse", {}, <<Take(P), Take(B), Give(B), Take(R), Give(R), Give(P)>>),
       Holding("mouse", {P}, <<Take(B), Give(B), Take(R), Give(R), Give(P)>>),
       Holding("mouse", {P, B}, <<Give(B), Take(R), Give(R), Give(P)>>),
       Holding("mouse", {P}, <<Take(R), Give(R), Give(P)>>),
       Holding("mouse", {P, R}, <<Give(R), Give(P)>>),
       Holding("mouse", {P}, <<Give(P)>>),
       Holding("mouse", {}, <<>>)}

HandlerStates ==
  {Holding("none", {}, <<>>)} \cup TimerStates \cup KeyboardStates \cup MouseStates

\* A handler holds what its point says, and nothing when it returns.
HandlerInv ==
  Holding(irq, {l \in Locks : holder[l] = "handler"}, code["handler"]) \in HandlerStates

\* Tasks take the locks of the calls they make, and no others; a stack waits in
\* DEFERRED_FREE only where tasks exit.
CallSteps == UNION {Steps(Body(c)) : c \in workload.calls \cap TaskCalls}
CallsInv ==
  /\ \A t \in Tasks : Steps(code[t]) \subseteq CallSteps
  /\ \A l \in Locks : holder[l] \in Tasks => Take(l) \in CallSteps \/ Try(l) \in CallSteps
  /\ pending => DeferStep \in CallSteps
  /\ Take("FRAME_ALLOCATOR") \in Steps(code["handler"]) => DeferStep \in CallSteps

\* Only the executing task has interrupts masked, and only around one of the
\* locks it shares with the mouse handler; nobody else ever holds those.
Shared == {"MOUSE_BUTTONS", "MOUSE_BUFFER"}
MaskInv ==
  /\ \A t \in Tasks : if_flag[t] =>
       \/ Steps(code[t]) \cap ({Cli, Sti} \cup {Take(l) : l \in Shared}) = {}
       \/ \E l \in Shared : code[t] = <<Cli, Take(l), Give(l), Sti>>
  /\ \A t \in Tasks : ~if_flag[t] =>
       /\ t = cur /\ irq = "none"
       /\ \E l \in Shared : code[t] \in {<<Take(l), Give(l), Sti>>, <<Give(l), Sti>>, <<Sti>>}
  /\ \A l \in Shared : holder[l] \in Tasks =>
       ~if_flag[holder[l]] /\ code[holder[l]] = <<Give(l), Sti>>

\* A task fills DEFERRED_FREE once, in its exit; while it is full that task is
\* on the CPU, and no tick is under way.
DeferInv ==
  /\ \A t \in Tasks : DeferStep \in Steps(code[t]) =>
       /\ t \in exited
       /\ code[t] \in {<<Take("SCHEDULER"), Take("DEFERRED_FREE"), DeferStep,
                         Give("DEFERRED_FREE"), Give("SCHEDULER")>>,
                       <<Take("DEFERRED_FREE"), DeferStep, Give("DEFERRED_FREE"), Give("SCHEDULER")>>,
                       <<DeferStep, Give("DEFERRED_FREE"), Give("SCHEDULER")>>}
  /\ pending => irq # "timer" /\ cur \in exited /\ DeferStep \notin Steps(code[cur])

\* Who may spin, and on what, outside the calls that take a lock of a handler
\* or hold SCHEDULER; and why: what tasks and handlers hold at their points.
LocksSound ==
  /\ OthersNeverStopHandlers /\ SpinnersPreemptible /\ SchedulerHolderRuns
  /\ TypeOK /\ HandlerInv /\ CallsInv /\ MaskInv /\ DeferInv

\* exit_current_task never overwrites a stack that still waits in
\* DEFERRED_FREE: a switch to a second exiting task takes a tick, and the tick
\* empties it first.
DeferredNeverOverwritten == [][Defer => ~pending]_vars

\* Outside the calls above tasks never wait for each other in a circle, and
\* never for themselves: again and again some task is not inside a call.
SomeCallReturns ==
  ~Calling(SchedulerCalls \cup {"read_key"}) => []<>(\E t \in Tasks : code[t] = <<>>)

\* The locks taken innermost are always given back: their holder is preempted
\* at worst, and runs again.
LeafLocks == {"SERIAL", "FRAME_ALLOCATOR", "MOUSE_PACKET", "MOUSE_BUTTONS", "MOUSE_BUFFER"}

\* Every innermost lock that is taken is released again.
LeafLocksReleased ==
  ~Calling(SchedulerCalls \cup {"read_key"}) =>
    \A l \in LeafLocks : holder[l] # "free" ~> holder[l] = "free"

\* No circle of waiting: some call returns, every innermost lock is released.
NoDeadlock == SomeCallReturns /\ LeafLocksReleased
=============================================================================
