--------------------------- MODULE SchedulerProofs ---------------------------
(***************************************************************************)
(* The scheduler is safe for every number of tasks, stacks, priorities and *)
(* delays: TasksConsistent is inductive together with StacksKept, no stack *)
(* is lost.  That none is freed twice rests on them and on FreedOnce.      *)
(* Zenon is named wherever it finds a step: most of them are set and      *)
(* equality reasoning, which it does far faster here than the SMT solver.  *)
(***************************************************************************)
EXTENDS Scheduler, TLAPS

\* No stack is lost: it is free, waiting in DEFERRED_FREE or in some slot.
StacksKept ==
  Stacks \subseteq free_stacks \cup {DEFERRED_FREE} \cup {stack_base[s] : s \in Slots}

IInv == TasksConsistent /\ StacksKept

\* The stacks, the boot stack and NoStack are different; there is a slot 0.
LEMMA Names ==
  /\ BootStack \notin Stacks /\ NoStack \notin Stacks /\ NoStack # BootStack
  /\ 0 \in Slots
BY ConstantsAssumption DEF Slots

\* Quanta are positive numbers, ids are at most MaxId.
LEMMA Numbers ==
  /\ \A p \in Priorities : Quantum[p] \in Nat
  /\ \A n \in 1 .. MaxId + 1 : n <= MaxId => n \in 0 .. MaxId /\ n + 1 \in 1 .. MaxId + 1
  /\ 0 \in 0 .. MaxId
BY ConstantsAssumption

-----------------------------------------------------------------------------
(* What IInv says about the stacks in use                                  *)

\* Only the shell executes on the boot stack; a live task other than the
\* current one has a stack that nobody else has and that the CPU is not on.
LEMMA StacksApart ==
  ASSUME IInv
  PROVE  /\ rsp = BootStack => current = 0
         /\ state[current] # "Empty" => rsp = StackOf(current)
         /\ current # 0 /\ state[current] # "Empty" => stack_base[current] \in Stacks
         /\ \A s \in Slots : Live(s) => StackOf(s) \in AllStacks
         /\ \A s \in Slots \ {current} : Live(s) => StackOf(s) # rsp
         /\ \A s, t \in Slots : Live(s) /\ Live(t) /\ s # t => StackOf(s) # StackOf(t)
<1>. USE Names DEF IInv, TasksConsistent, Live, StackOf, AllStacks
<1>1. current \in Slots /\ 0 \in Slots
  BY Zenon DEF TypeOK
<1>2. rsp = BootStack => current = 0
  BY <1>1 DEF TypeOK, ContextInv, ExitInv
<1>3. current # 0 /\ state[current] # "Empty" => stack_base[current] \in Stacks
  BY <1>1, Zenon DEF TypeOK, ContextInv
<1>4. \A s \in Slots : Live(s) => StackOf(s) \in AllStacks
  BY Zenon DEF StackInv
<1>5. \A s \in Slots \ {current} : Live(s) => StackOf(s) # rsp
  BY <1>1, <1>2, Zenon DEF StackInv
<1>6. \A s, t \in Slots : Live(s) /\ Live(t) /\ s # t => StackOf(s) # StackOf(t)
  BY Zenon DEF StackInv
<1>. QED
  BY <1>2, <1>3, <1>4, <1>5, <1>6, Zenon DEF ContextInv

-----------------------------------------------------------------------------
(* Steps that leave the table alone                                        *)

\* The executing code moves on to `label`: what it has to respect.
Moves(label) ==
  /\ pc' = [pc EXCEPT ![rsp] = label]
  /\ label \in PC
  /\ locked' \in BOOLEAN /\ (locked' <=> label \in Critical)
  /\ label \in Leaving <=> pc[rsp] \in Leaving
  /\ label = "crit_exit" <=> pc[rsp] = "crit_exit"
  /\ state[current] = "Empty" => label = "dead"
  /\ label \in Asleep => pc[rsp] \in Asleep
  /\ state[current] = "Blocked" => label \in Asleep
  /\ UNCHANGED <<tasks, current, next_id, DEFERRED_FREE, free_stacks, rsp, fpu, due>>

\* Such a step keeps IInv.
LEMMA MovesKeeps ==
  ASSUME IInv, NEW label, Moves(label)
  PROVE  IInv'
<1>. USE Names DEF IInv, TasksConsistent, Live, StackOf, AllStacks, tasks, Moves
<1>1. current \in Slots /\ 0 \in Slots /\ rsp \in AllStacks /\ pc \in [AllStacks -> PC]
  BY Zenon DEF TypeOK
<1>2. /\ pc'[rsp] = label
      /\ \A s \in Slots \ {current} : Live(s) => pc'[StackOf(s)] = pc[StackOf(s)]
      /\ Live(current) => rsp = StackOf(current)
  BY <1>1, StacksApart, Zenon
<1>3. TypeOK'
  BY Zenon DEF TypeOK
<1>4. OneRunning' /\ ContextInv' /\ StackInv' /\ ShellInv' /\ StacksKept'
  BY DEF OneRunning, ContextInv, StackInv, ShellInv, StacksKept
<1>5. LockInv'
  BY <1>1, <1>2 DEF LockInv
<1>6. ExitInv'
  BY <1>1, <1>2 DEF ExitInv
<1>7. SleepInv'
  BY <1>1, <1>2 DEF SleepInv
<1>. QED
  BY <1>3, <1>4, <1>5, <1>6, <1>7, Zenon

\* Unlock, the reading calls and the loop of sleep_ms are such steps.
LEMMA QuietKeeps ==
  ASSUME IInv, \/ Unlock \/ spawn_fails \/ task_list
               \/ sleep_ms_check \/ sleep_ms_hlt \/ other_interrupt
  PROVE  IInv'
<1>. DEFINE at == pc[rsp]
<1>1. /\ at \in PC
      /\ locked \in BOOLEAN /\ (locked <=> at \in Critical)
      /\ at \in Leaving <=> ~Live(current)
      /\ state[current] = "Empty" => at = "dead"
      /\ state[current] = "Blocked" => at \in Asleep
  BY StacksApart, Zenon DEF IInv, TasksConsistent, TypeOK, LockInv, ExitInv, SleepInv, Live
<1>. USE <1>1 DEF PC, Critical, Leaving, Asleep, Live, Moves, Lock, Acquire
<1>2. CASE Unlock
  <2>1. PICK label : label = CASE at = "crit_run" -> "run"
                               [] at = "crit_sleep" -> "sleeping"
                               [] at = "crit_halt" -> "halting"
                               [] at = "crit_dead" -> "dead"
    BY Zenon
  <2>2. Moves(label)
    BY <1>2, <2>1, Zenon DEF Unlock
  <2>. QED
    BY <2>2, MovesKeeps, Zenon
<1>3. CASE spawn_fails \/ task_list
  <2>1. Moves("crit_run")
    BY <1>3, Zenon DEF spawn_fails, task_list
  <2>. QED
    BY <2>1, MovesKeeps, Zenon
<1>4. CASE sleep_ms_check
  <2>1. PICK label : label = IF state[current] = "Running" THEN "crit_run" ELSE "crit_halt"
    BY Zenon
  <2>2. Moves(label)
    BY <1>4, <2>1, Zenon DEF sleep_ms_check
  <2>. QED
    BY <2>2, MovesKeeps, Zenon
<1>5. CASE sleep_ms_hlt
  <2>1. Moves("halted")
    BY <1>5, Zenon DEF sleep_ms_hlt
  <2>. QED
    BY <2>1, MovesKeeps, Zenon
<1>6. CASE other_interrupt
  <2>1. Moves("sleeping")
    BY <1>6, Zenon DEF other_interrupt
  <2>. QED
    BY <2>1, MovesKeeps, Zenon
<1>. QED
  BY <1>2, <1>3, <1>4, <1>5, <1>6, Zenon
-----------------------------------------------------------------------------
(* Calls that change the table                                             *)

\* The first steps of every such proof.
LEMMA AtCall ==
  ASSUME IInv
  PROVE  /\ current \in Slots /\ 0 \in Slots /\ rsp \in AllStacks
         /\ pc \in [AllStacks -> PC] /\ due \in [AllStacks -> Nat]
         /\ pc[rsp] \in {"run", "call_sleep"} => Live(current) /\ rsp = StackOf(current)
         /\ rsp = BootStack => current = 0 /\ Live(current)
<1>1. current \in Slots /\ 0 \in Slots /\ rsp \in AllStacks
  BY Names, Zenon DEF IInv, TasksConsistent, TypeOK
<1>2. pc \in [AllStacks -> PC] /\ due \in [AllStacks -> Nat]
  BY Zenon DEF IInv, TasksConsistent, TypeOK
<1>3. pc[rsp] \in {"run", "call_sleep"} => Live(current) /\ rsp = StackOf(current)
  BY StacksApart, Zenon DEF IInv, TasksConsistent, ExitInv, Leaving, Live
<1>4. rsp = BootStack => current = 0 /\ Live(current)
  BY StacksApart, Zenon DEF IInv, TasksConsistent, ShellInv
<1>. QED
  BY <1>1, <1>2, <1>3, <1>4, Zenon

\* spawn takes a free stack and an empty slot, which no other task has.
LEMMA SpawnKeeps ==
  ASSUME IInv, NEW p \in Priorities, spawn_with_priority(p)
  PROVE  IInv'
<1>. USE Names DEF Live, StackOf, AllStacks
<1>1. PICK s \in Slots, k \in free_stacks : spawn_with_priority(p)!(s, k)
  BY Zenon DEF spawn_with_priority
<1>2. /\ s # 0 /\ s # current /\ k \in Stacks /\ k # rsp /\ current = 0 /\ Live(0)
      /\ state[s] = "Empty" /\ DEFERRED_FREE = NoStack
      /\ pc[rsp] = "run" /\ rsp = BootStack /\ current \in Slots
      /\ 0 \in Slots
  BY <1>1, AtCall, Zenon DEF IInv, TasksConsistent, TypeOK, ExitInv, EmptySlot, Acquire
<1>3. /\ pc'[BootStack] = "crit_run" /\ pc'[k] = "run" /\ due'[k] = 0
      /\ \A t \in Slots \ {current, s} : Live(t) =>
           /\ StackOf(t) # k /\ StackOf(t) # rsp /\ StackOf(t) \in AllStacks
           /\ pc'[StackOf(t)] = pc[StackOf(t)] /\ due'[StackOf(t)] = due[StackOf(t)]
      /\ due'[BootStack] = due[BootStack]
  <2>1. \A t \in Slots \ {current, s} : Live(t) =>
           StackOf(t) # k /\ StackOf(t) # rsp /\ StackOf(t) \in AllStacks
    BY <1>2, StacksApart DEF IInv, TasksConsistent, StackInv
  <2>. QED
    BY <1>1, <1>2, <2>1, AtCall, Zenon
<1>. USE DEF IInv, TasksConsistent
<1>4. TypeOK'
  <2>1. pc' \in [AllStacks -> PC]
    BY <1>1, AtCall, Zenon DEF PC
  <2>2. quantum_remaining' \in [Slots -> Nat] /\ next_id' \in 1 .. MaxId + 1 /\ id' \in [Slots -> 0 .. MaxId]
    BY <1>1, Numbers, Zenon DEF TypeOK
  <2>3. /\ free_stacks' \subseteq Stacks /\ stack_base' \in [Slots -> Stacks \cup {NoStack}]
        /\ saved_rsp' \in [Slots -> AllStacks \cup {NoStack}]
    BY <1>1, <1>2, Zenon DEF TypeOK
  <2>4. /\ wake_tick' \in [Slots -> Nat \cup {NoWake}] /\ fxsave' \in [Slots -> (0 .. MaxId) \cup {NoFpu}]
        /\ due' \in [AllStacks -> Nat]
    BY <1>1, <1>2, Zenon DEF TypeOK
  <2>. QED
    BY <1>1, <1>2, <2>1, <2>2, <2>3, <2>4, Zenon DEF TypeOK, TaskState, Acquire
<1>5. /\ state'[s] = "Ready" /\ saved_rsp'[s] = k /\ stack_base'[s] = k /\ fxsave'[s] = NoFpu
      /\ \A t \in Slots : t # s =>
           /\ state'[t] = state[t] /\ stack_base'[t] = stack_base[t] /\ id'[t] = id[t]
           /\ saved_rsp'[t] = saved_rsp[t] /\ fxsave'[t] = fxsave[t]
           /\ wake_tick'[t] = wake_tick[t]
      /\ free_stacks' = free_stacks \ {k}
      /\ UNCHANGED <<current, DEFERRED_FREE, rsp, fpu>>
  BY <1>1, <1>2, Zenon DEF TypeOK
<1>6. OneRunning' /\ ShellInv' /\ ContextInv'
  <2>1. OneRunning'
    BY <1>2, <1>5, Zenon DEF OneRunning
  <2>2. ShellInv'
    BY <1>2, <1>5, Zenon DEF ShellInv
  <2>3. (state[current] # "Empty" => rsp = StackOf(current))' /\ (Live(current) => fpu = id[current])'
    BY <1>2, <1>5, Zenon DEF ContextInv
  <2>4. ASSUME NEW t \in Slots \ {current}, Live(t)'
        PROVE  (saved_rsp[t] = StackOf(t) /\ fxsave[t] \in {id[t], NoFpu})'
    <3>1. CASE t = s
      BY <1>2, <1>5, <3>1, Zenon
    <3>2. CASE t # s
      BY <1>2, <1>5, <2>4, <3>2, Zenon DEF ContextInv
    <3>. QED
      BY <3>1, <3>2, Zenon
  <2>. QED
    BY <1>5, <2>1, <2>2, <2>3, <2>4, Zenon DEF ContextInv
<1>7. StackInv' /\ StacksKept'
  <2>1. \A t \in Slots : t # s => stack_base[t] # k
    BY <1>2 DEF StackInv, ExitInv, ShellInv
  <2>2. ASSUME NEW t \in Slots, Live(t)', t # 0
        PROVE  /\ (stack_base[t] \in Stacks \ (free_stacks \cup {DEFERRED_FREE}))'
               /\ \A u \in Slots \ {t} : (stack_base[u] # stack_base[t])'
               /\ (t # current => rsp # stack_base[t])'
    <3>1. CASE t = s
      BY <1>2, <1>5, <2>1, <3>1
    <3>2. CASE t # s
      <4>1. Live(t) /\ stack_base'[t] = stack_base[t] /\ stack_base[t] # k
        BY <1>5, <2>1, <2>2, <3>2, Zenon
      <4>. QED
        BY <1>2, <1>5, <2>2, <4>1 DEF StackInv
    <3>. QED
      BY <3>1, <3>2, Zenon
  <2>3. StacksKept'
    BY <1>2, <1>5 DEF StacksKept, ExitInv
  <2>. QED
    BY <2>2, <2>3, Zenon DEF StackInv
<1>8. LockInv'
  <2>1. (locked <=> pc[rsp] \in Critical)'
    BY <1>1, <1>2, <1>3, <1>5 DEF Critical, Acquire
  <2>2. ASSUME NEW t \in Slots \ {current}, Live(t)' PROVE (pc[StackOf(t)] \notin Critical)'
    <3>1. CASE t = s
      BY <1>2, <1>3, <1>5, <3>1, Zenon DEF Critical
    <3>2. CASE t # s
      <4>1. t # current /\ t # 0 /\ Live(t) /\ stack_base'[t] = stack_base[t]
        BY <1>2, <1>5, <2>2, <3>2, Zenon
      <4>2. pc'[stack_base[t]] = pc[stack_base[t]] /\ pc[stack_base[t]] \notin Critical
        BY <1>3, <3>2, <4>1, Zenon DEF LockInv
      <4>. QED
        BY <4>1, <4>2, Zenon
    <3>. QED
      BY <3>1, <3>2, Zenon
  <2>. QED
    BY <1>5, <2>1, <2>2, Zenon DEF LockInv
<1>9. ExitInv'
  BY <1>2, <1>3, <1>5 DEF ExitInv, Leaving
<1>10. SleepInv'
  BY <1>2, <1>3, <1>5 DEF SleepInv, Asleep
<1>. QED
  BY <1>4, <1>6, <1>7, <1>8, <1>9, <1>10, Zenon

\* kill never finds the shell, so not the current task either; what it frees
\* is the stack of nobody else.
LEMMA KillKeeps ==
  ASSUME IInv, NEW i \in 1 .. MaxId, kill(i)
  PROVE  IInv'
<1>. USE Names DEF Live, StackOf, AllStacks
<1>1. PICK s \in Slots : kill(i)!(s)
  BY Zenon DEF kill
<1>2. /\ s # 0 /\ s # current /\ current = 0 /\ Live(0) /\ Live(s)
      /\ DEFERRED_FREE = NoStack /\ stack_base[s] \in Stacks
      /\ pc[rsp] = "run" /\ rsp = BootStack /\ current \in Slots
      /\ 0 \in Slots
  BY <1>1, AtCall DEF IInv, TasksConsistent, TypeOK, ExitInv, ShellInv, StackInv, Found, Lock, Acquire
<1>3. /\ pc'[BootStack] = "crit_run"
      /\ \A t \in Slots \ {current} : Live(t) =>
           StackOf(t) # rsp /\ pc'[StackOf(t)] = pc[StackOf(t)]
  BY <1>1, <1>2, AtCall, StacksApart, Zenon DEF Lock
<1>. USE DEF IInv, TasksConsistent
<1>4. TypeOK'
  <2>1. pc' \in [AllStacks -> PC]
    BY <1>1, AtCall, Zenon DEF PC, Lock
  <2>2. /\ quantum_remaining' \in [Slots -> Nat] /\ id' \in [Slots -> 0 .. MaxId]
        /\ priority' \in [Slots -> Priorities]
    BY <1>1, Numbers, ConstantsAssumption, Zenon DEF TypeOK
  <2>3. /\ free_stacks' \subseteq Stacks /\ stack_base' \in [Slots -> Stacks \cup {NoStack}]
        /\ saved_rsp' \in [Slots -> AllStacks \cup {NoStack}]
    BY <1>1, <1>2, Zenon DEF TypeOK
  <2>4. /\ wake_tick' \in [Slots -> Nat \cup {NoWake}] /\ fxsave' \in [Slots -> (0 .. MaxId) \cup {NoFpu}]
    BY <1>1, <1>2, Zenon DEF TypeOK
  <2>. QED
    BY <1>1, <1>2, <2>1, <2>2, <2>3, <2>4, Zenon DEF TypeOK, TaskState, Lock, Acquire
<1>5. /\ state'[s] = "Empty" /\ stack_base'[s] = NoStack
      /\ \A t \in Slots : t # s =>
           /\ state'[t] = state[t] /\ stack_base'[t] = stack_base[t] /\ id'[t] = id[t]
           /\ saved_rsp'[t] = saved_rsp[t] /\ fxsave'[t] = fxsave[t]
           /\ wake_tick'[t] = wake_tick[t]
      /\ free_stacks' = free_stacks \cup {stack_base[s]}
      /\ UNCHANGED <<current, DEFERRED_FREE, rsp, fpu, due>>
  BY <1>1, <1>2, Zenon DEF TypeOK
<1>6. OneRunning' /\ ShellInv' /\ ContextInv'
  BY <1>2, <1>5 DEF OneRunning, ShellInv, ContextInv
<1>7. StackInv' /\ StacksKept'
  <2>1. ASSUME NEW t \in Slots, Live(t)', t # 0
        PROVE  /\ (stack_base[t] \in Stacks \ (free_stacks \cup {DEFERRED_FREE}))'
               /\ \A u \in Slots \ {t} : (stack_base[u] # stack_base[t])'
               /\ (t # current => rsp # stack_base[t])'
    <3>1. t # s /\ Live(t) /\ stack_base'[t] = stack_base[t] /\ stack_base[t] # stack_base[s]
      BY <1>2, <1>5, <2>1, Zenon DEF StackInv
    <3>2. stack_base[t] \in Stacks /\ \A u \in Slots \ {t} : stack_base[u] # stack_base[t]
      BY <2>1, <3>1, Zenon DEF StackInv
    <3>3. ASSUME NEW u \in Slots \ {t} PROVE stack_base'[u] # stack_base[t]
      BY <1>5, <3>2, Zenon
    <3>. QED
      BY <1>2, <1>5, <2>1, <3>1, <3>3, ZenonT(40) DEF StackInv
  <2>2. StackInv'
    BY <2>1, Zenon DEF StackInv
  <2>3. StacksKept'
    BY <1>2, <1>5 DEF StacksKept
  <2>. QED
    BY <2>2, <2>3, Zenon
<1>8. LockInv'
  BY <1>1, <1>2, <1>3, <1>5 DEF LockInv, Critical, Lock, Acquire
<1>9. ExitInv'
  BY <1>2, <1>3, <1>5 DEF ExitInv, Leaving
<1>10. SleepInv'
  BY <1>2, <1>3, <1>5 DEF SleepInv, Asleep
<1>. QED
  BY <1>4, <1>6, <1>7, <1>8, <1>9, <1>10, Zenon
\* A step of the executing code that changes, besides pc, only priorities,
\* quanta or the deadline of a sleep that has not begun.
LEMMA FieldsKeep ==
  ASSUME IInv, NEW label \in {"call_sleep", "crit_run"},
         pc[rsp] = "run",
         pc' = [pc EXCEPT ![rsp] = label],
         locked' \in BOOLEAN, locked' <=> label \in Critical,
         priority' \in [Slots -> Priorities],
         quantum_remaining' \in [Slots -> Nat],
         due' \in [AllStacks -> Nat],
         \A k \in AllStacks : k # rsp => due'[k] = due[k],
         UNCHANGED <<state, id, wake_tick, stack_base, saved_rsp, fxsave, current,
                     next_id, DEFERRED_FREE, free_stacks, rsp, fpu>>
  PROVE  IInv'
<1>1. /\ label \in PC /\ label \notin Leaving /\ label \notin Asleep
      /\ Live(current) /\ rsp = StackOf(current) /\ state[current] # "Blocked"
  BY AtCall, Zenon DEF PC, Leaving, Asleep, IInv, TasksConsistent, SleepInv
<1>2. /\ pc'[rsp] = label
      /\ \A s \in Slots : s # current /\ Live(s) =>
           pc'[StackOf(s)] = pc[StackOf(s)] /\ due'[StackOf(s)] = due[StackOf(s)]
  BY AtCall, StacksApart, Zenon
<1>. USE DEF IInv, TasksConsistent
<1>3. TypeOK'
  BY <1>1, Zenon DEF TypeOK
<1>4. OneRunning' /\ ContextInv' /\ StackInv' /\ ShellInv' /\ StacksKept'
  BY DEF OneRunning, ContextInv, StackInv, ShellInv, StacksKept, Live, StackOf
<1>5. LockInv'
  BY <1>2 DEF LockInv, Live, StackOf
<1>6. ExitInv'
  BY <1>1, <1>2 DEF ExitInv, Live, StackOf, Leaving
<1>7. SleepInv'
  BY <1>1, <1>2 DEF SleepInv, Live, StackOf
<1>. QED
  BY <1>3, <1>4, <1>5, <1>6, <1>7, Zenon

\* set_priority, yield_now and the entry of sleep_ms are such steps.
LEMMA FieldCallsKeep ==
  ASSUME IInv,
         \/ \E i \in 0 .. MaxId, p \in Priorities : set_priority(i, p)
         \/ yield_now
         \/ \E ms \in Delays : sleep_ms_enter(ms)
  PROVE  IInv'
<1>t. /\ priority \in [Slots -> Priorities] /\ quantum_remaining \in [Slots -> Nat]
      /\ due \in [AllStacks -> Nat] /\ rsp \in AllStacks /\ locked \in BOOLEAN
      /\ locked <=> pc[rsp] \in Critical
  BY Zenon DEF IInv, TasksConsistent, TypeOK, LockInv
<1>1. ASSUME NEW i \in 0 .. MaxId, NEW p \in Priorities, set_priority(i, p) PROVE IInv'
  <2>1. PICK s \in Slots : set_priority(i, p)!(s)
    BY <1>1, Zenon DEF set_priority
  <2>2. priority' \in [Slots -> Priorities] /\ quantum_remaining' \in [Slots -> Nat]
    BY <1>t, <2>1, Numbers, Zenon
  <2>. QED
    BY <1>t, <2>1, <2>2, FieldsKeep, Zenon DEF Lock, Acquire, Critical
<1>2. CASE yield_now
  <2>1. quantum_remaining' \in [Slots -> Nat]
    BY <1>t, <1>2, Zenon DEF yield_now
  <2>. QED
    BY <1>t, <1>2, <2>1, FieldsKeep, Zenon DEF yield_now, Lock, Acquire, Critical
<1>3. ASSUME NEW ms \in Delays, sleep_ms_enter(ms) PROVE IInv'
  <2>1. due' \in [AllStacks -> Nat] /\ \A k \in AllStacks : k # rsp => due'[k] = due[k]
    BY <1>t, <1>3, ConstantsAssumption, Zenon DEF sleep_ms_enter
  <2>. QED
    BY <1>t, <1>3, <2>1, FieldsKeep, Zenon DEF sleep_ms_enter, Critical, tasks
<1>. QED
  BY <1>1, <1>2, <1>3, Zenon
\* sleep_ms blocks the current task until the deadline of this call.
LEMMA BlockKeeps ==
  ASSUME IInv, sleep_ms_block
  PROVE  IInv'
<1>1. /\ Live(current) /\ rsp = StackOf(current) /\ current \in Slots /\ 0 \in Slots
      /\ DEFERRED_FREE = NoStack
  BY AtCall, Zenon DEF sleep_ms_block, Lock, Acquire, IInv, TasksConsistent, ExitInv, Live
<1>2. /\ pc'[rsp] = "crit_sleep"
      /\ state'[current] = "Blocked" /\ wake_tick'[current] = due[rsp]
      /\ \A s \in Slots : s # current => state'[s] = state[s] /\ wake_tick'[s] = wake_tick[s]
      /\ \A s \in Slots : s # current /\ Live(s) => pc'[StackOf(s)] = pc[StackOf(s)]
      /\ locked' = TRUE
      /\ UNCHANGED <<id, priority, stack_base, saved_rsp, fxsave, current, next_id,
                     DEFERRED_FREE, free_stacks, rsp, fpu, due>>
  BY <1>1, AtCall, StacksApart, Zenon DEF sleep_ms_block, Lock, Acquire, IInv, TasksConsistent, TypeOK
<1>. USE DEF IInv, TasksConsistent
<1>3. TypeOK'
  <2>1. pc' \in [AllStacks -> PC] /\ wake_tick' \in [Slots -> Nat \cup {NoWake}]
    BY <1>1, Zenon DEF TypeOK, PC, sleep_ms_block, Lock
  <2>2. state' \in [Slots -> TaskState] /\ quantum_remaining' \in [Slots -> Nat]
    BY <1>1, Zenon DEF TypeOK, TaskState, sleep_ms_block
  <2>. QED
    BY <1>2, <2>1, <2>2, Zenon DEF TypeOK
<1>4. OneRunning' /\ ShellInv' /\ StacksKept'
  BY <1>1, <1>2 DEF OneRunning, ShellInv, StacksKept, Live
<1>5. ContextInv'
  BY <1>1, <1>2, Zenon DEF ContextInv, Live, StackOf
<1>6. StackInv'
  BY <1>1, <1>2, Zenon DEF StackInv, Live
<1>7. LockInv'
  BY <1>1, <1>2, Zenon DEF LockInv, Live, StackOf, Critical
<1>8. ExitInv'
  BY <1>1, <1>2 DEF ExitInv, Live, StackOf, Leaving
<1>9. SleepInv'
  BY <1>1, <1>2 DEF SleepInv, Live, StackOf, Asleep
<1>. QED
  BY <1>3, <1>4, <1>5, <1>6, <1>7, <1>8, <1>9, Zenon

\* exit_current_task: only a task with a stack of its own exits,
LEMMA ExitKeeps ==
  ASSUME IInv, exit_current_task
  PROVE  IInv'
<1>1. /\ Live(current) /\ rsp = StackOf(current) /\ current \in Slots /\ 0 \in Slots
      /\ current # 0 /\ DEFERRED_FREE = NoStack
  BY AtCall, Zenon DEF exit_current_task, Lock, Acquire, IInv, TasksConsistent, ExitInv, Live, StackOf
<1>2. /\ pc'[rsp] = "crit_exit" /\ state'[current] = "Exited"
      /\ \A s \in Slots : s # current => state'[s] = state[s]
      /\ \A s \in Slots : s # current /\ Live(s) => pc'[StackOf(s)] = pc[StackOf(s)]
      /\ locked' = TRUE
      /\ UNCHANGED <<id, priority, quantum_remaining, wake_tick, stack_base, saved_rsp,
                     fxsave, current, next_id, DEFERRED_FREE, free_stacks, rsp, fpu, due>>
  BY <1>1, AtCall, StacksApart, Zenon DEF exit_current_task, Lock, Acquire, IInv, TasksConsistent, TypeOK
<1>. USE DEF IInv, TasksConsistent
<1>3. TypeOK'
  <2>1. pc' \in [AllStacks -> PC] /\ state' \in [Slots -> TaskState]
    BY <1>1, Zenon DEF TypeOK, PC, TaskState, exit_current_task, Lock
  <2>. QED
    BY <1>2, <2>1, Zenon DEF TypeOK
<1>4. OneRunning' /\ ShellInv' /\ StacksKept'
  BY <1>1, <1>2 DEF OneRunning, ShellInv, StacksKept, Live
<1>5. ContextInv'
  BY <1>1, <1>2, Zenon DEF ContextInv, Live, StackOf
<1>6. StackInv'
  BY <1>1, <1>2, Zenon DEF StackInv, Live
<1>7. LockInv'
  BY <1>1, <1>2, Zenon DEF LockInv, Live, StackOf, Critical
<1>8. ExitInv'
  BY <1>1, <1>2, Zenon DEF ExitInv, Live, StackOf, Leaving
<1>9. SleepInv'
  BY <1>1, <1>2 DEF SleepInv, Live, StackOf
<1>. QED
  BY <1>3, <1>4, <1>5, <1>6, <1>7, <1>8, <1>9, Zenon

\* and DEFERRED_FREE is empty when it leaves its stack there.
LEMMA DeferKeeps ==
  ASSUME IInv, exit_defer_free
  PROVE  IInv'
<1>1. /\ state[current] = "Exited" /\ rsp = StackOf(current) /\ current \in Slots /\ 0 \in Slots
      /\ current # 0 /\ DEFERRED_FREE = NoStack /\ stack_base[current] \in Stacks
      /\ locked
  <2>1. state[current] = "Exited" /\ current \in Slots /\ DEFERRED_FREE = NoStack
    BY AtCall, Zenon DEF exit_defer_free, IInv, TasksConsistent, ExitInv, Leaving, Live
  <2>2. current # 0
    BY <2>1, Zenon DEF IInv, TasksConsistent, ShellInv, Live
  <2>3. locked
    BY Zenon DEF exit_defer_free, IInv, TasksConsistent, LockInv, Critical
  <2>. QED
    BY <2>1, <2>2, <2>3, AtCall, StacksApart, Zenon
<1>2. /\ pc'[rsp] = "crit_dead" /\ DEFERRED_FREE' = stack_base[current]
      /\ \A s \in Slots : s # current /\ Live(s) => pc'[StackOf(s)] = pc[StackOf(s)]
      /\ UNCHANGED <<tasks, current, next_id, free_stacks, locked, rsp, fpu, due>>
  BY <1>1, AtCall, StacksApart, Names, Zenon DEF exit_defer_free
<1>. USE DEF IInv, TasksConsistent, tasks
<1>3. TypeOK'
  <2>1. pc' \in [AllStacks -> PC]
    BY <1>1, Zenon DEF TypeOK, PC, exit_defer_free
  <2>. QED
    BY <1>1, <1>2, <2>1, Zenon DEF TypeOK
<1>4. OneRunning' /\ ShellInv' /\ StacksKept' /\ ContextInv'
  BY <1>1, <1>2 DEF OneRunning, ShellInv, StacksKept, ContextInv, Live, StackOf
<1>5. StackInv'
  BY <1>1, <1>2, Zenon DEF StackInv, Live
<1>6. LockInv'
  BY <1>1, <1>2, Zenon DEF LockInv, Live, StackOf, Critical
<1>7. ExitInv'
  BY <1>1, <1>2, Zenon DEF ExitInv, Live, StackOf, Leaving
<1>8. SleepInv'
  BY <1>1, <1>2, Zenon DEF SleepInv, Live, StackOf
<1>. QED
  BY <1>3, <1>4, <1>5, <1>6, <1>7, <1>8, Zenon
-----------------------------------------------------------------------------
(* The timer interrupt                                                     *)

\* Counting down stops at 0, and leaves NoWake alone.
LEMMA Countdowns ==
  /\ \A n \in Nat : Countdown(n) \in Nat
  /\ Countdown(0) = 0
  /\ \A n \in Nat \cup {NoWake} : Countdown(n) \in Nat \cup {NoWake}
BY DEF Countdown, NoWake

\* What the clock does to the code: only an executing hlt goes on, and that is
\* still in the loop of sleep_ms.
PcAfterTick == IF pc[rsp] = "halted" THEN [pc EXCEPT ![rsp] = "sleeping"] ELSE pc

\* So no code enters or leaves a critical section, a sleep or an exit by it.
LEMMA ClockMovesPc ==
  ASSUME IInv, pc' = PcAfterTick
  PROVE  /\ pc' \in [AllStacks -> PC]
         /\ \A k \in AllStacks : /\ k # rsp => pc'[k] = pc[k]
                                 /\ pc'[k] \in Leaving <=> pc[k] \in Leaving
                                 /\ pc'[k] \in Asleep <=> pc[k] \in Asleep
                                 /\ pc'[k] \in Critical <=> pc[k] \in Critical
                                 /\ pc[k] \in {"dead", "crit_exit"} => pc'[k] = pc[k]
                                 /\ pc'[k] = "crit_exit" => pc[k] = "crit_exit"
BY Zenon DEF IInv, TasksConsistent, TypeOK, PcAfterTick, PC, Leaving, Asleep, Critical

\* A tick while SCHEDULER is taken only counts, and frees the deferred stack.
LEMMA BusyKeeps ==
  ASSUME IInv, timer_tick_busy
  PROVE  IInv'
<1>1. /\ pc' = PcAfterTick
      /\ wake_tick' = [s \in Slots |-> Countdown(wake_tick[s])]
      /\ due' = [k \in AllStacks |-> Countdown(due[k])]
      /\ free_stacks' = free_stacks \cup ({DEFERRED_FREE} \ {NoStack})
      /\ DEFERRED_FREE' = NoStack
      /\ UNCHANGED <<state, id, priority, quantum_remaining, stack_base, saved_rsp,
                     fxsave, current, next_id, locked, rsp, fpu>>
  BY Zenon DEF timer_tick_busy, ClockAdvances, PcAfterTick, process_deferred_free
<1>2. /\ rsp \in AllStacks /\ current \in Slots
      /\ \A s \in Slots : Live(s) => StackOf(s) \in AllStacks
      /\ due \in [AllStacks -> Nat] /\ wake_tick \in [Slots -> Nat \cup {NoWake}]
      /\ free_stacks \subseteq Stacks /\ DEFERRED_FREE \in Stacks \cup {NoStack}
  BY StacksApart, Zenon DEF IInv, TasksConsistent, TypeOK
<1>3. /\ \A s \in Slots : Live(s) =>
           due'[StackOf(s)] = Countdown(due[StackOf(s)]) /\ wake_tick'[s] = Countdown(wake_tick[s])
      /\ due' \in [AllStacks -> Nat] /\ wake_tick' \in [Slots -> Nat \cup {NoWake}]
  BY <1>1, <1>2, Countdowns, Zenon
<1>4. /\ free_stacks' \subseteq Stacks
      /\ \A k \in Stacks : k \in free_stacks' <=> k \in free_stacks \cup {DEFERRED_FREE}
  BY <1>1, <1>2, Names, Zenon
<1>. USE DEF IInv, TasksConsistent
<1>5. TypeOK'
  BY <1>1, <1>3, <1>4, ClockMovesPc, Zenon DEF TypeOK
<1>6. OneRunning' /\ ShellInv' /\ ContextInv'
  BY <1>1, Zenon DEF OneRunning, ShellInv, ContextInv, Live, StackOf
<1>7. StackInv'
  BY <1>1, <1>4, Names DEF StackInv, Live
<1>8. StacksKept'
  BY <1>1, <1>4, Zenon DEF StacksKept
<1>9. LockInv'
  BY <1>1, <1>2, ClockMovesPc, Zenon DEF LockInv, Live, StackOf
<1>10. ExitInv'
  <2>1. state[current] = "Exited" /\ pc'[rsp] # "crit_exit" => stack_base[current] \in free_stacks'
    <3>. SUFFICES ASSUME state[current] = "Exited", pc'[rsp] # "crit_exit"
                  PROVE  stack_base[current] \in free_stacks'
      BY Zenon
    <3>1. current # 0 /\ stack_base[current] \in Stacks
      BY StacksApart, Zenon DEF ShellInv, Live
    <3>2. pc[rsp] # "crit_exit"
      BY <1>1, <1>2, ClockMovesPc, Zenon
    <3>. QED
      BY <1>4, <3>1, <3>2, Zenon DEF ExitInv
  <2>. QED
    BY <1>1, <1>2, <2>1, ClockMovesPc DEF ExitInv, Live, StackOf
<1>11. SleepInv'
  BY <1>1, <1>2, <1>3, ClockMovesPc, Countdowns, Zenon DEF SleepInv, Live, StackOf
<1>. QED
  BY <1>5, <1>6, <1>7, <1>8, <1>9, <1>10, <1>11, Zenon
\* What every tick that gets the lock has done when it returns to task n: the
\* exited task is gone, the due sleepers are awake, the context of the current
\* task is saved and that of n is back.
Gone(s) == s = current /\ state[s] = "Exited"

Ticks(n) ==
  /\ n \in Slots /\ ~locked
  /\ \A s \in Slots : /\ Live(s)' <=> Live(s)
                      /\ state'[s] # "Exited"
                      /\ state'[s] = "Running" => s = n
                      /\ state'[s] = "Blocked" <=> state[s] = "Blocked" /\ ~Waking(s)
  /\ \A s \in Slots :
       /\ stack_base'[s] = IF Gone(s) THEN NoStack ELSE stack_base[s]
       /\ ~Gone(s) => id'[s] = id[s] /\ saved_rsp'[s] = IF s = current THEN rsp ELSE saved_rsp[s]
       /\ s # n /\ Live(s) => fxsave'[s] = IF s = current THEN fpu ELSE fxsave[s]
       /\ state[s] = "Blocked" /\ ~Waking(s) => wake_tick'[s] = Countdown(wake_tick[s])
  /\ IF n = current THEN rsp' = rsp /\ (Live(n) => fpu' = fpu)
     ELSE Live(n) /\ rsp' = saved_rsp[n] /\ fpu' = id[n]
  /\ due' = [k \in AllStacks |-> Countdown(due[k])]
  /\ pc' = PcAfterTick
  /\ free_stacks' = free_stacks \cup ({DEFERRED_FREE} \ {NoStack})
  /\ DEFERRED_FREE' = NoStack
  /\ current' = n
  /\ UNCHANGED <<next_id, locked>>
  /\ state' \in [Slots -> TaskState]
  /\ id' \in [Slots -> 0 .. MaxId]
  /\ priority' \in [Slots -> Priorities]
  /\ quantum_remaining' \in [Slots -> Nat]
  /\ wake_tick' \in [Slots -> Nat \cup {NoWake}]
  /\ stack_base' \in [Slots -> Stacks \cup {NoStack}]
  /\ saved_rsp' \in [Slots -> AllStacks \cup {NoStack}]
  /\ fxsave' \in [Slots -> (0 .. MaxId) \cup {NoFpu}]
  /\ fpu' \in 0 .. MaxId

\* Such a tick keeps IInv.
LEMMA TicksKeeps ==
  ASSUME IInv, NEW n, Ticks(n)
  PROVE  IInv'
<1>1. /\ rsp \in AllStacks /\ current \in Slots /\ 0 \in Slots
      /\ due \in [AllStacks -> Nat]
      /\ free_stacks \subseteq Stacks /\ DEFERRED_FREE \in Stacks \cup {NoStack}
  BY Names, Zenon DEF IInv, TasksConsistent, TypeOK
<1>2. /\ Gone(current) \/ state[current] # "Exited"
      /\ \A s \in Slots : Live(s) => ~Gone(s) /\ StackOf(s) \in AllStacks /\ StackOf(s)' = StackOf(s)
      /\ \A s \in Slots : ~Live(s) => state'[s] = "Empty"
  <2>1. \A s \in Slots : ~Live(s) => state'[s] = "Empty"
    BY Zenon DEF Ticks, Live
  <2>2. \A s \in Slots : Live(s) => ~Gone(s) /\ StackOf(s)' = StackOf(s)
    BY Zenon DEF Ticks, Live, Gone, StackOf
  <2>. QED
    BY <1>1, <2>1, <2>2, StacksApart, Zenon DEF Gone, Live
<1>3. /\ n = current => rsp' = rsp
      /\ n # current => Live(n) /\ rsp' = StackOf(n)
      /\ rsp' \in AllStacks
      /\ Live(n) => rsp' = StackOf(n)
      /\ ~Live(n) => n = current /\ rsp' = rsp /\ rsp # BootStack /\ pc[rsp] = "dead"
  <2>1. n # current => Live(n) /\ rsp' = StackOf(n)
    BY Zenon DEF Ticks, IInv, TasksConsistent, ContextInv
  <2>2. Live(n) => rsp' = StackOf(n)
    BY <2>1, StacksApart, Zenon DEF Ticks, Live
  <2>3. ~Live(n) => n = current /\ rsp' = rsp /\ rsp # BootStack /\ pc[rsp] = "dead"
    <3>. SUFFICES ASSUME ~Live(n) PROVE n = current /\ rsp' = rsp /\ rsp # BootStack /\ pc[rsp] = "dead"
      BY Zenon
    <3>1. n = current /\ rsp' = rsp /\ pc[rsp] \in Leaving /\ pc[rsp] \notin Critical
      BY Zenon DEF Ticks, IInv, TasksConsistent, ExitInv, LockInv
    <3>2. rsp # BootStack
      BY <3>1, AtCall, Zenon
    <3>. QED
      BY <3>1, <3>2, Zenon DEF Leaving, Critical
  <2>. QED
    BY <1>1, <1>2, <2>1, <2>2, <2>3, Zenon DEF Ticks
<1>4. /\ free_stacks' \subseteq Stacks
      /\ \A k \in Stacks : k \in free_stacks' <=> k \in free_stacks \cup {DEFERRED_FREE}
      /\ current' = n /\ DEFERRED_FREE' = NoStack /\ n \in Slots
  BY <1>1, Names, Zenon DEF Ticks
<1>5. /\ \A s \in Slots : Live(s) => due'[StackOf(s)] = Countdown(due[StackOf(s)])
      /\ due' \in [AllStacks -> Nat]
  BY <1>1, <1>2, Countdowns, Zenon DEF Ticks
<1>6. pc' = PcAfterTick /\ ~locked /\ ~locked'
  BY Zenon DEF Ticks
<1>. USE DEF IInv, TasksConsistent
<1>7. TypeOK'
  BY <1>3, <1>4, <1>5, <1>6, ClockMovesPc, Zenon DEF TypeOK, Ticks
<1>8. OneRunning' /\ ShellInv'
  BY <1>1, <1>2, <1>4, Zenon DEF OneRunning, ShellInv, Ticks, Gone
<1>9. ContextInv'
  <2>1. (state[current] # "Empty" => rsp = StackOf(current))'
    BY <1>2, <1>3, <1>4, Zenon
  <2>2. (Live(current) => fpu = id[current])'
    BY <1>1, <1>2, <1>4 DEF Ticks, ContextInv
  <2>3. ASSUME NEW s \in Slots, s # n, Live(s)'
        PROVE  (saved_rsp[s] = StackOf(s) /\ fxsave[s] \in {id[s], NoFpu})'
    <3>1. Live(s) /\ ~Gone(s) /\ StackOf(s)' = StackOf(s)
      BY <1>2, <2>3, Zenon DEF Ticks
    <3>2. CASE s = current
      BY <2>3, <3>1, <3>2, StacksApart, Zenon DEF Ticks, ContextInv, Live
    <3>3. CASE s # current
      BY <2>3, <3>1, <3>3, Zenon DEF Ticks, ContextInv
    <3>. QED
      BY <3>2, <3>3, Zenon
  <2>. QED
    BY <1>4, <2>1, <2>2, <2>3, Zenon DEF ContextInv
<1>10. StackInv'
  <2>1. ASSUME NEW s \in Slots, Live(s)', s # 0
        PROVE  /\ (stack_base[s] \in Stacks \ (free_stacks \cup {DEFERRED_FREE}))'
               /\ \A t \in Slots \ {s} : (stack_base[t] # stack_base[s])'
               /\ (s # current => rsp # stack_base[s])'
    <3>1. Live(s) /\ stack_base'[s] = stack_base[s] /\ stack_base[s] = StackOf(s)
      BY <1>2, <2>1, Zenon DEF Ticks, StackOf
    <3>2. stack_base[s] \in Stacks \ (free_stacks' \cup {NoStack})
      BY <1>4, <2>1, <3>1, Names, Zenon DEF StackInv
    <3>3. \A t \in Slots \ {s} : stack_base'[t] # stack_base[s]
      BY <2>1, <3>1, <3>2, Names DEF StackInv, Ticks
    <3>4. s # n => rsp' # stack_base[s]
      BY <1>3, <1>4, <2>1, <3>1, StacksApart, Zenon
    <3>. QED
      BY <1>4, <3>1, <3>2, <3>3, <3>4, Zenon
  <2>. QED
    BY <2>1, Zenon DEF StackInv
<1>11. StacksKept'
  <2>1. ASSUME NEW k \in Stacks PROVE k \in free_stacks' \/ \E s \in Slots : k = stack_base'[s]
    <3>1. CASE k \in free_stacks \cup {DEFERRED_FREE}
      BY <1>4, <3>1, Zenon
    <3>2. CASE k \notin free_stacks \cup {DEFERRED_FREE}
      <4>1. PICK s \in Slots : k = stack_base[s]
        BY <3>2, Zenon DEF StacksKept
      <4>2. ~Gone(s)
        BY <3>2, <4>1, <1>6, Zenon DEF Gone, ExitInv, LockInv, Critical
      <4>. QED
        BY <4>1, <4>2, Zenon DEF Ticks
    <3>. QED
      BY <3>1, <3>2, Zenon
  <2>. QED
    BY <2>1, Zenon DEF StacksKept
<1>12. LockInv'
  <2>1. \A s \in Slots : Live(s) => pc[StackOf(s)] \notin Critical
    BY <1>6, StacksApart, Zenon DEF LockInv, Live
  <2>2. pc[rsp] \notin Critical /\ pc[rsp'] \notin Critical
    BY <1>3, <1>4, <1>6, <2>1, Zenon DEF LockInv
  <2>. QED
    BY <1>2, <1>3, <1>4, <1>6, <2>1, <2>2, ClockMovesPc DEF LockInv, Ticks
<1>13. ExitInv'
  <2>1. \A s \in Slots : Live(s) => pc[StackOf(s)] \notin Leaving
    BY StacksApart, Zenon DEF ExitInv, Live
  <2>2. (pc[rsp] \in Leaving <=> ~Live(current))'
    BY <1>1, <1>2, <1>3, <1>4, <1>6, <2>1, ClockMovesPc DEF Leaving, Ticks
  <2>3. (state[current] = "Empty" => rsp # BootStack /\ pc[rsp] = "dead")'
    BY <1>1, <1>2, <1>3, <1>4, <1>6, ClockMovesPc DEF Ticks, Live
  <2>4. \A s \in Slots : state'[s] = "Empty" => stack_base'[s] = NoStack
    BY Zenon DEF ExitInv, Ticks, Gone, Live
  <2>5. \A s \in Slots : Live(s)' => pc'[StackOf(s)'] \notin Leaving
    BY <1>2, <1>6, <2>1, ClockMovesPc DEF Ticks
  <2>. QED
    BY <1>4, <2>2, <2>3, <2>4, <2>5 DEF ExitInv, Ticks
<1>14. SleepInv'
  <2>1. ASSUME NEW s \in Slots, Live(s)'
        PROVE  /\ (state[s] = "Blocked" => pc[StackOf(s)] \in Asleep /\ wake_tick[s] = due[StackOf(s)])'
               /\ (state[s] # "Blocked" /\ pc[StackOf(s)] \in Asleep => due[StackOf(s)] = 0)'
    <3>1. /\ Live(s) /\ StackOf(s)' = StackOf(s) /\ StackOf(s) \in AllStacks
          /\ due'[StackOf(s)] = Countdown(due[StackOf(s)])
          /\ pc'[StackOf(s)] \in Asleep <=> pc[StackOf(s)] \in Asleep
          /\ state'[s] = "Blocked" <=> state[s] = "Blocked" /\ ~Waking(s)
      BY <1>2, <1>5, <1>6, <2>1, ClockMovesPc, Zenon DEF Ticks
    <3>2. Waking(s) => due[StackOf(s)] = 0
      BY <3>1, Zenon DEF Waking, SleepInv
    <3>. QED
      BY <3>1, <3>2, Countdowns, Zenon DEF SleepInv, Ticks
  <2>. QED
    BY <2>1, Zenon DEF SleepInv
<1>. QED
  BY <1>7, <1>8, <1>9, <1>10, <1>11, <1>12, <1>13, <1>14, Zenon
\* The states a tick goes through, slot by slot.
LEMMA StatesIs ==
  ASSUME IInv
  PROVE  /\ \A s \in Slots : Woken[s] = IF Waking(s) THEN "Ready" ELSE state[s]
         /\ \A s \in Slots : s # current => Retired[s] = Woken[s]
         /\ Retired[current] = IF Woken[current] = "Exited" THEN "Empty"
                               ELSE IF Woken[current] = "Running" THEN "Ready" ELSE Woken[current]
         /\ Woken \in [Slots -> TaskState] /\ Retired \in [Slots -> TaskState]
         /\ Woken[current] = "Exited" <=> state[current] = "Exited"
         /\ Woken[current] = "Exited" => NeedsSwitch
<1>1. current \in Slots /\ state \in [Slots -> TaskState]
  BY Zenon DEF IInv, TasksConsistent, TypeOK
<1>2. /\ \A s \in Slots : Woken[s] = IF Waking(s) THEN "Ready" ELSE state[s]
      /\ Woken \in [Slots -> TaskState]
  BY <1>1, Zenon DEF Woken, TaskState
<1>3. Woken[current] = "Exited" <=> state[current] = "Exited"
  BY <1>1, <1>2, Zenon DEF Waking
<1>4. /\ \A s \in Slots : s # current => Retired[s] = Woken[s]
      /\ Retired[current] = CASE Woken[current] = "Exited" -> "Empty"
                              [] Woken[current] = "Running" -> "Ready"
                              [] OTHER -> Woken[current]
      /\ Retired = [s \in Slots |-> Retired[s]]
  BY <1>1, <1>2, Zenon DEF Retired
<1>5. Retired[current] = IF Woken[current] = "Exited" THEN "Empty"
                         ELSE IF Woken[current] = "Running" THEN "Ready" ELSE Woken[current]
  BY <1>4, Zenon
<1>6. \A s \in Slots : Retired[s] \in TaskState
  BY <1>1, <1>2, <1>4, <1>5, Zenon DEF TaskState
<1>. QED
  BY <1>2, <1>3, <1>4, <1>5, <1>6, Zenon DEF NeedsSwitch

\* What TickTable does to the other fields, slot by slot.
LEMMA TableIs ==
  ASSUME IInv, NEW st, NEW q, TickTable(st, q)
  PROVE  /\ state' = st /\ quantum_remaining' = q
         /\ \A s \in Slots :
              /\ stack_base'[s] = IF Gone(s) THEN NoStack ELSE stack_base[s]
              /\ ~Gone(s) => id'[s] = id[s] /\ saved_rsp'[s] = IF s = current THEN rsp ELSE saved_rsp[s]
              /\ state[s] = "Blocked" /\ ~Waking(s) => wake_tick'[s] = Countdown(wake_tick[s])
         /\ due' = [k \in AllStacks |-> Countdown(due[k])]
         /\ pc' = PcAfterTick
         /\ free_stacks' = free_stacks \cup ({DEFERRED_FREE} \ {NoStack})
         /\ DEFERRED_FREE' = NoStack
         /\ UNCHANGED <<next_id, locked>>
         /\ id' \in [Slots -> 0 .. MaxId]
         /\ priority' \in [Slots -> Priorities]
         /\ wake_tick' \in [Slots -> Nat \cup {NoWake}]
         /\ stack_base' \in [Slots -> Stacks \cup {NoStack}]
         /\ saved_rsp' \in [Slots -> AllStacks \cup {NoStack}]
<1>. DEFINE empty == NeedsSwitch /\ Woken[current] = "Exited"
            wake == [s \in Slots |-> IF Waking(s) THEN NoWake ELSE wake_tick[s]]
<1>1. /\ state' = st /\ quantum_remaining' = q
      /\ saved_rsp' = Clear([saved_rsp EXCEPT ![current] = rsp], empty, NoStack)
      /\ id' = Clear(id, empty, 0)
      /\ priority' = Clear(priority, empty, Normal)
      /\ stack_base' = Clear(stack_base, empty, NoStack)
      /\ wake_tick' = [s \in Slots |-> Countdown(Clear(wake, empty, NoWake)[s])]
      /\ due' = [k \in AllStacks |-> Countdown(due[k])]
      /\ pc' = PcAfterTick
      /\ free_stacks' = free_stacks \cup ({DEFERRED_FREE} \ {NoStack})
      /\ DEFERRED_FREE' = NoStack
      /\ UNCHANGED <<next_id, locked>>
  BY Zenon DEF TickTable, ClockAdvances, PcAfterTick, process_deferred_free
<1>2. /\ empty <=> state[current] = "Exited"
      /\ \A s \in Slots : Gone(s) <=> s = current /\ empty
  BY StatesIs, Zenon DEF Gone
<1>t. /\ current \in Slots /\ rsp \in AllStacks /\ Normal \in Priorities
      /\ id \in [Slots -> 0 .. MaxId] /\ priority \in [Slots -> Priorities]
      /\ stack_base \in [Slots -> Stacks \cup {NoStack}]
      /\ saved_rsp \in [Slots -> AllStacks \cup {NoStack}]
      /\ wake_tick \in [Slots -> Nat \cup {NoWake}]
  BY ConstantsAssumption, Zenon DEF IInv, TasksConsistent, TypeOK
<1>. HIDE DEF empty
<1>3. \A s \in Slots :
        /\ stack_base'[s] = IF Gone(s) THEN NoStack ELSE stack_base[s]
        /\ ~Gone(s) => id'[s] = id[s] /\ saved_rsp'[s] = IF s = current THEN rsp ELSE saved_rsp[s]
  BY <1>1, <1>2, <1>t, Zenon DEF Clear
<1>4. /\ id' \in [Slots -> 0 .. MaxId] /\ priority' \in [Slots -> Priorities]
      /\ stack_base' \in [Slots -> Stacks \cup {NoStack}]
      /\ saved_rsp' \in [Slots -> AllStacks \cup {NoStack}]
  BY <1>1, <1>t, Numbers, Zenon DEF Clear
<1>5. /\ Clear(wake, empty, NoWake) \in [Slots -> Nat \cup {NoWake}]
      /\ \A s \in Slots : ~Gone(s) /\ ~Waking(s) => Clear(wake, empty, NoWake)[s] = wake_tick[s]
  BY <1>2, <1>t, Zenon DEF Clear
<1>6. /\ wake_tick' \in [Slots -> Nat \cup {NoWake}]
      /\ \A s \in Slots : state[s] = "Blocked" /\ ~Waking(s) => wake_tick'[s] = Countdown(wake_tick[s])
  <2>. HIDE DEF wake
  <2>. QED
    BY <1>1, <1>5, Countdowns, Zenon DEF Gone
<1>. QED
  BY <1>1, <1>3, <1>4, <1>6, Zenon
\* Quanta stay natural numbers.
LEMMA ChargedIs ==
  ASSUME IInv
  PROVE  ChargedAll \in [Slots -> Nat]
<1>1. /\ current \in Slots
      /\ quantum_remaining \in [Slots -> Nat] /\ \A s \in Slots : Quantum[priority[s]] \in Nat
  BY Numbers, Zenon DEF IInv, TasksConsistent, TypeOK
<1>2. SliceLeft \in Nat
  BY <1>1, Countdowns, Zenon DEF SliceLeft
<1>3. \A s \in Slots : Charged(s, NeedsSwitch /\ Woken[current] = "Exited") \in Nat
  BY <1>1, <1>2, Zenon DEF Charged
<1>. QED
  BY <1>3, Zenon DEF ChargedAll

\* The FPU registers are saved for the current task, unless it has exited.
LEMMA SavedFpuIs ==
  ASSUME IInv
  PROVE  /\ SavedFpu \in [Slots -> (0 .. MaxId) \cup {NoFpu}]
         /\ \A s \in Slots : SavedFpu[s] = IF s = current /\ Live(s) THEN fpu ELSE fxsave[s]
<1>1. /\ current \in Slots /\ fxsave \in [Slots -> (0 .. MaxId) \cup {NoFpu}] /\ fpu \in 0 .. MaxId
      /\ Woken[current] \in {"Exited", "Empty"} <=> ~Live(current)
  BY StatesIs, Zenon DEF IInv, TasksConsistent, TypeOK, Live, Waking
<1>. QED
  BY <1>1, Zenon DEF SavedFpu

\* No switch: the current task, which lives or has no slot any more, goes on.
LEMMA ContinueTicks ==
  ASSUME IInv, timer_tick_continue
  PROVE  Ticks(current)
<1>1. /\ ~locked /\ ~NeedsSwitch /\ TickTable(Woken, ChargedAll)
      /\ fxsave' = SavedFpu
      /\ UNCHANGED <<current, rsp, fpu>>
  BY Zenon DEF timer_tick_continue, try_lock
<1>2. /\ current \in Slots /\ fpu \in 0 .. MaxId
      /\ \A s \in Slots : (state[s] = "Running" => s = current) /\ (state[s] = "Exited" => s = current)
  BY Zenon DEF IInv, TasksConsistent, TypeOK, OneRunning, ExitInv
<1>3. state' = Woken
  BY <1>1, TableIs, Zenon
<1>4. \A s \in Slots : /\ Live(s)' <=> Live(s)
                       /\ state'[s] # "Exited"
                       /\ state'[s] = "Running" => s = current
                       /\ state'[s] = "Blocked" <=> state[s] = "Blocked" /\ ~Waking(s)
  BY <1>1, <1>2, <1>3, StatesIs, Zenon DEF Live, Waking
<1>5. /\ \A s \in Slots : s # current /\ Live(s) => fxsave'[s] = IF s = current THEN fpu ELSE fxsave[s]
      /\ fxsave' \in [Slots -> (0 .. MaxId) \cup {NoFpu}]
  BY <1>1, SavedFpuIs, Zenon
<1>6. state' \in [Slots -> TaskState] /\ quantum_remaining' \in [Slots -> Nat]
  BY <1>1, TableIs, StatesIs, ChargedIs
<1>. QED
  BY <1>1, <1>2, <1>4, <1>5, <1>6, TableIs, Zenon DEF Ticks

\* A switch to the task n that pick_next has found.
LEMMA SwitchTicks ==
  ASSUME IInv, timer_tick_switch
  PROVE  \E n \in Slots : Ticks(n)
<1>1. ~locked /\ NeedsSwitch
  BY Zenon DEF timer_tick_switch, try_lock
<1>. DEFINE kept == Clear(SavedFpu, Woken[current] = "Exited", NoFpu)
            mine(n) == IF kept[n] = NoFpu THEN id[n] ELSE kept[n]
<1>2. PICK n \in Slots :
        /\ Retired[n] = "Ready"
        /\ TickTable([Retired EXCEPT ![n] = "Running"],
                     [ChargedAll EXCEPT ![n] = Quantum[priority[n]]])
        /\ current' = n
        /\ rsp' = ResumeOn(n)
        /\ fpu' = mine(n)
        /\ fxsave' = IF kept[n] = NoFpu THEN [kept EXCEPT ![n] = mine(n)] ELSE kept
  BY Zenon DEF timer_tick_switch, IsPicked
<1>3. /\ current \in Slots /\ id \in [Slots -> 0 .. MaxId] /\ fpu \in 0 .. MaxId
      /\ \A s \in Slots : /\ state[s] = "Running" => s = current
                          /\ state[s] = "Exited" => s = current
                          /\ s # current /\ Live(s) => fxsave[s] \in {id[s], NoFpu}
      /\ Live(current) => fpu = id[current]
      /\ Quantum[priority[n]] \in Nat
  BY Numbers, Zenon DEF IInv, TasksConsistent, TypeOK, OneRunning, ExitInv, ContextInv
<1>4. /\ kept \in [Slots -> (0 .. MaxId) \cup {NoFpu}]
      /\ \A s \in Slots : Live(s) => kept[s] = IF s = current THEN fpu ELSE fxsave[s]
  BY <1>3, SavedFpuIs, StatesIs, Zenon DEF Clear, Live
<1>5. Live(n)
  BY <1>2, <1>3, StatesIs, Zenon DEF Live, Waking
<1>6. /\ state' = [Retired EXCEPT ![n] = "Running"]
      /\ quantum_remaining' = [ChargedAll EXCEPT ![n] = Quantum[priority[n]]]
  BY <1>2, TableIs, Zenon
<1>7. /\ state' \in [Slots -> TaskState]
      /\ quantum_remaining' \in [Slots -> Nat]
      /\ state'[n] = "Running" /\ \A s \in Slots : s # n => state'[s] = Retired[s]
  BY <1>3, <1>6, StatesIs, ChargedIs, Zenon DEF TaskState
<1>8. \A s \in Slots : /\ Live(s)' <=> Live(s)
                       /\ state'[s] # "Exited"
                       /\ state'[s] = "Running" => s = n
                       /\ state'[s] = "Blocked" <=> state[s] = "Blocked" /\ ~Waking(s)
  <2>. TAKE s \in Slots
  <2>1. CASE s = n
    BY <1>2, <1>3, <1>5, <1>7, <2>1, StatesIs, Zenon DEF Live, Waking
  <2>2. CASE s # n
    BY <1>3, <1>7, <2>2, StatesIs DEF Live, Waking
  <2>. QED
    BY <2>1, <2>2, Zenon
<1>9. fpu' = id[n] /\ id[n] \in 0 .. MaxId /\ id[n] # NoFpu
  <2>. HIDE DEF kept
  <2>. QED
    BY <1>2, <1>3, <1>4, <1>5 DEF NoFpu
<1>10. /\ fxsave' \in [Slots -> (0 .. MaxId) \cup {NoFpu}]
       /\ \A s \in Slots : s # n => fxsave'[s] = kept[s]
  <2>. HIDE DEF kept
  <2>. QED
    BY <1>2, <1>4, <1>9, Zenon
<1>11. IF n = current THEN rsp' = rsp /\ (Live(n) => fpu' = fpu)
       ELSE Live(n) /\ rsp' = saved_rsp[n] /\ fpu' = id[n]
  BY <1>2, <1>3, <1>5, <1>9, Zenon DEF ResumeOn
<1>12. \A s \in Slots : s # n /\ Live(s) => fxsave'[s] = IF s = current THEN fpu ELSE fxsave[s]
  BY <1>4, <1>10, Zenon
<1>13. Ticks(n)
  BY <1>1, <1>2, <1>7, <1>8, <1>9, <1>10, <1>11, <1>12, TableIs, ZenonT(40) DEF Ticks
<1>. QED
  BY <1>13, Zenon
\* When a switch is needed and nothing is Ready, the current task has exited,
\* or is gone, or sleeps, and task 0 sleeps too unless it is current: neither
\* of the two ways in which timer_tick goes on without a Ready task is ever
\* taken (the fallback to task 0 and the resumption of the current task).
LEMMA NothingToResume ==
  ASSUME IInv, \A s \in Slots : Retired[s] # "Ready"
  PROVE  /\ Retired[current] \in {"Empty", "Blocked"}
         /\ Retired[current] = "Empty" => Retired[0] = "Blocked"
<1>1. current \in Slots /\ 0 \in Slots /\ Retired[current] \in TaskState /\ Retired[0] \in TaskState
  BY Names, StatesIs, Zenon DEF IInv, TasksConsistent, TypeOK
<1>2. Retired[current] \in {"Empty", "Blocked"}
  BY <1>1, StatesIs, Zenon DEF TaskState
<1>3. current # 0 => Retired[0] = "Blocked"
  BY <1>1, StatesIs, Zenon DEF IInv, TasksConsistent, OneRunning, ShellInv, Live, TaskState, Waking
<1>4. current = 0 => Retired[current] # "Empty"
  BY <1>1, StatesIs, Zenon DEF IInv, TasksConsistent, ShellInv, Live, Waking
<1>. QED
  BY <1>2, <1>3, <1>4, Zenon

\* Nothing to switch to: the CPU stays where it is.
LEMMA IdleTicks ==
  ASSUME IInv, timer_tick_idle
  PROVE  Ticks(current)
<1>. DEFINE kept == Clear(SavedFpu, Woken[current] = "Exited", NoFpu)
<1>1. /\ ~locked /\ NeedsSwitch /\ TickTable(Retired, ChargedAll)
      /\ UNCHANGED <<current, rsp, fpu>>
      /\ fxsave' = kept
      /\ \A s \in Slots : Retired[s] # "Ready"
  BY NothingToResume, Zenon DEF timer_tick_idle, try_lock
<1>2. /\ current \in Slots /\ fpu \in 0 .. MaxId
      /\ \A s \in Slots : (state[s] = "Running" => s = current) /\ (state[s] = "Exited" => s = current)
  BY Zenon DEF IInv, TasksConsistent, TypeOK, OneRunning, ExitInv
<1>3. state' = Retired
  BY <1>1, TableIs, Zenon
<1>4. \A s \in Slots : /\ Live(s)' <=> Live(s)
                       /\ state'[s] # "Exited"
                       /\ state'[s] = "Running" => s = current
                       /\ state'[s] = "Blocked" <=> state[s] = "Blocked" /\ ~Waking(s)
  <2>. TAKE s \in Slots
  <2>1. CASE s = current
    BY <1>1, <1>2, <1>3, <2>1, StatesIs, NothingToResume, Zenon DEF Live, Waking
  <2>2. CASE s # current
    BY <1>2, <1>3, <2>2, StatesIs, Zenon DEF Live, Waking
  <2>. QED
    BY <2>1, <2>2, Zenon
<1>5. /\ fxsave' \in [Slots -> (0 .. MaxId) \cup {NoFpu}]
      /\ \A s \in Slots : s # current /\ Live(s) => fxsave'[s] = IF s = current THEN fpu ELSE fxsave[s]
  BY <1>1, <1>2, SavedFpuIs, Zenon DEF Clear
<1>6. state' \in [Slots -> TaskState] /\ quantum_remaining' \in [Slots -> Nat]
  BY <1>1, TableIs, StatesIs, ChargedIs
<1>. QED
  BY <1>1, <1>2, <1>4, <1>5, <1>6, TableIs, Zenon DEF Ticks

-----------------------------------------------------------------------------
(* The theorems                                                            *)

\* The initial state of the scheduler, one task on the boot stack, is
\* consistent.
LEMMA InitConsistent == Init => IInv
<1>. SUFFICES ASSUME Init PROVE IInv
  BY Zenon
<1>. USE Names DEF Init
<1>1. TypeOK
  <2>1. Normal \in Priorities /\ Quantum[Normal] \in Nat /\ 0 \in 0 .. MaxId /\ 1 \in 1 .. MaxId + 1
    BY ConstantsAssumption
  <2>2. state \in [Slots -> TaskState] /\ pc \in [AllStacks -> PC]
    BY Zenon DEF TaskState, PC
  <2>3. /\ wake_tick \in [Slots -> Nat \cup {NoWake}] /\ due \in [AllStacks -> Nat]
        /\ fxsave \in [Slots -> (0 .. MaxId) \cup {NoFpu}] /\ rsp \in AllStacks
    BY <2>1, Zenon DEF AllStacks
  <2>. QED
    BY <2>1, <2>2, <2>3, Zenon DEF TypeOK
<1>2. OneRunning /\ ContextInv /\ StackInv /\ ShellInv
  BY Zenon DEF OneRunning, ContextInv, StackInv, ShellInv, Live, StackOf
<1>3. LockInv
  BY Zenon DEF LockInv, Critical, Live, AllStacks
<1>4. ExitInv
  BY Zenon DEF ExitInv, Leaving, Live, AllStacks
<1>5. SleepInv /\ StacksKept
  BY Zenon DEF SleepInv, StacksKept, Live, StackOf, AllStacks, Asleep
<1>. QED
  BY <1>1, <1>2, <1>3, <1>4, <1>5, Zenon DEF IInv, TasksConsistent

\* No tick and no call of a task breaks the consistency.
LEMMA NextConsistent == IInv /\ [Next]_vars => IInv'
<1>. SUFFICES ASSUME IInv, [Next]_vars PROVE IInv'
  BY Zenon
<1>1. CASE timer_tick
  BY <1>1, BusyKeeps, ContinueTicks, SwitchTicks, IdleTicks, TicksKeeps, Zenon DEF timer_tick
<1>2. CASE Finish
  BY <1>2, QuietKeeps, DeferKeeps, BlockKeeps, Zenon DEF Finish
<1>3. CASE Call
  BY <1>3, SpawnKeeps, QuietKeeps, KillKeeps, FieldCallsKeep, ExitKeeps, Zenon DEF Call
<1>4. CASE Reprioritise
  BY <1>4, FieldCallsKeep, Zenon DEF Reprioritise
<1>5. CASE UNCHANGED vars
  BY <1>5 DEF vars, tasks, IInv, TasksConsistent, StacksKept, TypeOK, OneRunning,
              ContextInv, StackInv, LockInv, ShellInv, ExitInv, SleepInv, Live, StackOf
<1>. QED
  BY <1>1, <1>2, <1>3, <1>4, <1>5, Zenon DEF Next

\* With any number of tasks, stacks and priorities, the table, the CPU, the
\* stacks and the lock of the scheduler always agree.
THEOREM SchedulerConsistent == Spec => []TasksConsistent
<1>1. IInv => TasksConsistent
  BY Zenon DEF IInv
<1>. QED
  BY <1>1, InitConsistent, NextConsistent, PTL DEF Spec

\* The stack waiting to be freed is not free, and neither is the one that
\* exit_current_task is about to leave there.
FreedOnce ==
  /\ DEFERRED_FREE \notin free_stacks
  /\ state[current] = "Exited" /\ pc[rsp] = "crit_exit" => stack_base[current] \notin free_stacks

\* A tick frees a stack that was not free.
LEMMA TickFreesOnce ==
  ASSUME IInv, FreedOnce, timer_tick, IInv'
  PROVE  FreedOnce'
<1>1. NoStack \notin free_stacks' /\ locked \in BOOLEAN
  BY Names, Zenon DEF IInv, TasksConsistent, TypeOK
<1>2. DEFERRED_FREE' = NoStack /\ locked' = locked
  BY Zenon DEF timer_tick, timer_tick_busy, timer_tick_continue, timer_tick_switch,
               timer_tick_idle, TickTable, process_deferred_free
<1>3. CASE ~locked
  <2>1. ~locked' /\ DEFERRED_FREE' \notin free_stacks'
    BY <1>1, <1>2, <1>3
  <2>. QED BY <2>1, Zenon DEF IInv, TasksConsistent, LockInv, Critical, FreedOnce
<1>4. CASE locked
  <2>1. timer_tick_busy
    BY <1>4, Zenon DEF timer_tick, timer_tick_continue, timer_tick_switch, timer_tick_idle, try_lock
  <2>2. /\ state' = state /\ current' = current /\ rsp' = rsp /\ stack_base' = stack_base
        /\ free_stacks' = free_stacks \cup ({DEFERRED_FREE} \ {NoStack})
        /\ pc' = IF pc[rsp] = "halted" THEN [pc EXCEPT ![rsp] = "sleeping"] ELSE pc
    BY <2>1, Zenon DEF timer_tick_busy, process_deferred_free, ClockAdvances
  <2>3. pc[rsp] # "halted"
    BY <1>4, Zenon DEF IInv, TasksConsistent, LockInv, Critical
  <2>4. pc[rsp] = "crit_exit" => DEFERRED_FREE = NoStack
    BY Zenon DEF IInv, TasksConsistent, ExitInv
  <2>. QED BY <1>1, <1>2, <2>2, <2>3, <2>4, Zenon DEF FreedOnce
<1>. QED BY <1>1, <1>3, <1>4

\* What a task does frees no stack twice either.
LEMMA CallFreesOnce ==
  ASSUME IInv, FreedOnce, Finish \/ Call \/ Reprioritise
  PROVE  FreedOnce'
<1>. USE DEF IInv, TasksConsistent
<1>1. rsp \in AllStacks /\ pc \in [AllStacks -> PC] /\ current \in Slots
  BY Zenon DEF TypeOK
<1>2. ASSUME UNCHANGED <<rsp, DEFERRED_FREE>>, free_stacks' \subseteq free_stacks,
             pc'[rsp] # "crit_exit"
      PROVE  FreedOnce'
  BY <1>2, Zenon DEF FreedOnce
<1>3. CASE exit_defer_free
  <2>1. pc[rsp] = "crit_exit" /\ UNCHANGED <<tasks, current, free_stacks, rsp>>
        /\ pc' = [pc EXCEPT ![rsp] = "crit_dead"]
        /\ DEFERRED_FREE' = IF stack_base[current] = NoStack THEN DEFERRED_FREE
                            ELSE stack_base[current]
    BY <1>3, Zenon DEF exit_defer_free
  <2>2. state[current] = "Exited"
    BY <1>1, <2>1, Zenon DEF ExitInv, Leaving, Live
  <2>3. pc'[rsp] # "crit_exit"
    BY <1>1, <2>1, Zenon
  <2>. QED BY <2>1, <2>2, <2>3, Zenon DEF FreedOnce, tasks
<1>4. CASE exit_current_task
  <2>1. pc[rsp] = "run" /\ rsp # BootStack
        /\ UNCHANGED <<stack_base, current, free_stacks, rsp, DEFERRED_FREE>>
    BY <1>4, Zenon DEF exit_current_task, Lock, Acquire
  <2>2. Live(current) /\ current # 0
    BY <1>1, <2>1, Zenon DEF ExitInv, Leaving, ContextInv, StackOf, Live
  <2>3. stack_base[current] \notin free_stacks
    BY <1>1, <2>2, Zenon DEF StackInv
  <2>. QED BY <2>1, <2>3, Zenon DEF FreedOnce
<1>5. ASSUME NEW i \in 1 .. MaxId, kill(i) PROVE FreedOnce'
  <2>1. PICK s \in Slots :
          /\ rsp = BootStack /\ Found(i, s) /\ UNCHANGED <<current, DEFERRED_FREE, rsp>>
          /\ free_stacks' = free_stacks \cup ({stack_base[s]} \ {NoStack})
          /\ pc' = [pc EXCEPT ![rsp] = "crit_run"]
    BY <1>5, Zenon DEF kill, Lock
  <2>2. pc'[rsp] # "crit_exit"
    BY <1>1, <2>1, Zenon
  <2>3. stack_base[s] # NoStack => stack_base[s] # DEFERRED_FREE
    BY <2>1, Zenon DEF StackInv, ShellInv, Found, Live
  <2>. QED BY <2>1, <2>2, <2>3, Zenon DEF FreedOnce
<1>6. ASSUME NEW p \in Priorities, spawn_with_priority(p) PROVE FreedOnce'
  <2>1. PICK k \in free_stacks :
          /\ rsp = BootStack /\ UNCHANGED <<DEFERRED_FREE, rsp>>
          /\ free_stacks' = free_stacks \ {k}
          /\ pc' = [pc EXCEPT ![rsp] = "crit_run", ![k] = "run"]
    BY <1>6, Zenon DEF spawn_with_priority
  <2>2. k \in AllStacks
    BY <2>1, Zenon DEF TypeOK, AllStacks
  <2>3. pc'[rsp] # "crit_exit"
    BY <1>1, <2>1, <2>2
  <2>. QED BY <1>2, <2>1, <2>3, Zenon
<1>7. ASSUME NEW label, pc' = [pc EXCEPT ![rsp] = label], label # "crit_exit",
             UNCHANGED <<rsp, DEFERRED_FREE, free_stacks>>
      PROVE  FreedOnce'
  BY <1>1, <1>2, <1>7, Zenon
<1>8. CASE Unlock
  <2> DEFINE label == CASE pc[rsp] = "crit_run" -> "run"
                        [] pc[rsp] = "crit_sleep" -> "sleeping"
                        [] pc[rsp] = "crit_halt" -> "halting"
                        [] pc[rsp] = "crit_dead" -> "dead"
  <2>1. label # "crit_exit"
    BY <1>8 DEF Unlock, Critical
  <2>. QED BY <1>7, <1>8, <2>1 DEF Unlock
<1>9. CASE sleep_ms_block \/ sleep_ms_check \/ sleep_ms_hlt \/ spawn_fails \/ task_list
           \/ yield_now \/ other_interrupt
  BY <1>7, <1>9, Zenon DEF sleep_ms_block, sleep_ms_check, sleep_ms_hlt, spawn_fails, task_list,
                           yield_now, other_interrupt, Lock
<1>10. ASSUME NEW ms \in Delays, sleep_ms_enter(ms) PROVE FreedOnce'
  BY <1>7, <1>10, Zenon DEF sleep_ms_enter
<1>11. CASE Reprioritise
  BY <1>7, <1>11, Zenon DEF Reprioritise, set_priority, Lock
<1>. QED
  BY <1>3, <1>4, <1>5, <1>6, <1>8, <1>9, <1>10, <1>11, Zenon DEF Finish, Call

\* Neither lost nor freed twice is in exactly one place: live tasks have stacks of
\* their own, and an exited one gives its stack up once.
LEMMA OnePlace ==
  ASSUME IInv, FreedOnce
  PROVE  StackConservation
<1>. USE DEF IInv, TasksConsistent
<1>1. current \in Slots /\ NoStack \notin Stacks
  BY Names, Zenon DEF TypeOK
<1>2. ASSUME NEW s \in Slots, NEW k \in Stacks, Holds(s, k)
      PROVE  /\ k \notin free_stacks /\ k # DEFERRED_FREE
             /\ \A t \in Slots : Holds(t, k) => t = s
  <2>1. stack_base[s] = k /\ stack_base[s] # NoStack /\ state[s] # "Empty"
    BY <1>1, <1>2, Zenon DEF Holds, ExitInv
  <2>2. CASE Live(s)
    <3>1. s # 0
      BY <2>1, Zenon DEF ShellInv
    <3>. QED BY <2>1, <2>2, <3>1, Zenon DEF StackInv, Holds
  <2>3. CASE ~Live(s)
    <3>1. state[s] = "Exited" /\ s = current /\ pc[rsp] = "crit_exit"
      BY <1>2, <2>1, <2>3, Zenon DEF Holds, Live, ExitInv
    <3>2. k \notin free_stacks
      BY <2>1, <3>1, Zenon DEF FreedOnce
    <3>3. DEFERRED_FREE = NoStack
      BY <3>1, Zenon DEF ExitInv
    <3>4. ASSUME NEW t \in Slots, Holds(t, k), t # s PROVE FALSE
      <4>1. stack_base[t] = k /\ stack_base[t] # NoStack /\ state[t] # "Empty" /\ state[t] # "Exited"
        BY <1>1, <3>1, <3>4, Zenon DEF Holds, ExitInv
      <4>2. Live(t) /\ t # 0
        BY <4>1, Zenon DEF Live, ShellInv
      <4>. QED BY <2>1, <3>4, <4>1, <4>2, Zenon DEF StackInv
    <3>. QED BY <1>1, <3>2, <3>3, <3>4, Zenon
  <2>. QED BY <2>2, <2>3
<1>3. ASSUME NEW k \in Stacks, k \notin free_stacks, k # DEFERRED_FREE
      PROVE  \E s \in Slots : Holds(s, k)
  <2>1. PICK s \in Slots : stack_base[s] = k
    BY <1>3, Zenon DEF StacksKept
  <2>2. state[s] # "Empty"
    BY <1>1, <2>1, Zenon DEF ExitInv
  <2>3. CASE Live(s)
    BY <2>1, <2>3, Zenon DEF Holds
  <2>4. CASE ~Live(s)
    <3>1. state[s] = "Exited" /\ s = current
      BY <2>2, <2>4, Zenon DEF Live, ExitInv
    <3>2. pc[rsp] = "crit_exit"
      BY <1>3, <2>1, <3>1, Zenon DEF ExitInv
    <3>. QED BY <2>1, <3>2, Zenon DEF Holds
  <2>. QED BY <2>3, <2>4
<1>4. ASSUME NEW k \in Stacks, k \in free_stacks PROVE k # DEFERRED_FREE
  BY <1>4, Zenon DEF FreedOnce
<1>5. ASSUME NEW k \in Stacks
      PROVE  LET holders == {s \in Slots : Holds(s, k)} IN
             \/ k \in free_stacks /\ k # DEFERRED_FREE /\ holders = {}
             \/ k \notin free_stacks /\ k = DEFERRED_FREE /\ holders = {}
             \/ k \notin free_stacks /\ k # DEFERRED_FREE /\ \E s \in Slots : holders = {s}
  <2> DEFINE holders == {s \in Slots : Holds(s, k)}
  <2>1. CASE k \in free_stacks \/ k = DEFERRED_FREE
    <3>1. holders = {}
      BY <1>2, <2>1, Zenon
    <3>. QED BY <1>4, <2>1, <3>1, Zenon
  <2>2. CASE k \notin free_stacks /\ k # DEFERRED_FREE
    <3>1. PICK s \in Slots : Holds(s, k)
      BY <1>3, <2>2, Zenon
    <3>2. \A t \in Slots : Holds(t, k) => t = s
      BY <1>2, <3>1, Zenon
    <3>3. holders = {s}
      BY <3>1, <3>2, Zenon
    <3>. QED BY <2>2, <3>3, Zenon
  <2>. QED BY <2>1, <2>2
<1>. QED BY <1>5, Zenon DEF StackConservation

\* Spawning, exiting, killing and ticking keep every stack in one place: none is
\* lost, shared by two tasks, or freed while it is free.
THEOREM StacksConserved == Spec => []StackConservation
<1>1. Init => FreedOnce
  BY Names, Zenon DEF Init, FreedOnce
<1>2. IInv /\ FreedOnce /\ [Next]_vars => FreedOnce'
  <2>1. ASSUME FreedOnce, UNCHANGED vars PROVE FreedOnce'
    BY <2>1, Zenon DEF vars, tasks, FreedOnce
  <2>. QED BY <2>1, NextConsistent, TickFreesOnce, CallFreesOnce, Zenon DEF Next
<1>. QED
  BY <1>1, <1>2, InitConsistent, NextConsistent, OnePlace, PTL DEF Spec

\* The wait of sleep_ms ends only at its deadline, whatever the others do.
THEOREM SleepsWhole == Spec => SleepNeverShort
<1>1. ASSUME IInv, [Next]_vars, pc[rsp] = "sleeping", pc'[rsp] = "crit_run"
      PROVE  due[rsp] = 0
  <2>1. /\ Live(current) /\ rsp = StackOf(current) /\ current \in Slots /\ rsp \in AllStacks
        /\ pc \in [AllStacks -> PC]
    BY <1>1, AtCall, StacksApart, Zenon DEF IInv, TasksConsistent, ExitInv, Leaving, Live
  <2>2. sleep_ms_check
    <3>1. ~timer_tick
      <4>1. timer_tick => pc' = PcAfterTick
        BY <1>1, ContinueTicks, SwitchTicks, IdleTicks, Zenon
           DEF timer_tick, timer_tick_busy, ClockAdvances, PcAfterTick, Ticks
      <4>. QED
        BY <1>1, <4>1, Zenon DEF PcAfterTick
    <3>2. ~Call
      BY <1>1, <2>1, Zenon DEF Call, spawn_with_priority, spawn_fails, task_list, kill, yield_now,
                        sleep_ms_enter, exit_current_task, other_interrupt, Lock, Acquire
    <3>3. ~Reprioritise
      BY <1>1, Zenon DEF Reprioritise, set_priority, Lock, Acquire
    <3>4. ~(Unlock \/ exit_defer_free \/ sleep_ms_block \/ sleep_ms_hlt)
      BY <1>1, Zenon DEF Unlock, exit_defer_free, sleep_ms_block, sleep_ms_hlt, Lock, Acquire, Critical
    <3>5. ~UNCHANGED vars
      BY <1>1, Zenon DEF vars
    <3>. QED
      BY <1>1, <3>1, <3>2, <3>3, <3>4, <3>5, Zenon DEF Next, Finish
  <2>3. state[current] = "Running"
    BY <1>1, <2>1, <2>2, Zenon DEF sleep_ms_check, Lock
  <2>. QED
    BY <1>1, <2>1, <2>3, Zenon DEF IInv, TasksConsistent, SleepInv, Asleep
<1>2. IInv /\ [Next]_vars => [pc[rsp] = "sleeping" /\ pc'[rsp] = "crit_run" => due[rsp] = 0]_vars
  BY <1>1, Zenon
<1>. QED
  BY <1>2, InitConsistent, NextConsistent, PTL DEF Spec, SleepNeverShort

\* A tick that needs a switch and finds nothing Ready leaves the CPU on its
\* stack: the fallback to task 0 and the resumption of the current task, which
\* timer_tick provides for (scheduler.rs, the None branch of pick_next), are
\* never reached.
THEOREM IdleTickStays == Spec => [][timer_tick_idle => UNCHANGED <<current, rsp, fpu>>]_vars
<1>1. IInv /\ [Next]_vars => [timer_tick_idle => UNCHANGED <<current, rsp, fpu>>]_vars
  BY NothingToResume, Zenon DEF timer_tick_idle
<1>. QED
  BY <1>1, InitConsistent, NextConsistent, PTL DEF Spec
=============================================================================
