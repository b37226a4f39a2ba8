# CantayaOS in TLA+

A formal model of the CantayaOS kernel: TLA+ modules translated from the Rust
sources, TLC runs that check them on small instances, and TLAPS proofs that
hold for every instance. `PROJECT.json` maps every definition to the lines it
models and lists the runs, the hazards they are aimed at and the theorems.

Run a model with `tlc -config X.cfg M` (the pairs are in the table of runs) and
a proof with `tlapm M.tla`.

## 1. The system

CantayaOS is a single-CPU, single-address-space kernel with preemptive tasks.
Interrupt handlers (timer, keyboard, mouse) run with interrupts off on top of
whatever task they interrupt; data is protected by spin locks. A task waiting
for a lock spins until the timer preempts it; a handler waiting for a lock that
the interrupted task holds spins for ever.

| Component | State | Operations | Interacts with |
|---|---|---|---|
| frame allocator | bitmap, count, hint | init, allocate, allocate run, free | heap, stacks, page tables |
| kernel heap | free list, headers | alloc, dealloc, grow | frame allocator |
| page tables, VMM | PML4 tree, ranges | map, unmap, extend heap | frame allocator |
| scheduler | task table, current, DEFERRED_FREE | timer tick, spawn, kill, sleep, exit, yield, priority | frame allocator, all tasks |
| kernel log | ring, sequence number | log, dmesg | every component, from any context |
| keyboard driver | ring, prefix, modifiers | scancode interrupt, read_key | shell, desktop |
| mouse driver | packet, ring, buttons | byte interrupt, read | desktop |
| desktop, window manager | windows, focus, drag, menu | clicks, movements, keys | mouse, keyboard, applications |
| FAT32 driver | FAT, directories, blocks | write, mkdir, delete, read | VFS, block device |
| VFS | current directory | path operations, cd | FAT32, shell, applications |
| provisioning | marker file | first-boot set-up, migration | VFS |
| network | ARP cache, pending ping | poll, resolve, ping | virtio-net |
| virtio | descriptor table, rings, request page | submit, complete | block device, network |
| bootloader, boot memory map | page tables, region table | load, map, add, sort, merge, retag | frame allocator |
| shell | files, variables, the capture buffer, line, history, screen | commands, pipes, redirection, keys | VFS, keyboard |
| settings | host name, colours, configuration files | commands, restart | VFS, provisioning |
| applications | text, board, snake | keys | desktop, VFS |

What makes it hard to test: a tick between any two instructions of a task;
handlers against locks; a stack that is freed while something may still run on
it; rings at their limit; frames that run out half-way through a mapping; a power
failure between two block writes or two steps of the first start; a device or a
host that answers late, wrongly or not at all; one buffer used by nested calls;
caches that outlive what they cache (the allocation hint, the current directory,
the ARP cache, the id of the dragged window); counters at zero; long sequences of
calls on the heap, the address space, the windows and the volume.

## 2. Modules

| Module | Models | State and actions |
|---|---|---|
| FramePool | what the frame allocator promises | a set of free frames; take the lowest, take the lowest run, give back |
| FrameAllocator | memory/frame_allocator.rs | `bitmap`, `total_frames`, `free_frames`, `next_free_hint`; one action per function, each under its lock. `owned`, `boot` and `result` are ghosts |
| Vmm | memory/paging.rs, vmm.rs | page tables as entries by table and index, virtual ranges, the heap's top, process address spaces; one action per call, its outcome in the ghost `last` |
| Boot | bootloader main.rs, loader.rs, paging.rs; shared boot_info.rs | the machine (firmware's map, the ELF file, where firmware allocates), then load, build tables, translate, retag, sort and merge, jump |
| Heap | memory/heap.rs | free list in list order, live allocations with their headers, chunks of memory |
| Scheduler | core_kernel/scheduler.rs | one function per field of `Task`, `current`, `DEFERRED_FREE`, the lock, the executing stack `rsp`, and where each stack's code stands; `timer_tick` between any two steps |
| KernelLocks | the locks taken by scheduler, heap, log, drivers | functions as sequences of lock operations; handlers on top of tasks |
| EventQueue | what a ring promises | a queue that loses its newest or its oldest event when full |
| KeyBuffer, MouseBuffer | the rings of hal/keyboard.rs and hal/mouse.rs | arrays and positions; push, pop |
| Keyboard | hal/keyboard.rs, and the shell's wait for a key | typist, wire, driver state, shell; extends KeyBuffer |
| Mouse | hal/mouse.rs | mouse, byte loss, packet assembly, buttons; extends MouseBuffer |
| LogRing | logging.rs | ring, lock, loggers preempted between their steps, dmesg |
| WindowManager, Desktop | desktop/wm.rs, mod.rs, input.rs | windows back to front with focus, the drag; the loop over events |
| Fat32 | storage/fat32.rs | functions from disk to disk, one block write after another |
| Vfs | storage/vfs.rs | the disk, the current directory, calls of which one write may go wrong |
| Virtqueue | hal/virtio.rs | a queue as a record: descriptors, free list, both rings with wrapping indices; the device's half takes and answers chains |
| VirtioBlk | hal/virtio_blk.rs | tasks in read_sectors and write_sectors, preempted between any two steps; the request page; the device |
| VirtioNet | hal/virtio_net.rs | receive and send queues, the software queue of frames |
| Network | net/*.rs and the ping command | a stack of calls, since poll, ARP, IP and ICMP call each other; the ARP cache, the pending reply, frames in the air |
| Shell | shell/mod.rs, the file commands, the capture of graphics/console.rs | a stack of work for lines, scripts, redirections and pipelines; files, variables, aliases, the one capture buffer |
| Prompt | shell/mod.rs, graphics/console.rs | the line being edited, the history ring, the grid of characters by scan line |
| Settings | storage/mod.rs, shell/mod.rs, misc.rs | the volume, provisioning step by step, start-up, settings chosen and kept; faults and power failures |
| Text, Editor, Notepad | shell/editor.rs, desktop/apps/notepad.rs | lines of text as bytes, cursor, scroll position, `modified` |
| Calc | shell/calc.rs | tokenizer and evaluator as operators; the meaning of an expression as reference |
| Minesweeper, Snake | desktop/apps | the board; the body, the food |

An MC module instantiates each module with small constants. Where parts do not
interact one MC module holds several of them: a variable `part` fixed in the
initial state says whose behaviour it is, the variables of the others stay idle in
an initial state, and each property speaks of its part. The parts with theorems are
EXTENDed, so that a run checks the very definition that a theorem states (MCMemory
extends FrameAllocator and Heap, MCInput Keyboard and LogRing, MCDesktop Mouse and
Desktop, MCNetwork Network and VirtioBlk, MCPrograms Settings and Prompt); the
others are INSTANCEs.

Composition: Keyboard and Mouse extend their rings, Desktop extends
WindowManager, Vfs extends Fat32, both virtio drivers use Virtqueue, Editor and
Notepad use Text, and KernelLocks joins the lock behaviour of the components
whose data the other modules hold. FrameAllocator refines FramePool, the rings
and LogRing refine EventQueue, each by an `INSTANCE ... WITH` mapping.

Abstractions worth knowing:

* A frame is its index, a heap address a word index, a task's registers are
  represented by whose they are, a message by its number.
* Vmm and Boot: tables have four entries instead of 512, a page has two units
  (for sizes that are no multiple of a page). Frames come from a pool that the
  rest of the kernel also takes from and gives back to.
* Scheduler: time is relative, `wake_tick` is the number of ticks to go.
  Statistics are left out. Stacks are units of five frames.
* Keyboard: nine keys stand for the classes the driver's tables tell apart.
* Mouse: of a byte only bits 3 and 0 matter; a movement byte may have either.
* Desktop: what lies under the cursor is a free choice; geometry is not
  modelled.
* Storage: a cluster is one block; the second copy of the FAT is written but
  never read by the code, so it appears only as a write that may go wrong.
  Block reads succeed. Long names, written only by other systems, are left out.
  Nothing is assumed of callers: they write files over directories, as `write`,
  `append`, `cp`, `rename`, `edit`, redirection and the desktop's programs all can,
  and they use relative paths after their current directory is gone. The code then
  reads file data as directory entries; the model has one entry (`Garbled`) for
  whatever such data looks like. A call of one of these two kinds goes astray:
  what is still promised after it is in StorageSound and OthersSurvive.
* Virtio: a sector is one value. The device may answer late and refuse a sector;
  it does answer.
* Network: a frame is its kind, its source and what it carries. The air loses,
  repeats, delays and reorders, and frames nobody asked for never cease. Half a
  second is TICKS ticks.
* Shell: a word is a number, some words spell lines when a script, an alias or a
  variable holds them; a file is a sequence of words and newlines, a volume has
  ROOM for so many. Formatting is left out, the text a command prints is not.
* Settings: a directory or file is there, spoilt or missing; the tree has a
  representative of each kind of step.
* Editor and Notepad: three bytes (a letter and the two halves of an accented
  one) and both newlines. A file that is no UTF-8 opens as one empty line. A save
  succeeds, is refused, or finds the volume full, which `write_file` reports as
  success.
* Calculator: integers of four bits, in a build that checks for overflow (the
  default one) and in a build that does not; the choice is made in Init.

## 3. Runs

| Run | Instance | Shows |
|---|---|---|
| `memory` | frames: 7, one below 1 MiB, four memory maps (a hole; usable memory below 1 MiB and past the bitmap; overlapping regions; none usable), runs of 2 and 3. VMM: 4 or 5 frames in the pool, calls of 0 to 2 pages, a range of 4 pages, one process. Boot: 23 pages in six descriptors of four kinds in three orders, 2 kernels, 2 places for the tables, 3 framebuffers, 3 sizes of the region table. Heap: 16 words that grow to 32 in chunks of 8 | exact count, no frame both free and owned, refinement of FramePool; no frame lost or mapped twice however calls fail, ranges tile, address spaces share the kernel half, failures undone; the memory map tells the truth, also when it overflows, and the kernel is where it was linked; no overlap and no word lost in the heap |
| `scheduler` | 3 slots, 2 stacks, 2 priorities, 3 task ids, sleeps of 3 ticks | one running task, every resumed context is the task's own, no task is switched away from while it holds SCHEDULER, no stack shared or lost, no short sleep |
| `scheduler_live` | 3 slots, 2 stacks, 2 task ids, sleeps of one tick | round robin among equals, sleeps return, exited slots come back |
| `locks` | 2 tasks, two sets of callers and interrupts | see below |
| `input` | ring of 3, 4 bytes on the wire, 3 strokes; log ring of 3, 2 loggers and dmesg, 7 messages | modifiers and characters as typed although interrupts are late, FIFO rings, every key eventually read, dmesg copies a consistent ring |
| `desktop` | mouse: ring of 2, 4-byte packets, 5 packets, 3 lost bytes; desktop: 2 windows open at once, 3 opened | a byte lost, or a movement byte taken for a first byte, garbles at most one event, and the driver is in step one packet after the last of them; at most one focus, no button stuck, a drag never moves to a later window |
| `storage` | 5 clusters, 2 entries per cluster, files of 0 and 2 clusters, one level of directories, 3 calls from the first that goes astray | a consistent volume, also after files were written over directories; other files survive a power failure or a refused block at any write; what is written is read, or nothing when the disk is full; new names appear complete; leaks only in calls that report failure |
| `network` | disk: 2 tasks, 2 sectors, queues of 2 (too few descriptors) and 4, indices that wrap at 4, 3 calls; network card: 3 receive buffers, software queue of 2, 3 frames in, 2 out; stack: 3 hosts and one behind the gateway, cache of 2, 2 attempts, one ping command of 2 pings, uninvited frames of 3 kinds without end | a transfer that succeeds moved every sector, no descriptor is lost, every call returns; frames once, whole and in order; the cache has the last mapping heard, echo requests are answered once, a wait ends without an answer only if none came, ping returns |
| `programs` | shell: 29 lines, 4 commands in a behaviour, two volumes; prompt: history of 2, lines of 5, 10 keys; editor and Notepad: 6 keys on files with both newlines; settings: 2 commands, 2 faults; Minesweeper 3 by 3, Snake 3 by 4; calculator: 4 characters after 5 beginnings, 4-bit integers | captures exact, no text lost; screen and history faithful; what a restart keeps; text without a mark is what the file holds, unless the volume was full; flood fill exact, the snake a chain; every expression has its meaning, and a panic comes only of an overflow |
| `scheduler_deferred_free`, `locks_keyboard`, `rename` | as `scheduler`; 2 tasks reading keys; as `programs` | violations, see section 6 |

Why these bounds: each is the smallest at which the case the properties are
about happens. Two stacks and three slots let a freed stack be reused while its
old slot is still being reclaimed. A sleep of more than one tick is needed for a
wake-up that is early. Rings of two and three wrap, fill and overflow. Four frames
run out at every level of a mapping of two pages. A region table of five entries
is too small, one of nine fits without splits, one of 28 always fits. Five
clusters with two entries per cluster let a directory grow and hold a two-cluster
file, and let the disk fill up halfway through an allocation. Queues of two refuse
a request after two of its three descriptors. A cache of two with three hosts has
to give a place away. Three calls astray are enough to write over a directory,
enter it and write into it. Four commands let a redirected script run a line that is
redirected itself. A history of two wraps with the third command.

Bounds that are in a guard and not in the code: `MaxAstray` ends a behaviour of
`storage` after so many calls from the first that goes astray, and no write goes
wrong once one has; a call through a current directory whose cluster has been
handed out again is the last one. `DEPTH` and `UNASKED` let an uninvited frame
come only while fewer than DEPTH calls are nested and fewer than UNASKED frames
are waiting; they do not limit the number of frames. `SEQUENCES` ends the ping
commands: a command is started while `icmp_seq` is at most SEQUENCES, which with 1
is one command. The second ping of a command meets all that a second command
would (a late reply, a cache that has changed) except another destination.

`locks` covers two workloads in one run, chosen in the initial state. The first
has logging, heap and mouse calls against the timer and the mouse. The second has
spawn, kill, task_list and exit, logging and read_key, against the timer and the
keyboard; it can really get stuck (section 6). LocksSound and NoDeadlock therefore
name the calls they except; that a holder of SCHEDULER keeps the CPU and
DeferredNeverOverwritten hold on both.

`storage` and `memory` use a view that leaves out a ghost (the last call), which
every step overwrites and none reads; TLC evaluates the action properties on every
transition whether or not its target is new.

Deadlock is checked except where the system may stop: `locks` (its second
workload can get stuck, see above), `storage` (a behaviour ends when a write went
wrong, since no code repairs a volume), and the runs whose parts end (the
bootloader jumps, a game is over, an editor is left) or have bounded numbers of
events, keys or calls.

### Fairness

* `scheduler_live`: strong fairness of the tick that finds SCHEDULER free, and
  of the step with which the code on a stack finishes its call once it has the
  CPU. The timer is periodic and the lock is held for a few instructions, so a
  tick cannot find it taken for ever: critical sections are not synchronised with
  the timer. Starting a call is not fair: tasks need not call anything.
  `set_priority` is left out of this specification because it restarts the time
  slice, so a task calling it for ever would keep the CPU.
* `locks`: weak fairness of the executing handler, strong fairness of each
  task's steps while it has the CPU, of being scheduled, and of the timer, which
  is what round robin among equals provides (shown by TopTaskRuns).
* `input`: weak fairness of the interrupt for a waiting byte, of the timer
  and of the shell's loop.
* `network`: weak fairness of each task's steps in the block driver, of the
  device (a virtual disk answers what it was given; the driver waits without a
  timeout), and, for ping, of the code's own steps and of the clock. Nothing is
  assumed of the air: every frame may be lost, and others may come for ever.

## 4. Proofs

All proofs are by TLAPS with SMT, Zenon and LS4; nothing is assumed but the named
ASSUMEs on the constants, which TLC evaluates on the instances of the runs. Each
theorem holds for every number of frames, tasks, windows, sectors, hosts, keys and
so on; the bounds on events (MaxStrokes, CALLS, KEYS, ...) are arbitrary too. Of
the 24 theorems listed in `PROJECT.json` 20 state a property that a run checks. The
proof modules extend the modules they are about.

| Module | Theorem | Property of a run |
|---|---|---|
| MemoryProofs | AnyCallerSafe, OwnershipSafe, AllocatorImplementsPool | CountInv, OwnershipInv, ImplementsPool |
| | HeapIsSound | HeapSound |
| SchedulerProofs | SchedulerConsistent, StacksConserved, SleepsWhole | TasksConsistent, StackConservation, SleepNeverShort |
| | IdleTickStays | |
| KernelLocksProofs | LocksAreSound, DeferredKept | LocksSound, DeferredNeverOverwritten |
| InputProofs | KeyBufferIsQueue, KeyboardKeepsQueue, KeysAreFaithful | ImplementsQueue, TypedFaithfully |
| | LogIsFaithful | LogFaithful |
| DesktopProofs | MouseIsSound, DesktopIsSound, DragAdoptsNone | MouseSound, DesktopSound, DragNeverAdopts |
| | MouseBufferIsQueue, IndicesAgree, DriverKeepsQueue | |
| DiskProofs | DiskIsSound | DiskSound |
| NetworkProofs | NetworkIsFaithful | NetworkFaithful |
| ShellProofs | RestartIsKept, PromptIsFaithful | RestartKeeps, PromptFaithful |

The arguments:

* Frames. Whatever callers free (twice, reserved frames, addresses beyond the
  bitmap) the count equals the number of clear bits and no free frame lies below
  the hint. The inductive invariant is
  `IInv == TypeOK /\ CountInv /\ HintInv /\ BootInv`: the type of `free_frames`
  needs CountInv (a decrement never goes below zero), and HintInv needs BootInv
  (before `init` nothing is free or owned and the hint is 0, which `init` leaves as
  it is). Callers that free only what they own keep OwnershipInv as well. The
  refinement rests on both: the search that starts at the hint finds the lowest free
  frame because nothing below the hint is free, and a refusal means there is none.
* Heap. HeapSound is inductive: the blocks of the free list, the live allocations
  and their headers tile the heap. The proof follows one word of the heap through
  the split, the merge with the neighbours and the growth, whatever the order of the
  list, which the code does not keep sorted. HeapAssumption allows any sizes, but
  only the alignment that callers ask for.
* Scheduler. StackConservation says that every stack is in exactly one place: free,
  deferred, or held by one slot. `IInv == TasksConsistent /\ StacksKept` is
  inductive, where StacksKept is the half that no stack is lost; the other half,
  that none is in two places, follows from TasksConsistent and FreedOnce. That the
  context resumed is the task's own needs to know that no two tasks have a stack in
  common; that a stack is freed once needs to know which task can be inside
  `exit_current_task`. SleepsWhole and IdleTickStays (task 0 as a fallback is never
  reached) follow from it.
* Locks. `KInv == TypeOK /\ HandlerInv /\ CallsInv /\ MaskInv /\
  SchedulerHolderRuns /\ DeferInv`. HandlerInv lists which locks a handler
  holds at each of its points; CallsInv says that tasks hold only locks of the calls
  they make; MaskInv says around which locks interrupts are off; DeferInv says that a
  stack waits in DEFERRED_FREE only while the task that put it there is on the CPU.
* Rings. A ring is read off as a sequence; a few lemmas say how it changes when an
  element is added or dropped. The refinement of EventQueue then needs only that the
  positions are in range and, for the mouse, that `write_idx` is `read_idx + count`
  modulo the size. It is proved for the ring alone and for the whole driver.
* Keyboard. `KeyInv == TypeOK /\ WireInv`: the bytes on the wire form a chain, each
  read in the state the one before leaves the driver in, and the last one leaves it
  with the modifiers the typist holds.
* Log. `LogInv == LogTypeOK /\ FillInv /\ HolderInv /\ CopyConsistent`: the copy
  made by dmesg is a prefix of the ring because dmesg holds the lock meanwhile.
* Mouse. The invariant relates the position of the driver in its packet to that of
  the mouse. A driver out of step is brought back by bit 3, which every first byte
  has, but a movement byte may have it too (a step of -1 is 0xFF) and is then taken
  for a first byte. The ghosts `mistaken` and `spoiltAt` count these bytes and note
  the last packet with one; the theorem is about what follows them. How long a
  driver stays out of step is not bounded: as long as every packet brings another
  mistake it gathers packets from the wrong byte on.
* Desktop. DesktopSound is inductive and splits into WmInv (ids below `next_id`, no
  id twice, at most one focus), DeviceInv (the last event queued, or the tracker, has
  the buttons really held) and MenuInv. The id of a drag is below `next_id`, so
  no window opened later gets it.
* Disk. DiskInv says that at most one request is out, that its chain and the request
  page belong to the holder of VIRTIO_BLK, and that the free list is a list without
  repetitions of exactly the other descriptors. `free_chain` walks the chain: what
  the walk returns is shown by an argument on the least number of steps at which it
  would differ. Indices wrap at any WRAP above 1.
* Network. NetInv describes the stack of calls by depth: which call may be on which,
  which of them waits, and how many replies are still owed by the calls on the
  stack, since `poll` answers requests that arrive while another is being answered.
* Settings. SettingsInv: of the steps still to do the marker is the last, so a file
  init.ok implies that the others were done; theme.cfg has the scheme chosen last
  unless it is spoilt or about to be written; between a start and `load_saved_theme`
  the colours are the default ones.
* Prompt. PromptInv: the cursor is inside the text rows, the rows below it are
  blank, its own row shows the prompt and the line unless the line has reached the
  right edge; the slot of each command in the history ring. `print` and the loop of
  `backspace` are recursive functions; a least-number argument shows what they leave
  on the screen. PromptAssumption: two columns and two rows at least, no newline
  among the characters typed.

Only model-checked, and why:

* liveness under fairness and anything about ENABLED: out of the prover's reach
  (round robin, sleeps that return, keys that are read, calls and pings that return,
  NoDeadlock);
* what RECURSIVE operators compute: CalcExact and the flood fill of GamesSound. The
  prover has no induction over data; the least-number argument used for `print` and
  `free_chain` takes a page for a loop over one sequence and does not carry over to
  an evaluator or to graph search;
* VmmSound, FailureUndone and BootSound (trees of page tables, a sort and a merge),
  StorageSound and the other properties of the volume (chains of clusters through
  a whole disk, sequences of writes): built on folds and on
  recursive functions over the whole state, of which the proofs would need what they
  compute;
* NicSound (VirtioNet uses a RECURSIVE operator), CaptureExact, TextKept,
  EditorsKeepText and the snake of GamesSound: no proof has been attempted.

## 5. Coverage and what is not modelled

The definitions map to about a third of the implementation's lines: the parts
with concurrency, shared resources, failures or persistent state.

Left out for good: drawing, fonts, icons, the splash screen (no property depends
on pixels); ACPI, PCI, clock and speaker (register reads that keep almost no
state); CPU and interrupt controller set-up (done once, before anything
modelled); the executive, which consists of unused types; the test harness; the
shell commands that only print what other components return (most of
shell/commands/system.rs, `ls`, `tree`, `find`, `stat`, `xxd`, `cal`).

Left out so far: the geometry of windows, the mouse's initialisation, the command
line and the choice of a video mode in the bootloader, translation of Windows-like
paths, the file browser, paint, settings, calculator, clock, terminal and task
manager applications.

Within the modelled parts: heap layouts aligned to more than 8 bytes (no caller
uses one; see section 6), failed block reads, tasks killed while they hold a
lock, the registers written when a virtio device is set up, UDP (nothing binds a
port), the cursor's blinking, pages of `more` longer than the screen. Nothing but
`virt_to_phys` of the VMM's interface is called by the rest of the kernel yet; the
model lets any caller call any of it.

### Plan

1. Proofs: RangesTile for the virtual ranges; the network card over the lemmas on
   descriptors in DiskProofs; the capture buffer of the shell.
2. The file browser and the terminal as small state machines over Vfs and Shell.
3. Vmm over FrameAllocator instead of over a pool.

## 6. Where code and comments disagree

Three have a run of their own:

* `scheduler_deferred_free`: `timer_tick` empties DEFERRED_FREE before it
  switches (scheduler.rs:429), so a tick inside `exit_current_task` frees the
  stack the CPU executes on; scheduler.rs:33 says "consumed by timer_tick() after
  switching away".
* `locks_keyboard`: `read_key` takes KEY_BUFFER with interrupts on and the
  keyboard interrupt takes it too (keyboard.rs:195): a key pressed at that moment
  spins for ever. keyboard.rs:82 calls the ring "lock-free".
* `rename`: "Rename/move a file" (shell/commands/system.rs:53) copies and then
  deletes (shell/commands/fs.rs:940): a file renamed to its own name is gone, and
  so is the text when the copy did not fit (`RenameKeepsText`).

The others were met while modelling. Where a property is named, it is defined in
the module and TLC refutes it with the same instance as the module's run, or with
the one its comment gives:

* scheduler.rs:88 "preempts everything": a Realtime task waits for the running
  task's slice to end (`PreemptsEverything`).
* scheduler.rs:426 "Uses `try_lock`": `process_deferred_free` (38) takes
  DEFERRED_FREE with `lock` in the tick and spins if `exit_current_task` holds it.
* scheduler.rs:434 "try_lock avoids deadlock": spawn and kill log, and task_list
  allocates, while they hold SCHEDULER (584); if a preempted task holds the log's
  or the heap's lock no tick can switch back to it.
* heap.rs:65 "sorted by address": a split pushes its remainder at the head
  (`SortedByAddress`). heap.rs:82: `allocated_bytes` drifts
  (`AllocatedBytesCounted`). heap.rs:120: growth does not count the header and
  fails for sizes just below a multiple of 256 KiB (`GrowthServes`). heap.rs:285:
  an allocation aligned to more than 8 bytes is freed one word too high.
* logging.rs:72 "oldest first": a logger preempted between numbering and pushing
  is overtaken (`OldestFirst`). logging.rs:96: the count includes dropped messages
  (`LogCountRecorded`).
* desktop/mod.rs:253: a right click while dragging swallows the release
  (`DragEndsOnRelease`). input.rs:200: Enter on the separator of the start menu
  leaves the desktop (`SeparatorSkipped`). wm.rs:582: a click in the task bar does
  not raise the window (`TaskbarBringsToFront`). input.rs:262: a click on the start
  button reopens the menu it has just closed (`ClickOutsideCloses`).
* fat32.rs:504 "Returns true on success" (`TrueOnSuccess`): `write_file` returns
  true when the disk is full, and the file then has a size but no cluster and has
  lost what it held; when a block was refused (529, 539: what the writes return is
  not looked at); and when the name is a directory's, which stays a directory whose
  entries are the file's data, while the names below it are lost and their clusters
  leak. WrittenIsRead is what holds of the other writes.
* fat32.rs:516: a directory written over with no data has cluster 0; what is then
  written into it changes the FAT's entry 0, its cluster leaks, and `write_file`
  returns true. fat32.rs:691: a directory grows by a cluster that is linked before
  it is cleared, so after a power failure in between it lists what the block held.
* vfs.rs:49: the current directory is kept as a cluster number. When the directory
  was deleted and the cluster handed out again, a relative path reads, creates and
  deletes names of the new owner.
* bootloader/src/paging.rs:203 maps "the first 4 GiB", where the kernel writes
  the frames it allocates; frame_allocator.rs:27 supports 16 GiB
  (`FramesReachable`). The framebuffer's last part of a huge page, and segments
  beyond the eighth, are not mapped. `init` of the frame allocator skips a whole
  usable region that starts below 1 MiB.
* vmm.rs:305 "`None` if ... allocation failed": the pages mapped before a frame was
  refused stay mapped, and every later growth fails on them (`HeapGrowthUndone`).
  vmm.rs:235: `map_mmio` computes the pages from the size alone and ignores the
  offset in the first page; two mappings of size zero share their base.
* icmp.rs:118 "Clear any old reply": a late reply to the previous request is taken
  for the answer to this one (`ReplyIsMine`). `poll` answering a request may
  resolve an address, which polls again: the nesting has no bound (`NotNested`).
  arp.rs:208 "Blocks up to ~2 seconds" is true of each wait by itself: as long as
  echo requests from hosts not in the cache reach each nested wait, none below it
  goes on, and `ping` does not return. PingReturns is about frames that reach waits
  nested up to DEPTH; TLC finds it to hold for DEPTH 4, and for 6 with the stack alone.
* misc.rs:30 "Persist hostname": the name is saved in a file that start-up reads
  only when there is none under /Windows (`HostnameSurvives`). Until a name is set
  it consists of seven NUL characters (shell/mod.rs:56). init.ok is written even if
  the steps before it failed.
* system.rs:114 "Redirect output to file": a redirect inside a redirected script,
  or a pipe, empties the outer capture (`RedirectComplete`); a redirect in a
  pipeline's stage is ignored. A script that runs itself, and an alias of itself,
  recurse until the stack ends.
* shell/mod.rs:215 "Check bounds": Up at the oldest entry goes on to the newest or
  to an empty slot (`UpStopsAtOldest`). console.rs:346 "won't be overwritten by
  scrolling": it is, when the height is no multiple of the character's
  (`StatusBarKept`).
* shell/editor.rs and notepad.rs move by bytes: a key in the middle of a character
  of two bytes panics (`NeverPanics`). editor.rs "Restore console": the colours
  chosen by the user are not restored (`ConsoleRestored`). Notepad's cursor can
  leave the window (`CursorShown`); opening another file or a new one drops
  unsaved text.
* editor.rs:127, notepad.rs:168: a save onto a full volume empties the file, and
  `modified` is cleared because `write_file` returned true: the text is then only
  in memory and may be left without a question. editor.rs:30, notepad.rs:187: a
  file that is no UTF-8 opens as one empty line, and a save replaces it.
* shell/calc.rs: in a build with overflow checks, such as the default one, an
  overflow (72, 73, 84) stops the kernel; the smallest integer divided by -1 (89) and
  its remainder (95) do in every build.
