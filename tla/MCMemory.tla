------------------------------- MODULE MCMemory -------------------------------
(***************************************************************************)
(* The parts of the memory manager in one run: the physical frame          *)
(* allocator (FrameAllocator), page tables and the virtual memory manager  *)
(* (Vmm), the bootloader (Boot) and the kernel heap (Heap). A behaviour is *)
(* one of one of them, part; the variables that it does not have are idle. *)
(***************************************************************************)
EXTENDS FrameAllocator, Heap, TLC

VARIABLES part, mem, free, others, next_vaddr, regions, free_regions,
          total_mapped, heap_top, procs, work, last, machine, pc,
          kernel, image, mapped, used, pts, map, runtime

-----------------------------------------------------------------------------
(* Instances                                                               *)

\* Frame allocator

At(base, size, kind) == [base |-> base, size |-> size, kind |-> kind]

\* A hole between two usable regions; a usable region that starts below 1 MiB
\* and one that reaches past the bitmap; overlapping usable regions; a
\* machine with no usable memory.
Maps == {
  <<At(0, 1, "Usable"), At(1, 2, "Usable"), At(3, 1, "Kernel"),
    At(4, 3, "Usable")>>,
  <<At(0, 3, "Usable"), At(3, 6, "Usable")>>,
  <<At(2, 2, "Usable"), At(3, 2, "Usable"), At(5, 1, "Reserved")>>,
  <<At(0, 7, "Reserved")>> }

RunLengths == {2, 3}

\* Page tables and the VMM: a scaled-down address space, four entries per table.

E(to, huge) == [to |-> to, flags |-> "rw", huge |-> huge]

\* PML4 0: entry 0 -> identity map (huge), entry 3 -> kernel PDP 4: entry 2
\* -> PD 5: entry 0 -> the kernel's PT 6.
Boot4 ==
  (<<1, 0>> :> E(2, FALSE)) @@ (<<2, 0>> :> E(3, FALSE)) @@ (<<3, 0>> :> E(0, TRUE))
  @@ (<<1, 3>> :> E(4, FALSE)) @@ (<<4, 2>> :> E(5, FALSE)) @@ (<<5, 0>> :> E(6, FALSE))
  @@ (<<6, 0>> :> E(7, FALSE))

Devs == {[page |-> 100, offset |-> 0, size |-> 1], [page |-> 102, offset |-> 1, size |-> 4]}

Loads == {
  [calls |-> {"alloc", "mmio"}, pool |-> 10 .. 13],
  [calls |-> {"alloc", "heap"}, pool |-> 10 .. 13],
  [calls |-> {"alloc", "process"}, pool |-> 10 .. 14]}

V == INSTANCE Vmm WITH FANOUT <- 4, BootMem <- Boot4, KERNEL_PML4 <- 1,
       VMM_REGION_START <- 234, VMM_REGION_END <- 238, HEAP_REGION_START <- 240,
       HEAP_REGION_MAX <- 3, PageCounts <- {0, 1, 2}, Devices <- Devs, UNIT <- 2,
       UserPages <- {64}, OTHERS <- 1, Workloads <- Loads, PROCS <- 1

\* Machines to boot, with 23 pages of memory in six descriptors.

Desc(ty, page, pages) == [ty |-> ty, page |-> page, pages |-> pages]

Seg(vaddr, offset, filesz, memsz, flags) ==
  [load |-> TRUE, vaddr |-> vaddr, offset |-> offset, filesz |-> filesz,
   memsz |-> memsz, flags |-> flags]

\* Text, then data that ends in zeroes and does not fill its last page; a
\* note segment is not loaded.
Elf(len) == [valid |-> TRUE, len |-> len, segments |->
  <<Seg(224, 0, 2, 2, {"X"}), [Seg(0, 0, 1, 1, {}) EXCEPT !.load = FALSE],
    Seg(225, 2, 1, 3, {"W"})>>]

\* Low memory, two descriptors of changing type, the loader's pages (kernel,
\* page tables and some to spare), one more of changing type, and one far up.
Descs(t1, t2, t3) ==
  <<Desc("CONVENTIONAL", 0, 2), Desc(t1, 2, 2), Desc(t2, 4, 1),
    Desc("LOADER", 5, 14), Desc(t3, 19, 2), Desc("ACPI_RECLAIM", 22, 1)>>

Orders == {<<1, 2, 3, 4, 5, 6>>, <<4, 6, 5, 3, 2, 1>>, <<3, 1, 5, 6, 2, 4>>}

Tables10 == {[i \in 1 .. 10 |-> 4 + i], [i \in 1 .. 10 |-> 19 - i]}

\* The kernel where the tables are not.
KernelAt(tables) == IF tables[1] = 5 THEN {15, 16} ELSE {5, 6}

MCMachines ==
  UNION {{[descs |-> [i \in 1 .. 6 |-> Descs(ty[1], ty[2], ty[3])[o[i]]],
           elf |-> elf, kbase |-> k, tables |-> t, fb |-> fb, nx |-> nx,
           regions |-> max]
            : ty \in {<<"CONVENTIONAL", "CONVENTIONAL", "CONVENTIONAL">>,
                      <<"CONVENTIONAL", "BOOT_SERVICES", "ACPI_NVS">>,
                      <<"RUNTIME", "CONVENTIONAL", "BOOT_SERVICES">>,
                      <<"RUNTIME", "RUNTIME", "CONVENTIONAL">>},
              o \in Orders, elf \in {Elf(3), Elf(2)}, k \in KernelAt(t),
              fb \in {[page |-> 20, size |-> 3], [page |-> 48, size |-> 5],
                      [page |-> 19, size |-> 2]},
              nx \in BOOLEAN, max \in {5, 9, 28}}
           : t \in Tables10}

B == INSTANCE Boot WITH Machines <- MCMachines, UNIT <- 2, FANOUT <- 4, IDENTITY_PAGES <- 32,
       KERNEL_VADDR_BASE <- 224, MAX_PT_PAGES <- 9, MAX_SEGMENTS <- 3, MAX_RUNTIME <- 1,
       MAX_FRAMES <- 24, LOW_FRAMES <- 2

\* A heap of 16 words that can grow to 32, in chunks of 8.  A split leaves more
\* than 6 words; size 8 needs more than one chunk.
HeapMemory == 0 .. 3
HeapSizes == {2, 8}
WordAligned == {1}

-----------------------------------------------------------------------------
(* The sum                                                                 *)

FramesOnly == <<bitmap, total_frames, free_frames, next_free_hint, owned,
                boot, result>>
VmmOnly == <<free, others, next_vaddr, regions, free_regions, total_mapped,
             heap_top, procs, work, last>>
BootOnly == <<machine, pc, kernel, image, mapped, used, pts, map, runtime>>
HeapOnly == <<free_list, total_size, allocated_bytes, live, free_chunks>>

IdleFrames == Init /\ boot = {}
IdleVmm ==
  /\ free = "idle" /\ others = "idle" /\ next_vaddr = "idle"
  /\ regions = "idle" /\ free_regions = "idle" /\ total_mapped = "idle"
  /\ heap_top = "idle" /\ procs = "idle" /\ work = "idle" /\ last = "idle"
IdleBoot ==
  /\ machine = "idle" /\ pc = "idle" /\ kernel = "idle" /\ image = "idle"
  /\ mapped = "idle" /\ used = "idle" /\ pts = "idle" /\ map = "idle"
  /\ runtime = "idle"
IdleHeap == HeapInit /\ free_chunks = {2, 3}

MCInit ==
  \/ part = "frames" /\ Init /\ IdleVmm /\ IdleBoot /\ IdleHeap /\
     mem = "idle"
  \/ part = "vmm" /\ V!init /\ IdleFrames /\ IdleBoot /\ IdleHeap
  \/ part = "boot" /\ B!Init /\ IdleFrames /\ IdleVmm /\ IdleHeap
  \/ part = "heap" /\ HeapInit /\ IdleFrames /\ IdleVmm /\ IdleBoot /\
     mem = "idle"

KeepFrames == UNCHANGED <<part, VmmOnly, BootOnly, HeapOnly, mem>>
KeepVmm == UNCHANGED <<part, FramesOnly, BootOnly, HeapOnly>>
KeepBoot == UNCHANGED <<part, FramesOnly, VmmOnly, HeapOnly>>
KeepHeap == UNCHANGED <<part, FramesOnly, VmmOnly, BootOnly, mem>>

MCNext ==
  \/ part = "frames" /\ Next /\ KeepFrames
  \/ part = "vmm" /\ V!Next /\ KeepVmm
  \/ part = "boot" /\ B!Next /\ KeepBoot
  \/ part = "heap" /\ HeapNext /\ KeepHeap

mcvars == <<part, bitmap, total_frames, free_frames, next_free_hint, owned, boot,
            result, mem, free, others, next_vaddr, regions,
            free_regions, total_mapped, heap_top, procs, work,
            last, machine, pc, kernel, image, mapped, used, pts,
            map, runtime, free_list, total_size, allocated_bytes,
            live, free_chunks>>
MCSpec == MCInit /\ [][MCNext]_mcvars

\* Everything but the outcome of the VMM's last call, which each call
\* overwrites.
View == <<part, FramesOnly, free, others, next_vaddr, regions, free_regions, total_mapped,
          heap_top, procs, work, BootOnly, HeapOnly, mem>>

-----------------------------------------------------------------------------
(* Properties: those of the parts, of the behaviours that are theirs       *)

\* A frame is free, a page table, mapped once or another's; regions tile the
\* virtual range; every address space shares the kernel half.
VmmSound == part = "vmm" => V!VmmSound

\* A call of the VMM that fails leaves every kernel translation as it was.
FailureUndone == [][part = "vmm" => V!FailureUndoneStep]_mcvars

\* When the bootloader jumps, the memory map says of every page what it is and
\* every byte of the kernel is at its link address.
BootSound == part = "boot" => B!BootSound
=============================================================================
