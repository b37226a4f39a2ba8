-------------------------------- MODULE Vmm --------------------------------
(***************************************************************************)
(* The virtual memory manager (kernel/src/memory/vmm.rs) and the four      *)
(* level page tables under it (kernel/src/memory/paging.rs), on top of the *)
(* frame allocator's contract (FramePool: the lowest free frame, or none). *)
(*                                                                         *)
(* Addresses are page numbers.  mem holds the present entries of every     *)
(* page table: mem[<<table frame, index>>].  A table has FANOUT entries    *)
(* instead of 512; the upper half of a PML4 belongs to the kernel.         *)
(*                                                                         *)
(* One call is one action: the kernel makes these calls from one task at a *)
(* time, and a frame refused to any step of a call is refused because      *)
(* other users hold the frames (take_frame, give_frame).  A call works on  *)
(* a copy s of the tables and the free frames, with s.ok telling whether   *)
(* it still succeeds and s.done how many pages it has mapped.              *)
(***************************************************************************)
EXTENDS Integers, Sequences, FiniteSets, Functions, FiniteSetsExt, SequencesExt

CONSTANTS FANOUT,
          BootMem,          \* the tables the bootloader built
          KERNEL_PML4,      \* the frame in CR3
          VMM_REGION_START, VMM_REGION_END,
          HEAP_REGION_START, HEAP_REGION_MAX,
          PageCounts,       \* page counts asked for
          Devices,          \* [page, offset, size]: MMIO ranges, in units
          UNIT,             \* units per page
          UserPages,        \* user pages a process may map
          OTHERS, PROCS,    \* bounds: frames held elsewhere, processes
          Workloads         \* [calls, pool]: kinds of call made together, and the
                            \* frames init gave the frame allocator

VARIABLES mem, free, others, next_vaddr, regions, free_regions, total_mapped,
          heap_top,
          procs,            \* user PML4s: PML4 -> its mapped user pages
          work,             \* the calls this behaviour makes
          last              \* ghost: the last call and whether it succeeded

vmm == <<next_vaddr, regions, free_regions, total_mapped>>
vars == <<mem, free, others, next_vaddr, regions, free_regions, total_mapped,
          heap_top, procs, work, last>>

Region(base, size, kind) == [base |-> base, size |-> size, kind |-> kind]

Entry(to, flags, huge) == [to |-> to, flags |-> flags, huge |-> huge]

None == -1

-----------------------------------------------------------------------------
(* Page tables                                                             *)

pml4_index(v) == v \div (FANOUT * FANOUT * FANOUT)
pdp_index(v) == (v \div (FANOUT * FANOUT)) % FANOUT
pd_index(v) == (v \div FANOUT) % FANOUT
pt_index(v) == v % FANOUT

\* The table that entry i of table t leads to, None where there is none.
Down(m, t, i) ==
  IF <<t, i>> \in DOMAIN m /\ ~m[<<t, i>>].huge THEN m[<<t, i>>].to ELSE None

pd_of(m, root, v) == Down(m, Down(m, root, pml4_index(v)), pdp_index(v))

\* Where the PTE of page v is, if all its tables exist.
pte_of(m, root, v) == <<Down(m, pd_of(m, root, v), pd_index(v)), pt_index(v)>>

\* A walk that stops at a huge page of either size, or at the PTE.
translate(m, root, v) ==
  LET pdpe == <<Down(m, root, pml4_index(v)), pdp_index(v)>>
      pde == <<pd_of(m, root, v), pd_index(v)>>
      pte == pte_of(m, root, v)
  IN IF pdpe \in DOMAIN m /\ m[pdpe].huge THEN m[pdpe].to + (v % (FANOUT * FANOUT))
     ELSE IF pde \in DOMAIN m /\ m[pde].huge THEN m[pde].to + (v % FANOUT)
     ELSE IF pte \in DOMAIN m THEN m[pte].to
     ELSE None

State == [mem |-> mem, free |-> free, ok |-> TRUE, done |-> 0]

Fail(s) == [s EXCEPT !.ok = FALSE]

Set(s, k, e) == [s EXCEPT !.mem = (k :> e) @@ Restrict(@, DOMAIN @ \ {k})]

\* zero_frame of a fresh table f, and the entry that refers to it.
NewTable(s, k, f, flags) ==
  Set([s EXCEPT !.free = @ \ {f},
                !.mem = Restrict(@, {j \in DOMAIN @ : j[1] # f})],
      k, Entry(f, flags, FALSE))

\* One level of map_page: follow entry k, creating the table if it is absent.
Level(s, k, flags) ==
  IF ~s.ok THEN s
  ELSE IF k \in DOMAIN s.mem THEN IF s.mem[k].huge THEN Fail(s) ELSE s
  ELSE IF s.free = {} THEN Fail(s)
  ELSE NewTable(s, k, Min(s.free), flags)

Leaf(s, k, phys, flags) ==
  IF ~s.ok \/ k \in DOMAIN s.mem THEN Fail(s)
  ELSE Set(s, k, Entry(phys, flags, FALSE))

PdLevel(s, root, v, flags) ==
  Level(s, <<Down(s.mem, root, pml4_index(v)), pdp_index(v)>>, flags)

PtLevel(s, root, v, flags) ==
  Level(s, <<pd_of(s.mem, root, v), pd_index(v)>>, flags)

\* Tables created before a failure stay.
map_page(s, root, v, phys, flags) ==
  LET Write(t) == Leaf(t, pte_of(t.mem, root, v), phys, flags)
  IN Write(PtLevel(PdLevel(Level(s, <<root, pml4_index(v)>>, flags),
                           root, v, flags), root, v, flags))

\* The PTEs that unmap_page clears, for the pages of V.
Ptes(m, root, V) == {pte_of(m, root, v) : v \in V} \cap DOMAIN m

Unmapped(s, K) == [s EXCEPT !.mem = Restrict(@, DOMAIN @ \ K)]

\* unmap_page on every page of V, leaving the frames alone ...
unmap_pages(s, root, V) == Unmapped(s, Ptes(s.mem, root, V))

\* ... and giving them back.
unmap_free_pages(s, root, V) ==
  LET K == Ptes(s.mem, root, V)
  IN [Unmapped(s, K) EXCEPT !.free = @ \cup {s.mem[k].to : k \in K}]

Counted(s) == IF s.ok THEN [s EXCEPT !.done = @ + 1] ELSE s

Returned(s, f) == IF s.ok THEN s ELSE [s EXCEPT !.free = @ \cup {f}]

\* One page of alloc_and_map and of the two heap functions: a fresh frame,
\* given back when it cannot be mapped.
map_fresh(s, root, v, flags) ==
  LET With(f) == Counted(Returned(
        map_page([s EXCEPT !.free = @ \ {f}], root, v, f, flags), f))
  IN IF ~s.ok THEN s ELSE IF s.free = {} THEN Fail(s) ELSE With(Min(s.free))

map_fresh_pages(s, root, v, n, flags) ==
  LET F[i \in 0 .. n] ==
        IF i = 0 THEN s ELSE map_fresh(F[i - 1], root, v + i - 1, flags)
  IN F[n]

\* map_range: contiguous frames, stopping at the first failure.
map_range(s, root, v, phys, n, flags) ==
  LET F[i \in 0 .. n] ==
        IF i = 0 THEN s
        ELSE Counted(map_page(F[i - 1], root, v + i - 1, phys + i - 1, flags))
  IN F[n]

\* Roll back the pages mapped before the failure.
RolledBack(s, root, v) == unmap_free_pages(s, root, v .. v + s.done - 1)

Commit(s) == mem' = s.mem /\ free' = s.free

-----------------------------------------------------------------------------
(* Virtual ranges                                                          *)

Fits(n) == {i \in DOMAIN free_regions : free_regions[i].size >= n}

\* The first of the smallest free regions that are large enough.
IsBestFit(i, n) ==
  /\ i \in Fits(n)
  /\ \A j \in Fits(n) : \/ free_regions[i].size < free_regions[j].size
                        \/ free_regions[i].size = free_regions[j].size /\ i <= j

Shrunk(i, n) ==
  IF free_regions[i].size = n THEN RemoveAt(free_regions, i)
  ELSE [free_regions EXCEPT ![i].base = @ + n, ![i].size = @ - n]

\* The outcomes of alloc_virtual_range: [vaddr, next, list].
alloc_virtual_range(n) ==
  IF Fits(n) # {}
  THEN {[vaddr |-> free_regions[i].base, next |-> next_vaddr, list |-> Shrunk(i, n)]
          : i \in {j \in DOMAIN free_regions : IsBestFit(j, n)}}
  ELSE IF next_vaddr + n > VMM_REGION_END THEN {}
  ELSE {[vaddr |-> next_vaddr, next |-> next_vaddr + n, list |-> free_regions]}

Adjacent(list, i) ==
  i \in 1 .. Len(list) - 1 /\ list[i].base + list[i].size = list[i + 1].base

Merge(list, i) ==
  IF Adjacent(list, i)
  THEN RemoveAt([list EXCEPT ![i].size = @ + list[i + 1].size], i + 1)
  ELSE list

\* Mutant: the neighbour below is not merged.
free_virtual_range_forward(list, v, n) ==
  LET At(pos) == Merge(InsertAt(list, pos, Region(v, n, "KernelAlloc")), pos)
  IN At(1 + Cardinality({i \in DOMAIN list : list[i].base <= v}))

\* Insert in order of address, merge with the next, then with the previous.
free_virtual_range(list, v, n) ==
  LET At(pos) ==
        Merge(Merge(InsertAt(list, pos, Region(v, n, "KernelAlloc")), pos), pos - 1)
  IN At(1 + Cardinality({i \in DOMAIN list : list[i].base <= v}))

-----------------------------------------------------------------------------
(* Calls                                                                   *)

Did(op, ok) == last' = [op |-> op, ok |-> ok]

Record(r, region) ==
  /\ next_vaddr' = r.next
  /\ free_regions' = r.list
  /\ regions' = regions \cup {region}
  /\ total_mapped' = total_mapped + region.size

\* The range goes (back) to the free list.
Unrecord(r, v, n) ==
  /\ next_vaddr' = r.next
  /\ free_regions' = free_virtual_range(r.list, v, n)
  /\ UNCHANGED <<regions, total_mapped>>

Refused(op) ==
  /\ Did(op, FALSE)
  /\ UNCHANGED <<mem, free, others, vmm, heap_top, procs>>

alloc_and_map(n) ==
  \/ /\ n = 0 \/ alloc_virtual_range(n) = {}
     /\ Refused("alloc_and_map")
  \/ /\ n > 0
     /\ \E r \in alloc_virtual_range(n) :
          \E s \in {map_fresh_pages(State, KERNEL_PML4, r.vaddr, n, "rw")} :
            /\ Did("alloc_and_map", s.ok)
            /\ \/ /\ s.ok
                  /\ Commit(s)
                  /\ Record(r, Region(r.vaddr, n, "KernelAlloc"))
               \/ /\ ~s.ok
                  /\ Commit(RolledBack(s, KERNEL_PML4, r.vaddr))
                  /\ Unrecord(r, r.vaddr, n)
     /\ UNCHANGED <<others, heap_top, procs>>

\* regions.retain(|r| r.base != v), saturating_sub, free_virtual_range.
Forget(v, n) ==
  /\ regions' = {r \in regions : r.base # v}
  /\ total_mapped' = IF n > total_mapped THEN 0 ELSE total_mapped - n
  /\ free_regions' = free_virtual_range(free_regions, v, n)
  /\ UNCHANGED <<others, next_vaddr, heap_top, procs>>

unmap_and_free(v, n) ==
  /\ Commit(unmap_free_pages(State, KERNEL_PML4, v .. v + n - 1))
  /\ Forget(v, n)
  /\ Did("unmap_and_free", TRUE)

\* The page count is taken from the size alone.
MmioPages(size) == (size + UNIT - 1) \div UNIT

map_mmio(dev) ==
  LET n == MmioPages(dev.size) IN
  \/ alloc_virtual_range(n) = {} /\ Refused("map_mmio")
  \/ /\ \E r \in alloc_virtual_range(n) :
          \E s \in {map_range(State, KERNEL_PML4, r.vaddr, dev.page, n, "mmio")} :
            /\ Did("map_mmio", s.ok)
            /\ \/ /\ s.ok
                  /\ Commit(s)
                  /\ Record(r, Region(r.vaddr, n, "Mmio"))
               \/ /\ ~s.ok
                  /\ Commit(unmap_pages(s, KERNEL_PML4, r.vaddr .. r.vaddr + s.done - 1))
                  /\ Unrecord(r, r.vaddr, n)
     /\ UNCHANGED <<others, heap_top, procs>>

unmap_mmio(v, n) ==
  /\ Commit(unmap_pages(State, KERNEL_PML4, v .. v + n - 1))
  /\ Forget(v, n)
  /\ Did("unmap_mmio", TRUE)

\* A refused frame returns at once, with the pages mapped so far in place; a
\* refused mapping rolls back.
extend_heap(n) ==
  \/ heap_top + n > HEAP_REGION_START + HEAP_REGION_MAX /\ Refused("extend_heap")
  \/ /\ heap_top + n <= HEAP_REGION_START + HEAP_REGION_MAX
     /\ \E s \in {map_fresh_pages(State, KERNEL_PML4, heap_top, n, "rw")} :
          \/ /\ s.ok
             /\ Commit(s)
             /\ heap_top' = heap_top + n
             /\ Record([next |-> next_vaddr, list |-> free_regions],
                       Region(heap_top, n, "Heap"))
             /\ Did("extend_heap", TRUE)
          \/ /\ ~s.ok
             /\ s.free = {}
             /\ Commit(s)
             /\ Did("extend_heap_cut", FALSE)
             /\ UNCHANGED <<vmm, heap_top>>
          \/ /\ ~s.ok
             /\ s.free # {}
             /\ Commit(RolledBack(s, KERNEL_PML4, heap_top))
             /\ Did("extend_heap", FALSE)
             /\ UNCHANGED <<vmm, heap_top>>
     /\ UNCHANGED <<others, procs>>

\* Mutant: a failure leaves the pages mapped so far.
map_initial_heap_cut(n) ==
  /\ heap_top = HEAP_REGION_START
  /\ \E s \in {map_fresh_pages(State, KERNEL_PML4, HEAP_REGION_START, n, "rw")} :
       /\ Did("map_initial_heap", s.ok)
       /\ Commit(s)
       /\ heap_top' = IF s.ok THEN HEAP_REGION_START + n ELSE heap_top
  /\ UNCHANGED <<others, vmm, procs>>

\* Boot-time mapping of the first pages of the heap, rolled back on failure.
map_initial_heap(n) ==
  /\ heap_top = HEAP_REGION_START
  /\ \E s \in {map_fresh_pages(State, KERNEL_PML4, HEAP_REGION_START, n, "rw")} :
       /\ Did("map_initial_heap", s.ok)
       /\ \/ s.ok /\ Commit(s) /\ heap_top' = HEAP_REGION_START + n
          \/ /\ ~s.ok
             /\ Commit(RolledBack(s, KERNEL_PML4, HEAP_REGION_START))
             /\ UNCHANGED heap_top
  /\ UNCHANGED <<others, vmm, procs>>

-----------------------------------------------------------------------------
(* Address spaces of processes                                             *)

\* Mutant: the kernel half is left out of the copy.
KernelHalf_none == {}

KernelHalf == FANOUT \div 2 .. FANOUT - 1

create_user_page_table ==
  \/ free = {} /\ Refused("create")
  \/ \E f \in free :
       /\ f = Min(free)
       /\ Cardinality(DOMAIN procs) < PROCS
       /\ free' = free \ {f}
       /\ LET copied == {i \in KernelHalf : <<KERNEL_PML4, i>> \in DOMAIN mem}
          IN mem' = [k \in {j \in DOMAIN mem : j[1] # f} \cup ({f} \X copied) |->
                       IF k[1] = f THEN mem[<<KERNEL_PML4, k[2]>>] ELSE mem[k]]
       /\ procs' = procs @@ (f :> {})
       /\ Did("create", TRUE)
       /\ UNCHANGED <<others, vmm, heap_top>>

\* A process maps a fresh frame: map_page, then update_flags write-protects
\* the page when asked to (a page that is not mapped is refused).
map_user(p, v) ==
  \E s \in {map_fresh(State, p, v, "user")} :
    /\ Commit(s)
    /\ procs' = IF s.ok THEN [procs EXCEPT ![p] = @ \cup {v}] ELSE procs
    /\ Did("map_user", s.ok)
    /\ UNCHANGED <<others, vmm, heap_top>>

update_flags(p, v, flags) ==
  \E k \in Ptes(mem, p, {v}) :
    /\ mem' = [mem EXCEPT ![k].flags = flags]
    /\ Did("update_flags", TRUE)
    /\ UNCHANGED <<free, others, vmm, heap_top, procs>>

unmap_range(p, V) ==
  /\ Commit(unmap_free_pages(State, p, V))
  /\ procs' = [procs EXCEPT ![p] = @ \ V]
  /\ Did("unmap_range", TRUE)
  /\ UNCHANGED <<others, vmm, heap_top>>

Tables(m, T, I) == {m[k].to : k \in {j \in DOMAIN m : j[1] \in T /\ j[2] \in I
                                                     /\ ~m[j].huge}}

\* The tables below the entries I of the PML4s in R: PDPs, PDs and PTs.
Below(m, R, I) ==
  LET pds(T) == Tables(m, T, 0 .. FANOUT - 1)
      All(T, U) == T \cup U \cup pds(U)
  IN All(Tables(m, R, I), pds(Tables(m, R, I)))

\* Mutant: the shared kernel half is freed as well.
UserHalf_all == 0 .. FANOUT - 1

UserHalf == 0 .. FANOUT \div 2 - 1

\* The tables of the user half and the PML4; the caller has unmapped the
\* pages, whose frames this function leaves alone.  The entries of a freed
\* table are dropped: nothing may refer to it any more (FramesHeldOnce).
free_user_page_table(p) ==
  /\ procs[p] = {}
  /\ \E T \in {Below(mem, {p}, UserHalf) \cup {p}} :
       /\ free' = free \cup T
       /\ mem' = Restrict(mem, {k \in DOMAIN mem : k[1] \notin T})
  /\ procs' = Restrict(procs, DOMAIN procs \ {p})
  /\ Did("free", TRUE)
  /\ UNCHANGED <<others, vmm, heap_top>>

-----------------------------------------------------------------------------
(* The rest of the kernel takes and returns frames (task stacks, drivers). *)

take_frame ==
  /\ free # {}
  /\ Cardinality(others) < OTHERS
  /\ free' = free \ {Min(free)}
  /\ others' = others \cup {Min(free)}
  /\ Did("take", TRUE)
  /\ UNCHANGED <<mem, vmm, heap_top, procs>>

give_frame(f) ==
  /\ free' = free \cup {f}
  /\ others' = others \ {f}
  /\ Did("give", TRUE)
  /\ UNCHANGED <<mem, vmm, heap_top, procs>>

init ==
  /\ mem = BootMem
  /\ work \in Workloads
  /\ free = work.pool
  /\ others = {}
  /\ next_vaddr = VMM_REGION_START
  /\ regions = {}
  /\ free_regions = <<>>
  /\ total_mapped = 0
  /\ heap_top = HEAP_REGION_START
  /\ procs = << >>
  /\ last = [op |-> "init", ok |-> TRUE]

RegionsOf(kind) == {r \in regions : r.kind = kind}

AllocCalls ==
  \/ \E n \in PageCounts : alloc_and_map(n)
  \/ \E r \in RegionsOf("KernelAlloc") : unmap_and_free(r.base, r.size)

MmioCalls ==
  \/ \E dev \in Devices : map_mmio(dev)
  \/ \E r \in RegionsOf("Mmio") : unmap_mmio(r.base, r.size)

HeapCalls == \E n \in PageCounts : extend_heap(n) \/ map_initial_heap(n)

ProcessCalls ==
  \/ create_user_page_table
  \/ \E p \in DOMAIN procs :
       \/ \E v \in UserPages : map_user(p, v) \/ update_flags(p, v, "user_ro")
       \/ unmap_range(p, UserPages)
       \/ free_user_page_table(p)

\* work.calls names the kinds of call a behaviour makes.
Next ==
  /\ \/ "alloc" \in work.calls /\ AllocCalls
     \/ "mmio" \in work.calls /\ MmioCalls
     \/ "heap" \in work.calls /\ HeapCalls
     \/ "process" \in work.calls /\ ProcessCalls
     \/ take_frame
     \/ \E f \in others : give_frame(f)
  /\ UNCHANGED work

Spec == init /\ [][Next]_vars

-----------------------------------------------------------------------------
(* Properties                                                              *)

Roots == {KERNEL_PML4} \cup DOMAIN procs

AllTables == Below(mem, Roots, 0 .. FANOUT - 1)

\* The PTs are the tables two levels under the PDPs.
PTs == LET next(T) == Tables(mem, T, 0 .. FANOUT - 1) IN next(next(next(Roots)))

Leaves == {k \in DOMAIN mem : k[1] \in PTs}

\* Whatever calls fail half way, no frame is lost or used twice: every frame
\* of the pool is free, or a page table some address space reaches, or the
\* target of exactly one PTE, or held by another part of the kernel.
FramesHeldOnce ==
  LET tables == (AllTables \cup DOMAIN procs) \cap work.pool
      mapped == {mem[k].to : k \in Leaves} \cap work.pool
  IN /\ \A f \in work.pool :
          Cardinality({c \in {free, tables, mapped, others} : f \in c}) = 1
     /\ \A k, l \in Leaves : mem[k].to = mem[l].to /\ mem[k].to \in work.pool => k = l

Span(r) == r.base .. r.base + r.size - 1

\* Between VMM_REGION_START and next_vaddr every page belongs to exactly one
\* active region, and is mapped, or to exactly one free region, and is not;
\* the free list is sorted and no two of its regions touch; total_mapped is
\* the size of the active regions; the heap is mapped up to HEAP_TOP.
RangesTile ==
  LET act == {r \in regions : r.kind # "Heap"}
      Mapped(v) == translate(mem, KERNEL_PML4, v) # None
  IN /\ \A v \in VMM_REGION_START .. VMM_REGION_END - 1 :
          LET users == {r \in act : v \in Span(r)}
              holes == {i \in DOMAIN free_regions : v \in Span(free_regions[i])}
          IN /\ Cardinality(users) + Cardinality(holes)
                   = IF v < next_vaddr THEN 1 ELSE 0
             /\ Mapped(v) <=> users # {}
     /\ \A i \in 1 .. Len(free_regions) - 1 :
          free_regions[i].base + free_regions[i].size < free_regions[i + 1].base
     /\ total_mapped = MapThenSumSet(LAMBDA r : r.size, regions)
     /\ \A v \in HEAP_REGION_START .. heap_top - 1 : Mapped(v)

\* "All processes see the same kernel mappings without duplication": whatever
\* is mapped and unmapped after a page table was created, every page of the
\* kernel half translates alike in every address space.
KernelShared ==
  \A p \in DOMAIN procs : \A v \in VMM_REGION_START .. HEAP_REGION_START + HEAP_REGION_MAX :
    translate(mem, p, v) = translate(mem, KERNEL_PML4, v)

\* The three together: what the VMM keeps true of memory.
VmmSound == FramesHeldOnce /\ RangesTile /\ KernelShared

\* A call that fails leaves every translation of the kernel half as it was,
\* except extend_heap when it runs out of frames.
FailureUndoneStep ==
  ~last'.ok /\ last'.op # "extend_heap_cut"
    => \A v \in VMM_REGION_START .. HEAP_REGION_START + HEAP_REGION_MAX :
         translate(mem, KERNEL_PML4, v)' = translate(mem, KERNEL_PML4, v)
FailureUndone == [][FailureUndoneStep]_vars

\* extend_heap returns None "if the heap has reached its maximum size or
\* allocation failed", but when the frames run out it leaves the pages it had
\* mapped above HEAP_TOP: FailureUndone without its exception does not hold.
HeapGrowthUndone ==
  [][~last'.ok => \A v \in HEAP_REGION_START .. HEAP_REGION_START + HEAP_REGION_MAX :
        translate(mem, KERNEL_PML4, v)' = translate(mem, KERNEL_PML4, v)]_vars
=============================================================================
