-------------------------------- MODULE Boot --------------------------------
(***************************************************************************)
(* The bootloader (bootloader/src/main.rs, loader.rs, paging.rs) and the   *)
(* memory map it hands to the kernel (shared/src/boot_info.rs).            *)
(*                                                                         *)
(* Physical and virtual addresses are page numbers; the sizes the code     *)
(* rounds up to pages (segments, kernel, framebuffer) are in units, UNIT   *)
(* to a page, and the memory map is kept in units.  A page table has       *)
(* FANOUT entries instead of 512, and a huge page is FANOUT pages.  What   *)
(* the firmware decides (the descriptors and their order, where it         *)
(* allocates the kernel and the page tables, where the framebuffer is,     *)
(* whether the CPU has NX) is machine, chosen once.                        *)
(***************************************************************************)
EXTENDS Integers, Sequences, FiniteSets, FiniteSetsExt, SequencesExt, Functions

CONSTANTS Machines,          \* [descs, elf, kbase, tables, fb, nx, regions]
          UNIT, FANOUT,
          IDENTITY_PAGES,    \* the first 4 GiB
          KERNEL_VADDR_BASE,
          MAX_PT_PAGES, MAX_SEGMENTS, MAX_RUNTIME,
          MAX_FRAMES, LOW_FRAMES  \* of the kernel's frame allocator

VARIABLES machine, pc,
          kernel,   \* KernelLoadInfo: [size, segments]
          image,    \* unit of the kernel image -> segment copied there, 0 = zero
          mem,      \* page table entries: <<table, index>> -> [to, flags, huge]
          mapped,   \* pages mapped so far
          used,     \* page tables allocated, the PML4 first
          pts,      \* PT_PAGES
          map,      \* boot_info.memory_map
          runtime   \* boot_info.uefi_runtime_regions

vars == <<machine, pc, kernel, image, mem, mapped, used, pts, map, runtime>>

paging == <<mem, mapped, used, pts>>

\* The capacity of the memory map, relative to the machine's descriptors.
MAX_MEMORY_REGIONS == machine.regions

Pages(units) == (units + UNIT - 1) \div UNIT

MemoryRegion(base, size, kind) == [base |-> base, size |-> size, kind |-> kind]

end(r) == r.base + r.size

-----------------------------------------------------------------------------
(* loader.rs                                                               *)

LoadSegments == SelectSeq(machine.elf.segments, LAMBDA p : p.load)

\* The asserts on the header and on every segment's file range.
ElfAccepted ==
  /\ machine.elf.valid
  /\ \A i \in DOMAIN LoadSegments :
       LoadSegments[i].offset + LoadSegments[i].filesz <= machine.elf.len

virtual_base == Min({LoadSegments[i].vaddr * UNIT : i \in DOMAIN LoadSegments})

total_end == Max({LoadSegments[i].vaddr * UNIT + LoadSegments[i].memsz
                    : i \in DOMAIN LoadSegments})

\* The last segment whose file data was copied to unit u.
CopiedTo(u) ==
  Max({0} \cup {i \in DOMAIN LoadSegments :
         u + virtual_base - LoadSegments[i].vaddr * UNIT
           \in 0 .. LoadSegments[i].filesz - 1})

parse_and_load_elf ==
  /\ pc = "load"
  /\ \/ ~ElfAccepted /\ pc' = "panic" /\ UNCHANGED <<kernel, image>>
     \/ /\ ElfAccepted
        /\ pc' = "tables"
        /\ image' = [u \in 0 .. Pages(total_end - virtual_base) * UNIT - 1 |-> CopiedTo(u)]
        /\ kernel' = [size |-> total_end - virtual_base,
                      segments |->
                        [i \in 1 .. Min({Len(LoadSegments), MAX_SEGMENTS}) |->
                           [first |-> LoadSegments[i].vaddr - virtual_base \div UNIT,
                            size |-> LoadSegments[i].memsz,
                            flags |-> LoadSegments[i].flags]]]
  /\ UNCHANGED <<machine, paging, map, runtime>>

-----------------------------------------------------------------------------
(* paging.rs: s = [mem, used], used tables of machine.tables               *)

\* Follow entry k, creating the table it leads to; the firmware always
\* provides a page.
get_or_create_table(s, k) ==
  IF k \in DOMAIN s.mem THEN s
  ELSE [mem |-> (k :> [to |-> machine.tables[s.used + 1],
                       flags |-> {"P", "W"}, huge |-> FALSE]) @@ s.mem,
        used |-> s.used + 1]

Root == machine.tables[1]

pdp_key(v) == <<Root, v \div (FANOUT * FANOUT * FANOUT)>>
pd_key(m, v) == <<m[pdp_key(v)].to, (v \div (FANOUT * FANOUT)) % FANOUT>>
pt_key(m, v) == <<m[pd_key(m, v)].to, (v \div FANOUT) % FANOUT>>
pte_key(m, v) == <<m[pt_key(m, v)].to, v % FANOUT>>

WithPdp(s, v) == get_or_create_table(s, pdp_key(v))
WithPd(s, v) == get_or_create_table(s, pd_key(s.mem, v))
WithPt(s, v) == get_or_create_table(s, pt_key(s.mem, v))

Put(s, k, e) == [s EXCEPT !.mem = (k :> e) @@ Restrict(@, DOMAIN @ \ {k})]

map_huge_page(s, v, p) ==
  LET Write(t) == Put(t, pt_key(t.mem, v), [to |-> p, flags |-> {"P", "W"}, huge |-> TRUE])
  IN Write(WithPd(WithPdp(s, v), v))

map_4k_page_flags(s, v, p, flags) ==
  LET Write(t) == Put(t, pte_key(t.mem, v), [to |-> p, flags |-> flags, huge |-> FALSE])
  IN Write(WithPt(WithPd(WithPdp(s, v), v), v))

Request(v, p, flags, huge) == [v |-> v, p |-> p, flags |-> flags, huge |-> huge]

HugePages(first, n) ==
  [i \in 1 .. n |-> Request(first + (i - 1) * FANOUT, first + (i - 1) * FANOUT, {"P", "W"}, TRUE)]

\* Mutant: every segment is mapped to the start of the kernel.
KernelPages_first(first, n, flags) ==
  [i \in 1 .. n |-> Request(KERNEL_VADDR_BASE + first + i - 1, machine.kbase + i - 1,
                            flags, FALSE)]
KernelPages(first, n, flags) ==
  [i \in 1 .. n |-> Request(KERNEL_VADDR_BASE + first + i - 1, machine.kbase + first + i - 1,
                            flags, FALSE)]

SegmentFlags(seg) ==
  {"P"} \cup (IF "W" \in seg.flags THEN {"W"} ELSE {})
        \cup (IF "X" \in seg.flags THEN {} ELSE {"NX"})

SegmentPages(seg) == KernelPages(seg.first, Pages(seg.size), SegmentFlags(seg))

\* The pages setup_kernel_page_tables maps, in order: the first 4 GiB, the
\* kernel (by segment if there are segments and NX), and the huge pages from
\* the one that holds the framebuffer's first page.
Requests ==
  HugePages(0, IDENTITY_PAGES \div FANOUT)
  \o (IF Len(kernel.segments) > 0 /\ machine.nx
      THEN FlattenSeq([i \in DOMAIN kernel.segments |-> SegmentPages(kernel.segments[i])])
      ELSE KernelPages(0, Pages(kernel.size), {"P", "W"}))
  \o HugePages((machine.fb.page \div FANOUT) * FANOUT,
               (machine.fb.size + FANOUT * UNIT - 1) \div (FANOUT * UNIT))

Map(s, r) ==
  IF r.huge THEN map_huge_page(s, r.v, r.p) ELSE map_4k_page_flags(s, r.v, r.p, r.flags)

\* Tables beyond the 128th are used but not recorded.
setup_kernel_page_tables ==
  /\ pc = "tables"
  /\ \E s \in {Map([mem |-> mem, used |-> used], Requests[mapped + 1])} :
       /\ mem' = s.mem
       /\ used' = s.used
  /\ pts' = SubSeq(machine.tables, 1, Min({used', MAX_PT_PAGES}))
  /\ mapped' = mapped + 1
  /\ pc' = IF mapped' = Len(Requests) THEN "exit" ELSE "tables"
  /\ UNCHANGED <<machine, kernel, image, map, runtime>>

-----------------------------------------------------------------------------
(* main.rs and boot_info.rs: the memory map                                *)

KindOf(ty) ==
  CASE ty \in {"CONVENTIONAL", "BOOT_SERVICES"} -> "Usable"
    [] ty = "LOADER" -> "Bootloader"
    [] ty = "ACPI_RECLAIM" -> "AcpiReclaimable"
    [] ty = "ACPI_NVS" -> "AcpiNvs"
    [] OTHER -> "Reserved"

Translated(d) == MemoryRegion(d.page * UNIT, d.pages * UNIT, KindOf(d.ty))

Prefix(seq, n) == SubSeq(seq, 1, Min({n, Len(seq)}))

\* exit_boot_services and the translation loop: descriptors that do not fit
\* are dropped with a warning, runtime regions beyond the 32nd silently.
translate_map ==
  /\ pc = "exit"
  /\ map' = Prefix([i \in DOMAIN machine.descs |-> Translated(machine.descs[i])],
                   MAX_MEMORY_REGIONS)
  /\ LET rt == SelectSeq(machine.descs, LAMBDA d : d.ty = "RUNTIME")
     IN runtime' = Prefix([i \in DOMAIN rt |-> Translated(rt[i])], MAX_RUNTIME)
  /\ pc' = "retag"
  /\ UNCHANGED <<machine, kernel, image, paging>>

\* Mutant: the piece after the range is dropped.
Pieces_no_tail(r, lo, hi, kind) ==
  IF r.base >= hi \/ end(r) <= lo THEN <<r>>
  ELSE (IF r.base < lo THEN <<MemoryRegion(r.base, lo - r.base, r.kind)>> ELSE <<>>)
       \o <<MemoryRegion(Max({r.base, lo}), end(r) - Max({r.base, lo}), kind)>>

\* The pieces of region r when [lo, hi) is retagged: before, inside, after.
Pieces(r, lo, hi, kind) ==
  IF r.base >= hi \/ end(r) <= lo THEN <<r>>
  ELSE (IF r.base < lo THEN <<MemoryRegion(r.base, lo - r.base, r.kind)>> ELSE <<>>)
       \o <<MemoryRegion(Max({r.base, lo}), Min({end(r), hi}) - Max({r.base, lo}), kind)>>
       \o (IF end(r) > hi THEN <<MemoryRegion(hi, end(r) - hi, r.kind)>> ELSE <<>>)

\* Pieces beyond MAX_MEMORY_REGIONS are dropped.
retag_range(m, base, size, kind) ==
  IF size = 0 THEN m
  ELSE Prefix(FlattenSeq([i \in DOMAIN m |-> Pieces(m[i], base, base + size, kind)]),
              MAX_MEMORY_REGIONS)

retag_tables(m) ==
  LET F[i \in 0 .. Len(pts)] ==
        IF i = 0 THEN m ELSE retag_range(F[i - 1], pts[i] * UNIT, UNIT, "PageTables")
  IN F[Len(pts)]

retag ==
  /\ pc = "retag"
  /\ map' = retag_range(
               retag_tables(retag_range(map, machine.kbase * UNIT, kernel.size,
                                        "KernelAndModules")),
               machine.fb.page * UNIT, Pages(machine.fb.size) * UNIT, "Framebuffer")
  /\ pc' = "sort"
  /\ UNCHANGED <<machine, kernel, image, paging, runtime>>

\* The insertion sort is stable.
sort_regions(m) == SortSeq(m, LAMBDA a, b : a.base < b.base)

Mergeable(a, b) == a.kind = b.kind /\ end(a) = b.base

\* regions[0 ..= write] after the loop has read the first i regions of m.
merge_adjacent(m) ==
  LET Extend(w, r) ==
        IF Mergeable(w[Len(w)], r) THEN [w EXCEPT ![Len(w)].size = @ + r.size]
        ELSE Append(w, r)
      F[i \in 1 .. Len(m)] == IF i = 1 THEN <<m[1]>> ELSE Extend(F[i - 1], m[i])
  IN IF Len(m) < 2 THEN m ELSE F[Len(m)]

sort_and_merge ==
  /\ pc = "sort"
  /\ map' = merge_adjacent(sort_regions(map))
  /\ pc' = "jump"
  /\ UNCHANGED <<machine, kernel, image, paging, runtime>>

Init ==
  /\ machine \in Machines
  /\ pc = "load"
  /\ kernel = [size |-> 0, segments |-> <<>>]
  /\ image = << >>
  /\ mem = << >>
  /\ mapped = 0
  /\ used = 1
  /\ pts = <<>>
  /\ map = <<>>
  /\ runtime = <<>>

Next ==
  \/ parse_and_load_elf
  \/ setup_kernel_page_tables
  \/ translate_map
  \/ retag
  \/ sort_and_merge

Spec == Init /\ [][Next]_vars

-----------------------------------------------------------------------------
(* Properties                                                              *)

In(p, base, n) == p \in base .. base + n - 1

\* What page p is, worked out page by page from the firmware's descriptors
\* and the three ranges main retags, the framebuffer last.
TrueKind(p) ==
  LET d == CHOOSE e \in Range(machine.descs) : In(p, e.page, e.pages)
  IN IF In(p, machine.fb.page, Pages(machine.fb.size)) THEN "Framebuffer"
     ELSE IF p \in Range(pts) THEN "PageTables"
     ELSE IF In(p, machine.kbase, kernel.size \div UNIT) THEN "KernelAndModules"
     ELSE KindOf(d.ty)

Described == UNION {d.page .. d.page + d.pages - 1 : d \in Range(machine.descs)}

\* The kinds the final map gives to page p.
MapKinds(p) == {map[i].kind : i \in {j \in DOMAIN map :
                  map[j].base < (p + 1) * UNIT /\ end(map[j]) > p * UNIT}}

\* The frames frame_allocator::init will free.
AllocatorFrames ==
  UNION {map[i].base \div UNIT .. end(map[i]) \div UNIT - 1 :
           i \in {j \in DOMAIN map : map[j].kind = "Usable"
                                     /\ map[j].base >= LOW_FRAMES * UNIT}}
  \cap (0 .. MAX_FRAMES - 1)

\* Each retagged range adds at most two regions.
RoomForAll == Len(machine.descs) + 2 * (Len(pts) + 2) <= MAX_MEMORY_REGIONS

\* The map the kernel receives says of every page what it is; when the table
\* overflows pages may be missing from it, but then too the frame allocator
\* frees nothing that holds the kernel, a page table, the boot information,
\* the framebuffer or firmware.  (The last page of the kernel may be shared
\* with the rest of its allocation.)
MapFaithful ==
  pc = "jump" =>
    /\ \A p \in AllocatorFrames : p \in Described /\ TrueKind(p) = "Usable"
    /\ \A p \in Described :
         /\ TrueKind(p) \in {"Usable", "Framebuffer"} /\ MapKinds(p) # {}
              => MapKinds(p) = {TrueKind(p)}
         /\ RoomForAll => TrueKind(p) \in MapKinds(p)
    /\ \A i \in 1 .. Len(map) - 1 :
         end(map[i]) <= map[i + 1].base /\ ~Mergeable(map[i], map[i + 1])

\* The frame a virtual page leads to, with the flags of its leaf.
Leaf(v) ==
  IF pdp_key(v) \notin DOMAIN mem \/ pd_key(mem, v) \notin DOMAIN mem
     \/ pt_key(mem, v) \notin DOMAIN mem
  THEN [to |-> -1, flags |-> {}]
  ELSE IF mem[pt_key(mem, v)].huge
  THEN [to |-> mem[pt_key(mem, v)].to + (v % FANOUT), flags |-> mem[pt_key(mem, v)].flags]
  ELSE IF pte_key(mem, v) \notin DOMAIN mem THEN [to |-> -1, flags |-> {}]
  ELSE [to |-> mem[pte_key(mem, v)].to, flags |-> mem[pte_key(mem, v)].flags]

\* When the bootloader jumps, every unit of every PT_LOAD segment is visible
\* at its link address with its own contents (zero beyond the file data) and,
\* with NX, exactly the permissions the ELF asks for; the framebuffer and the
\* page tables are visible at their physical addresses.
KernelInPlace ==
  pc = "jump" =>
    /\ \A i \in DOMAIN LoadSegments : \A u \in 0 .. LoadSegments[i].memsz - 1 :
         \E l \in {Leaf(LoadSegments[i].vaddr + u \div UNIT)} :
           /\ image[(l.to - machine.kbase) * UNIT + (u % UNIT)]
                = IF u < LoadSegments[i].filesz THEN i ELSE 0
           /\ machine.nx => l.flags = SegmentFlags(LoadSegments[i])
    /\ \A p \in machine.fb.page .. machine.fb.page + Pages(machine.fb.size) - 1 :
         Leaf(p).to = p
    /\ \A p \in Range(machine.tables) : Leaf(p).to = p

\* What the bootloader hands over, together.
BootSound == MapFaithful /\ KernelInPlace

\* The kernel writes the frames it allocates at their physical addresses.
\* The bootloader maps "the first 4 GiB" there (bootloader/src/paging.rs); the
\* frame allocator hands out frames of 16 GiB, "Maximum physical memory we
\* support": not so when MAX_FRAMES > IDENTITY_PAGES.
FramesReachable == pc = "jump" => \A p \in AllocatorFrames : Leaf(p).to = p
=============================================================================
