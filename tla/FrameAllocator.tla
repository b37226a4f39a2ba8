--------------------------- MODULE FrameAllocator ---------------------------
(***************************************************************************)
(* The physical frame allocator of the kernel                              *)
(* (kernel/src/memory/frame_allocator.rs): one bit per 4 KiB frame, a      *)
(* running count of the free frames and a hint where the next search       *)
(* starts.  Every operation runs under the FRAME_ALLOCATOR lock, so it is  *)
(* one action.  A physical address is represented by its frame index.      *)
(*                                                                         *)
(* The ghost variables owned, boot and result record what the clients      *)
(* see: the frames they were given and have not given back, the frames     *)
(* init made available, and the outcome of the last allocation.            *)
(***************************************************************************)
EXTENDS Integers, FiniteSets, Sequences

CONSTANTS MAX_FRAMES,  \* frames the bitmap can describe
          LOW_FRAMES,  \* frames of the first 1 MiB
          MemoryMaps,  \* the memory maps the bootloader may hand over
          Counts       \* run lengths asked of allocate_contiguous_frames

ASSUME ConstantsAssumption ==
  /\ MAX_FRAMES \in Nat
  /\ LOW_FRAMES \in Nat
  /\ Counts \subseteq Nat \ {0}
  /\ MemoryMaps \subseteq Seq([base : Nat, size : Nat, kind : STRING])

VARIABLES bitmap,         \* frame -> TRUE (allocated or reserved) / FALSE (free)
          total_frames,
          free_frames,
          next_free_hint,
          owned,          \* ghost: frames handed out and not yet freed
          boot,           \* ghost: frames that init made available
          result          \* ghost: outcome of the last allocation

vars == <<bitmap, total_frames, free_frames, next_free_hint, owned, boot, result>>

Frames == 0 .. MAX_FRAMES - 1

Ops == {"boot", "idle", "single", "none", "run", "no_run"}

Outcome(op, first, count) == [op |-> op, first |-> first, count |-> count]

-----------------------------------------------------------------------------
(* The bitmap                                                              *)

\* is_free, for the indices of one scan.
is_free(i) == i \in Frames /\ ~bitmap[i]

FreeSet == {i \in Frames : ~bitmap[i]}

\* mark_free applied to every frame of F: only a set bit is counted.
mark_free(F) ==
  /\ bitmap' = [i \in Frames |-> bitmap[i] /\ i \notin F]
  /\ free_frames' = free_frames + Cardinality({i \in F \cap Frames : bitmap[i]})

\* Mutant: a run is counted as one frame.
mark_allocated_counts_one(F) ==
  /\ bitmap' = [i \in Frames |-> bitmap[i] \/ i \in F]
  /\ free_frames' = free_frames - 1

\* mark_allocated applied to every frame of F: only a clear bit is counted.
mark_allocated(F) ==
  /\ bitmap' = [i \in Frames |-> bitmap[i] \/ i \in F]
  /\ free_frames' = free_frames - Cardinality({i \in F \cap Frames : ~bitmap[i]})

-----------------------------------------------------------------------------
(* init: the usable regions that do not start in the first 1 MiB           *)

UsableFrames(map) ==
  UNION {map[r].base .. map[r].base + map[r].size - 1 :
           r \in {q \in DOMAIN map : map[q].kind = "Usable"
                                     /\ map[q].base >= LOW_FRAMES}}

Init ==
  /\ bitmap = [i \in Frames |-> TRUE]
  /\ total_frames = 0
  /\ free_frames = 0
  /\ next_free_hint = 0
  /\ owned = {}
  /\ boot = {}
  /\ result = Outcome("boot", 0, 0)

\* memory::init calls this once, before anything allocates.  total_frames
\* ends one past the highest frame that was freed.
init(map) ==
  LET F == UsableFrames(map) \cap Frames IN
  /\ result.op = "boot"
  /\ mark_free(F)
  /\ \E n \in 0 .. MAX_FRAMES :
       /\ \A i \in F : i < n
       /\ n > 0 => n - 1 \in F
       /\ total_frames' = n
  /\ boot' = F
  /\ result' = Outcome("idle", 0, 0)
  /\ UNCHANGED <<next_free_hint, owned>>

-----------------------------------------------------------------------------
(* Allocation                                                              *)

\* The first free index of lo .. hi - 1 in scan order.
IsFirstFree(i, lo, hi) ==
  /\ i \in lo .. hi - 1
  /\ is_free(i)
  /\ \A j \in lo .. i - 1 : ~is_free(j)

\* The index allocate_frame settles on: from the hint to the end, then from
\* the beginning to the hint.
IsScanResult(i) ==
  \/ IsFirstFree(i, next_free_hint, total_frames)
  \/ /\ \A j \in next_free_hint .. total_frames - 1 : ~is_free(j)
     /\ IsFirstFree(i, 0, next_free_hint)

NoFrameFound ==
  /\ \A j \in next_free_hint .. total_frames - 1 : ~is_free(j)
  /\ \A j \in 0 .. next_free_hint - 1 : ~is_free(j)

allocate_frame ==
  \E i \in Frames :
    /\ result.op # "boot"
    /\ IsScanResult(i)
    /\ mark_allocated({i})
    /\ next_free_hint' = i + 1
    /\ owned' = owned \cup {i}
    /\ result' = Outcome("single", i, 1)
    /\ UNCHANGED <<total_frames, boot>>

allocate_frame_none ==
  /\ result.op # "boot"
  /\ NoFrameFound
  /\ result' = Outcome("none", 0, 0)
  /\ UNCHANGED <<bitmap, total_frames, free_frames, next_free_hint, owned, boot>>

\* Mutant: the last frame of a run is not tested.
IsFreeRun_short(s, count) ==
  /\ s + count <= total_frames
  /\ \A i \in s .. s + count - 2 : is_free(i)

\* Mutant: a run never reaches the last frame.
IsFreeRun_strict(s, count) ==
  /\ s + count < total_frames
  /\ \A i \in s .. s + count - 1 : is_free(i)

\* A run of count free frames starting at s, below total_frames.
IsFreeRun(s, count) ==
  /\ s + count <= total_frames
  /\ \A i \in s .. s + count - 1 : is_free(i)

allocate_contiguous_frames(count) ==
  \E s \in 0 .. total_frames - 1 :
    /\ result.op # "boot"
    /\ IsFreeRun(s, count)
    /\ \A t \in 0 .. s - 1 : ~IsFreeRun(t, count)
    /\ mark_allocated(s .. s + count - 1)
    /\ owned' = owned \cup (s .. s + count - 1)
    /\ result' = Outcome("run", s, count)
    /\ UNCHANGED <<total_frames, next_free_hint, boot>>

allocate_contiguous_frames_none(count) ==
  /\ result.op # "boot"
  /\ \A s \in 0 .. total_frames - 1 : ~IsFreeRun(s, count)
  /\ result' = Outcome("no_run", 0, count)
  /\ UNCHANGED <<bitmap, total_frames, free_frames, next_free_hint, owned, boot>>

-----------------------------------------------------------------------------
(* free_frame: the hint moves down to the freed frame.  An index beyond    *)
(* the bitmap changes nothing but the hint comparison.                     *)

free_frame(f) ==
  /\ result.op # "boot"
  /\ mark_free({f})
  /\ next_free_hint' = IF f < next_free_hint THEN f ELSE next_free_hint
  /\ owned' = owned \ {f}
  /\ result' = Outcome("idle", 0, 0)
  /\ UNCHANGED <<total_frames, boot>>

-----------------------------------------------------------------------------

Alloc ==
  \/ \E map \in MemoryMaps : init(map)
  \/ allocate_frame
  \/ allocate_frame_none
  \/ \E count \in Counts : allocate_contiguous_frames(count)
  \/ \E count \in Counts : allocate_contiguous_frames_none(count)

\* Every caller in the kernel frees only frames it was given.
Next == Alloc \/ \E f \in owned : free_frame(f)

\* Any caller may free anything: a frame twice, a reserved frame, an address
\* beyond the bitmap.
AnyNext == Alloc \/ \E f \in 0 .. MAX_FRAMES : free_frame(f)

Spec == Init /\ [][Next]_vars

AnySpec == Init /\ [][AnyNext]_vars

-----------------------------------------------------------------------------
(* Properties                                                              *)

\* Type invariant of the allocator's fields.
TypeOK ==
  /\ bitmap \in [Frames -> BOOLEAN]
  /\ total_frames \in 0 .. MAX_FRAMES
  /\ free_frames \in Nat
  /\ next_free_hint \in 0 .. MAX_FRAMES
  /\ owned \subseteq Frames
  /\ boot \subseteq Frames
  /\ result \in [op : Ops, first : Nat, count : Nat]

\* free_frames, which meminfo and the desktop report, is the number of clear
\* bits: double frees, frees of reserved frames and frees beyond the bitmap
\* included, the usize never drifts (nor wraps below zero in mark_allocated).
CountInv == free_frames = Cardinality(FreeSet)

\* The hint never skips a free frame: everything below it is allocated.  This
\* is what makes the first loop of allocate_frame enough to find the lowest
\* free frame, whatever callers free and however runs are allocated meanwhile.
HintInv == \A i \in FreeSet : next_free_hint <= i

\* Callers that free only what they were given: a frame is either free or
\* owned, never both, and no frame that init left reserved (the kernel image,
\* page tables, firmware, the first 1 MiB) is ever handed out or lost.
OwnershipInv ==
  /\ owned \cap FreeSet = {}
  /\ owned \cup FreeSet = boot
  /\ boot \subseteq 0 .. total_frames - 1

\* What the allocator promises: FramePool, with the clear bits as its set of
\* free frames.
Pool == INSTANCE FramePool WITH free <- FreeSet

\* Every operation of the allocator is one of the pool's.
ImplementsPool == Pool!Spec
=============================================================================
