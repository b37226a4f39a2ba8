---------------------------- MODULE MemoryProofs -----------------------------
(***************************************************************************)
(* The frame allocator, for every bitmap size, memory map and run length.  *)
(* IInv is inductive for any caller (AnyNext); OwnershipInv adds the       *)
(* contract that callers free only what they were given.                   *)
(*                                                                         *)
(* The kernel heap keeps its memory apart and loses none of it, for every  *)
(* size of the memory, of its chunks and of the allocations.  The argument *)
(* looks at single words: Tiling says of every word of the heap that one   *)
(* free block or one live allocation has it.  Splitting, inserting and     *)
(* coalescing move words between the two; the order of the free list plays *)
(* no part, so that it need not be sorted.                                 *)
(***************************************************************************)
EXTENDS FrameAllocator, Heap, SequenceTheorems, TLAPS, FiniteSetTheorems

-----------------------------------------------------------------------------
(* Lists                                                                   *)

\* What a part of a sequence holds.
LEMMA SubSeqFacts ==
  ASSUME NEW S, NEW s \in Seq(S), NEW m \in 1 .. Len(s) + 1, NEW n \in 0 .. Len(s), m <= n + 1
  PROVE  /\ SubSeq(s, m, n) \in Seq(S)
         /\ Len(SubSeq(s, m, n)) = n - m + 1
         /\ \A k \in 1 .. n - m + 1 : SubSeq(s, m, n)[k] = s[m + k - 1]
OBVIOUS

\* r is s without its element i.
Removed(r, s, i) == r = SubSeq(s, 1, i - 1) \o SubSeq(s, i + 1, Len(s))

\* A sequence without its element i: those behind it move up.
LEMMA RemoveFacts ==
  ASSUME NEW S, NEW s \in Seq(S), NEW i \in 1 .. Len(s),
         NEW r, Removed(r, s, i)
  PROVE  /\ r \in Seq(S) /\ Len(r) = Len(s) - 1
         /\ \A k \in 1 .. Len(s) - 1 : r[k] = s[IF k < i THEN k ELSE k + 1]
<1> DEFINE a == SubSeq(s, 1, i - 1)
           b == SubSeq(s, i + 1, Len(s))
<1>1. a \in Seq(S) /\ Len(a) = i - 1 /\ \A k \in 1 .. i - 1 : a[k] = s[k]
  BY SubSeqFacts
<1>2. b \in Seq(S) /\ Len(b) = Len(s) - i /\ \A k \in 1 .. Len(s) - i : b[k] = s[i + k]
  BY SubSeqFacts
<1>. HIDE DEF a, b
<1>4. /\ a \o b \in Seq(S) /\ Len(a \o b) = Len(a) + Len(b)
      /\ \A k \in 1 .. Len(a) + Len(b) : (a \o b)[k] = IF k <= Len(a) THEN a[k] ELSE b[k - Len(a)]
  BY <1>1, <1>2, ConcatProperties, Zenon
<1>5. Len(s) \in Nat
  BY LenProperties
<1>6. ASSUME NEW k \in 1 .. Len(s) - 1
      PROVE  (a \o b)[k] = s[IF k < i THEN k ELSE k + 1]
  <2>1. CASE k < i
    <3>1. k \in 1 .. i - 1 /\ k \in 1 .. Len(a) + Len(b) /\ k <= Len(a)
      BY <1>1, <1>2, <1>5, <2>1
    <3>. QED BY <1>1, <1>4, <2>1, <3>1
  <2>2. CASE ~(k < i)
    <3>1. /\ k - Len(a) \in 1 .. Len(s) - i /\ k \in 1 .. Len(a) + Len(b) /\ ~(k <= Len(a))
          /\ i + (k - Len(a)) = k + 1
      BY <1>1, <1>2, <1>5, <2>2
    <3>. QED BY <1>2, <1>4, <2>2, <3>1
  <2>. QED BY <2>1, <2>2
<1>7. Len(a) + Len(b) = Len(s) - 1
  BY <1>1, <1>2, <1>5
<1>. QED BY <1>4, <1>6, <1>7 DEF Removed, a, b

\* r is s with e put in at place i.
Inserted(r, s, i, e) == r = SubSeq(s, 1, i - 1) \o <<e>> \o SubSeq(s, i, Len(s))

\* A sequence with e at place i: the elements from there on move down.
LEMMA InsertFacts ==
  ASSUME NEW S, NEW s \in Seq(S), NEW i \in 1 .. Len(s) + 1, NEW e \in S,
         NEW r, Inserted(r, s, i, e)
  PROVE  /\ r \in Seq(S) /\ Len(r) = Len(s) + 1 /\ r[i] = e
         /\ \A k \in 1 .. Len(s) + 1 : k # i => r[k] = s[IF k < i THEN k ELSE k - 1]
<1> DEFINE a == SubSeq(s, 1, i - 1)
           b == SubSeq(s, i, Len(s))
<1>1. a \in Seq(S) /\ Len(a) = i - 1 /\ \A k \in 1 .. i - 1 : a[k] = s[k]
  BY SubSeqFacts
<1>2. b \in Seq(S) /\ Len(b) = Len(s) - i + 1 /\ \A k \in 1 .. Len(s) - i + 1 : b[k] = s[i + k - 1]
  BY SubSeqFacts
<1>. HIDE DEF a, b
<1>4. Len(s) \in Nat /\ <<e>> \in Seq(S) /\ Len(<<e>>) = 1 /\ <<e>>[1] = e
  BY LenProperties
<1>5. /\ a \o <<e>> \in Seq(S) /\ Len(a \o <<e>>) = i
      /\ \A k \in 1 .. i - 1 : (a \o <<e>>)[k] = s[k]
      /\ (a \o <<e>>)[i] = e
  <2>1. /\ a \o <<e>> \in Seq(S) /\ Len(a \o <<e>>) = Len(a) + Len(<<e>>)
        /\ \A k \in 1 .. Len(a) + Len(<<e>>) :
             (a \o <<e>>)[k] = IF k <= Len(a) THEN a[k] ELSE <<e>>[k - Len(a)]
    BY <1>1, <1>4, ConcatProperties, Zenon
  <2>2. Len(a) + Len(<<e>>) = i /\ i - Len(a) = 1 /\ ~(i <= Len(a)) /\ i \in 1 .. i
    BY <1>1, <1>4
  <2>3. ASSUME NEW k \in 1 .. i - 1 PROVE (a \o <<e>>)[k] = s[k]
    <3>1. k \in 1 .. Len(a) + Len(<<e>>) /\ k <= Len(a)
      BY <1>1, <2>2
    <3>. QED BY <1>1, <2>1, <3>1
  <2>4. (a \o <<e>>)[i] = e
    BY <1>4, <2>1, <2>2, Zenon
  <2>. QED BY <2>1, <2>2, <2>3, <2>4
<1> DEFINE c == a \o <<e>>
<1>. HIDE DEF c
<1>6. c \in Seq(S) /\ Len(c) = i /\ (\A k \in 1 .. i - 1 : c[k] = s[k]) /\ c[i] = e
  BY <1>5 DEF c
<1>7. /\ c \o b \in Seq(S) /\ Len(c \o b) = Len(c) + Len(b)
      /\ \A k \in 1 .. Len(c) + Len(b) : (c \o b)[k] = IF k <= Len(c) THEN c[k] ELSE b[k - Len(c)]
  BY <1>2, <1>6, ConcatProperties, Zenon
<1>8. ASSUME NEW k \in 1 .. Len(s) + 1
      PROVE  IF k = i THEN (c \o b)[k] = e ELSE (c \o b)[k] = s[IF k < i THEN k ELSE k - 1]
  <2>1. CASE k <= i
    <3>1. k \in 1 .. Len(c) + Len(b) /\ k <= Len(c) /\ (k < i => k \in 1 .. i - 1)
      BY <1>2, <1>4, <1>6, <2>1
    <3>. QED BY <1>7, <1>6, <2>1, <3>1
  <2>2. CASE ~(k <= i)
    <3>1. /\ k - Len(c) \in 1 .. Len(s) - i + 1 /\ k \in 1 .. Len(c) + Len(b) /\ ~(k <= Len(c))
          /\ i + (k - Len(c)) - 1 = k - 1 /\ ~(k < i) /\ k # i
      BY <1>2, <1>4, <1>6, <2>2
    <3>. QED BY <1>2, <1>7, <3>1
  <2>. QED BY <2>1, <2>2
<1>9. Len(c) + Len(b) = Len(s) + 1
  BY <1>2, <1>4, <1>6
<1>10. i \in 1 .. Len(s) + 1
  BY <1>4
<1>. QED BY <1>7, <1>8, <1>9, <1>10 DEF Inserted, a, b, c

-----------------------------------------------------------------------------
(* The frame allocator                                                     *)

\* Before init nothing is free, nothing is owned and the hint is 0.
BootInv == result.op = "boot" =>
  /\ FreeSet = {}
  /\ owned = {}
  /\ boot = {}
  /\ next_free_hint = 0

\* The inductive invariant.  The hint invariant needs BootInv (init does not
\* touch the hint), the type of free_frames needs CountInv.
IInv == TypeOK /\ CountInv /\ HintInv /\ BootInv

-----------------------------------------------------------------------------

\* The sets whose cardinality the allocator keeps are finite.
LEMMA FramesFinite ==
  ASSUME NEW S \in SUBSET Frames
  PROVE  IsFiniteSet(S) /\ Cardinality(S) \in Nat
<1>1. IsFiniteSet(Frames)
  BY FS_Interval, ConstantsAssumption DEF Frames
<1>2. QED
  BY <1>1, FS_Subset, FS_CardinalityType

\* mark_free over a set of frames clears exactly its bits and keeps the count
\* exact: bits that were clear already are not counted twice.
LEMMA MarkFree ==
  ASSUME TypeOK, CountInv, NEW F, mark_free(F)
  PROVE  /\ bitmap' \in [Frames -> BOOLEAN]
         /\ FreeSet' = FreeSet \cup (F \cap Frames)
         /\ CountInv'
         /\ free_frames' \in Nat
<1> DEFINE N == {i \in F \cap Frames : bitmap[i]}
<1>1. bitmap' \in [Frames -> BOOLEAN]
  BY DEF mark_free, TypeOK
<1>2. FreeSet' = FreeSet \cup (F \cap Frames)
  BY DEF mark_free, TypeOK, FreeSet
<1>3. /\ FreeSet' = FreeSet \cup N
      /\ FreeSet \cap N = {}
  BY <1>2 DEF FreeSet
<1>4. /\ IsFiniteSet(FreeSet) /\ Cardinality(FreeSet) \in Nat
      /\ IsFiniteSet(N) /\ Cardinality(N) \in Nat
  <2>1. FreeSet \in SUBSET Frames /\ N \in SUBSET Frames
    BY DEF FreeSet
  <2>2. QED
    BY <2>1, FramesFinite
<1>5. Cardinality(FreeSet \cup N) = Cardinality(FreeSet) + Cardinality(N)
  <2>1. Cardinality(FreeSet \cap N) = 0
    BY <1>3, FS_EmptySet
  <2>2. Cardinality(FreeSet \cup N)
          = Cardinality(FreeSet) + Cardinality(N) - Cardinality(FreeSet \cap N)
    <3> HIDE DEF N
    <3> QED BY <1>4, FS_Union, Zenon
  <2>3. QED
    BY <1>4, <2>1, <2>2
<1>6. free_frames' = free_frames + Cardinality(N)
  BY DEF mark_free
<1>7. QED
  BY <1>1, <1>2, <1>3, <1>4, <1>5, <1>6 DEF CountInv

\* mark_allocated over a set of frames sets exactly its bits and keeps the
\* count exact.
LEMMA MarkAllocated ==
  ASSUME TypeOK, CountInv, NEW F, mark_allocated(F)
  PROVE  /\ bitmap' \in [Frames -> BOOLEAN]
         /\ FreeSet' = FreeSet \ F
         /\ CountInv'
         /\ free_frames' \in Nat
<1> DEFINE N == {i \in F \cap Frames : ~bitmap[i]}
<1>1. bitmap' \in [Frames -> BOOLEAN]
  BY DEF mark_allocated, TypeOK
<1>2. FreeSet' = FreeSet \ F
  BY DEF mark_allocated, TypeOK, FreeSet
<1>3. /\ FreeSet' = FreeSet \ N
      /\ FreeSet \cap N = N
  BY <1>2 DEF FreeSet
<1>4. /\ IsFiniteSet(FreeSet) /\ Cardinality(FreeSet) \in Nat
      /\ IsFiniteSet(FreeSet \ N) /\ Cardinality(FreeSet \ N) \in Nat
  <2>1. FreeSet \in SUBSET Frames /\ FreeSet \ N \in SUBSET Frames
    BY DEF FreeSet
  <2>2. QED
    BY <2>1, FramesFinite
<1>5. Cardinality(FreeSet \ N) = Cardinality(FreeSet) - Cardinality(N)
  <2>1. Cardinality(FreeSet \ N)
          = Cardinality(FreeSet) - Cardinality(FreeSet \cap N)
    <3> HIDE DEF N
    <3> QED BY <1>4, FS_Difference, Zenon
  <2>2. QED
    BY <1>3, <2>1
<1>6. free_frames' = free_frames - Cardinality(N)
  BY DEF mark_allocated
<1>7. QED
  BY <1>1, <1>2, <1>3, <1>4, <1>5, <1>6 DEF CountInv

-----------------------------------------------------------------------------

\* Every operation preserves IInv, whatever the caller frees.
LEMMA IInvStep ==
  ASSUME IInv, AnyNext
  PROVE  IInv'
<1> USE ConstantsAssumption
<1>1. ASSUME NEW map \in MemoryMaps, init(map)
      PROVE  IInv'
  <2> DEFINE F == UsableFrames(map) \cap Frames
  <2>1. mark_free(F)
    BY <1>1 DEF init
  <2>2. /\ bitmap' \in [Frames -> BOOLEAN]
        /\ CountInv'
        /\ free_frames' \in Nat
    BY <2>1, MarkFree DEF IInv
  <2>3. TypeOK'
    BY <1>1, <2>2 DEF init, IInv, TypeOK, Outcome, Ops
  <2>4. HintInv'
    BY <1>1 DEF init, IInv, BootInv, HintInv, FreeSet, Frames
  <2>5. BootInv'
    BY <1>1 DEF init, Outcome, BootInv
  <2>6. QED
    BY <2>2, <2>3, <2>4, <2>5 DEF IInv
<1>2. CASE allocate_frame
  <2>1. PICK i \in Frames :
          /\ result.op # "boot"
          /\ IsScanResult(i)
          /\ mark_allocated({i})
          /\ next_free_hint' = i + 1
          /\ owned' = owned \cup {i}
          /\ result' = Outcome("single", i, 1)
          /\ UNCHANGED <<total_frames, boot>>
    BY <1>2 DEF allocate_frame
  <2>2. /\ bitmap' \in [Frames -> BOOLEAN]
        /\ FreeSet' = FreeSet \ {i}
        /\ CountInv'
        /\ free_frames' \in Nat
    BY <2>1, MarkAllocated DEF IInv
  <2>3. TypeOK'
    BY <2>1, <2>2 DEF IInv, TypeOK, Outcome, Ops, Frames
  <2>4. \A j \in FreeSet : i <= j
    BY <2>1 DEF IInv, TypeOK, HintInv, IsScanResult, IsFirstFree, is_free,
                FreeSet, Frames
  <2>5. HintInv'
    BY <2>1, <2>2, <2>4 DEF HintInv, FreeSet, Frames
  <2>6. BootInv'
    BY <2>1 DEF Outcome, BootInv
  <2>7. QED
    BY <2>2, <2>3, <2>5, <2>6 DEF IInv
<1>3. CASE allocate_frame_none
  BY <1>3 DEF allocate_frame_none, IInv, TypeOK, CountInv, HintInv, BootInv,
              FreeSet, Outcome, Ops
<1>4. ASSUME NEW count \in Counts, allocate_contiguous_frames(count)
      PROVE  IInv'
  <2>1. PICK s \in 0 .. total_frames - 1 :
          /\ result.op # "boot"
          /\ IsFreeRun(s, count)
          /\ mark_allocated(s .. s + count - 1)
          /\ owned' = owned \cup (s .. s + count - 1)
          /\ result' = Outcome("run", s, count)
          /\ UNCHANGED <<total_frames, next_free_hint, boot>>
    BY <1>4 DEF allocate_contiguous_frames
  <2>2. /\ bitmap' \in [Frames -> BOOLEAN]
        /\ FreeSet' = FreeSet \ (s .. s + count - 1)
        /\ CountInv'
        /\ free_frames' \in Nat
    BY <2>1, MarkAllocated DEF IInv
  <2>3. s .. s + count - 1 \subseteq Frames
    BY <2>1 DEF IInv, TypeOK, IsFreeRun, is_free
  <2>4. TypeOK'
    <3>1. count \in Nat /\ s \in Nat
      BY <2>1 DEF IInv, TypeOK
    <3>2. QED
      BY <2>1, <2>2, <2>3, <3>1 DEF IInv, TypeOK, Outcome, Ops
  <2>5. HintInv'
    BY <2>1, <2>2 DEF IInv, HintInv
  <2>6. BootInv'
    BY <2>1 DEF Outcome, BootInv
  <2>7. QED
    BY <2>2, <2>4, <2>5, <2>6 DEF IInv
<1>5. ASSUME NEW count \in Counts, allocate_contiguous_frames_none(count)
      PROVE  IInv'
  BY <1>5 DEF allocate_contiguous_frames_none, IInv, TypeOK, CountInv, HintInv,
              BootInv, FreeSet, Outcome, Ops
<1>6. ASSUME NEW f \in 0 .. MAX_FRAMES, free_frame(f)
      PROVE  IInv'
  <2>1. mark_free({f})
    BY <1>6 DEF free_frame
  <2>2. /\ bitmap' \in [Frames -> BOOLEAN]
        /\ FreeSet' = FreeSet \cup ({f} \cap Frames)
        /\ CountInv'
        /\ free_frames' \in Nat
    BY <2>1, MarkFree DEF IInv
  <2>3. TypeOK'
    BY <1>6, <2>2 DEF free_frame, IInv, TypeOK, Outcome, Ops
  <2>4. HintInv'
    BY <1>6, <2>2 DEF free_frame, IInv, TypeOK, HintInv, FreeSet, Frames
  <2>5. BootInv'
    BY <1>6 DEF free_frame, Outcome, BootInv
  <2>6. QED
    BY <2>2, <2>3, <2>4, <2>5 DEF IInv
<1>7. QED
  BY <1>1, <1>2, <1>3, <1>4, <1>5, <1>6 DEF AnyNext, Alloc

\* Initially IInv holds.
LEMMA IInvInit ==
  ASSUME Init
  PROVE  IInv
<1>1. FreeSet = {}
  BY DEF Init, FreeSet
<1>2. CountInv
  BY <1>1, FS_EmptySet DEF Init, CountInv
<1>3. TypeOK
  BY ConstantsAssumption DEF Init, TypeOK, Outcome, Ops
<1>4. QED
  BY <1>1, <1>2, <1>3 DEF Init, IInv, HintInv, BootInv

\* A stuttering step preserves IInv.
LEMMA IInvStutter ==
  ASSUME IInv, UNCHANGED vars
  PROVE  IInv'
BY DEF IInv, TypeOK, CountInv, HintInv, BootInv, FreeSet, vars

\* For any use of the interface: free_frames is the number of clear bits and
\* the hint never passes a free frame.
THEOREM AnyCallerSafe == AnySpec => [](TypeOK /\ CountInv /\ HintInv)
<1>1. Init => IInv
  BY IInvInit
<1>2. IInv /\ [AnyNext]_vars => IInv'
  BY IInvStep, IInvStutter
<1>3. IInv => TypeOK /\ CountInv /\ HintInv
  BY DEF IInv
<1>4. QED
  BY <1>1, <1>2, <1>3, PTL DEF AnySpec

-----------------------------------------------------------------------------
(* Callers that free only what they were given                             *)

\* The contract only removes behaviours.
LEMMA NextIsAnyNext ==
  ASSUME IInv, Next
  PROVE  AnyNext
<1>1. owned \subseteq 0 .. MAX_FRAMES
  BY ConstantsAssumption DEF IInv, TypeOK, Frames
<1>2. QED
  BY <1>1 DEF Next, AnyNext

\* Every operation under the contract preserves the partition of the frames
\* into free and owned ones.
LEMMA OwnershipStep ==
  ASSUME IInv, OwnershipInv, Next
  PROVE  OwnershipInv'
<1> USE ConstantsAssumption
<1>1. ASSUME NEW map \in MemoryMaps, init(map)
      PROVE  OwnershipInv'
  <2> DEFINE F == UsableFrames(map) \cap Frames
  <2>1. mark_free(F) /\ owned' = owned /\ boot' = F /\ result.op = "boot"
    BY <1>1 DEF init
  <2>2. FreeSet' = FreeSet \cup (F \cap Frames)
    BY <2>1, MarkFree DEF IInv
  <2>3. FreeSet = {} /\ owned = {}
    BY <2>1 DEF IInv, BootInv
  <2>4. F \subseteq 0 .. total_frames' - 1
    BY <1>1 DEF init, Frames
  <2>5. QED
    BY <2>1, <2>2, <2>3, <2>4 DEF OwnershipInv
<1>2. CASE allocate_frame
  <2>1. PICK i \in Frames :
          /\ IsScanResult(i)
          /\ mark_allocated({i})
          /\ owned' = owned \cup {i}
          /\ UNCHANGED <<total_frames, boot>>
    BY <1>2 DEF allocate_frame
  <2>2. FreeSet' = FreeSet \ {i}
    BY <2>1, MarkAllocated DEF IInv
  <2>3. i \in FreeSet
    BY <2>1 DEF IsScanResult, IsFirstFree, is_free, FreeSet
  <2>4. QED
    BY <2>1, <2>2, <2>3 DEF OwnershipInv
<1>3. CASE allocate_frame_none
  BY <1>3 DEF allocate_frame_none, OwnershipInv, FreeSet
<1>4. ASSUME NEW count \in Counts, allocate_contiguous_frames(count)
      PROVE  OwnershipInv'
  <2>1. PICK s \in 0 .. total_frames - 1 :
          /\ IsFreeRun(s, count)
          /\ mark_allocated(s .. s + count - 1)
          /\ owned' = owned \cup (s .. s + count - 1)
          /\ UNCHANGED <<total_frames, boot>>
    BY <1>4 DEF allocate_contiguous_frames
  <2>2. FreeSet' = FreeSet \ (s .. s + count - 1)
    BY <2>1, MarkAllocated DEF IInv
  <2>3. s .. s + count - 1 \subseteq FreeSet
    BY <2>1 DEF IsFreeRun, is_free, FreeSet
  <2>4. QED
    BY <2>1, <2>2, <2>3 DEF OwnershipInv
<1>5. ASSUME NEW count \in Counts, allocate_contiguous_frames_none(count)
      PROVE  OwnershipInv'
  BY <1>5 DEF allocate_contiguous_frames_none, OwnershipInv, FreeSet
<1>6. ASSUME NEW f \in owned, free_frame(f)
      PROVE  OwnershipInv'
  <2>1. mark_free({f}) /\ owned' = owned \ {f} /\ UNCHANGED <<total_frames, boot>>
    BY <1>6 DEF free_frame
  <2>2. FreeSet' = FreeSet \cup ({f} \cap Frames)
    BY <2>1, MarkFree DEF IInv
  <2>3. f \in Frames
    BY <1>6 DEF IInv, TypeOK
  <2>4. QED
    BY <1>6, <2>1, <2>2, <2>3 DEF OwnershipInv
<1>7. QED
  BY <1>1, <1>2, <1>3, <1>4, <1>5, <1>6 DEF Next, Alloc

\* Under the contract a frame is free or owned and never both, and reserved
\* frames are never handed out.
THEOREM OwnershipSafe == Spec => [](IInv /\ OwnershipInv)
<1>1. Init => IInv /\ OwnershipInv
  <2>1. Init => IInv
    BY IInvInit
  <2>2. Init => OwnershipInv
    BY DEF Init, OwnershipInv, FreeSet
  <2>3. QED
    BY <2>1, <2>2
<1>2. IInv /\ OwnershipInv /\ [Next]_vars => IInv' /\ OwnershipInv'
  <2>1. CASE Next
    BY <2>1, NextIsAnyNext, IInvStep, OwnershipStep
  <2>2. CASE UNCHANGED vars
    BY <2>2, IInvStutter DEF OwnershipInv, FreeSet, vars
  <2>3. QED
    BY <2>1, <2>2
<1>3. QED
  BY <1>1, <1>2, PTL DEF Spec

-----------------------------------------------------------------------------
(* The bitmap with its hint implements the pool                            *)

\* The run test of allocate_contiguous_frames, cut off at total_frames, misses
\* no run of free frames.
LEMMA FreeRun ==
  ASSUME IInv, OwnershipInv, NEW s \in Nat, NEW n \in Nat \ {0}
  PROVE  IsFreeRun(s, n) <=> s .. s + n - 1 \subseteq FreeSet
<1>1. IsFreeRun(s, n) => s .. s + n - 1 \subseteq FreeSet
  BY DEF IsFreeRun, is_free, FreeSet
<1>2. ASSUME s .. s + n - 1 \subseteq FreeSet
      PROVE  IsFreeRun(s, n)
  <2>1. s + n - 1 \in 0 .. total_frames - 1
    BY <1>2 DEF OwnershipInv
  <2>2. QED
    BY <1>2, <2>1 DEF IsFreeRun, is_free, FreeSet, IInv, TypeOK
<1>3. QED
  BY <1>1, <1>2

\* Every step of the allocator is a step of the pool.
LEMMA PoolStep ==
  ASSUME IInv, OwnershipInv, Next
  PROVE  Pool!Next
<1> USE ConstantsAssumption
<1>0. FreeSet \subseteq 0 .. total_frames - 1
  BY DEF OwnershipInv
<1>1. ASSUME NEW map \in MemoryMaps, init(map)
      PROVE  Pool!Boot
  BY <1>1 DEF init, Pool!Boot, FreeSet, Frames, Outcome, Pool!Outcome
<1>2. CASE allocate_frame
  <2>1. PICK i \in Frames :
          /\ result.op # "boot"
          /\ IsScanResult(i)
          /\ mark_allocated({i})
          /\ owned' = owned \cup {i}
          /\ result' = Outcome("single", i, 1)
    BY <1>2 DEF allocate_frame
  <2>2. FreeSet' = FreeSet \ {i}
    BY <2>1, MarkAllocated DEF IInv
  <2>3. i \in FreeSet /\ i .. i + 1 - 1 = {i}
    BY <2>1 DEF IsScanResult, IsFirstFree, is_free, FreeSet, Frames
  <2>4. ASSUME NEW t \in 0 .. i - 1
        PROVE  ~(t .. t + 1 - 1 \subseteq FreeSet)
    <3>1. t \notin FreeSet
      BY <2>1 DEF IInv, TypeOK, HintInv, IsScanResult, IsFirstFree, is_free,
                  FreeSet, Frames
    <3>2. t \in t .. t + 1 - 1
      OBVIOUS
    <3>3. QED
      BY <3>1, <3>2
  <2>5. Pool!Take(i, 1, "single")
    BY <2>1, <2>2, <2>3, <2>4 DEF Pool!Take, Outcome, Pool!Outcome
  <2>6. QED
    BY <2>5 DEF Pool!Next, Frames
<1>3. CASE allocate_frame_none
  <2>1. FreeSet = {}
    BY <1>0, <1>3 DEF allocate_frame_none, NoFrameFound, is_free, FreeSet,
                      IInv, TypeOK, Frames
  <2>2. \A s \in 0 .. MAX_FRAMES - 1 : ~(s .. s + 1 - 1 \subseteq FreeSet)
    BY <2>1
  <2>3. FreeSet' = FreeSet /\ owned' = owned
    BY <1>3 DEF allocate_frame_none, FreeSet
  <2>4. Pool!Refuse(1, "none", 0)
    BY <1>3, <2>2, <2>3 DEF allocate_frame_none, Pool!Refuse, Outcome, Pool!Outcome
  <2>5. QED
    BY <2>4 DEF Pool!Next
<1>4. ASSUME NEW count \in Counts, allocate_contiguous_frames(count)
      PROVE  Pool!Next
  <2>1. PICK s \in 0 .. total_frames - 1 :
          /\ result.op # "boot"
          /\ IsFreeRun(s, count)
          /\ \A t \in 0 .. s - 1 : ~IsFreeRun(t, count)
          /\ mark_allocated(s .. s + count - 1)
          /\ owned' = owned \cup (s .. s + count - 1)
          /\ result' = Outcome("run", s, count)
    BY <1>4 DEF allocate_contiguous_frames
  <2>2. FreeSet' = FreeSet \ (s .. s + count - 1)
    BY <2>1, MarkAllocated DEF IInv
  <2>3. s .. s + count - 1 \subseteq FreeSet
    BY <2>1 DEF IsFreeRun, is_free, FreeSet
  <2>4. ASSUME NEW t \in 0 .. s - 1
        PROVE  ~(t .. t + count - 1 \subseteq FreeSet)
    <3>1. t \in Nat /\ count \in Nat \ {0}
      OBVIOUS
    <3>2. QED
      BY <2>1, <3>1, FreeRun, Zenon
  <2>5. Pool!Take(s, count, "run")
    BY <2>1, <2>2, <2>3, <2>4 DEF Pool!Take, Outcome, Pool!Outcome
  <2>6. s \in 0 .. MAX_FRAMES - 1
    BY <2>1 DEF IInv, TypeOK
  <2>7. QED
    BY <2>5, <2>6 DEF Pool!Next
<1>5. ASSUME NEW count \in Counts, allocate_contiguous_frames_none(count)
      PROVE  Pool!Next
  <2>1. ASSUME NEW s \in 0 .. MAX_FRAMES - 1, s .. s + count - 1 \subseteq FreeSet
        PROVE  FALSE
    <3>1. s \in s .. s + count - 1
      OBVIOUS
    <3>2. s \in 0 .. total_frames - 1
      BY <1>0, <2>1, <3>1
    <3>3. IsFreeRun(s, count)
      BY <2>1, FreeRun
    <3>4. QED
      BY <1>5, <3>2, <3>3 DEF allocate_contiguous_frames_none
  <2>2. FreeSet' = FreeSet /\ owned' = owned
    BY <1>5 DEF allocate_contiguous_frames_none, FreeSet
  <2>3. Pool!Refuse(count, "no_run", count)
    BY <1>5, <2>1, <2>2 DEF allocate_contiguous_frames_none, Pool!Refuse,
                            Outcome, Pool!Outcome
  <2>4. QED
    BY <2>3 DEF Pool!Next
<1>6. ASSUME NEW f \in owned, free_frame(f)
      PROVE  Pool!Next
  <2>1. FreeSet' = FreeSet \cup ({f} \cap Frames)
    BY <1>6, MarkFree DEF free_frame, IInv
  <2>2. f \in Frames
    BY <1>6 DEF IInv, TypeOK
  <2>3. Pool!Give(f)
    BY <1>6, <2>1, <2>2 DEF free_frame, Pool!Give, Outcome, Pool!Outcome
  <2>4. QED
    BY <2>2, <2>3 DEF Pool!Next, Frames
<1>7. QED
  BY <1>1, <1>2, <1>3, <1>4, <1>5, <1>6 DEF Next, Alloc, Pool!Next

\* The frame allocator implements the pool: it hands out the lowest free
\* frame or run and reports None only when there is none, for every memory
\* size and every history of allocations and frees.
THEOREM AllocatorImplementsPool == Spec => ImplementsPool
<1>1. Init => Pool!Init
  BY DEF Init, Pool!Init, FreeSet, Outcome, Pool!Outcome
<1>2. IInv /\ OwnershipInv /\ [Next]_vars => [Pool!Next]_<<FreeSet, owned, result>>
  <2>1. CASE Next
    BY <2>1, PoolStep
  <2>2. CASE UNCHANGED vars
    BY <2>2 DEF vars, FreeSet
  <2>3. QED
    BY <2>1, <2>2
<1>3. QED
  BY <1>1, <1>2, OwnershipSafe, PTL DEF Spec, ImplementsPool, Pool!Spec

-----------------------------------------------------------------------------
(* The heap                                                                *)

BlockSet == [addr : Nat, size : Nat \ {0}]

\* Word w is in block b, in some block of list.
Has(b, w) == b.addr <= w /\ w < b.addr + b.size
Holds(list, w) == \E i \in 1 .. Len(list) : Has(list[i], w)

\* No word is in two blocks of list.
Once(list) ==
  \A i, j \in 1 .. Len(list) : \A w \in Int : Has(list[i], w) /\ Has(list[j], w) => i = j

\* Word w is taken for the allocation at p.
Takes(lv, p, w) == p - 1 <= w /\ w < p - 1 + lv[p].header

\* Every word of heap is in one block of list or taken for one allocation.
Tiling(list, lv, heap) ==
  /\ list \in Seq(BlockSet) /\ Once(list)
  /\ \A p \in DOMAIN lv :
       /\ p \in Nat \ {0} /\ lv[p] \in [words : Sizes, header : Nat]
       /\ lv[p].header >= 1 + lv[p].words
  /\ \A p, q \in DOMAIN lv : \A w \in Int : Takes(lv, p, w) /\ Takes(lv, q, w) => p = q
  /\ \A p \in DOMAIN lv : \A w \in Int : Takes(lv, p, w) => ~Holds(list, w)
  /\ \A w \in Int : w \in heap <=> Holds(list, w) \/ \E p \in DOMAIN lv : Takes(lv, p, w)

-----------------------------------------------------------------------------
(* The free list                                                           *)

\* What a block is made of.
LEMMA BlockFacts ==
  ASSUME NEW b \in BlockSet
  PROVE  b.addr \in Nat /\ b.size \in Nat \ {0} /\ b = Block(b.addr, b.size)
BY Zenon DEF BlockSet, Block

\* Two adjacent blocks, merged.
LEMMA MergedBlock ==
  ASSUME NEW b \in BlockSet, NEW c \in BlockSet, b.addr + b.size = c.addr
  PROVE  LET d == [b EXCEPT !.size = b.size + c.size]
         IN  d \in BlockSet /\ \A w \in Int : Has(d, w) <=> Has(b, w) \/ Has(c, w)
<1> DEFINE d == [b EXCEPT !.size = b.size + c.size]
<1>1. /\ b.addr \in Nat /\ b.size \in Nat \ {0} /\ c.addr \in Nat /\ c.size \in Nat \ {0}
      /\ d \in BlockSet /\ d.addr = b.addr /\ d.size = b.size + c.size
  BY DEF BlockSet
<1>. HIDE DEF d
<1>. QED BY <1>1 DEF Has, d

\* A block split in two.
LEMMA SplitBlock ==
  ASSUME NEW b \in BlockSet, NEW n \in Nat \ {0}, n < b.size
  PROVE  LET low == Block(b.addr, n)
             high == Block(b.addr + n, b.size - n)
         IN  /\ low \in BlockSet /\ low.size = n /\ high \in BlockSet
             /\ \A w \in Int : Has(low, w) => Has(b, w)
             /\ \A w \in Int : Has(high, w) <=> Has(b, w) /\ ~Has(low, w)
<1> DEFINE low == Block(b.addr, n)
           high == Block(b.addr + n, b.size - n)
<1>1. b.addr \in Nat /\ b.size \in Nat \ {0}
  BY Zenon DEF BlockSet
<1>2. /\ low.addr = b.addr /\ low.size = n /\ low \in BlockSet
      /\ high.addr = b.addr + n /\ high.size = b.size - n /\ high \in BlockSet
  BY <1>1 DEF Block, BlockSet
<1>. HIDE DEF low, high
<1>. QED BY <1>1, <1>2 DEF Has, low, high

\* Removing a block removes its words.
LEMMA RemoveHolds ==
  ASSUME NEW list \in Seq(BlockSet), Once(list), NEW i \in 1 .. Len(list)
  PROVE  /\ Unlink(list, i) \in Seq(BlockSet) /\ Once(Unlink(list, i))
         /\ \A w \in Int : Holds(Unlink(list, i), w) <=> Holds(list, w) /\ ~Has(list[i], w)
<1> DEFINE r == Unlink(list, i)
           at(k) == IF k < i THEN k ELSE k + 1
<1>1. /\ r \in Seq(BlockSet) /\ Len(r) = Len(list) - 1
      /\ \A k \in 1 .. Len(list) - 1 : r[k] = list[at(k)]
  <2>1. Removed(r, list, i)
    BY DEF Unlink, Removed
  <2>. HIDE DEF r
  <2>. QED BY <2>1, RemoveFacts, Zenon
<1>. HIDE DEF r
<1>2. Len(list) \in Nat
  BY LenProperties, Zenon
<1>3. /\ \A k \in 1 .. Len(r) : at(k) \in 1 .. Len(list) /\ at(k) # i
      /\ \A j, k \in 1 .. Len(r) : at(j) = at(k) => j = k
  BY <1>1, <1>2
<1>4. ASSUME NEW j \in 1 .. Len(list), j # i
      PROVE  \E k \in 1 .. Len(r) : at(k) = j
  <2> DEFINE k == IF j < i THEN j ELSE j - 1
  <2>1. k \in 1 .. Len(r) /\ at(k) = j
    BY <1>1, <1>2, <1>4
  <2>. QED BY <2>1, Zenon
<1>5. \A k \in 1 .. Len(r) : r[k] = list[at(k)]
  BY <1>1, Zenon
<1>. HIDE DEF at
<1>6. Once(r)
  <2>1. SUFFICES ASSUME NEW j \in 1 .. Len(r), NEW k \in 1 .. Len(r), NEW w \in Int,
                        Has(r[j], w), Has(r[k], w)
                 PROVE  j = k
    BY Zenon DEF Once
  <2>2. at(j) = at(k)
    BY <1>3, <1>5, <2>1, Zenon DEF Once
  <2>. QED BY <1>3, <2>2, Zenon
<1>7. ASSUME NEW w \in Int
      PROVE  Holds(r, w) <=> Holds(list, w) /\ ~Has(list[i], w)
  <2>1. ASSUME Holds(r, w) PROVE Holds(list, w) /\ ~Has(list[i], w)
    <3>1. PICK k \in 1 .. Len(r) : Has(r[k], w)
      BY <2>1, Zenon DEF Holds
    <3>2. Has(list[at(k)], w) /\ at(k) \in 1 .. Len(list) /\ at(k) # i
      BY <1>3, <1>5, <3>1, Zenon
    <3>. QED BY <3>2, Zenon DEF Holds, Once
  <2>2. ASSUME Holds(list, w), ~Has(list[i], w) PROVE Holds(r, w)
    <3>1. PICK j \in 1 .. Len(list) : Has(list[j], w)
      BY <2>2, Zenon DEF Holds
    <3>2. PICK k \in 1 .. Len(r) : at(k) = j
      BY <1>4, <2>2, <3>1, Zenon
    <3>. QED BY <1>5, <3>1, <3>2, Zenon DEF Holds
  <2>. QED BY <2>1, <2>2, Zenon
<1>. QED BY <1>1, <1>6, <1>7, Zenon DEF r

\* A block put in at place i.
LEMMA LinkFacts ==
  ASSUME NEW list \in Seq(BlockSet), NEW b \in BlockSet, NEW i \in 1 .. Len(list) + 1
  PROVE  /\ Link(list, i, b) \in Seq(BlockSet) /\ Len(Link(list, i, b)) = Len(list) + 1
         /\ Link(list, i, b)[i] = b
         /\ \A k \in 1 .. Len(list) + 1 :
              k # i => Link(list, i, b)[k] = list[IF k < i THEN k ELSE k - 1]
<1>1. Inserted(Link(list, i, b), list, i, b)
  BY DEF Link, Inserted
<1>. QED BY <1>1, InsertFacts

\* Inserting a block whose words are in no other adds its words.
LEMMA InsertHolds ==
  ASSUME NEW list \in Seq(BlockSet), Once(list), NEW b \in BlockSet,
         \A w \in Int : Has(b, w) => ~Holds(list, w),
         NEW i \in 1 .. Len(list) + 1
  PROVE  /\ Link(list, i, b) \in Seq(BlockSet) /\ Once(Link(list, i, b))
         /\ \A w \in Int : Holds(Link(list, i, b), w) <=> Holds(list, w) \/ Has(b, w)
<1> DEFINE r == Link(list, i, b)
           at(k) == IF k < i THEN k ELSE k - 1
<1>1. /\ r \in Seq(BlockSet) /\ Len(r) = Len(list) + 1
      /\ r[i] = b /\ \A k \in 1 .. Len(list) + 1 : k # i => r[k] = list[at(k)]
  BY LinkFacts
<1>. HIDE DEF r
<1>2. Len(list) \in Nat
  BY LenProperties, Zenon
<1>3. /\ \A k \in 1 .. Len(r) : k # i => at(k) \in 1 .. Len(list)
      /\ \A j, k \in 1 .. Len(r) : j # i /\ k # i /\ at(j) = at(k) => j = k
      /\ i \in 1 .. Len(r)
  BY <1>1, <1>2
<1>4. ASSUME NEW j \in 1 .. Len(list)
      PROVE  \E k \in 1 .. Len(r) : k # i /\ at(k) = j
  <2> DEFINE k == IF j < i THEN j ELSE j + 1
  <2>1. k \in 1 .. Len(r) /\ k # i /\ at(k) = j
    BY <1>1, <1>2
  <2>. QED BY <2>1, Zenon
<1>5. r[i] = b /\ \A k \in 1 .. Len(r) : k # i => r[k] = list[at(k)]
  BY <1>1, <1>2, Zenon
<1>. HIDE DEF at
<1>6. Once(r)
  <2>1. SUFFICES ASSUME NEW j \in 1 .. Len(r), NEW k \in 1 .. Len(r), NEW w \in Int,
                        Has(r[j], w), Has(r[k], w)
                 PROVE  j = k
    BY Zenon DEF Once
  <2>2. CASE j # i /\ k # i
    <3>1. at(j) = at(k)
      BY <1>3, <1>5, <2>1, <2>2, Zenon DEF Once
    <3>. QED BY <1>3, <2>2, <3>1, Zenon
  <2>3. ASSUME NEW l \in 1 .. Len(r), l # i, Has(r[l], w), Has(r[i], w) PROVE FALSE
    <3>1. Has(b, w) /\ Has(list[at(l)], w) /\ at(l) \in 1 .. Len(list)
      BY <1>3, <1>5, <2>3, Zenon
    <3>. QED BY <3>1, Zenon DEF Holds
  <2>. QED BY <2>1, <2>2, <2>3, Zenon
<1>7. ASSUME NEW w \in Int
      PROVE  Holds(r, w) <=> Holds(list, w) \/ Has(b, w)
  <2>1. ASSUME Holds(r, w) PROVE Holds(list, w) \/ Has(b, w)
    <3>1. PICK k \in 1 .. Len(r) : Has(r[k], w)
      BY <2>1, Zenon DEF Holds
    <3>. QED BY <1>3, <1>5, <3>1, Zenon DEF Holds
  <2>2. ASSUME Holds(list, w) PROVE Holds(r, w)
    <3>1. PICK j \in 1 .. Len(list) : Has(list[j], w)
      BY <2>2, Zenon DEF Holds
    <3>2. PICK k \in 1 .. Len(r) : k # i /\ at(k) = j
      BY <1>4, Zenon
    <3>. QED BY <1>5, <3>1, <3>2, Zenon DEF Holds
  <2>3. ASSUME Has(b, w) PROVE Holds(r, w)
    BY <1>3, <1>5, <2>3, Zenon DEF Holds
  <2>. QED BY <2>1, <2>2, <2>3, Zenon
<1>. QED BY <1>1, <1>6, <1>7, Zenon DEF r

\* Two adjacent blocks coalesced hold the words of both.
LEMMA CoalesceHolds ==
  ASSUME NEW list \in Seq(BlockSet), Once(list), NEW n \in Int
  PROVE  /\ Coalesce(list, n) \in Seq(BlockSet) /\ Once(Coalesce(list, n))
         /\ \A w \in Int : Holds(Coalesce(list, n), w) <=> Holds(list, w)
<1>1. CASE ~(n \in 1 .. Len(list) - 1 /\ list[n].addr + list[n].size = list[n + 1].addr)
  BY <1>1, Zenon DEF Coalesce
<1>2. CASE n \in 1 .. Len(list) - 1 /\ list[n].addr + list[n].size = list[n + 1].addr
  <2> DEFINE e == [list EXCEPT ![n].size = @ + list[n + 1].size]
             r == Unlink(e, n + 1)
             b == [list[n] EXCEPT !.size = list[n].size + list[n + 1].size]
             at(k) == IF k < n + 1 THEN k ELSE k + 1
  <2>1. Len(list) \in Nat /\ n \in 1 .. Len(list) /\ n + 1 \in 1 .. Len(list)
    BY <1>2, LenProperties
  <2>2. list[n] \in BlockSet /\ list[n + 1] \in BlockSet
    BY <2>1, ElementOfSeq, Zenon
  <2>3. b \in BlockSet /\ \A w \in Int : Has(b, w) <=> Has(list[n], w) \/ Has(list[n + 1], w)
    BY <1>2, <2>2, MergedBlock, Zenon
  <2>. HIDE DEF b
  <2>4. /\ e \in Seq(BlockSet) /\ Len(e) = Len(list)
        /\ e[n] = b /\ \A k \in 1 .. Len(list) : k # n => e[k] = list[k]
    BY <2>1, <2>3 DEF b
  <2>. HIDE DEF e
  <2>5. /\ r \in Seq(BlockSet) /\ Len(r) = Len(list) - 1
        /\ \A k \in 1 .. Len(list) - 1 : r[k] = e[at(k)]
    <3>1. Removed(r, e, n + 1)
      BY DEF Unlink, Removed
    <3>. HIDE DEF r
    <3>2. n + 1 \in 1 .. Len(e)
      BY <2>1, <2>4
    <3>. QED BY <2>4, <3>1, <3>2, RemoveFacts
  <2>. HIDE DEF r
  <2>6. /\ \A k \in 1 .. Len(r) : at(k) \in 1 .. Len(list) /\ at(k) # n + 1 /\ (k # n => at(k) # n)
        /\ \A j, k \in 1 .. Len(r) : at(j) = at(k) => j = k
        /\ n \in 1 .. Len(r) /\ at(n) = n
    BY <2>1, <2>5, <1>2
  <2>7. ASSUME NEW j \in 1 .. Len(list), j # n + 1
        PROVE  \E k \in 1 .. Len(r) : at(k) = j
    <3> DEFINE k == IF j < n + 1 THEN j ELSE j - 1
    <3>1. k \in 1 .. Len(r) /\ at(k) = j
      BY <2>1, <2>5, <2>7
    <3>. QED BY <3>1, Zenon
  <2>8. r[n] = b /\ \A k \in 1 .. Len(r) : k # n => r[k] = list[at(k)]
    BY <2>4, <2>5, <2>6, Zenon
  <2>. HIDE DEF at
  <2>10. ASSUME NEW w \in Int, NEW k \in 1 .. Len(r), Has(r[k], w)
         PROVE  \E j \in 1 .. Len(list) : Has(list[j], w) /\ (j = at(k) \/ (k = n /\ j = n + 1))
    <3>1. CASE k = n
      <4>1. Has(list[n], w) \/ Has(list[n + 1], w)
        BY <2>3, <2>8, <2>10, <3>1, Zenon
      <4>2. CASE Has(list[n], w)
        <5>1. n \in 1 .. Len(list) /\ n = at(k)
          BY <2>1, <2>6, <3>1, Zenon
        <5>. QED BY <4>2, <5>1, Zenon
      <4>3. CASE Has(list[n + 1], w)
        <5>1. n + 1 \in 1 .. Len(list) /\ k = n
          BY <2>1, <3>1, Zenon
        <5>. QED BY <4>3, <5>1, Zenon
      <4>. QED BY <4>1, <4>2, <4>3, Zenon
    <3>2. CASE k # n
      <4>1. Has(list[at(k)], w) /\ at(k) \in 1 .. Len(list)
        BY <2>6, <2>8, <2>10, <3>2, Zenon
      <4>. QED BY <4>1, Zenon
    <3>. QED BY <3>1, <3>2, Zenon
  <2>11. Once(r)
    <3>1. SUFFICES ASSUME NEW j \in 1 .. Len(r), NEW k \in 1 .. Len(r), NEW w \in Int,
                          Has(r[j], w), Has(r[k], w)
                   PROVE  j = k
      BY Zenon DEF Once
    <3>2. PICK jj \in 1 .. Len(list) : Has(list[jj], w) /\ (jj = at(j) \/ (j = n /\ jj = n + 1))
      BY <2>10, <3>1, Zenon
    <3>3. PICK kk \in 1 .. Len(list) : Has(list[kk], w) /\ (kk = at(k) \/ (k = n /\ kk = n + 1))
      BY <2>10, <3>1, Zenon
    <3>4. jj = kk
      BY <3>2, <3>3, Zenon DEF Once
    <3>. QED BY <2>6, <3>2, <3>3, <3>4, Zenon
  <2>12. ASSUME NEW w \in Int
         PROVE  Holds(r, w) <=> Holds(list, w)
    <3>1. ASSUME Holds(r, w) PROVE Holds(list, w)
      BY <2>10, <3>1, Zenon DEF Holds
    <3>2. ASSUME Holds(list, w) PROVE Holds(r, w)
      <4>1. PICK j \in 1 .. Len(list) : Has(list[j], w)
        BY <3>2, Zenon DEF Holds
      <4>2. CASE j = n \/ j = n + 1
        <5>1. Has(r[n], w)
          BY <2>8, <2>3, <4>1, <4>2, Zenon
        <5>. QED BY <2>6, <5>1, Zenon DEF Holds
      <4>3. CASE j # n /\ j # n + 1
        <5>1. PICK k \in 1 .. Len(r) : at(k) = j
          BY <2>7, <4>3, Zenon
        <5>2. k # n
          BY <2>6, <4>3, <5>1, Zenon
        <5>. QED BY <2>8, <4>1, <5>1, <5>2, Zenon DEF Holds
      <4>. QED BY <4>2, <4>3, Zenon
    <3>. QED BY <3>1, <3>2, Zenon
  <2>13. Coalesce(list, n) = r
    BY <1>2, Zenon DEF Coalesce, r, e
  <2>. QED BY <2>5, <2>11, <2>12, <2>13, Zenon
<1>. QED BY <1>1, <1>2, Zenon

\* Among natural numbers there is a least one.
LEMMA LeastNat ==
  ASSUME NEW T \in SUBSET Nat, T # {}
  PROVE  \E m \in T : \A n \in T : m <= n
<1>1. PICK m \in T : \A y \in T : ~(<<y, m>> \in OpToRel(<, Nat))
  BY WFMin, NatLessThanWellFounded, Zenon
<1>2. ASSUME NEW n \in T PROVE m <= n
  <2>1. ~(<<n, m>> \in OpToRel(<, Nat))
    BY <1>1
  <2>2. n \in Nat /\ m \in Nat
    OBVIOUS
  <2>. QED BY <2>1, <2>2 DEF OpToRel
<1>. QED BY <1>2

\* There is a place to insert a block.
LEMMA InsertPositionExists ==
  ASSUME NEW list \in Seq(BlockSet), NEW addr \in Nat
  PROVE  InsertPosition(list, addr) \in 1 .. Len(list) + 1
<1> DEFINE T == {n \in 1 .. Len(list) + 1 : n <= Len(list) => list[n].addr > addr}
<1>1. Len(list) \in Nat
  BY LenProperties, Zenon
<1>2. T \in SUBSET Nat /\ Len(list) + 1 \in T
  BY <1>1
<1>3. PICK n \in T : \A m \in T : n <= m
  BY <1>2, LeastNat, Zenon
<1>4. \A j \in 1 .. n - 1 : list[j].addr <= addr
  <2>1. SUFFICES ASSUME NEW j \in 1 .. n - 1 PROVE list[j].addr <= addr
    BY Zenon
  <2>2. j \in 1 .. Len(list) /\ j \notin T
    BY <1>1, <1>3
  <2>3. list[j].addr \in Nat
    <3>1. list[j] \in BlockSet
      BY <2>2, ElementOfSeq, Zenon
    <3>. QED BY <3>1, BlockFacts, Zenon
  <2>. QED BY <1>1, <2>2, <2>3
<1>. QED BY <1>3, <1>4, Zenon DEF InsertPosition

\* Putting a block back adds its words, whatever it coalesces with.
LEMMA InsertedHolds ==
  ASSUME NEW list \in Seq(BlockSet), Once(list), NEW b \in BlockSet,
         \A w \in Int : Has(b, w) => ~Holds(list, w)
  PROVE  /\ Insert(list, b) \in Seq(BlockSet) /\ Once(Insert(list, b))
         /\ \A w \in Int : Holds(Insert(list, b), w) <=> Holds(list, w) \/ Has(b, w)
<1> DEFINE n == InsertPosition(list, b.addr)
           one == Link(list, n, b)
           two == Coalesce(one, n)
<1>1. n \in 1 .. Len(list) + 1 /\ n \in Int /\ n - 1 \in Int
  BY InsertPositionExists DEF BlockSet
<1>. HIDE DEF n
<1>2. /\ one \in Seq(BlockSet) /\ Once(one)
      /\ \A w \in Int : Holds(one, w) <=> Holds(list, w) \/ Has(b, w)
  BY <1>1, InsertHolds, Zenon
<1>. HIDE DEF one
<1>3. /\ two \in Seq(BlockSet) /\ Once(two)
      /\ \A w \in Int : Holds(two, w) <=> Holds(one, w)
  BY <1>1, <1>2, CoalesceHolds, Zenon
<1>. HIDE DEF two
<1>4. /\ Coalesce(two, n - 1) \in Seq(BlockSet) /\ Once(Coalesce(two, n - 1))
      /\ \A w \in Int : Holds(Coalesce(two, n - 1), w) <=> Holds(two, w)
  BY <1>1, <1>3, CoalesceHolds, Zenon
<1>5. Insert(list, b) = Coalesce(two, n - 1)
  BY Zenon DEF Insert, two, one, n
<1>. QED BY <1>2, <1>3, <1>4, <1>5, Zenon

\* Taking a block takes the words its header accounts for.
LEMMA TakenHolds ==
  ASSUME NEW list \in Seq(BlockSet), Once(list), NEW i \in 1 .. Len(list),
         MIN_SIZE \in Nat, NEW needed \in Nat \ {0}, needed <= list[i].size
  PROVE  LET b == Block(list[i].addr, HeaderValue(list[i], needed))
         IN  /\ Taken(list, i, needed) \in Seq(BlockSet) /\ Once(Taken(list, i, needed))
             /\ b \in BlockSet /\ b.size >= needed
             /\ \A w \in Int : Has(b, w) => Has(list[i], w)
             /\ \A w \in Int : Holds(Taken(list, i, needed), w) <=> Holds(list, w) /\ ~Has(b, w)
<1> DEFINE rest == Unlink(list, i)
           b == Block(list[i].addr, HeaderValue(list[i], needed))
           c == Block(list[i].addr + needed, list[i].size - needed)
<1>1. list[i] \in BlockSet
  BY ElementOfSeq, Zenon
<1>2. /\ rest \in Seq(BlockSet) /\ Once(rest)
      /\ \A w \in Int : Holds(rest, w) <=> Holds(list, w) /\ ~Has(list[i], w)
  BY RemoveHolds, Zenon
<1>. HIDE DEF rest
<1>3. \A w \in Int : Has(list[i], w) => Holds(list, w)
  BY Zenon DEF Holds
<1>4. CASE ~Splits(list[i], needed)
  <2>1. b = list[i] /\ b.size >= needed
    BY <1>1, <1>4, Zenon DEF HeaderValue, Block, BlockSet
  <2>2. Taken(list, i, needed) = rest
    BY <1>2, <1>4, ConcatEmptySeq, Zenon DEF Taken, rest
  <2>. QED BY <1>1, <1>2, <2>1, <2>2, Zenon
<1>5. CASE Splits(list[i], needed)
  <2>1. /\ b = Block(list[i].addr, needed) /\ b \in BlockSet /\ b.size >= needed
        /\ c \in BlockSet
        /\ \A w \in Int : Has(b, w) => Has(list[i], w)
        /\ \A w \in Int : Has(c, w) <=> Has(list[i], w) /\ ~Has(b, w)
    <3>1. needed < list[i].size
      BY <1>1, <1>5, BlockFacts DEF Splits
    <3>2. HeaderValue(list[i], needed) = needed
      BY <1>5, Zenon DEF HeaderValue
    <3>. QED BY <1>1, <3>1, <3>2, SplitBlock
  <2>. HIDE DEF b, c
  <2>2. 1 \in 1 .. Len(rest) + 1
    BY <1>2, LenProperties
  <2>3. \A w \in Int : Has(c, w) => ~Holds(rest, w)
    BY <1>2, <2>1, Zenon
  <2>4. /\ Link(rest, 1, c) \in Seq(BlockSet) /\ Once(Link(rest, 1, c))
        /\ \A w \in Int : Holds(Link(rest, 1, c), w) <=> Holds(rest, w) \/ Has(c, w)
    BY <1>2, <2>1, <2>2, <2>3, InsertHolds, Zenon
  <2>5. Taken(list, i, needed) = Link(rest, 1, c)
    <3>1. SubSeq(rest, 1, 0) = <<>> /\ SubSeq(rest, 1, Len(rest)) = rest
      BY <1>2
    <3>2. <<>> \o <<c>> = <<c>>
      BY <2>1, ConcatEmptySeq
    <3>3. Link(rest, 1, c) = <<c>> \o rest
      BY <3>1, <3>2 DEF Link
    <3>. QED BY <1>5, <3>3, Zenon DEF Taken, rest, c
  <2>6. \A w \in Int : Holds(Taken(list, i, needed), w) <=> Holds(list, w) /\ ~Has(b, w)
    BY <1>2, <1>3, <2>1, <2>4, <2>5, Zenon
  <2>. QED BY <2>1, <2>4, <2>5, <2>6, Zenon DEF b
<1>. QED BY <1>4, <1>5, Zenon

-----------------------------------------------------------------------------
(* The heap                                                                *)

\* Tiling says what NoOverlap and Conservation say of sets of words.
LEMMA TilingSets ==
  ASSUME NEW list \in Seq(BlockSet), NEW lv, NEW heap \in SUBSET Int, Sizes \subseteq Nat,
         \A p \in DOMAIN lv : p \in Nat \ {0} /\ lv[p] \in [words : Sizes, header : Nat]
  PROVE  LET F(i) == Words(list[i].addr, list[i].size)
             B(p) == Words(p - HEADER, lv[p].header)
         IN  Tiling(list, lv, heap) <=>
               /\ \A i, j \in DOMAIN list : i # j => F(i) \cap F(j) = {}
               /\ \A p, q \in DOMAIN lv : p # q => B(p) \cap B(q) = {}
               /\ \A i \in DOMAIN list, p \in DOMAIN lv : F(i) \cap B(p) = {}
               /\ \A p \in DOMAIN lv : Words(p - HEADER, HEADER + lv[p].words) \subseteq B(p)
               /\ heap = (UNION {F(i) : i \in DOMAIN list}) \cup (UNION {B(p) : p \in DOMAIN lv})
<1> DEFINE F(i) == Words(list[i].addr, list[i].size)
           B(p) == Words(p - HEADER, lv[p].header)
           L(p) == Words(p - HEADER, HEADER + lv[p].words)
<1>1. DOMAIN list = 1 .. Len(list)
  BY LenProperties, Zenon
<1>2. ASSUME NEW i \in 1 .. Len(list)
      PROVE  F(i) \subseteq Int /\ \A w \in Int : w \in F(i) <=> Has(list[i], w)
  <2>1. list[i].addr \in Nat /\ list[i].size \in Nat
    BY ElementOfSeq, BlockFacts, Zenon
  <2>. QED BY <2>1 DEF Words, Has
<1>3. ASSUME NEW p \in DOMAIN lv
      PROVE  /\ B(p) \subseteq Int /\ \A w \in Int : w \in B(p) <=> Takes(lv, p, w)
             /\ L(p) \subseteq B(p) <=> lv[p].header >= 1 + lv[p].words
  <2>1. p \in Nat \ {0} /\ lv[p].header \in Nat /\ lv[p].words \in Nat
    BY Zenon
  <2>2. B(p) \subseteq Int /\ \A w \in Int : w \in B(p) <=> Takes(lv, p, w)
    BY <2>1 DEF Words, Takes, HEADER
  <2>3. ASSUME L(p) \subseteq B(p) PROVE lv[p].header >= 1 + lv[p].words
    <3>1. p - 1 + lv[p].words \in L(p)
      BY <2>1 DEF Words, HEADER
    <3>2. p - 1 + lv[p].words \in B(p)
      BY <2>3, <3>1, Zenon
    <3>. QED BY <2>1, <3>2 DEF Words, HEADER
  <2>4. ASSUME lv[p].header >= 1 + lv[p].words PROVE L(p) \subseteq B(p)
    BY <2>1, <2>4 DEF Words, HEADER
  <2>. QED BY <2>2, <2>3, <2>4, Zenon
<1> DEFINE Whole == heap = (UNION {F(i) : i \in DOMAIN list}) \cup (UNION {B(p) : p \in DOMAIN lv})
<1>. HIDE DEF F, B, L
<1>4. (\A i, j \in DOMAIN list : i # j => F(i) \cap F(j) = {}) <=> Once(list)
  <2>1. ASSUME Once(list), NEW i \in DOMAIN list, NEW j \in DOMAIN list, i # j
        PROVE  F(i) \cap F(j) = {}
    BY <1>1, <1>2, <2>1, Zenon DEF Once
  <2>2. ASSUME \A i, j \in DOMAIN list : i # j => F(i) \cap F(j) = {} PROVE Once(list)
    BY <1>1, <1>2, <2>2, Zenon DEF Once
  <2>. QED BY <2>1, <2>2, Zenon
<1>5. (\A p, q \in DOMAIN lv : p # q => B(p) \cap B(q) = {})
        <=> \A p, q \in DOMAIN lv : \A w \in Int : Takes(lv, p, w) /\ Takes(lv, q, w) => p = q
  <2>1. ASSUME \A p, q \in DOMAIN lv : \A w \in Int : Takes(lv, p, w) /\ Takes(lv, q, w) => p = q,
               NEW p \in DOMAIN lv, NEW q \in DOMAIN lv, p # q
        PROVE  B(p) \cap B(q) = {}
    BY <1>3, <2>1, Zenon
  <2>2. ASSUME \A p, q \in DOMAIN lv : p # q => B(p) \cap B(q) = {},
               NEW p \in DOMAIN lv, NEW q \in DOMAIN lv, NEW w \in Int,
               Takes(lv, p, w), Takes(lv, q, w)
        PROVE  p = q
    BY <1>3, <2>2, Zenon
  <2>. QED BY <2>1, <2>2, Zenon
<1>6. (\A i \in DOMAIN list, p \in DOMAIN lv : F(i) \cap B(p) = {})
        <=> \A p \in DOMAIN lv : \A w \in Int : Takes(lv, p, w) => ~Holds(list, w)
  <2>1. ASSUME \A p \in DOMAIN lv : \A w \in Int : Takes(lv, p, w) => ~Holds(list, w),
               NEW i \in DOMAIN list, NEW p \in DOMAIN lv
        PROVE  F(i) \cap B(p) = {}
    BY <1>1, <1>2, <1>3, <2>1, Zenon DEF Holds
  <2>2. ASSUME \A i \in DOMAIN list, p \in DOMAIN lv : F(i) \cap B(p) = {},
               NEW p \in DOMAIN lv, NEW w \in Int, Takes(lv, p, w)
        PROVE  ~Holds(list, w)
    BY <1>1, <1>2, <1>3, <2>2, Zenon DEF Holds
  <2>. QED BY <2>1, <2>2, Zenon
<1>7. Whole <=> \A w \in Int : w \in heap <=> Holds(list, w) \/ \E p \in DOMAIN lv : Takes(lv, p, w)
  <2>1. ASSUME NEW w \in Int
        PROVE  /\ w \in UNION {F(i) : i \in DOMAIN list} <=> Holds(list, w)
               /\ w \in UNION {B(p) : p \in DOMAIN lv} <=> \E p \in DOMAIN lv : Takes(lv, p, w)
    BY <1>1, <1>2, <1>3, Zenon DEF Holds
  <2>2. UNION {F(i) : i \in DOMAIN list} \subseteq Int /\ UNION {B(p) : p \in DOMAIN lv} \subseteq Int
    BY <1>1, <1>2, <1>3, Zenon
  <2> DEFINE fs == UNION {F(i) : i \in DOMAIN list}
             bs == UNION {B(p) : p \in DOMAIN lv}
  <2>. HIDE DEF fs, bs
  <2>3. heap = fs \cup bs <=> \A w \in Int : w \in heap <=> w \in fs \/ w \in bs
    BY <2>2, Zenon DEF fs, bs
  <2>. QED BY <2>1, <2>3, Zenon DEF fs, bs
<1>8. (\A p \in DOMAIN lv : L(p) \subseteq B(p))
        <=> \A p \in DOMAIN lv :
              /\ p \in Nat \ {0} /\ lv[p] \in [words : Sizes, header : Nat]
              /\ lv[p].header >= 1 + lv[p].words
  BY <1>3, Zenon
<1>9. Tiling(list, lv, heap) <=>
        /\ \A i, j \in DOMAIN list : i # j => F(i) \cap F(j) = {}
        /\ \A p, q \in DOMAIN lv : p # q => B(p) \cap B(q) = {}
        /\ \A i \in DOMAIN list, p \in DOMAIN lv : F(i) \cap B(p) = {}
        /\ \A p \in DOMAIN lv : L(p) \subseteq B(p)
        /\ Whole
  BY <1>4, <1>5, <1>6, <1>7, <1>8, Zenon DEF Tiling
<1>. QED BY <1>9, Zenon DEF F, B, L

\* Allocating takes words of one free block.
LEMMA Allocated ==
  ASSUME HeapConstants, NEW list, NEW heap, Tiling(list, live, heap),
         NEW size \in Sizes, NEW align \in Aligns, try_allocate(list, size, align)
  PROVE  Tiling(free_list', live', heap)
<1>1. PICK i \in DOMAIN list :
        LET needed == TotalNeeded(list[i], size, align) IN
        /\ IsFirstFit(list, i, size, align)
        /\ free_list' = Taken(list, i, needed)
        /\ live' = [p \in DOMAIN live \cup {AlignedStart(list[i], align)} |->
                      IF p = AlignedStart(list[i], align)
                      THEN [words |-> size, header |-> HeaderValue(list[i], needed)]
                      ELSE live[p]]
  BY Zenon DEF try_allocate
<1> DEFINE needed == TotalNeeded(list[i], size, align)
           at == AlignedStart(list[i], align)
           b == Block(list[i].addr, HeaderValue(list[i], needed))
<1>2. /\ list \in Seq(BlockSet) /\ Once(list) /\ i \in 1 .. Len(list)
      /\ list[i].addr \in Nat /\ list[i].size \in Nat \ {0}
  <2>1. list \in Seq(BlockSet) /\ Once(list)
    BY Zenon DEF Tiling
  <2>2. i \in 1 .. Len(list)
    BY <2>1, LenProperties, Zenon
  <2>3. list[i] \in BlockSet
    BY <2>1, <2>2, ElementOfSeq, Zenon
  <2>. QED BY <2>1, <2>2, <2>3, BlockFacts, Zenon
<1>3. MIN_SIZE \in Nat \ {0} /\ size \in Nat /\ align = 1
  BY Zenon DEF HeapConstants
<1>4. at = list[i].addr + 1
  BY <1>2, <1>3 DEF AlignedStart, AlignUp, HEADER
<1>5. needed \in Nat \ {0} /\ needed >= 1 + size
  BY <1>2, <1>3, <1>4 DEF TotalNeeded, AtLeastMin
<1>6. needed <= list[i].size
  BY <1>1, <1>2, <1>5, Zenon DEF IsFirstFit
<1>. HIDE DEF needed, at
<1>7. /\ free_list' \in Seq(BlockSet) /\ Once(free_list')
      /\ b \in BlockSet /\ b.size >= needed
      /\ \A w \in Int : Has(b, w) => Has(list[i], w)
      /\ \A w \in Int : Holds(free_list', w) <=> Holds(list, w) /\ ~Has(b, w)
  BY <1>1, <1>2, <1>3, <1>5, <1>6, TakenHolds, Zenon DEF needed
<1>8. /\ DOMAIN live' = DOMAIN live \cup {at}
      /\ live'[at] = [words |-> size, header |-> b.size]
      /\ \A p \in DOMAIN live : p # at => live'[p] = live[p]
  BY <1>1, Zenon DEF needed, at, Block
<1>9. b.addr = at - 1 /\ b.size \in Nat /\ at \in Nat \ {0}
  <2>1. b.addr = list[i].addr
    BY Zenon DEF Block
  <2>. HIDE DEF b
  <2>2. b.size \in Nat
    BY <1>7, BlockFacts, Zenon
  <2>. QED BY <1>2, <1>4, <2>1, <2>2
<1>. HIDE DEF b
<1>10. ASSUME NEW w \in Int
       PROVE  /\ Takes(live', at, w) <=> Has(b, w)
              /\ \A p \in DOMAIN live : p # at => (Takes(live', p, w) <=> Takes(live, p, w))
  <2>1. live'[at].header = b.size
    BY <1>8
  <2>2. Takes(live', at, w) <=> Has(b, w)
    BY <1>9, <2>1, Zenon DEF Takes, Has
  <2>3. \A p \in DOMAIN live : p # at => (Takes(live', p, w) <=> Takes(live, p, w))
    BY <1>8, Zenon DEF Takes
  <2>. QED BY <2>2, <2>3, Zenon
<1>11. ASSUME NEW w \in Int, Has(b, w) PROVE Holds(list, w)
  BY <1>2, <1>7, <1>11, Zenon DEF Holds
<1>12. ASSUME NEW p \in DOMAIN live
       PROVE  /\ p \in Nat \ {0} /\ live[p] \in [words : Sizes, header : Nat]
              /\ live[p].header >= 1 + live[p].words
              /\ \A w \in Int : Takes(live, p, w) => ~Holds(list, w)
  BY Zenon DEF Tiling
<1>13. at \notin DOMAIN live
  <2>1. SUFFICES ASSUME at \in DOMAIN live PROVE FALSE
    BY Zenon
  <2>2. live[at].header >= 1 + live[at].words /\ live[at].words \in Nat /\ live[at].header \in Nat
    BY <1>3, <1>12, <2>1, Zenon DEF HeapConstants
  <2>3. Takes(live, at, at - 1) /\ at - 1 \in Int
    BY <1>9, <2>2 DEF Takes
  <2>4. Has(b, at - 1)
    BY <1>7, <1>9, BlockFacts DEF Has
  <2>. QED BY <1>11, <1>12, <2>1, <2>3, <2>4, Zenon
<1>14. ASSUME NEW p \in DOMAIN live'
       PROVE  /\ p \in Nat \ {0} /\ live'[p] \in [words : Sizes, header : Nat]
              /\ live'[p].header >= 1 + live'[p].words
  <2>1. CASE p = at
    BY <1>3, <1>5, <1>7, <1>8, <1>9, <2>1
  <2>2. CASE p # at
    BY <1>8, <1>12, <2>2, Zenon
  <2>. QED BY <2>1, <2>2, Zenon
<1>15. ASSUME NEW p \in DOMAIN live', NEW q \in DOMAIN live', NEW w \in Int,
              Takes(live', p, w), Takes(live', q, w)
       PROVE  p = q
  <2>1. CASE p # at /\ q # at
    BY <1>8, <1>10, <1>15, <2>1, Zenon DEF Tiling
  <2>2. ASSUME NEW r \in DOMAIN live', r # at, Takes(live', r, w), Takes(live', at, w) PROVE FALSE
    <3>1. r \in DOMAIN live /\ Takes(live, r, w) /\ Has(b, w)
      BY <1>8, <1>10, <2>2, Zenon
    <3>. QED BY <1>11, <1>12, <3>1, Zenon
  <2>. QED BY <1>15, <2>1, <2>2, Zenon
<1>16. ASSUME NEW p \in DOMAIN live', NEW w \in Int, Takes(live', p, w)
       PROVE  ~Holds(free_list', w)
  <2>1. CASE p = at
    BY <1>7, <1>10, <1>16, <2>1, Zenon
  <2>2. CASE p # at
    BY <1>7, <1>8, <1>10, <1>12, <1>16, <2>2
  <2>. QED BY <2>1, <2>2, Zenon
<1>17. ASSUME NEW w \in Int
       PROVE  w \in heap <=> Holds(free_list', w) \/ \E p \in DOMAIN live' : Takes(live', p, w)
  <2>1. w \in heap <=> Holds(list, w) \/ \E p \in DOMAIN live : Takes(live, p, w)
    BY Zenon DEF Tiling
  <2>2. (\E p \in DOMAIN live' : Takes(live', p, w)) <=> Has(b, w) \/ \E p \in DOMAIN live : Takes(live, p, w)
    BY <1>8, <1>10, <1>13, Zenon
  <2>. QED BY <1>7, <1>11, <2>1, <2>2, Zenon
<1>. QED BY <1>7, <1>14, <1>15, <1>16, <1>17, Zenon DEF Tiling

\* Growing gives the words of the new block to the free list.
LEMMA Grown ==
  ASSUME NEW list, NEW lv, NEW heap \in SUBSET Int, Tiling(list, lv, heap), NEW b \in BlockSet,
         NEW more \in SUBSET Int, \A w \in Int : w \in more <=> Has(b, w), heap \cap more = {}
  PROVE  Tiling(Insert(list, b), lv, heap \cup more)
<1>1. /\ list \in Seq(BlockSet) /\ Once(list)
      /\ \A w \in Int : w \in heap <=> Holds(list, w) \/ \E p \in DOMAIN lv : Takes(lv, p, w)
      /\ \A p \in DOMAIN lv : \A w \in Int : Takes(lv, p, w) => ~Holds(list, w)
  BY Zenon DEF Tiling
<1>2. \A w \in Int : Has(b, w) => ~Holds(list, w) /\ \A p \in DOMAIN lv : ~Takes(lv, p, w)
  BY <1>1, Zenon
<1>3. /\ Insert(list, b) \in Seq(BlockSet) /\ Once(Insert(list, b))
      /\ \A w \in Int : Holds(Insert(list, b), w) <=> Holds(list, w) \/ Has(b, w)
  BY <1>1, <1>2, InsertedHolds, Zenon
<1>4. ASSUME NEW p \in DOMAIN lv, NEW w \in Int, Takes(lv, p, w)
      PROVE  ~Holds(Insert(list, b), w)
  BY <1>1, <1>2, <1>3, <1>4, Zenon
<1>5. ASSUME NEW w \in Int
      PROVE  w \in heap \cup more
               <=> Holds(Insert(list, b), w) \/ \E p \in DOMAIN lv : Takes(lv, p, w)
  BY <1>1, <1>3, Zenon
<1>. QED BY <1>3, <1>4, <1>5, Zenon DEF Tiling

\* Freeing gives the words of the allocation back to the free list.
LEMMA Freed ==
  ASSUME Sizes \subseteq Nat, NEW list, NEW lv, NEW heap, Tiling(list, lv, heap), NEW p \in DOMAIN lv
  PROVE  Tiling(Insert(list, Block(p - HEADER, lv[p].header)),
                [q \in DOMAIN lv \ {p} |-> lv[q]], heap)
<1> DEFINE b == Block(p - HEADER, lv[p].header)
           rest == [q \in DOMAIN lv \ {p} |-> lv[q]]
<1>1. /\ p \in Nat \ {0} /\ lv[p].header \in Nat /\ lv[p].words \in Nat
      /\ lv[p].header >= 1 + lv[p].words
  BY Zenon DEF Tiling
<1>2. b \in BlockSet /\ b.addr = p - 1 /\ b.size = lv[p].header
  BY <1>1 DEF Block, BlockSet, HEADER
<1>. HIDE DEF b
<1>3. ASSUME NEW w \in Int PROVE Has(b, w) <=> Takes(lv, p, w)
  BY <1>2, Zenon DEF Has, Takes
<1>4. /\ list \in Seq(BlockSet) /\ Once(list)
      /\ \A w \in Int : Has(b, w) => ~Holds(list, w)
  BY <1>3, Zenon DEF Tiling
<1>5. /\ Insert(list, b) \in Seq(BlockSet) /\ Once(Insert(list, b))
      /\ \A w \in Int : Holds(Insert(list, b), w) <=> Holds(list, w) \/ Has(b, w)
  BY <1>2, <1>4, InsertedHolds, Zenon
<1>6. DOMAIN rest = DOMAIN lv \ {p} /\ \A q \in DOMAIN rest : rest[q] = lv[q]
  BY Zenon
<1>. HIDE DEF rest
<1>7. ASSUME NEW q \in DOMAIN rest, NEW w \in Int PROVE Takes(rest, q, w) <=> Takes(lv, q, w)
  BY <1>6, Zenon DEF Takes
<1>8. ASSUME NEW q \in DOMAIN rest
      PROVE  /\ q \in Nat \ {0} /\ rest[q] \in [words : Sizes, header : Nat]
             /\ rest[q].header >= 1 + rest[q].words
  BY <1>6, Zenon DEF Tiling
<1>9. ASSUME NEW q \in DOMAIN rest, NEW r \in DOMAIN rest, NEW w \in Int,
             Takes(rest, q, w), Takes(rest, r, w)
      PROVE  q = r
  BY <1>6, <1>7, <1>9, Zenon DEF Tiling
<1>10. ASSUME NEW q \in DOMAIN rest, NEW w \in Int, Takes(rest, q, w)
       PROVE  ~Holds(Insert(list, b), w)
  <2>1. q \in DOMAIN lv /\ q # p /\ Takes(lv, q, w)
    BY <1>6, <1>7, <1>10, Zenon
  <2>2. ~Holds(list, w) /\ ~Takes(lv, p, w)
    BY <2>1, Zenon DEF Tiling
  <2>. QED BY <1>3, <1>5, <2>2, Zenon
<1>11. ASSUME NEW w \in Int
       PROVE  w \in heap <=> Holds(Insert(list, b), w) \/ \E q \in DOMAIN rest : Takes(rest, q, w)
  <2>1. w \in heap <=> Holds(list, w) \/ \E q \in DOMAIN lv : Takes(lv, q, w)
    BY Zenon DEF Tiling
  <2>2. (\E q \in DOMAIN lv : Takes(lv, q, w)) <=> Has(b, w) \/ \E q \in DOMAIN rest : Takes(rest, q, w)
    BY <1>3, <1>6, <1>7, Zenon
  <2>. QED BY <1>5, <2>1, <2>2, Zenon
<1>. QED BY <1>5, <1>8, <1>9, <1>10, <1>11, Zenon DEF Tiling, b, rest

-----------------------------------------------------------------------------
(* Chunks                                                                  *)

\* The chunk of a word.
LEMMA ChunkOfWord ==
  ASSUME GROW_INCREMENT \in Nat \ {0}, NEW w \in Nat, NEW k \in Nat
  PROVE  /\ w \div GROW_INCREMENT \in Nat
         /\ w \div GROW_INCREMENT >= k <=> w >= k * GROW_INCREMENT
<1> DEFINE G == GROW_INCREMENT
           q == w \div G
<1>1. q \in Nat /\ q * G <= w /\ w < q * G + G
  OBVIOUS
<1>. HIDE DEF q, G
<1>2. G \in Nat \ {0}
  BY Zenon DEF G
<1>3. ASSUME q >= k PROVE w >= k * G
  <2>1. k * G <= q * G
    BY <1>1, <1>2, <1>3
  <2>. QED BY <1>1, <1>2, <2>1
<1>4. ASSUME q < k PROVE w < k * G
  <2>1. (q + 1) * G <= k * G
    BY <1>1, <1>2, <1>4
  <2>2. (q + 1) * G = q * G + G
    BY <1>1, <1>2
  <2>. QED BY <1>1, <1>2, <2>1, <2>2
<1>5. q \in Nat /\ k * G \in Nat
  BY <1>1, <1>2
<1>. QED BY <1>1, <1>3, <1>4, <1>5 DEF q, G

\* The words of some chunks.
ChunkWords(S) == UNION {Words(c * GROW_INCREMENT, GROW_INCREMENT) : c \in S}

\* Chunks have the words whose chunk is among them.
LEMMA WordsOfChunks ==
  ASSUME GROW_INCREMENT \in Nat \ {0}, NEW S \in SUBSET Nat
  PROVE  /\ ChunkWords(S) \subseteq Nat
         /\ \A w \in Nat : w \in ChunkWords(S) <=> w \div GROW_INCREMENT \in S
<1> DEFINE G == GROW_INCREMENT
<1>1. ASSUME NEW c \in Nat
      PROVE  /\ Words(c * G, G) \subseteq Nat
             /\ \A w \in Nat : w \in Words(c * G, G) <=> w \div G = c
  <2>1. c * G \in Nat /\ G \in Nat \ {0} /\ (c + 1) * G = c * G + G
    OBVIOUS
  <2>2. ASSUME NEW w \in Nat PROVE w \in Words(c * G, G) <=> w \div G = c
    <3>1. /\ w \div G \in Nat /\ (w \div G >= c <=> w >= c * G)
          /\ (w \div G >= c + 1 <=> w >= (c + 1) * G)
      BY ChunkOfWord
    <3>. HIDE DEF G
    <3>2. w \in Words(c * G, G) <=> w >= c * G /\ ~(w >= (c + 1) * G)
      BY <2>1 DEF Words
    <3>. QED BY <3>1, <3>2
  <2>3. Words(c * G, G) \subseteq Nat
    BY <2>1 DEF Words
  <2>. QED BY <2>2, <2>3, Zenon
<1>. HIDE DEF G
<1>2. ChunkWords(S) = UNION {Words(c * G, G) : c \in S}
  BY Zenon DEF ChunkWords, G
<1>3. ASSUME NEW w \in Nat PROVE w \in ChunkWords(S) <=> w \div G \in S
  <2>1. w \in ChunkWords(S) <=> \E c \in S : w \in Words(c * G, G)
    BY <1>2, Zenon
  <2>2. \A c \in S : w \in Words(c * G, G) <=> w \div G = c
    BY <1>1, Zenon
  <2>. QED BY <2>1, <2>2, Zenon
<1>. QED BY <1>1, <1>2, <1>3 DEF G

\* A run of chunks is one block.
LEMMA WordsOfRun ==
  ASSUME GROW_INCREMENT \in Nat \ {0}, NEW c \in Nat, NEW n \in Nat \ {0}
  PROVE  LET b == Block(c * GROW_INCREMENT, n * GROW_INCREMENT)
         IN  /\ b \in BlockSet /\ ChunkRun(c, n) \subseteq Nat
             /\ \A w \in Int : w \in ChunkWords(ChunkRun(c, n)) <=> Has(b, w)
<1> DEFINE G == GROW_INCREMENT
           b == Block(c * G, n * G)
<1>1. c * G \in Nat /\ n * G \in Nat \ {0} /\ (c + n) * G = c * G + n * G
  <2>1. n * G >= G
    OBVIOUS
  <2>. QED BY <2>1
<1>2. ChunkRun(c, n) \in SUBSET Nat /\ \A k \in Nat : k \in ChunkRun(c, n) <=> k >= c /\ ~(k >= c + n)
  BY DEF ChunkRun
<1>3. b \in BlockSet /\ b.addr = c * G /\ b.size = n * G
  BY <1>1, Zenon DEF Block, BlockSet
<1>4. ASSUME NEW w \in Int PROVE w \in ChunkWords(ChunkRun(c, n)) <=> Has(b, w)
  <2>1. CASE w \in Nat
    <3>1. w \in ChunkWords(ChunkRun(c, n)) <=> w \div G \in ChunkRun(c, n)
      BY <1>2, <2>1, WordsOfChunks, Zenon
    <3>2. /\ w \div G \in Nat /\ (w \div G >= c <=> w >= c * G)
          /\ (w \div G >= c + n <=> w >= (c + n) * G)
      BY <2>1, ChunkOfWord
    <3>. HIDE DEF G, b
    <3>3. Has(b, w) <=> w >= c * G /\ ~(w >= (c + n) * G)
      BY <1>1, <1>3, <2>1 DEF Has
    <3>. QED BY <1>2, <3>1, <3>2, <3>3, Zenon
  <2>2. CASE w \notin Nat
    <3>1. w \notin ChunkWords(ChunkRun(c, n))
      BY <1>2, <2>2, WordsOfChunks, Zenon
    <3>. HIDE DEF G, b
    <3>. QED BY <1>1, <1>3, <2>2, <3>1 DEF Has
  <2>. QED BY <2>1, <2>2, Zenon
<1>. QED BY <1>2, <1>3, <1>4, Zenon

\* Chunks taken for the heap add their words to it, and their size.
LEMMA ChunksTaken ==
  ASSUME HeapConstants, NEW fc \in SUBSET Chunks, NEW c \in Nat, NEW n \in Nat \ {0},
         ChunkRun(c, n) \subseteq fc
  PROVE  LET old == Chunks \ fc
             new == Chunks \ (fc \ ChunkRun(c, n))
         IN  /\ Cardinality(old) \in Nat /\ Cardinality(new) = Cardinality(old) + n
             /\ ChunkWords(new) = ChunkWords(old) \cup ChunkWords(ChunkRun(c, n))
             /\ ChunkWords(old) \cap ChunkWords(ChunkRun(c, n)) = {}
<1> DEFINE run == ChunkRun(c, n)
           old == Chunks \ fc
           new == Chunks \ (fc \ run)
<1>1. GROW_INCREMENT \in Nat \ {0} /\ IsFiniteSet(Chunks) /\ Chunks \subseteq Nat
  BY Zenon DEF HeapConstants
<1>2. new = old \cup run /\ old \cap run = {}
  BY Zenon
<1>3. old \in SUBSET Nat /\ run \in SUBSET Nat /\ new \in SUBSET Nat
  BY <1>1, Zenon
<1>4. IsFiniteSet(run) /\ Cardinality(run) = n
  <2>1. c \in Int /\ c + n - 1 \in Int /\ ~(c > c + n - 1) /\ (c + n - 1) - c + 1 = n
    OBVIOUS
  <2>2. /\ IsFiniteSet(c .. c + n - 1)
        /\ Cardinality(c .. c + n - 1) = IF c > c + n - 1 THEN 0 ELSE (c + n - 1) - c + 1
    BY <2>1, FS_Interval, Zenon
  <2>. QED BY <2>1, <2>2, Zenon DEF ChunkRun
<1>5. IsFiniteSet(old) /\ Cardinality(old) \in Nat
  BY <1>1, FS_Subset, FS_CardinalityType, Zenon
<1>. HIDE DEF old, run, new
<1>6. Cardinality(old \cup run) = Cardinality(old) + Cardinality(run) - Cardinality(old \cap run)
  BY <1>4, <1>5, FS_Union, Zenon
<1>7. Cardinality(new) = Cardinality(old) + n
  <2>1. Cardinality(old \cap run) = 0
    BY <1>2, FS_EmptySet, Zenon
  <2>. QED BY <1>2, <1>4, <1>5, <1>6, <2>1
<1>8. /\ ChunkWords(old) \subseteq Nat /\ ChunkWords(run) \subseteq Nat /\ ChunkWords(new) \subseteq Nat
      /\ \A w \in Nat : /\ w \in ChunkWords(old) <=> w \div GROW_INCREMENT \in old
                        /\ w \in ChunkWords(run) <=> w \div GROW_INCREMENT \in run
                        /\ w \in ChunkWords(new) <=> w \div GROW_INCREMENT \in new
  BY <1>1, <1>3, WordsOfChunks, Zenon
<1>9. ChunkWords(new) = ChunkWords(old) \cup ChunkWords(run) /\ ChunkWords(old) \cap ChunkWords(run) = {}
  BY <1>2, <1>8, Zenon
<1>. QED BY <1>5, <1>7, <1>9, Zenon DEF old, run, new

\* What grow asks for is at least one chunk.
LEMMA GrowChunksPositive ==
  ASSUME HeapConstants, NEW size \in Sizes
  PROVE  GrowChunks(size) \in Nat \ {0}
<1> DEFINE m == AtLeastMin(size)
<1>1. m \in Nat \ {0} /\ GROW_INCREMENT \in Nat \ {0}
  BY DEF HeapConstants, AtLeastMin
<1>. HIDE DEF m
<1>2. m + GROW_INCREMENT - 1 \in Nat /\ m + GROW_INCREMENT - 1 >= 1 * GROW_INCREMENT
  BY <1>1
<1>. QED BY <1>1, <1>2, ChunkOfWord DEF GrowChunks, m

\* The words of the heap are those of its chunks, tiled.
LEMMA SoundTiles ==
  ASSUME HeapConstants, HeapSound
  PROVE  /\ HeapTypeOK /\ Tiling(free_list, live, HeapWords) /\ HeapWords \in SUBSET Int
         /\ HeapWords = ChunkWords(Chunks \ free_chunks)
<1>1. HeapWords = ChunkWords(Chunks \ free_chunks)
  BY Zenon DEF HeapWords, ChunkWords
<1>2. HeapWords \in SUBSET Int /\ Sizes \subseteq Nat
  BY <1>1, WordsOfChunks DEF HeapConstants
<1>3. free_list \in Seq(BlockSet)
  BY Zenon DEF HeapSound, HeapTypeOK, BlockSet
<1>4. \A p \in DOMAIN live : p \in Nat \ {0} /\ live[p] \in [words : Sizes, header : Nat]
  BY Zenon DEF HeapSound, HeapTypeOK
<1>. QED BY <1>1, <1>2, <1>3, <1>4, TilingSets, Zenon
         DEF HeapSound, NoOverlap, Conservation, FreeWords, BlockWords, LiveWords

\* And back, after a step.
LEMMA TilesSound ==
  ASSUME HeapConstants, HeapTypeOK', Tiling(free_list', live', HeapWords')
  PROVE  HeapSound'
<1>1. HeapWords' = ChunkWords(Chunks \ free_chunks')
  BY Zenon DEF HeapWords, ChunkWords
<1>2. HeapWords' \in SUBSET Int /\ Sizes \subseteq Nat
  BY <1>1, WordsOfChunks DEF HeapConstants
<1>3. free_list' \in Seq(BlockSet)
  BY Zenon DEF HeapTypeOK, BlockSet
<1>4. \A p \in DOMAIN live' : p \in Nat \ {0} /\ live'[p] \in [words : Sizes, header : Nat]
  BY Zenon DEF HeapTypeOK
<1>. QED BY <1>1, <1>2, <1>3, <1>4, TilingSets, Zenon
         DEF HeapSound, NoOverlap, Conservation, FreeWords, BlockWords, LiveWords

\* What Tiling says of the types.
LEMMA TilingTypes ==
  ASSUME Tiling(free_list', live', HeapWords'), allocated_bytes' \in Nat, free_chunks' \subseteq Chunks,
         total_size' = Cardinality(Chunks \ free_chunks') * GROW_INCREMENT
  PROVE  HeapTypeOK'
BY Zenon DEF Tiling, HeapTypeOK, BlockSet

-----------------------------------------------------------------------------
(* The steps                                                               *)

\* The heap of heap::init: one free block.
LEMMA EmptyHeapSound ==
  ASSUME HeapConstants, HeapInit
  PROVE  HeapSound
<1>1. PICK c \in Chunks :
        /\ ChunkRun(c, HEAP_CHUNKS) \subseteq Chunks
        /\ free_list = <<Block(c * GROW_INCREMENT, HEAP_CHUNKS * GROW_INCREMENT)>>
        /\ free_chunks = Chunks \ ChunkRun(c, HEAP_CHUNKS)
  BY Zenon DEF HeapInit
<1> DEFINE b == Block(c * GROW_INCREMENT, HEAP_CHUNKS * GROW_INCREMENT)
           run == ChunkRun(c, HEAP_CHUNKS)
<1>2. c \in Nat /\ HEAP_CHUNKS \in Nat \ {0} /\ GROW_INCREMENT \in Nat \ {0} /\ Sizes \subseteq Nat
  BY Zenon DEF HeapConstants
<1>3. b \in BlockSet /\ \A w \in Int : w \in ChunkWords(run) <=> Has(b, w)
  BY <1>2, WordsOfRun, Zenon
<1>4. ChunkWords(run) \in SUBSET Int
  BY <1>1, <1>2, WordsOfChunks DEF HeapConstants
<1>5. Chunks \ free_chunks = run /\ free_chunks \subseteq Chunks
  BY <1>1, Zenon
<1>6. HeapWords = ChunkWords(run)
  BY <1>5, Zenon DEF HeapWords, ChunkWords
<1>7. live = <<>> /\ DOMAIN live = {} /\ allocated_bytes = 0
  BY DEF HeapInit
<1>. HIDE DEF b, run
<1>8. free_list = <<b>>
  BY <1>1, Zenon DEF b
<1>9. free_list \in Seq(BlockSet) /\ Len(free_list) = 1 /\ free_list[1] = b
  BY <1>3, <1>8
<1>10. Once(free_list) /\ \A w \in Int : Holds(free_list, w) <=> Has(b, w)
  BY <1>9 DEF Once, Holds
<1>11. Tiling(free_list, live, HeapWords)
  BY <1>3, <1>6, <1>7, <1>9, <1>10, Zenon DEF Tiling
<1>12. total_size = Cardinality(Chunks \ free_chunks) * GROW_INCREMENT
  <2>1. Cardinality(run) = HEAP_CHUNKS
    <3>1. Chunks \in SUBSET Chunks /\ ChunkRun(c, HEAP_CHUNKS) \subseteq Chunks
      BY <1>1, Zenon
    <3>2. Cardinality(Chunks \ (Chunks \ ChunkRun(c, HEAP_CHUNKS))) = Cardinality(Chunks \ Chunks) + HEAP_CHUNKS
      BY <1>2, <3>1, ChunksTaken, Zenon
    <3>3. Chunks \ (Chunks \ ChunkRun(c, HEAP_CHUNKS)) = run /\ Chunks \ Chunks = {}
      BY <3>1, Zenon DEF run
    <3>. QED BY <1>2, <3>2, <3>3, FS_EmptySet
  <2>. QED BY <1>5, <2>1, Zenon DEF HeapInit
<1>13. HeapTypeOK
  BY <1>5, <1>7, <1>9, <1>12, Zenon DEF HeapTypeOK, BlockSet
<1>. QED BY <1>2, <1>4, <1>6, <1>7, <1>9, <1>11, <1>13, TilingSets
         DEF HeapSound, NoOverlap, Conservation, FreeWords, BlockWords, LiveWords

\* The statistics stay a number.
LEMMA BytesNatural ==
  ASSUME HeapConstants, HeapTypeOK, NEW list \in Seq(BlockSet), NEW size \in Sizes, NEW align \in Aligns,
         try_allocate(list, size, align)
  PROVE  allocated_bytes' \in Nat
<1>1. PICK i \in DOMAIN list : allocated_bytes' = allocated_bytes + TotalNeeded(list[i], size, align)
  BY Zenon DEF try_allocate
<1>2. list[i].addr \in Nat
  BY ElementOfSeq, BlockFacts, LenProperties
<1>3. TotalNeeded(list[i], size, align) \in Nat
  BY <1>2 DEF HeapConstants, TotalNeeded, AtLeastMin, AlignedStart, AlignUp, HEADER
<1>. QED BY <1>1, <1>3 DEF HeapTypeOK

\* A block fits.
LEMMA FitsKeeps ==
  ASSUME HeapConstants, HeapSound, NEW size \in Sizes, NEW align \in Aligns,
         allocate_fits(size, align)
  PROVE  HeapSound'
<1>1. HeapTypeOK /\ Tiling(free_list, live, HeapWords)
  BY SoundTiles, Zenon
<1>2. try_allocate(free_list, size, align) /\ total_size' = total_size /\ free_chunks' = free_chunks
  BY Zenon DEF allocate_fits
<1>3. HeapWords' = HeapWords
  BY <1>2, Zenon DEF HeapWords
<1>4. Tiling(free_list', live', HeapWords')
  BY <1>1, <1>2, <1>3, Allocated, Zenon
<1>5. allocated_bytes' \in Nat
  BY <1>1, <1>2, BytesNatural, Zenon DEF Tiling
<1>6. HeapTypeOK'
  BY <1>1, <1>2, <1>4, <1>5, TilingTypes, Zenon DEF HeapTypeOK
<1>. QED BY <1>4, <1>6, TilesSound, Zenon

\* The heap grows, and the second attempt may fail all the same.
LEMMA GrowsKeeps ==
  ASSUME HeapConstants, HeapSound, NEW size \in Sizes, NEW align \in Aligns,
         allocate_grows(size, align)
  PROVE  HeapSound'
<1> DEFINE n == GrowChunks(size)
<1>1. PICK c \in free_chunks :
        LET grown == Insert(free_list, Block(c * GROW_INCREMENT, n * GROW_INCREMENT)) IN
        /\ ChunkRun(c, n) \subseteq free_chunks
        /\ free_chunks' = free_chunks \ ChunkRun(c, n)
        /\ total_size' = total_size + n * GROW_INCREMENT
        /\ \/ try_allocate(grown, size, align)
           \/ /\ free_list' = grown
              /\ UNCHANGED <<live, allocated_bytes>>
  BY Zenon DEF allocate_grows
<1> DEFINE b == Block(c * GROW_INCREMENT, n * GROW_INCREMENT)
           grown == Insert(free_list, b)
           run == ChunkRun(c, n)
<1>2. /\ HeapTypeOK /\ Tiling(free_list, live, HeapWords) /\ HeapWords \in SUBSET Int
      /\ HeapWords = ChunkWords(Chunks \ free_chunks)
  BY SoundTiles, Zenon
<1>3. n \in Nat \ {0} /\ c \in Nat /\ GROW_INCREMENT \in Nat \ {0} /\ free_chunks \in SUBSET Chunks
  BY <1>2, GrowChunksPositive, Zenon DEF HeapConstants, HeapTypeOK
<1>. HIDE DEF n
<1>4. /\ Cardinality(Chunks \ free_chunks) \in Nat
      /\ Cardinality(Chunks \ free_chunks') = Cardinality(Chunks \ free_chunks) + n
      /\ ChunkWords(Chunks \ free_chunks') = HeapWords \cup ChunkWords(run)
      /\ HeapWords \cap ChunkWords(run) = {}
  BY <1>1, <1>2, <1>3, ChunksTaken, Zenon
<1>5. b \in BlockSet /\ run \subseteq Nat /\ \A w \in Int : w \in ChunkWords(run) <=> Has(b, w)
  BY <1>3, WordsOfRun, Zenon
<1>6. ChunkWords(run) \in SUBSET Int
  BY <1>3, <1>5, WordsOfChunks
<1>7. HeapWords' = HeapWords \cup ChunkWords(run)
  BY <1>4, Zenon DEF HeapWords, ChunkWords
<1>. HIDE DEF b, run
<1>8. Tiling(grown, live, HeapWords')
  BY <1>2, <1>4, <1>5, <1>6, <1>7, Grown
<1>9. \/ try_allocate(grown, size, align)
      \/ free_list' = grown /\ live' = live /\ allocated_bytes' = allocated_bytes
  BY <1>1, Zenon DEF b
<1>10. grown \in Seq(BlockSet)
  BY <1>8, Zenon DEF Tiling
<1>. HIDE DEF grown
<1>11. Tiling(free_list', live', HeapWords') /\ allocated_bytes' \in Nat
  <2>1. CASE try_allocate(grown, size, align)
    BY <1>2, <1>8, <1>10, <2>1, Allocated, BytesNatural, Zenon
  <2>2. CASE free_list' = grown /\ live' = live /\ allocated_bytes' = allocated_bytes
    BY <1>2, <1>8, <2>2, Zenon DEF HeapTypeOK
  <2>. QED BY <1>9, <2>1, <2>2, Zenon
<1>12. total_size' = Cardinality(Chunks \ free_chunks') * GROW_INCREMENT
  <2>1. total_size = Cardinality(Chunks \ free_chunks) * GROW_INCREMENT
    BY <1>2, Zenon DEF HeapTypeOK
  <2>. QED BY <1>1, <1>3, <1>4, <2>1
<1>13. free_chunks' \subseteq Chunks
  BY <1>1, <1>3, Zenon
<1>14. HeapTypeOK'
  BY <1>11, <1>12, <1>13, TilingTypes, Zenon
<1>. QED BY <1>11, <1>14, TilesSound, Zenon

\* An allocation is freed.
LEMMA DeallocateKeeps ==
  ASSUME HeapConstants, HeapSound, NEW p \in DOMAIN live, deallocate(p)
  PROVE  HeapSound'
<1>1. HeapTypeOK /\ Tiling(free_list, live, HeapWords)
  BY SoundTiles, Zenon
<1>2. /\ free_list' = Insert(free_list, Block(p - HEADER, live[p].header))
      /\ live' = [q \in DOMAIN live \ {p} |-> live[q]]
      /\ total_size' = total_size /\ free_chunks' = free_chunks
  BY Zenon DEF deallocate
<1>3. HeapWords' = HeapWords
  BY <1>2, Zenon DEF HeapWords
<1>4. Tiling(free_list', live', HeapWords')
  BY <1>1, <1>2, <1>3, Freed, Zenon DEF HeapConstants
<1>5. allocated_bytes' \in Nat
  <2>1. allocated_bytes \in Nat /\ live[p].header \in Nat
    BY <1>1, Zenon DEF HeapTypeOK
  <2>. QED BY <2>1 DEF deallocate
<1>6. HeapTypeOK'
  BY <1>1, <1>2, <1>4, <1>5, TilingTypes, Zenon DEF HeapTypeOK
<1>. QED BY <1>4, <1>6, TilesSound, Zenon

\* For every memory and every word-aligned layout: free blocks and allocations
\* never overlap, an allocation has the words it asked for, and no word of the
\* heap is lost, whatever is split, coalesced and grown in whatever order.
THEOREM HeapIsSound == HeapSpec => []HeapSound
<1>. USE HeapAssumption
<1>1. HeapInit => HeapSound
  BY EmptyHeapSound, Zenon
<1>2. HeapSound /\ [HeapNext]_heapVars => HeapSound'
  <2>1. ASSUME HeapSound, UNCHANGED heapVars PROVE HeapSound'
    <3>1. HeapTypeOK /\ Tiling(free_list, live, HeapWords)
      BY <2>1, SoundTiles, Zenon
    <3>2. HeapTypeOK' /\ HeapWords' = HeapWords /\ free_list' = free_list /\ live' = live
      BY <2>1, <3>1, Zenon DEF heapVars, HeapTypeOK, HeapWords
    <3>. QED BY <3>1, <3>2, TilesSound, Zenon
  <2>2. ASSUME HeapSound, NEW size \in Sizes, NEW align \in Aligns, allocate_fails(size, align)
        PROVE  HeapSound'
    BY <2>1, <2>2, Zenon DEF allocate_fails
  <2>. QED BY <2>1, <2>2, FitsKeeps, GrowsKeeps, DeallocateKeeps, Zenon DEF HeapNext
<1>. QED BY <1>1, <1>2, PTL DEF HeapSpec
=============================================================================
