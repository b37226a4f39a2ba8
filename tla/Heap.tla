-------------------------------- MODULE Heap --------------------------------
(***************************************************************************)
(* The kernel heap (kernel/src/memory/heap.rs): a first-fit free list with *)
(* a one-word header before every allocation, which grows by contiguous    *)
(* frames.  Every operation runs under the ALLOCATOR lock, so it is one    *)
(* action.  The unit of addresses and sizes is the 8-byte word: block      *)
(* addresses and total_needed are multiples of it.                         *)
(*                                                                         *)
(* free_list is the linked list in list order.  live maps the pointer of   *)
(* every allocation to the words its owner may use and to the size stored  *)
(* in its header.  Physical memory is a row of chunks of GROW_INCREMENT    *)
(* words; allocate_contiguous_frames may return any free run of them.      *)
(***************************************************************************)
EXTENDS Integers, FiniteSets, Sequences

CONSTANTS MIN_SIZE,        \* words of a FreeBlock
          GROW_INCREMENT,  \* words of a chunk
          HEAP_CHUNKS,     \* chunks of the initial heap
          Chunks,          \* chunks of physical memory
          Sizes,           \* layout sizes, in words
          Aligns           \* layout alignments, in words (1: up to 8 bytes)

\* The layouts are those the kernel asks for: none is aligned to more than a
\* word.
HeapConstants ==
  /\ {MIN_SIZE, GROW_INCREMENT, HEAP_CHUNKS} \subseteq Nat \ {0}
  /\ IsFiniteSet(Chunks) /\ Chunks \subseteq Nat
  /\ Sizes \subseteq Nat
  /\ Aligns = {1}

ASSUME HeapAssumption == HeapConstants

VARIABLES free_list, total_size, allocated_bytes, live, free_chunks

heapVars == <<free_list, total_size, allocated_bytes, live, free_chunks>>

HEADER == 1

Block(addr, size) == [addr |-> addr, size |-> size]

ChunkRun(c, n) == c .. c + n - 1

\* heap::init: the frames of the initial heap are one free block.
HeapInit ==
  /\ \E c \in Chunks :
       /\ ChunkRun(c, HEAP_CHUNKS) \subseteq Chunks
       /\ free_list = <<Block(c * GROW_INCREMENT, HEAP_CHUNKS * GROW_INCREMENT)>>
       /\ free_chunks = Chunks \ ChunkRun(c, HEAP_CHUNKS)
  /\ total_size = HEAP_CHUNKS * GROW_INCREMENT
  /\ allocated_bytes = 0
  /\ live = <<>>

-----------------------------------------------------------------------------
(* try_allocate                                                            *)

AlignUp(a, align) == ((a + align - 1) \div align) * align

AtLeastMin(size) == IF size > MIN_SIZE THEN size ELSE MIN_SIZE

\* The pointer that block b would yield, and the words of b it uses up.
AlignedStart(b, align) == AlignUp(b.addr + HEADER, align)

\* Mutant: the header is not counted.
TotalNeeded_no_header(b, size, align) ==
  AlignedStart(b, align) - HEADER - b.addr + AtLeastMin(size)

TotalNeeded(b, size, align) == AlignedStart(b, align) - b.addr + AtLeastMin(size)

IsFirstFit(list, i, size, align) ==
  /\ list[i].size >= TotalNeeded(list[i], size, align)
  /\ \A j \in 1 .. i - 1 : list[j].size < TotalNeeded(list[j], size, align)

NoFit(list, size, align) ==
  \A i \in DOMAIN list : list[i].size < TotalNeeded(list[i], size, align)

Splits(b, needed) == b.size - needed > 2 * MIN_SIZE

\* Mutant: a whole block is handed out, its header records what was asked for.
HeaderValue_asked(b, needed) == needed

HeaderValue(b, needed) == IF Splits(b, needed) THEN needed ELSE b.size

\* Block i is taken out of the list; block b is put in at place n.
Unlink(list, i) == SubSeq(list, 1, i - 1) \o SubSeq(list, i + 1, Len(list))
Link(list, n, b) == SubSeq(list, 1, n - 1) \o <<b>> \o SubSeq(list, n, Len(list))

\* Block i of list is taken; what a split leaves becomes the new head.
Taken(list, i, needed) ==
  (IF Splits(list[i], needed)
   THEN <<Block(list[i].addr + needed, list[i].size - needed)>> ELSE <<>>)
  \o Unlink(list, i)

\* try_allocate from list succeeds.
try_allocate(list, size, align) ==
  \E i \in DOMAIN list :
    LET needed == TotalNeeded(list[i], size, align) IN
    /\ IsFirstFit(list, i, size, align)
    /\ free_list' = Taken(list, i, needed)
    /\ live' = [p \in DOMAIN live \cup {AlignedStart(list[i], align)} |->
                  IF p = AlignedStart(list[i], align)
                  THEN [words |-> size, header |-> HeaderValue(list[i], needed)]
                  ELSE live[p]]
    /\ allocated_bytes' = allocated_bytes + needed

-----------------------------------------------------------------------------
(* Putting a block into the list: grow and deallocate                      *)

\* The position before the first block with a higher address.
InsertPosition(list, addr) ==
  CHOOSE n \in 1 .. Len(list) + 1 :
    /\ n <= Len(list) => list[n].addr > addr
    /\ \A j \in 1 .. n - 1 : list[j].addr <= addr

\* Block n absorbs the next one in the list if that one is adjacent.
Coalesce(list, n) ==
  IF n \in 1 .. Len(list) - 1 /\ list[n].addr + list[n].size = list[n + 1].addr
  THEN Unlink([list EXCEPT ![n].size = @ + list[n + 1].size], n + 1)
  ELSE list

Insert(list, b) ==
  LET n == InsertPosition(list, b.addr) IN
  Coalesce(Coalesce(Link(list, n, b), n), n - 1)

\* The chunks grow asks for: the size rounded up to the increment.
GrowChunks(size) == (AtLeastMin(size) + GROW_INCREMENT - 1) \div GROW_INCREMENT

-----------------------------------------------------------------------------
(* allocate                                                                *)

allocate_fits(size, align) ==
  /\ try_allocate(free_list, size, align)
  /\ UNCHANGED <<total_size, free_chunks>>

\* No block fits: grow, then try once more.
allocate_grows(size, align) ==
  \E c \in free_chunks :
    LET n == GrowChunks(size)
        grown == Insert(free_list, Block(c * GROW_INCREMENT, n * GROW_INCREMENT)) IN
    /\ NoFit(free_list, size, align)
    /\ ChunkRun(c, n) \subseteq free_chunks
    /\ free_chunks' = free_chunks \ ChunkRun(c, n)
    /\ total_size' = total_size + n * GROW_INCREMENT
    /\ \/ try_allocate(grown, size, align)
       \/ /\ NoFit(grown, size, align)
          /\ free_list' = grown
          /\ UNCHANGED <<live, allocated_bytes>>

\* Neither a block nor frames: a null pointer, nothing changed.
allocate_fails(size, align) ==
  /\ NoFit(free_list, size, align)
  /\ \A c \in free_chunks : ~(ChunkRun(c, GrowChunks(size)) \subseteq free_chunks)
  /\ UNCHANGED heapVars

-----------------------------------------------------------------------------
\* The block that is put back starts at the header and has the size found
\* there; allocated_bytes saturates at zero.
deallocate(p) ==
  /\ free_list' = Insert(free_list, Block(p - HEADER, live[p].header))
  /\ live' = [q \in DOMAIN live \ {p} |-> live[q]]
  /\ allocated_bytes' = IF allocated_bytes > live[p].header
                        THEN allocated_bytes - live[p].header ELSE 0
  /\ UNCHANGED <<total_size, free_chunks>>

HeapNext ==
  \/ \E size \in Sizes, align \in Aligns : allocate_fits(size, align)
  \/ \E size \in Sizes, align \in Aligns : allocate_grows(size, align)
  \/ \E size \in Sizes, align \in Aligns : allocate_fails(size, align)
  \/ \E p \in DOMAIN live : deallocate(p)

HeapSpec == HeapInit /\ [][HeapNext]_heapVars

-----------------------------------------------------------------------------
(* Properties                                                              *)

Words(first, size) == first .. first + size - 1

HeapWords == UNION {Words(c * GROW_INCREMENT, GROW_INCREMENT) : c \in Chunks \ free_chunks}

\* The words a free block covers, those taken for an allocation, and those the
\* allocation needs intact (its header and what its owner may write).
FreeWords(i) == Words(free_list[i].addr, free_list[i].size)
BlockWords(p) == Words(p - HEADER, live[p].header)
LiveWords(p) == Words(p - HEADER, HEADER + live[p].words)

\* Type invariant; total_size is that of the chunks the heap has taken.
HeapTypeOK ==
  /\ free_list \in Seq([addr : Nat, size : Nat \ {0}])
  /\ allocated_bytes \in Nat
  /\ \A p \in DOMAIN live : p \in Nat \ {0} /\ live[p] \in [words : Sizes, header : Nat]
  /\ free_chunks \subseteq Chunks
  /\ total_size = Cardinality(Chunks \ free_chunks) * GROW_INCREMENT

\* Memory safety: free blocks and allocations never overlap, and an allocation
\* has the words it asked for, whatever is split, coalesced and grown.  (The
\* links of the list live inside the free blocks: an overlap would corrupt
\* them.)
NoOverlap ==
  /\ \A i, j \in DOMAIN free_list : i # j => FreeWords(i) \cap FreeWords(j) = {}
  /\ \A p, q \in DOMAIN live : p # q => BlockWords(p) \cap BlockWords(q) = {}
  /\ \A i \in DOMAIN free_list, p \in DOMAIN live : FreeWords(i) \cap BlockWords(p) = {}
  /\ \A p \in DOMAIN live : LiveWords(p) \subseteq BlockWords(p)

\* No memory is lost, and none is made up: every word of the heap is free or
\* accounted for in the header of a live allocation, and no other word is, so
\* that freeing everything frees the whole heap.
Conservation ==
  HeapWords = (UNION {FreeWords(i) : i \in DOMAIN free_list})
                \cup (UNION {BlockWords(p) : p \in DOMAIN live})

\* All of it: allocated and free blocks never overlap, and together are the heap.
HeapSound == HeapTypeOK /\ NoOverlap /\ Conservation

-----------------------------------------------------------------------------
(* What comments of the code say                                           *)

\* "Free blocks form a linked list sorted by address."
SortedByAddress ==
  \A i \in 1 .. Len(free_list) - 1 : free_list[i].addr < free_list[i + 1].addr

\* "Currently allocated bytes (for statistics)": never 0 while something is
\* allocated.
AllocatedBytesCounted == allocated_bytes = 0 => live = <<>>

\* "If no block is large enough, tries to grow the heap first": a heap that
\* could grow serves the request.
GrowthServes == [][total_size' > total_size => live' # live]_heapVars
=============================================================================
