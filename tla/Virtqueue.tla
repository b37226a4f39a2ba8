------------------------------ MODULE Virtqueue ------------------------------
(***************************************************************************)
(* The split virtqueue of hal/virtio.rs, shared by the block and the       *)
(* network driver: descriptor table with its free list threaded through    *)
(* `next', available ring, used ring.  A queue is a record; the operators  *)
(* below are the methods of Virtqueue (they return the queue afterwards)   *)
(* and what the device does to the rings.                                  *)
(*                                                                         *)
(* Ring indices are u16 in the code and wrap; they wrap at WRAP here, a    *)
(* multiple of every queue size, as 65536 is of the powers of two a        *)
(* device may report.                                                      *)
(***************************************************************************)
EXTENDS Naturals, Sequences

CONSTANT WRAP

ASSUME WrapAssumption == WRAP \in Nat /\ WRAP > 1

Slots(q) == 0..(q.size - 1)

\* The queues of n descriptors, of buffers at Addrs.
Queues(n, Addrs) ==
    [size : {n},
     desc : [0..(n - 1) -> [addr : Addrs,
                            flags : SUBSET {"NEXT", "WRITE"}, next : 0..(n - 1)]],
     free_head : 0..(n - 1), num_free : 0..n, last_used_idx : 0..(WRAP - 1),
     avail : [0..(n - 1) -> 0..(n - 1)], avail_idx : 0..(WRAP - 1),
     used : [0..(n - 1) -> [id : 0..(n - 1), len : Nat]], used_idx : 0..(WRAP - 1),
     seen : 0..(WRAP - 1), busy : SUBSET (0..(n - 1))]

\* Virtqueue::new on zeroed memory: every descriptor free, the free list
\* threaded through next; `seen' and `busy' are the device's own state: how
\* far it has read the available ring, and the heads it is working on.
new(size) ==
    [size |-> size,
     desc |-> [i \in 0..(size - 1) |->
                  [addr |-> "none", flags |-> {},
                   next |-> IF i + 1 < size THEN i + 1 ELSE 0]],
     free_head |-> 0, num_free |-> size, last_used_idx |-> 0,
     avail |-> [i \in 0..(size - 1) |-> 0], avail_idx |-> 0,
     used |-> [i \in 0..(size - 1) |-> [id |-> 0, len |-> 0]], used_idx |-> 0,
     seen |-> 0, busy |-> {}]

\* alloc_desc: the descriptor it returns is q.free_head; the caller tests
\* num_free first.
alloc_desc(q) == [q EXCEPT !.free_head = q.desc[q.free_head].next, !.num_free = @ - 1]

free_desc(q, i) == [q EXCEPT !.desc[i] = [@ EXCEPT !.next = q.free_head, !.flags = {}],
                             !.free_head = i, !.num_free = @ + 1]

\* The descriptors of a chain, in order: from the head along next as long as
\* NEXT says there is one.
Walk(q, head) ==
    LET at[k \in 1..q.size] == IF k = 1 THEN head ELSE q.desc[at[k - 1]].next IN at
HasNext(q, i) == "NEXT" \in q.desc[i].flags
ChainLength(q, head) ==
    CHOOSE n \in 1..q.size : /\ ~HasNext(q, Walk(q, head)[n])
                             /\ \A k \in 1..(n - 1) : HasNext(q, Walk(q, head)[k])
Chain(q, head) == {Walk(q, head)[k] : k \in 1..ChainLength(q, head)}

\* free_chain: free_desc of each, flags and next read before it overwrites
\* them; so the last one of the chain ends up in front.
free_chain(q, head) ==
    LET n == ChainLength(q, head)
        freed[k \in 0..n] == IF k = 0 THEN q ELSE free_desc(freed[k - 1], Walk(q, head)[k])
    IN  freed[n]

Described(q, i, addr, flags, next) ==
    [q EXCEPT !.desc[i] = [addr |-> addr, flags |-> flags, next |-> next]]

\* submit, in the two halves the release fence separates: the ring slot,
\* then the index the device looks at.
RingWritten(q, head) == [q EXCEPT !.avail[q.avail_idx % q.size] = head]
Published(q) == [q EXCEPT !.avail_idx = (@ + 1) % WRAP]
submit(q, head) == Published(RingWritten(q, head))

\* poll_used: nothing new when the indices agree; otherwise the element the
\* driver takes, and the queue with last_used_idx advanced.
HasUsed(q) == q.last_used_idx # q.used_idx
UsedElem(q) == q.used[q.last_used_idx % q.size]
poll_used(q) == [q EXCEPT !.last_used_idx = (@ + 1) % WRAP]

\* The device: it takes the next head off the available ring, and returns a
\* head it is working on through the used ring.
CanTake(q) == q.seen # q.avail_idx
Taken(q) == [q EXCEPT !.seen = (@ + 1) % WRAP, !.busy = @ \cup {q.avail[q.seen % q.size]}]
Used(q, head, len) == [q EXCEPT !.busy = @ \ {head},
                                !.used[q.used_idx % q.size] = [id |-> head, len |-> len],
                                !.used_idx = (@ + 1) % WRAP]

\* F are the free descriptors: alloc_desc hands them out in some order, each
\* once, linked by next from free_head.
FreeList(q, F) ==
    \E s \in [1..q.num_free -> Slots(q)] :
        /\ \A j, k \in 1..q.num_free : s[j] = s[k] => j = k
        /\ q.num_free > 0 => s[1] = q.free_head
        /\ \A k \in 1..(q.num_free - 1) : q.desc[s[k]].next = s[k + 1]
        /\ F = {s[k] : k \in 1..q.num_free}

\* Heads handed to the device and not yet taken back by the driver.
Waiting(q) == {q.avail[i % q.size] : i \in {j \in 0..(WRAP - 1) :
                   (j - q.seen + WRAP) % WRAP < (q.avail_idx - q.seen + WRAP) % WRAP}}
Unread(q) == {q.used[i % q.size].id : i \in {j \in 0..(WRAP - 1) :
                   (j - q.last_used_idx + WRAP) % WRAP
                       < (q.used_idx - q.last_used_idx + WRAP) % WRAP}}
=============================================================================
