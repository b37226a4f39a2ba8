------------------------------ MODULE VirtioBlk ------------------------------
(***************************************************************************)
(* The block driver (hal/virtio_blk.rs): tasks call read_sectors and       *)
(* write_sectors, which take the VIRTIO_BLK lock and send one request per  *)
(* sector through one page of request memory and a virtqueue; the device   *)
(* answers in its own time and may report an error.                        *)
(*                                                                         *)
(* A sector is a pair of halves.  The request page is modelled by its      *)
(* cells: the header, the status byte, and the quarter-pages at 256, 512   *)
(* and 768: a write is staged at 256..767 and a read arrives at 512..1023, *)
(* so the two share the cell at 512.                                       *)
(***************************************************************************)
EXTENDS Virtqueue

CONSTANTS Tasks,        \* tasks that use the disk
          CAPACITY,     \* sectors of the disk
          Values,       \* half-sector contents
          QueueSizes,   \* queue sizes a device may report
          MAX_COUNT,    \* longest transfer, in sectors
          CALLS         \* bound: calls in a behaviour

ASSUME BlkAssumption == /\ "free" \notin Tasks
                        /\ CAPACITY \in Nat /\ MAX_COUNT \in Nat /\ CALLS \in Nat
                        /\ QueueSizes \subseteq Nat \ {0}

VARIABLES vq,           \* the request queue
          page,         \* the request page: header, status, c256, c512, c768
          disk,         \* what the device holds
          lock,         \* holder of VIRTIO_BLK, or "free"
          call,         \* what each task is doing
          calls

blkVars == <<vq, page, disk, lock, call, calls>>

Idle == [pc |-> "idle"]

BlkInit ==
    /\ \E n \in QueueSizes : vq = new(n)
    /\ page = [type |-> "IN", sector |-> 0, status |-> 0, c256 |-> 0, c512 |-> 0, c768 |-> 0]
    /\ disk = [s \in 0..(CAPACITY - 1) |-> <<0, 0>>]
    /\ lock = "free" /\ call = [t \in Tasks |-> Idle] /\ calls = 0

\* read_sectors / write_sectors up to the lock.  The callers' buffers hold
\* count sectors, so the length test never refuses.
Call(t) == /\ call[t].pc = "idle" /\ calls < CALLS
           /\ calls' = calls + 1
           /\ \E op \in {"IN", "OUT"}, lba \in 0..(CAPACITY - 1), count \in 1..MAX_COUNT,
                 v \in Values \ {0} :
                 call' = [call EXCEPT ![t] =
                     [pc |-> "lock", op |-> op, lba |-> lba, count |-> count, i |-> 0, d0 |-> 0,
                      buf |-> [k \in 0..(count - 1) |-> IF op = "IN" THEN <<0, 0>> ELSE <<v, k>>]]]
           /\ UNCHANGED <<vq, page, disk, lock>>

Goto(t, pc) == call' = [call EXCEPT ![t].pc = pc]

\* The lock, then the capacity test.
Locked(t) == /\ call[t].pc = "lock" /\ lock = "free" /\ lock' = t
             /\ Goto(t, IF call[t].lba + call[t].count > CAPACITY THEN "failed" ELSE "request")
             /\ UNCHANGED <<vq, page, disk, calls>>

\* The three descriptors of a request; when there are fewer, the ones taken
\* go back.
Allocated(q) == alloc_desc(alloc_desc(alloc_desc(q)))
Backed(q) == CASE q.num_free = 0 -> q
               [] q.num_free = 1 -> free_desc(alloc_desc(q), q.free_head)
               [] q.num_free = 2 -> free_desc(free_desc(alloc_desc(alloc_desc(q)), q.free_head),
                                              q.desc[q.free_head].next)

ChainBuilt(q, op) ==
    LET d0 == q.free_head
        d1 == q.desc[d0].next
        d2 == q.desc[d1].next
        a  == Described(Allocated(q), d0, "header", {"NEXT"}, d1)
        b  == Described(a, d1, IF op = "IN" THEN "c512" ELSE "c256",
                        IF op = "IN" THEN {"NEXT", "WRITE"} ELSE {"NEXT"}, d2)
    IN  Described(b, d2, "status", {"WRITE"}, 0)

\* Mutant: only the first sector is copied to the page.
Staged_reads(p, c) == [p EXCEPT !.type = c.op, !.sector = c.lba + c.i, !.status = 255,
                                !.c256 = IF c.i = 0 THEN c.buf[0][1] ELSE @,
                                !.c512 = IF c.i = 0 THEN c.buf[0][2] ELSE @]

\* What a request puts in the page: the staged sector of a write, the header,
\* status 0xFF.
Staged(p, c) ==
    LET h == [p EXCEPT !.type = c.op, !.sector = c.lba + c.i, !.status = 255]
    IN  IF c.op = "OUT" THEN [h EXCEPT !.c256 = c.buf[c.i][1], !.c512 = c.buf[c.i][2]] ELSE h

\* do_request (a read) and write_sectors' loop body with do_request_raw (a
\* write), up to the index the device looks at.
Request(t) ==
    /\ call[t].pc = "request"
    /\ page' = Staged(page, call[t])
    /\ IF vq.num_free < 3
       THEN vq' = Backed(vq) /\ Goto(t, "failed")
       ELSE /\ vq' = RingWritten(ChainBuilt(vq, call[t].op), vq.free_head)
            /\ call' = [call EXCEPT ![t].pc = "publish", ![t].d0 = vq.free_head]
    /\ UNCHANGED <<disk, lock, calls>>

Publish(t) == /\ call[t].pc = "publish" /\ vq' = Published(vq) /\ Goto(t, "wait")
              /\ UNCHANGED <<page, disk, lock, calls>>

\* wait_used, the status test, the copy out of the staging cells, free_chain;
\* then the next sector of the loop, or the end of it.
Finish(t) ==
    /\ call[t].pc = "wait" /\ HasUsed(vq)
    /\ vq' = free_chain(poll_used(vq), call[t].d0)
    /\ IF page.status # 0 THEN Goto(t, "failed")
       ELSE call' = [call EXCEPT
              ![t].buf[call[t].i] = IF call[t].op = "IN" THEN <<page.c512, page.c768>> ELSE @,
              ![t].i = @ + 1,
              ![t].pc = IF call[t].i + 1 < call[t].count THEN "request" ELSE "done"]
    /\ UNCHANGED <<page, disk, lock, calls>>

\* Mutant: an error leaves without unlocking.
Return_locked(t) == /\ call[t].pc \in {"done", "failed"}
                    /\ call' = [call EXCEPT ![t] = Idle]
                    /\ lock' = IF call[t].pc = "done" THEN "free" ELSE lock
                    /\ UNCHANGED <<vq, page, disk, calls>>

\* The call returns and the guard of the lock is dropped.
Return(t) == /\ call[t].pc \in {"done", "failed"}
             /\ call' = [call EXCEPT ![t] = Idle] /\ lock' = "free"
             /\ UNCHANGED <<vq, page, disk, calls>>

\* The device (external): it takes a head off the ring and, later, performs
\* the request its descriptors describe or reports an error; a failed write
\* may have reached the disk.
DeviceTakes == /\ CanTake(vq) /\ vq' = Taken(vq)
               /\ UNCHANGED <<page, disk, lock, call, calls>>

DataAt(q, head) == q.desc[q.desc[head].next].addr
Stored(q, head) == IF DataAt(q, head) = "c256" THEN <<page.c256, page.c512>>
                                               ELSE <<page.c512, page.c768>>

DeviceReads(head, ok) ==
    /\ page.type = "IN" /\ DataAt(vq, head) = "c512"
    /\ page' = IF ok THEN [page EXCEPT !.status = 0, !.c512 = disk[page.sector][1],
                                       !.c768 = disk[page.sector][2]]
                     ELSE [page EXCEPT !.status = 1]
    /\ disk' = disk
DeviceWrites(head, ok) ==
    /\ page.type = "OUT"
    /\ page' = [page EXCEPT !.status = IF ok THEN 0 ELSE 1]
    /\ \/ disk' = [disk EXCEPT ![page.sector] = Stored(vq, head)]
       \/ ~ok /\ disk' = disk

DeviceAnswers == \E head \in vq.busy, ok \in BOOLEAN :
                    /\ DeviceReads(head, ok) \/ DeviceWrites(head, ok)
                    /\ vq' = Used(vq, head, 1)
                    /\ UNCHANGED <<lock, call, calls>>

TaskStep(t) == Locked(t) \/ Request(t) \/ Publish(t) \/ Finish(t) \/ Return(t)
BlkNext == \/ \E t \in Tasks : Call(t) \/ TaskStep(t)
           \/ DeviceTakes \/ DeviceAnswers

\* A task that runs takes its next step; the device answers what it is given.
\* The lock is a spin lock: a task that keeps trying gets it once nobody else
\* calls any more.
BlkFairness == /\ \A t \in Tasks : WF_blkVars(TaskStep(t))
               /\ WF_blkVars(DeviceTakes) /\ WF_blkVars(DeviceAnswers)
BlkSpec == BlkInit /\ [][BlkNext]_blkVars /\ BlkFairness

-----------------------------------------------------------------------------
\* What descriptors point to, halves of a sector, and the calls that transfer c of them.
Cells == {"none", "header", "c256", "c512", "status"}
Halves == Values \cup 0..MAX_COUNT
Calls(c) == [pc : {"lock", "request", "publish", "wait", "done", "failed"}, op : {"IN", "OUT"},
             lba : 0..(CAPACITY - 1), count : {c}, i : 0..c, d0 : Nat,
             buf : [0..(c - 1) -> Halves \X Halves]]
BlkTypeOK ==
    /\ \E n \in QueueSizes : vq \in Queues(n, Cells)
    /\ page \in [type : {"IN", "OUT"}, sector : Nat, status : {0, 1, 255},
                 c256 : Halves, c512 : Halves, c768 : Halves]
    /\ disk \in [0..(CAPACITY - 1) -> Halves \X Halves]
    /\ lock \in Tasks \cup {"free"} /\ calls \in 0..CALLS
    /\ DOMAIN call = Tasks
    /\ \A t \in Tasks : call[t] = Idle \/ \E c \in 1..MAX_COUNT : call[t] \in Calls(c)

\* Only the holder of VIRTIO_BLK is past the lock, and its loop starts at the
\* first sector and stays within the transfer.
Holding == {"request", "publish", "wait", "done", "failed"}
HolderInv ==
    \A t \in Tasks :
        /\ call[t].pc \in Holding <=> lock = t
        /\ call[t].pc = "lock" => call[t].i = 0
        /\ call[t].pc \in {"request", "publish", "wait", "done"} =>
               /\ call[t].lba + call[t].count <= CAPACITY
               /\ call[t].i + (IF call[t].pc = "done" THEN 0 ELSE 1) <= call[t].count
               /\ call[t].pc = "done" => call[t].i = call[t].count

\* Where the one request can be: nowhere, in the available ring, with the
\* device, in the used ring.
Quiet(q) == q.seen = q.avail_idx /\ q.last_used_idx = q.used_idx /\ q.busy = {}
Submitted(q, h) == /\ q.avail_idx = (q.seen + 1) % WRAP /\ q.avail[q.seen % q.size] = h
                   /\ q.last_used_idx = q.used_idx /\ q.busy = {}
Taking(q, h) == q.seen = q.avail_idx /\ q.last_used_idx = q.used_idx /\ q.busy = {h}
Answered(q, h) == /\ q.used_idx = (q.last_used_idx + 1) % WRAP
                  /\ q.used[q.last_used_idx % q.size].id = h
                  /\ q.seen = q.avail_idx /\ q.busy = {}

\* The three descriptors of a request, linked.
Linked(q, h) ==
    LET d1 == q.desc[h].next
        d2 == q.desc[d1].next
    IN  /\ h # d1 /\ h # d2 /\ d1 # d2
        /\ HasNext(q, h) /\ HasNext(q, d1) /\ ~HasNext(q, d2)

\* What the request page and the chain say while a request is out: they are
\* the holder's, untouched by anybody else, and an answer of success is the
\* answer to this request.
Describes(t) ==
    /\ Linked(vq, call[t].d0) /\ vq.num_free + 3 <= vq.size
    /\ page.type = call[t].op /\ page.sector = call[t].lba + call[t].i
    /\ IF call[t].op = "IN" THEN DataAt(vq, call[t].d0) = "c512"
       ELSE /\ DataAt(vq, call[t].d0) = "c256"
            /\ <<page.c256, page.c512>> = call[t].buf[call[t].i]
Fulfilled(t) ==
    disk[page.sector] = IF call[t].op = "IN" THEN <<page.c512, page.c768>>
                        ELSE call[t].buf[call[t].i]
RequestInv ==
    /\ \A t \in Tasks : call[t].pc \in {"publish", "wait"} =>
        LET h == call[t].d0 IN
        /\ Describes(t)
        /\ call[t].pc = "publish" => Quiet(vq) /\ vq.avail[vq.avail_idx % vq.size] = h
        /\ call[t].pc = "wait" => \/ Submitted(vq, h) \/ Taking(vq, h)
                                  \/ Answered(vq, h) /\ (page.status = 0 => Fulfilled(t))
    /\ (\A t \in Tasks : call[t].pc \notin {"publish", "wait"}) => Quiet(vq)

\* When read_sectors or write_sectors succeeds, its buffer and the disk agree
\* on every sector of the transfer, not only on the last one: no sector of a
\* transfer is another request's, another task's or a staging cell's left-over.
\* So do, while it runs, the sectors behind it.
TransferExact ==
    \A t \in Tasks : call[t].pc \in {"request", "publish", "wait", "done"} =>
        \A k \in 0..(call[t].i - 1) : call[t].buf[k] = disk[call[t].lba + k]

\* Every descriptor is either on the free list, once, or in the one chain the
\* lock's holder has out (submitted, with the device, or answered and not yet
\* freed): requests that fail half-way give back what they took.  The device
\* is given nothing else.
Out == {call[t].d0 : t \in {u \in Tasks : call[u].pc \in {"publish", "wait"}}}
DescriptorsKept ==
    /\ FreeList(vq, Slots(vq) \ UNION {Chain(vq, h) : h \in Out})
    /\ vq.busy \cup Waiting(vq) \cup Unread(vq) \subseteq Out

\* All together: what the driver promises the file system.
DiskSound == BlkTypeOK /\ HolderInv /\ RequestInv /\ TransferExact /\ DescriptorsKept

\* Every call returns: with a device that answers, no interleaving of tasks
\* leaves one waiting for a used element that went to somebody else.
CallsReturn == \A t \in Tasks : (call[t].pc # "idle") ~> (call[t].pc = "idle")
=============================================================================
