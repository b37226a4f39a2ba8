------------------------------ MODULE VirtioNet ------------------------------
(***************************************************************************)
(* The network driver (hal/virtio_net.rs): receive buffers that circulate  *)
(* between the driver and the device, the software queue poll_rx fills and *)
(* recv_frame empties, and send_frame with its one transmit buffer.  A     *)
(* frame is a number; the device delivers frames 1, 2, 3 ... and puts them *)
(* in whichever receive buffer it holds.                                   *)
(***************************************************************************)
EXTENDS Virtqueue, Integers, FiniteSets, SequencesExt

CONSTANTS QueueSizes,          \* queue sizes a device may report
          RX_RING_SIZE,        \* receive buffers
          RX_QUEUE_CAPACITY,   \* frames the software queue holds
          FRAMES,              \* bound: frames that arrive
          SENDS                \* bound: frames sent

VARIABLES rx_vq, tx_vq,
          mem,       \* contents of the receive buffers and of "tx"
          rxq,       \* RX_PACKET_QUEUE: packets, head, tail, count
          net_pc,    \* what the holder of the VIRTIO_NET lock is doing
          arrived,   \* ghost: frames the device put in the used ring, in order
          got,       \* ghost: frames recv_frame returned
          lost,      \* ghost: frames poll_rx dropped
          sent       \* ghost: frames the device transmitted

vars == <<rx_vq, tx_vq, mem, rxq, net_pc, arrived, got, lost, sent>>

Free == [at |-> "free", head |-> 0]

\* populate_rx_buffers: one descriptor per buffer, as far as the queue has them.
RECURSIVE populate_rx_buffers(_, _)
populate_rx_buffers(q, i) ==
    IF i = RX_RING_SIZE THEN q
    ELSE populate_rx_buffers(
            IF q.num_free = 0 THEN q
            ELSE submit(Described(alloc_desc(q), q.free_head, i, {"WRITE"}, 0), q.free_head),
            i + 1)

RxQueue == [packets |-> [i \in 0..(RX_QUEUE_CAPACITY - 1) |-> 0],
            head |-> 0, tail |-> 0, count |-> 0]

\* The state init leaves behind.
Init == /\ \E n, m \in QueueSizes :
              rx_vq = populate_rx_buffers(new(n), 0) /\ tx_vq = new(m)
        /\ mem = [b \in 0..RX_RING_SIZE |-> 0]       \* buffer RX_RING_SIZE transmits
        /\ rxq = RxQueue /\ net_pc = Free
        /\ arrived = <<>> /\ got = <<>> /\ lost = {} /\ sent = <<>>

TX == RX_RING_SIZE

-----------------------------------------------------------------------------
\* RxQueue::push and pop.
push(f) == IF rxq.count >= RX_QUEUE_CAPACITY THEN rxq' = rxq /\ lost' = lost \cup {f}
           ELSE /\ rxq' = [rxq EXCEPT !.packets[rxq.tail] = f, !.count = @ + 1,
                                      !.tail = (@ + 1) % RX_QUEUE_CAPACITY]
                /\ lost' = lost
recv_frame == /\ rxq.count > 0
              /\ got' = Append(got, rxq.packets[rxq.head])
              /\ rxq' = [rxq EXCEPT !.head = (@ + 1) % RX_QUEUE_CAPACITY, !.count = @ - 1]
              /\ UNCHANGED <<rx_vq, tx_vq, mem, net_pc, arrived, lost, sent>>

\* One turn of poll_rx's loop, under the lock: the used element, and the frame
\* copied out of its buffer when it is longer than the header; then the
\* buffer goes back to the device.  The lock is held until the ring is empty.
poll_rx == /\ net_pc.at \in {"free", "poll"} /\ HasUsed(rx_vq)
           /\ LET e == UsedElem(rx_vq) IN
                 /\ IF e.len > 0 THEN push(mem[rx_vq.desc[e.id].addr])
                                 ELSE rxq' = rxq /\ lost' = lost \cup {mem[rx_vq.desc[e.id].addr]}
                 /\ net_pc' = [at |-> "recycle", head |-> e.id]
           /\ rx_vq' = poll_used(rx_vq)
           /\ UNCHANGED <<tx_vq, mem, arrived, got, sent>>

\* Mutant: the descriptor is freed, as send_frame frees its own.
Recycled_freed(q, head) == free_chain(q, head)

Recycled(q, head) == submit(Described(q, head, q.desc[head].addr, {"WRITE"}, 0), head)
poll_rx_recycle == /\ net_pc.at = "recycle"
                   /\ rx_vq' = Recycled(rx_vq, net_pc.head)
                   /\ net_pc' = [net_pc EXCEPT !.at = "poll"]
                   /\ UNCHANGED <<tx_vq, mem, rxq, arrived, got, lost, sent>>
poll_rx_done == /\ net_pc.at = "poll" /\ ~HasUsed(rx_vq) /\ net_pc' = Free
                /\ UNCHANGED <<rx_vq, tx_vq, mem, rxq, arrived, got, lost, sent>>

\* send_frame: the frame into the transmit buffer, a descriptor (reclaiming
\* used ones when there is none), the ring; then it waits and frees.
RECURSIVE Reclaimed(_)
Reclaimed(q) == IF HasUsed(q) THEN Reclaimed(free_chain(poll_used(q), UsedElem(q).id)) ELSE q
TxQueue(q) == IF q.num_free = 0 THEN Reclaimed(q) ELSE q

send_frame == /\ net_pc.at = "free" /\ mem[TX] < SENDS
              /\ mem' = [mem EXCEPT ![TX] = @ + 1]
              /\ LET q == TxQueue(tx_vq) IN
                    IF q.num_free = 0 THEN tx_vq' = q /\ net_pc' = net_pc
                    ELSE /\ tx_vq' = RingWritten(Described(alloc_desc(q), q.free_head, TX, {}, 0),
                                                 q.free_head)
                         /\ net_pc' = [at |-> "publish", head |-> q.free_head]
              /\ UNCHANGED <<rx_vq, rxq, arrived, got, lost, sent>>
send_frame_publish == /\ net_pc.at = "publish" /\ tx_vq' = Published(tx_vq)
                      /\ net_pc' = [net_pc EXCEPT !.at = "wait"]
                      /\ UNCHANGED <<rx_vq, mem, rxq, arrived, got, lost, sent>>

Freed(q) == free_chain(poll_used(q), UsedElem(q).id)
send_frame_wait == /\ net_pc.at = "wait" /\ HasUsed(tx_vq)
                   /\ tx_vq' = Freed(tx_vq) /\ net_pc' = Free
                   /\ UNCHANGED <<rx_vq, mem, rxq, arrived, got, lost, sent>>

\* The device (external) fills any receive buffer it holds, perhaps with a
\* header and nothing behind it, and transmits what the buffer holds.
DeviceTakes == \/ CanTake(rx_vq) /\ rx_vq' = Taken(rx_vq) /\ tx_vq' = tx_vq
                  /\ UNCHANGED <<mem, rxq, net_pc, arrived, got, lost, sent>>
               \/ CanTake(tx_vq) /\ tx_vq' = Taken(tx_vq) /\ rx_vq' = rx_vq
                  /\ UNCHANGED <<mem, rxq, net_pc, arrived, got, lost, sent>>
DeviceReceives == \E head \in rx_vq.busy, len \in {0, 1} :
                     /\ Len(arrived) < FRAMES /\ (len = 0 => Len(arrived) = 0)
                     /\ arrived' = Append(arrived, Len(arrived) + 1)
                     /\ mem' = [mem EXCEPT ![rx_vq.desc[head].addr] = Len(arrived) + 1]
                     /\ rx_vq' = Used(rx_vq, head, len)
                     /\ UNCHANGED <<tx_vq, rxq, net_pc, got, lost, sent>>
DeviceTransmits == \E head \in tx_vq.busy :
                      /\ sent' = Append(sent, mem[tx_vq.desc[head].addr])
                      /\ tx_vq' = Used(tx_vq, head, 0)
                      /\ UNCHANGED <<rx_vq, mem, rxq, net_pc, arrived, got, lost>>

Driver == poll_rx \/ poll_rx_recycle \/ poll_rx_done \/ send_frame_publish \/ send_frame_wait
Next == \/ recv_frame \/ Driver \/ send_frame
        \/ DeviceTakes \/ DeviceReceives \/ DeviceTransmits
Spec == Init /\ [][Next]_vars

-----------------------------------------------------------------------------
\* Frames lying in the used ring, and in the software queue, oldest first.
InRing == [k \in 1..((rx_vq.used_idx - rx_vq.last_used_idx + WRAP) % WRAP) |->
              mem[rx_vq.desc[rx_vq.used[(rx_vq.last_used_idx + k - 1) % rx_vq.size].id].addr]]
InQueue == [k \in 1..rxq.count |-> rxq.packets[(rxq.head + k - 1) % RX_QUEUE_CAPACITY]]

\* Every frame the device delivered is read once, whole and in its place, or
\* is still on its way in the ring or the queue: a buffer is not overwritten
\* before poll_rx has copied it out, and only a full software queue (or an
\* empty frame) loses anything.
FramesInOrder == got \o InQueue \o InRing = SelectSeq(arrived, LAMBDA f : f \notin lost)

\* No receive buffer is ever lost: each is with the device, in the used ring,
\* or the one poll_rx is handling, so reception cannot dry up.
RxBuffersKept ==
    LET held == Waiting(rx_vq) \cup rx_vq.busy \cup Unread(rx_vq)
                  \cup (IF net_pc.at = "recycle" THEN {net_pc.head} ELSE {})
    IN  Cardinality(held) = IF RX_RING_SIZE < rx_vq.size THEN RX_RING_SIZE ELSE rx_vq.size

\* The device transmits what send_frame was given, each frame once and in
\* order, although one buffer serves them all: send_frame leaves with no frame
\* still in the queue.
SentOnce == /\ sent = [k \in 1..Len(sent) |-> k]
            /\ net_pc.at = "free" => Len(sent) = mem[TX] /\ tx_vq.num_free = tx_vq.size

\* The three together: what the driver promises the network stack.
NicSound == FramesInOrder /\ RxBuffersKept /\ SentOnce
=============================================================================
