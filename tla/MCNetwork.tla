------------------------------ MODULE MCNetwork -------------------------------
(***************************************************************************)
(* The virtio block driver (VirtioBlk), the virtio network driver          *)
(* (VirtioNet) and the network stack under the ping command (Network) in   *)
(* one run.  A behaviour is one of one of them, part; the others stay in   *)
(* an initial state, or have idle variables.                               *)
(***************************************************************************)
EXTENDS Network, VirtioBlk

VARIABLES part, rx_vq, tx_vq, mem, rx_queue, net_pc, arrived, got, lost, sent

-----------------------------------------------------------------------------
(* Instances                                                               *)

\* A disk of two sectors used by two tasks, on queues of two or four
\* descriptors whose indices wrap at 4; a request takes three.
DiskTasks == {"t1", "t2"}
Sizes == {2, 4}

\* Three receive buffers and a software queue of two frames.
N == INSTANCE VirtioNet WITH RX_RING_SIZE <- 3, RX_QUEUE_CAPACITY <- 2, FRAMES <- 3, SENDS <- 2,
       rxq <- rx_queue

\* Three hosts on the subnet, the gateway among them, and one behind it; a
\* cache of two entries, so that one has to go.  All are up: a host that is down
\* is one whose answers are lost.
Uninvited == {[kind |-> "echo_request", src |-> "host"],
              [kind |-> "arp_request", src |-> "peer", mac |-> <<"peer", 2>>],
              [kind |-> "other"]}
Subnet == {"gateway", "host", "peer"}
Alive == {Subnet \cup {"far"}}

-----------------------------------------------------------------------------
(* The sum                                                                 *)

NicOnly == <<rx_vq, tx_vq, mem, rx_queue, net_pc, arrived, got, lost, sent>>

IdleDisk == BlkInit /\ vq.size = 2
IdleNic ==
  /\ rx_vq = "idle" /\ tx_vq = "idle" /\ mem = "idle" /\ rx_queue = "idle"
  /\ net_pc = "idle" /\ arrived = "idle" /\ got = "idle" /\ lost = "idle"
  /\ sent = "idle"
IdleStack == Init

MCInit ==
  \/ part = "disk" /\ BlkInit /\ IdleNic /\ IdleStack
  \/ part = "nic" /\ N!Init /\ IdleDisk /\ IdleStack
  \/ part = "stack" /\ Init /\ IdleDisk /\ IdleNic

KeepDisk == UNCHANGED <<part, NicOnly, vars>>
KeepNic == UNCHANGED <<part, blkVars, vars>>
KeepStack == UNCHANGED <<part, blkVars, NicOnly>>

MCNext ==
  \/ part = "disk" /\ BlkNext /\ KeepDisk
  \/ part = "nic" /\ N!Next /\ KeepNic
  \/ part = "stack" /\ Next /\ KeepStack

mcvars == <<part, blkVars, NicOnly, vars>>
MCSpec == MCInit /\ [][MCNext]_mcvars
          /\ \A t \in Tasks : WF_blkVars(part = "disk" /\ TaskStep(t))
          /\ WF_blkVars(part = "disk" /\ DeviceTakes)
          /\ WF_blkVars(part = "disk" /\ DeviceAnswers)
          /\ WF_vars(part = "stack" /\ Step)
          /\ WF_vars(part = "stack" /\ Tick)

-----------------------------------------------------------------------------
(* Properties: those of the block driver and of the stack are their own    *)

\* Frames are received and sent once, whole and in order; no buffer is lost.
NicSound == part = "nic" => N!NicSound

=============================================================================
