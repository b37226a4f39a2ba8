----------------------------- MODULE MouseBuffer -----------------------------
(***************************************************************************)
(* The ring of mouse events (MouseBuffer in kernel/src/hal/mouse.rs): the  *)
(* mouse interrupt pushes, the desktop pops.  A push into a full ring      *)
(* overwrites the oldest event.                                            *)
(***************************************************************************)
EXTENDS Integers, Sequences

CONSTANTS MOUSE_BUFFER_SIZE, Events, Still

ASSUME BufferAssumption == MOUSE_BUFFER_SIZE \in Nat \ {0} /\ Still \in Events

VARIABLES events, read_idx, write_idx, count

bufferVars == <<events, read_idx, write_idx, count>>

Positions == 0 .. MOUSE_BUFFER_SIZE - 1

After(idx) == (idx + 1) % MOUSE_BUFFER_SIZE

BufferInit ==
  /\ events = [i \in Positions |-> Still]
  /\ read_idx = 0
  /\ write_idx = 0
  /\ count = 0

push(e) ==
  /\ events' = [events EXCEPT ![write_idx] = e]
  /\ write_idx' = After(write_idx)
  /\ IF count < MOUSE_BUFFER_SIZE
     THEN count' = count + 1 /\ UNCHANGED read_idx
     ELSE read_idx' = After(read_idx) /\ UNCHANGED count

pop ==
  /\ count # 0
  /\ read_idx' = After(read_idx)
  /\ count' = count - 1
  /\ UNCHANGED <<events, write_idx>>

BufferNext == pop \/ \E e \in Events : push(e)

BufferSpec == BufferInit /\ [][BufferNext]_bufferVars

-----------------------------------------------------------------------------
\* The types of the ring.
BufferOK ==
  /\ events \in [Positions -> Events]
  /\ read_idx \in Positions
  /\ write_idx \in Positions
  /\ count \in 0 .. MOUSE_BUFFER_SIZE

Slot(i) == IF read_idx + i < MOUSE_BUFFER_SIZE THEN read_idx + i
           ELSE read_idx + i - MOUSE_BUFFER_SIZE

\* The three indices agree: count events lie between them, so a push writes
\* behind the newest event and overwrites the oldest one only when full.
IndexInv == write_idx = IF count = MOUSE_BUFFER_SIZE THEN read_idx ELSE Slot(count)

Contents == [i \in 1 .. count |-> events[Slot(i - 1)]]

Queue == INSTANCE EventQueue WITH
           queue <- Contents, Capacity <- MOUSE_BUFFER_SIZE, DropOldest <- TRUE

\* The ring is a queue of MOUSE_BUFFER_SIZE events that loses only the oldest
\* event, and only when it is full.
ImplementsQueue == Queue!Spec
=============================================================================
