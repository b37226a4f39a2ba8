------------------------------ MODULE KeyBuffer ------------------------------
(***************************************************************************)
(* The ring of key events (KeyBuffer in kernel/src/hal/keyboard.rs): the   *)
(* keyboard interrupt pushes, the shell or the desktop pops.  One slot     *)
(* stays empty to tell full from empty; a push into a full ring is lost.   *)
(***************************************************************************)
EXTENDS Integers, Sequences

CONSTANTS KEY_BUFFER_SIZE, Events, Unknown

ASSUME BufferAssumption == KEY_BUFFER_SIZE \in Nat \ {0} /\ Unknown \in Events

VARIABLES buffer, read_pos, write_pos

bufferVars == <<buffer, read_pos, write_pos>>

Positions == 0 .. KEY_BUFFER_SIZE - 1

After(pos) == (pos + 1) % KEY_BUFFER_SIZE

BufferInit ==
  /\ buffer = [i \in Positions |-> Unknown]
  /\ read_pos = 0
  /\ write_pos = 0

\* Mutant: the full test is missing.
push_overruns(e) ==
  /\ buffer' = [buffer EXCEPT ![write_pos] = e]
  /\ write_pos' = After(write_pos)
  /\ UNCHANGED read_pos

push(e) ==
  /\ IF After(write_pos) # read_pos
     THEN /\ buffer' = [buffer EXCEPT ![write_pos] = e]
          /\ write_pos' = After(write_pos)
     ELSE UNCHANGED <<buffer, write_pos>>
  /\ UNCHANGED read_pos

pop ==
  /\ read_pos # write_pos
  /\ read_pos' = After(read_pos)
  /\ UNCHANGED <<buffer, write_pos>>

BufferNext == pop \/ \E e \in Events : push(e)

BufferSpec == BufferInit /\ [][BufferNext]_bufferVars

-----------------------------------------------------------------------------
\* The types of the ring.
BufferOK ==
  /\ buffer \in [Positions -> Events]
  /\ read_pos \in Positions
  /\ write_pos \in Positions

\* The events between the two positions, in reading order.
Used == IF write_pos >= read_pos THEN write_pos - read_pos
        ELSE write_pos - read_pos + KEY_BUFFER_SIZE

Slot(i) == IF read_pos + i < KEY_BUFFER_SIZE THEN read_pos + i
           ELSE read_pos + i - KEY_BUFFER_SIZE

Contents == [i \in 1 .. Used |-> buffer[Slot(i - 1)]]

Queue == INSTANCE EventQueue WITH
           queue <- Contents, Capacity <- KEY_BUFFER_SIZE - 1, DropOldest <- FALSE

\* The ring is a queue of KEY_BUFFER_SIZE - 1 events that loses only new
\* events, and only when it is full.
ImplementsQueue == Queue!Spec
=============================================================================
