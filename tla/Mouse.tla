------------------------------- MODULE Mouse --------------------------------
(***************************************************************************)
(* The mouse driver (kernel/src/hal/mouse.rs): the mouse sends packets     *)
(* byte by byte, an interrupt takes each byte, a complete packet sets the  *)
(* buttons and becomes an event of the ring, and the desktop reads the     *)
(* ring.  Bytes may be lost.  Of a byte matter bit 3, set in the first     *)
(* byte of every packet and set or not in a movement byte (a step of -1 is *)
(* 0xFF), bit 0, the left button in the first byte, and which byte of      *)
(* which packet it is.                                                     *)
(***************************************************************************)
EXTENDS MouseBuffer

CONSTANTS
  PacketSize,    \* 3, or 4 with a scroll wheel
  MaxPackets,    \* bound: packets sent
  MaxLost        \* bound: bytes lost

ASSUME PacketAssumption ==
  /\ PacketSize \in {3, 4}
  /\ MaxPackets \in Nat /\ MaxLost \in Nat
  /\ [left : BOOLEAN, intact : BOOLEAN] \subseteq Events

VARIABLES
  packet, index,       \* the mouse: packet number, bytes of it already sent
  left, before,        \* the left button in this packet and in the one before
  lost,                \* bytes lost
  mistaken,            \* movement bytes the driver took for a first byte
  spoiltAt,            \* the packet of the last byte lost or mistaken
  bytes,               \* the accumulator; its length is byte_index
  MOUSE_BUTTONS,       \* the left button
  garbled              \* events mixed from several packets

mouse == <<packet, index, left, before>>
faults == <<lost, mistaken, spoiltAt>>
vars == <<packet, index, left, before, lost, mistaken, spoiltAt, bytes, MOUSE_BUTTONS,
          garbled, events, read_idx, write_idx, count>>

Init ==
  /\ packet = 1
  /\ index = 0
  /\ left \in BOOLEAN
  /\ before = FALSE
  /\ lost = 0
  /\ mistaken = 0
  /\ spoiltAt = 0
  /\ bytes = <<>>
  /\ MOUSE_BUTTONS = FALSE
  /\ garbled = 0
  /\ BufferInit

\* The mouse goes on to its next byte; a new packet has the buttons of its time.
Advance ==
  /\ packet <= MaxPackets
  /\ index' = (index + 1) % PacketSize
  /\ IF index' = 0
     THEN packet' = packet + 1 /\ before' = left /\ left' \in BOOLEAN
     ELSE UNCHANGED <<packet, before, left>>

LoseByte ==
  /\ Advance
  /\ lost < MaxLost
  /\ lost' = lost + 1
  /\ spoiltAt' = packet
  /\ UNCHANGED <<mistaken, bytes, MOUSE_BUTTONS, garbled, bufferVars>>

IsGarbled(filled) ==
  \/ Len(filled) # PacketSize
  \/ \E i \in 1 .. Len(filled) : filled[i].packet # filled[1].packet \/ filled[i].index # i - 1

\* Mutant: any byte may start a packet.
OutOfSync_never(bit3) == FALSE

\* Mutant: the byte of the scroll wheel is not counted.
Completes_early(n) == n >= PacketSize - 1

\* A first byte must have bit 3 set.
OutOfSync(bit3) == bytes = <<>> /\ ~bit3

Completes(n) == n >= PacketSize

Decoded(filled) == [left |-> filled[1].bit0, intact |-> ~IsGarbled(filled)]

\* A driver that waits for a first byte takes a movement byte with bit 3 set for
\* one.
Mistakes(bit3) == bytes = <<>> /\ index # 0 /\ bit3

\* One interrupt: the byte is discarded, stored, or completes a packet.
handle_irq(bit3, bit0) ==
  LET filled == Append(bytes, [packet |-> packet, index |-> index, bit0 |-> bit0])
      event == Decoded(filled)
  IN  /\ bit3 \in IF index = 0 THEN {TRUE} ELSE BOOLEAN
      /\ bit0 \in IF index = 0 THEN {left} ELSE BOOLEAN
      /\ Advance
      /\ \/ /\ OutOfSync(bit3)
            /\ UNCHANGED <<bytes, MOUSE_BUTTONS, garbled, bufferVars>>
         \/ /\ ~OutOfSync(bit3)
            /\ ~Completes(Len(filled))
            /\ bytes' = filled
            /\ UNCHANGED <<MOUSE_BUTTONS, garbled, bufferVars>>
         \/ /\ ~OutOfSync(bit3)
            /\ Completes(Len(filled))
            /\ MOUSE_BUTTONS' = event.left
            /\ push(event)
            /\ bytes' = <<>>
            /\ garbled' = IF event.intact THEN garbled ELSE garbled + 1
      /\ mistaken' = IF Mistakes(bit3) THEN mistaken + 1 ELSE mistaken
      /\ spoiltAt' = IF Mistakes(bit3) THEN packet ELSE spoiltAt
      /\ UNCHANGED lost

\* The desktop takes an event out, with interrupts off.
try_read_event ==
  /\ pop
  /\ UNCHANGED <<mouse, faults, bytes, MOUSE_BUTTONS, garbled>>

Next ==
  \/ LoseByte
  \/ \E bit3, bit0 \in BOOLEAN : handle_irq(bit3, bit0)
  \/ try_read_event

Spec == Init /\ [][Next]_vars

-----------------------------------------------------------------------------
\* Type invariant; the accumulator of four bytes is never overrun.
TypeOK ==
  /\ packet \in 1 .. MaxPackets + 1
  /\ index \in 0 .. PacketSize - 1
  /\ left \in BOOLEAN /\ before \in BOOLEAN /\ MOUSE_BUTTONS \in BOOLEAN
  /\ lost \in 0 .. MaxLost
  /\ mistaken \in Nat
  /\ spoiltAt \in 0 .. packet
  /\ bytes \in Seq([packet : Nat, index : Nat, bit0 : BOOLEAN]) /\ Len(bytes) < PacketSize
  /\ garbled \in Nat
  /\ BufferOK /\ IndexInv

\* A garbled event is due to a byte lost or to a movement byte that a driver out
\* of step took for a first byte; each of them garbles at most one.
GarbledByFaultOnly == garbled <= lost + mistaken

\* The driver is in step with the mouse again one packet after the last byte lost
\* or mistaken, and knows its buttons after two: the packet that brings it back
\* is itself swallowed.  In step it mistakes no byte, whatever the movements.
BackInStep ==
  /\ packet > spoiltAt + 1 => Len(bytes) = index
  /\ packet > spoiltAt + 2 /\ index = 0 => MOUSE_BUTTONS = before

\* The bytes gathered are those the mouse has sent of its packet.
InStep ==
  /\ Len(bytes) = index
  /\ \A i \in 1 .. index : bytes[i].packet = packet /\ bytes[i].index = i - 1
  /\ index > 0 => bytes[1].bit0 = left

\* A driver out of step waits for a first byte, or gathers an event that a fault
\* has spoilt and that is complete before the packet after the fault is.
SyncInv ==
  /\ bytes = <<>> /\ index # 0 => packet <= spoiltAt + 1
  /\ bytes # <<>> /\ ~InStep =>
       /\ garbled < lost + mistaken
       /\ packet <= spoiltAt + 1
       /\ packet = spoiltAt + 1 => index <= Len(bytes)

\* The stream and the driver, together, whatever the bytes lost and whatever the
\* movements.
MouseSound == GarbledByFaultOnly /\ BackInStep /\ TypeOK /\ SyncInv
=============================================================================
