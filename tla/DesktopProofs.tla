---------------------------- MODULE DesktopProofs -----------------------------
(***************************************************************************)
(* The mouse.  Its ring of events implements a queue, for every size:      *)
(* IndexInv makes BufferOK inductive and says which slot a push            *)
(* overwrites.  The driver around it survives lost bytes: SyncInv says how *)
(* it gets back in step, and what it can garble meanwhile.                 *)
(*                                                                         *)
(* The desktop.  The window list keeps one focus and one window to an id,  *)
(* the mouse events keep the tracker's buttons right, and no window is     *)
(* opened into a drag, for any number of windows, icons, menu entries and  *)
(* events.  The window manager's functions are taken one by one, as        *)
(* functions on lists of windows; the desktop's loop only composes them.   *)
(***************************************************************************)
EXTENDS Mouse, Desktop, SequenceTheorems, TLAPS

-----------------------------------------------------------------------------
(* Sequences                                                               *)

\* A function on 1 .. n is a sequence of length n.
LEMMA FunctionIsSeq ==
  ASSUME NEW S, NEW n \in Nat, NEW f \in [1 .. n -> S]
  PROVE  f \in Seq(S) /\ Len(f) = n
OBVIOUS

\* A longer sequence that agrees with s and ends in e is s with e appended.
LEMMA AppendIs ==
  ASSUME NEW S, NEW s \in Seq(S), NEW t \in Seq(S), NEW e \in S,
         Len(t) = Len(s) + 1, t[Len(t)] = e,
         \A i \in 1 .. Len(s) : t[i] = s[i]
  PROVE  t = Append(s, e)
<1>1. /\ Append(s, e) \in Seq(S)
      /\ Len(Append(s, e)) = Len(s) + 1
      /\ \A i \in 1 .. Len(s) : Append(s, e)[i] = s[i]
      /\ Append(s, e)[Len(s) + 1] = e
  BY AppendProperties
<1>2. Len(s) \in Nat
  BY LenProperties
<1>3. \A i \in 1 .. Len(t) : t[i] = Append(s, e)[i]
  BY <1>1, <1>2
<1>. QED
  BY <1>1, <1>3, SeqEqual

\* A shorter sequence that agrees with s one place on is the tail of s.
LEMMA TailIs ==
  ASSUME NEW S, NEW s \in Seq(S), NEW t \in Seq(S), s # <<>>,
         Len(t) = Len(s) - 1,
         \A i \in 1 .. Len(t) : t[i] = s[i + 1]
  PROVE  t = Tail(s)
<1>1. /\ Tail(s) \in Seq(S)
      /\ Len(Tail(s)) = Len(s) - 1
      /\ \A i \in 1 .. Len(Tail(s)) : Tail(s)[i] = s[i + 1]
  BY HeadTailProperties
<1>. QED
  BY <1>1, SeqEqual

\* A sequence of the same length that agrees with s one place on and ends in
\* e is the tail of s with e appended.
LEMMA ShiftIs ==
  ASSUME NEW S, NEW s \in Seq(S), NEW t \in Seq(S), NEW e \in S, s # <<>>,
         Len(t) = Len(s), t[Len(t)] = e,
         \A i \in 1 .. Len(t) - 1 : t[i] = s[i + 1]
  PROVE  t = Append(Tail(s), e)
<1>1. /\ Tail(s) \in Seq(S)
      /\ Len(Tail(s)) = Len(s) - 1
      /\ \A i \in 1 .. Len(Tail(s)) : Tail(s)[i] = s[i + 1]
  BY HeadTailProperties
<1>2. Len(s) \in Nat
  BY LenProperties
<1>. QED
  BY <1>1, <1>2, AppendIs

\* What a part of a sequence holds.
LEMMA SubSeqFacts ==
  ASSUME NEW S, NEW s \in Seq(S), NEW m \in 1 .. Len(s) + 1, NEW n \in 0 .. Len(s), m <= n + 1
  PROVE  /\ SubSeq(s, m, n) \in Seq(S)
         /\ Len(SubSeq(s, m, n)) = n - m + 1
         /\ \A k \in 1 .. n - m + 1 : SubSeq(s, m, n)[k] = s[m + k - 1]
OBVIOUS

\* r is s without its element i.
Removed(r, s, i) == r = SubSeq(s, 1, i - 1) \o SubSeq(s, i + 1, Len(s))

\* A sequence without its element i: those behind it move up.
LEMMA RemoveFacts ==
  ASSUME NEW S, NEW s \in Seq(S), NEW i \in 1 .. Len(s),
         NEW r, Removed(r, s, i)
  PROVE  /\ r \in Seq(S) /\ Len(r) = Len(s) - 1
         /\ \A k \in 1 .. Len(s) - 1 : r[k] = s[IF k < i THEN k ELSE k + 1]
<1> DEFINE a == SubSeq(s, 1, i - 1)
           b == SubSeq(s, i + 1, Len(s))
<1>1. a \in Seq(S) /\ Len(a) = i - 1 /\ \A k \in 1 .. i - 1 : a[k] = s[k]
  BY SubSeqFacts
<1>2. b \in Seq(S) /\ Len(b) = Len(s) - i /\ \A k \in 1 .. Len(s) - i : b[k] = s[i + k]
  BY SubSeqFacts
<1>. HIDE DEF a, b
<1>4. /\ a \o b \in Seq(S) /\ Len(a \o b) = Len(a) + Len(b)
      /\ \A k \in 1 .. Len(a) + Len(b) : (a \o b)[k] = IF k <= Len(a) THEN a[k] ELSE b[k - Len(a)]
  BY <1>1, <1>2, ConcatProperties, Zenon
<1>5. Len(s) \in Nat
  BY LenProperties
<1>6. ASSUME NEW k \in 1 .. Len(s) - 1
      PROVE  (a \o b)[k] = s[IF k < i THEN k ELSE k + 1]
  <2>1. CASE k < i
    <3>1. k \in 1 .. i - 1 /\ k \in 1 .. Len(a) + Len(b) /\ k <= Len(a)
      BY <1>1, <1>2, <1>5, <2>1
    <3>. QED BY <1>1, <1>4, <2>1, <3>1
  <2>2. CASE ~(k < i)
    <3>1. /\ k - Len(a) \in 1 .. Len(s) - i /\ k \in 1 .. Len(a) + Len(b) /\ ~(k <= Len(a))
          /\ i + (k - Len(a)) = k + 1
      BY <1>1, <1>2, <1>5, <2>2
    <3>. QED BY <1>2, <1>4, <2>2, <3>1
  <2>. QED BY <2>1, <2>2
<1>7. Len(a) + Len(b) = Len(s) - 1
  BY <1>1, <1>2, <1>5
<1>. QED BY <1>4, <1>6, <1>7 DEF Removed, a, b

-----------------------------------------------------------------------------
(* The mouse: its ring                                                     *)

\* The successor of a position, without the remainder.
LEMMA AfterIs ==
  ASSUME NEW x \in Positions
  PROVE  After(x) = IF x + 1 = MOUSE_BUFFER_SIZE THEN 0 ELSE x + 1
BY BufferAssumption DEF After, Positions

\* A push and a pop keep the indices in range and in agreement.
LEMMA IndicesKept ==
  BufferOK /\ IndexInv /\ [BufferNext]_bufferVars => BufferOK' /\ IndexInv'
<1>. SUFFICES ASSUME BufferOK, IndexInv, [BufferNext]_bufferVars
             PROVE  BufferOK' /\ IndexInv'
  OBVIOUS
<1>. USE BufferAssumption
<1>0. /\ After(read_idx) = IF read_idx + 1 = MOUSE_BUFFER_SIZE THEN 0 ELSE read_idx + 1
      /\ After(write_idx) = IF write_idx + 1 = MOUSE_BUFFER_SIZE THEN 0 ELSE write_idx + 1
  BY AfterIs DEF BufferOK
<1>1. ASSUME NEW e \in Events, push(e)
      PROVE  BufferOK' /\ IndexInv'
  <2>1. events' \in [Positions -> Events]
    BY <1>1 DEF BufferOK, push
  <2>. QED
    BY <1>0, <1>1, <2>1 DEF BufferOK, IndexInv, Slot, Positions, push
<1>2. CASE pop
  BY <1>0, <1>2 DEF BufferOK, IndexInv, Slot, Positions, pop
<1>3. CASE UNCHANGED bufferVars
  BY <1>3 DEF BufferOK, IndexInv, Slot, bufferVars
<1>. QED
  BY <1>1, <1>2, <1>3 DEF BufferNext

ContentsOK == Contents \in Seq(Events) /\ Len(Contents) = count

\* The readable part of the ring is a sequence of count events.
LEMMA ContentsSeq == BufferOK => ContentsOK
<1>. SUFFICES ASSUME BufferOK PROVE ContentsOK
  OBVIOUS
<1>1. \A i \in 1 .. count : Slot(i - 1) \in Positions
  BY BufferAssumption DEF BufferOK, Slot, Positions
<1>2. Contents \in [1 .. count -> Events]
  BY <1>1 DEF BufferOK, Contents
<1>3. count \in Nat
  BY BufferAssumption DEF BufferOK
<1>. QED
  BY <1>2, <1>3, FunctionIsSeq DEF ContentsOK

\* The indices of the ring of mouse events stay in range and agree with each
\* other, whatever is pushed and popped (MouseBuffer::push, pop).
THEOREM IndicesAgree == BufferSpec => [](BufferOK /\ IndexInv)
<1>1. BufferInit => BufferOK /\ IndexInv
  BY BufferAssumption DEF BufferInit, BufferOK, IndexInv, Slot, Positions
<1>. QED
  BY <1>1, IndicesKept, PTL DEF BufferSpec

\* MouseBuffer is a queue of MOUSE_BUFFER_SIZE events that loses only its
\* oldest event, and only to a push into a full ring.
THEOREM MouseBufferIsQueue == BufferSpec => ImplementsQueue
<1>. USE BufferAssumption
<1>1. BufferInit => Queue!Init
  BY DEF BufferInit, Queue!Init, Contents
<1>2. BufferOK /\ IndexInv /\ ContentsOK /\ ContentsOK' /\ [BufferNext]_bufferVars => [Queue!Next]_Contents
  <2>. SUFFICES ASSUME BufferOK, IndexInv, ContentsOK, ContentsOK', [BufferNext]_bufferVars
               PROVE  [Queue!Next]_Contents
    OBVIOUS
  <2>0. /\ After(read_idx) = IF read_idx + 1 = MOUSE_BUFFER_SIZE THEN 0 ELSE read_idx + 1
        /\ After(write_idx) = IF write_idx + 1 = MOUSE_BUFFER_SIZE THEN 0 ELSE write_idx + 1
    BY AfterIs DEF BufferOK
  <2>s. /\ Contents \in Seq(Events) /\ Len(Contents) = count
        /\ Contents' \in Seq(Events) /\ Len(Contents') = count'
    BY DEF ContentsOK
  <2>1. ASSUME NEW e \in Events, push(e), count < MOUSE_BUFFER_SIZE
        PROVE  Queue!Push(e)
    <3>1. Contents'[count'] = e
      BY <2>1, <2>0 DEF BufferOK, IndexInv, Contents, Slot, Positions, push
    <3>2. \A i \in 1 .. count : Contents'[i] = Contents[i]
      BY <2>1, <2>0 DEF BufferOK, IndexInv, Contents, Slot, Positions, push
    <3>3. count' = count + 1
      BY <2>1 DEF push
    <3>4. Contents' = Append(Contents, e)
      BY <2>s, <3>1, <3>2, <3>3, AppendIs
    <3>. QED
      BY <2>1, <2>s, <3>4 DEF Queue!Push
  <2>2. ASSUME NEW e \in Events, push(e), ~(count < MOUSE_BUFFER_SIZE)
        PROVE  Queue!Push(e)
    <3>0. count = MOUSE_BUFFER_SIZE /\ count' = count
      BY <2>2 DEF push, BufferOK
    <3>a. /\ write_idx = read_idx
          /\ read_idx' = IF read_idx + 1 = MOUSE_BUFFER_SIZE THEN 0 ELSE read_idx + 1
          /\ events' = [events EXCEPT ![read_idx] = e]
      BY <2>2, <2>0, <3>0 DEF IndexInv, push
    <3>b. \A i \in 1 .. count :
            Contents'[i] = events'[IF read_idx' + (i - 1) < MOUSE_BUFFER_SIZE
                                   THEN read_idx' + (i - 1)
                                   ELSE read_idx' + (i - 1) - MOUSE_BUFFER_SIZE]
      BY <3>0 DEF Contents, Slot
    <3>c. \A i \in 1 .. count :
            Contents[i] = events[IF read_idx + (i - 1) < MOUSE_BUFFER_SIZE
                                 THEN read_idx + (i - 1)
                                 ELSE read_idx + (i - 1) - MOUSE_BUFFER_SIZE]
      BY DEF Contents, Slot
    <3>1. Contents'[count'] = e
      <4>1. (IF read_idx' + (count - 1) < MOUSE_BUFFER_SIZE THEN read_idx' + (count - 1)
             ELSE read_idx' + (count - 1) - MOUSE_BUFFER_SIZE) = read_idx
        BY <3>0, <3>a DEF BufferOK, Positions
      <4>2. events'[read_idx] = e
        BY <3>a DEF BufferOK
      <4>3. count \in 1 .. count /\ count' = count
        BY <3>0
      <4>. QED
        BY <3>b, <4>1, <4>2, <4>3
    <3>2. \A i \in 1 .. count - 1 : Contents'[i] = Contents[i + 1]
      <4>. SUFFICES ASSUME NEW i \in 1 .. count - 1
                   PROVE  Contents'[i] = Contents[i + 1]
        OBVIOUS
      <4>. DEFINE k == IF read_idx + i < MOUSE_BUFFER_SIZE THEN read_idx + i
                       ELSE read_idx + i - MOUSE_BUFFER_SIZE
      <4>1. k \in Positions /\ k # read_idx
        BY <3>0 DEF BufferOK, Positions
      <4>2. (IF read_idx' + (i - 1) < MOUSE_BUFFER_SIZE THEN read_idx' + (i - 1)
             ELSE read_idx' + (i - 1) - MOUSE_BUFFER_SIZE) = k
        BY <3>0, <3>a DEF BufferOK, Positions
      <4>3. Contents'[i] = events'[k]
        BY <3>b, <4>2, <3>0
      <4>4. i + 1 \in 1 .. count /\ (i + 1) - 1 = i
        BY <3>0
      <4>5. Contents[i + 1] = events[k]
        BY <3>c, <4>4
      <4>. HIDE DEF k
      <4>6. events'[k] = events[k]
        BY <3>a, <4>1 DEF BufferOK
      <4>. QED
        BY <4>3, <4>5, <4>6
    <3>3. Contents # <<>>
      BY <2>s, <3>0, EmptySeq
    <3>4. Contents' = Append(Tail(Contents), e)
      BY <2>s, <3>0, <3>1, <3>2, <3>3, ShiftIs
    <3>. QED
      BY <2>2, <2>s, <3>4 DEF Queue!Push
  <2>3. CASE pop
    <3>1. \A i \in 1 .. count' : Contents'[i] = Contents[i + 1]
      BY <2>3, <2>0 DEF BufferOK, Contents, Slot, Positions, pop
    <3>2. count # 0 /\ count' = count - 1
      BY <2>3 DEF pop
    <3>3. Contents # <<>>
      BY <2>s, <3>2, EmptySeq
    <3>4. Contents' = Tail(Contents)
      BY <2>s, <3>1, <3>2, <3>3, TailIs
    <3>. QED
      BY <3>3, <3>4 DEF Queue!Next, Queue!Pop
  <2>4. CASE UNCHANGED bufferVars
    BY <2>4 DEF bufferVars, Contents, Slot
  <2>. QED
    BY <2>1, <2>2, <2>3, <2>4 DEF BufferNext, Queue!Next
<1>. QED
  BY <1>1, <1>2, IndicesAgree, ContentsSeq, PTL DEF BufferSpec, ImplementsQueue, Queue!Spec

-----------------------------------------------------------------------------
(* The driver                                                              *)

\* The byte the mouse is about to send, as the driver stores it.
NextByte(bit0) == [packet |-> packet, index |-> index, bit0 |-> bit0]

\* What the accumulator holds after one more byte.
LEMMA Filled ==
  ASSUME TypeOK, NEW bit0 \in BOOLEAN
  PROVE  LET filled == Append(bytes, NextByte(bit0))
         IN  /\ filled \in Seq([packet : Nat, index : Nat, bit0 : BOOLEAN])
             /\ filled # <<>>
             /\ Len(filled) = Len(bytes) + 1
             /\ \A i \in 1 .. Len(bytes) : filled[i] = bytes[i]
             /\ filled[Len(bytes) + 1] = NextByte(bit0)
             /\ filled[1].bit0 \in BOOLEAN
<1> DEFINE B == [packet : Nat, index : Nat, bit0 : BOOLEAN]
           b == NextByte(bit0)
           filled == Append(bytes, b)
<1>1. b \in B
  BY PacketAssumption DEF TypeOK, NextByte
<1>2. bytes \in Seq(B)
  BY DEF TypeOK
<1>. HIDE DEF b, B
<1>3. /\ filled \in Seq(B) /\ Len(filled) = Len(bytes) + 1
      /\ \A i \in 1 .. Len(bytes) : filled[i] = bytes[i]
      /\ filled[Len(bytes) + 1] = b
  BY <1>1, <1>2, AppendProperties
<1>4. Len(bytes) \in Nat
  BY <1>2, LenProperties
<1>. HIDE DEF filled
<1>5. filled # <<>> /\ filled[1] \in B
  BY <1>3, <1>4, EmptySeq, ElementOfSeq
<1>6. filled[1].bit0 \in BOOLEAN
  BY <1>5 DEF B
<1>. QED BY <1>3, <1>5, <1>6 DEF filled, b, B

\* The mouse sends its bytes in order and its packets one after the other.
LEMMA MouseAdvances ==
  ASSUME TypeOK, Advance
  PROVE  /\ packet' \in 1 .. MaxPackets + 1 /\ index' \in 0 .. PacketSize - 1
         /\ left' \in BOOLEAN /\ before' \in BOOLEAN
         /\ \/ /\ index + 1 < PacketSize /\ index' = index + 1
               /\ packet' = packet /\ left' = left /\ before' = before
            \/ /\ index + 1 = PacketSize /\ index' = 0
               /\ packet' = packet + 1 /\ before' = left
<1>1. \/ index + 1 < PacketSize /\ index' = index + 1
      \/ index + 1 = PacketSize /\ index' = 0
  BY PacketAssumption DEF TypeOK, Advance
<1>2. packet <= MaxPackets /\ MaxPackets \in Nat
  BY PacketAssumption DEF Advance
<1>3. \/ index' = 0 /\ packet' = packet + 1 /\ before' = left /\ left' \in BOOLEAN
      \/ index' # 0 /\ packet' = packet /\ before' = before /\ left' = left
  BY DEF Advance
<1>. QED BY <1>1, <1>2, <1>3, PacketAssumption DEF TypeOK

\* What the driver makes of a byte: nothing, one more of its packet, or an event.
LEMMA IrqOutcomes ==
  ASSUME TypeOK, NEW bit3 \in BOOLEAN, NEW bit0 \in BOOLEAN, handle_irq(bit3, bit0)
  PROVE  LET filled == Append(bytes, NextByte(bit0))
             event == Decoded(filled)
         IN  /\ event.left = filled[1].bit0 /\ event.intact = ~IsGarbled(filled)
             /\ event \in Events
             /\ \/ /\ OutOfSync(bit3)
                   /\ UNCHANGED <<bytes, MOUSE_BUTTONS, garbled, bufferVars>>
                \/ /\ ~OutOfSync(bit3) /\ ~Completes(Len(filled)) /\ bytes' = filled
                   /\ UNCHANGED <<MOUSE_BUTTONS, garbled, bufferVars>>
                \/ /\ ~OutOfSync(bit3) /\ Completes(Len(filled)) /\ MOUSE_BUTTONS' = event.left
                   /\ push(event) /\ bytes' = <<>>
                   /\ garbled' = IF event.intact THEN garbled ELSE garbled + 1
<1> DEFINE filled == Append(bytes, NextByte(bit0))
           event == Decoded(filled)
<1>1. filled[1].bit0 \in BOOLEAN
  BY Filled
<1>2. event.left = filled[1].bit0 /\ event.intact = ~IsGarbled(filled) /\ event \in Events
  BY <1>1, PacketAssumption DEF Decoded, IsGarbled
<1>. QED BY <1>2 DEF handle_irq, NextByte

\* Every step keeps the types, and is a step of the ring or leaves it alone.
LEMMA TypesKept ==
  ASSUME TypeOK, [Next]_vars
  PROVE  TypeOK' /\ [BufferNext]_bufferVars
<1>1. ASSUME [BufferNext]_bufferVars PROVE BufferOK' /\ IndexInv'
  BY <1>1, IndicesKept DEF TypeOK
<1>2. PacketSize \in Nat /\ PacketSize > 1 /\ MaxPackets \in Nat /\ MaxLost \in Nat
  BY PacketAssumption
<1>3. CASE LoseByte
  <2>1. /\ packet' \in 1 .. MaxPackets + 1 /\ index' \in 0 .. PacketSize - 1
        /\ left' \in BOOLEAN /\ before' \in BOOLEAN
        /\ packet' = packet \/ packet' = packet + 1
    BY <1>3, MouseAdvances DEF LoseByte
  <2>2. [BufferNext]_bufferVars
    BY <1>3 DEF LoseByte
  <2>. QED BY <1>1, <1>2, <1>3, <2>1, <2>2 DEF TypeOK, LoseByte
<1>4. ASSUME NEW bit3 \in BOOLEAN, NEW bit0 \in BOOLEAN, handle_irq(bit3, bit0)
      PROVE  TypeOK' /\ [BufferNext]_bufferVars
  <2> DEFINE filled == Append(bytes, NextByte(bit0))
             event == Decoded(filled)
  <2>1. /\ packet' \in 1 .. MaxPackets + 1 /\ index' \in 0 .. PacketSize - 1
        /\ left' \in BOOLEAN /\ before' \in BOOLEAN
        /\ packet' = packet \/ packet' = packet + 1
        /\ lost' = lost /\ mistaken' \in {mistaken, mistaken + 1} /\ spoiltAt' \in {spoiltAt, packet}
    BY <1>4, MouseAdvances DEF handle_irq
  <2>2. /\ filled \in Seq([packet : Nat, index : Nat, bit0 : BOOLEAN])
        /\ Len(filled) = Len(bytes) + 1 /\ filled[1].bit0 \in BOOLEAN
    BY Filled
  <2>3. /\ event.left = filled[1].bit0 /\ event \in Events
        /\ \/ UNCHANGED <<bytes, MOUSE_BUTTONS, garbled, bufferVars>>
           \/ /\ ~Completes(Len(filled)) /\ bytes' = filled
              /\ UNCHANGED <<MOUSE_BUTTONS, garbled, bufferVars>>
           \/ /\ MOUSE_BUTTONS' = event.left /\ push(event) /\ bytes' = <<>>
              /\ garbled' = IF event.intact THEN garbled ELSE garbled + 1
    BY <1>4, IrqOutcomes
  <2>. HIDE DEF filled, event
  <2>4. [BufferNext]_bufferVars
    BY <2>3 DEF BufferNext
  <2>5. /\ bytes' \in Seq([packet : Nat, index : Nat, bit0 : BOOLEAN])
        /\ Len(bytes') < PacketSize
    <3>1. CASE bytes' = bytes
      BY <3>1 DEF TypeOK
    <3>2. CASE ~Completes(Len(filled)) /\ bytes' = filled
      <4>1. Len(bytes) \in Nat /\ Len(bytes) < PacketSize
        BY LenProperties DEF TypeOK
      <4>. QED BY <1>2, <2>2, <3>2, <4>1, PacketAssumption DEF Completes
    <3>3. CASE bytes' = <<>>
      BY <1>2, <3>3
    <3>. QED BY <2>3, <3>1, <3>2, <3>3
  <2>6. garbled' \in Nat /\ MOUSE_BUTTONS' \in BOOLEAN
    BY <2>2, <2>3 DEF TypeOK
  <2>7. spoiltAt' \in 0 .. packet' /\ lost' \in 0 .. MaxLost /\ mistaken' \in Nat
    BY <2>1 DEF TypeOK
  <2>8. BufferOK' /\ IndexInv'
    BY <1>1, <2>4
  <2>. QED BY <2>1, <2>4, <2>5, <2>6, <2>7, <2>8 DEF TypeOK
<1>5. CASE try_read_event
  <2>1. [BufferNext]_bufferVars
    BY <1>5 DEF try_read_event, BufferNext
  <2>. QED BY <1>1, <1>5, <2>1 DEF TypeOK, try_read_event, mouse, faults
<1>6. CASE UNCHANGED vars
  <2>1. UNCHANGED bufferVars
    BY <1>6 DEF vars, bufferVars
  <2>. QED BY <1>1, <1>6, <2>1 DEF TypeOK, vars
<1>. QED BY <1>3, <1>4, <1>5, <1>6 DEF Next

\* A loss spoils what is being gathered, and nothing else.
LEMMA LossKeeps ==
  ASSUME MouseSound, LoseByte
  PROVE  MouseSound'
<1>1. /\ lost < MaxLost /\ lost' = lost + 1 /\ mistaken' = mistaken /\ spoiltAt' = packet
      /\ bytes' = bytes /\ MOUSE_BUTTONS' = MOUSE_BUTTONS /\ garbled' = garbled
      /\ UNCHANGED bufferVars
  BY DEF LoseByte
<1>2. TypeOK /\ Advance
  BY DEF LoseByte, MouseSound
<1>3. /\ packet' \in 1 .. MaxPackets + 1 /\ index' \in 0 .. PacketSize - 1
      /\ left' \in BOOLEAN /\ before' \in BOOLEAN
      /\ \/ packet' = packet
         \/ packet' = packet + 1 /\ index' = 0
  BY <1>2, MouseAdvances
<1>5. Len(bytes) \in Nat
  BY LenProperties DEF MouseSound, TypeOK
<1>6. TypeOK'
  BY <1>2, TypesKept DEF Next
<1>7. GarbledByFaultOnly' /\ BackInStep'
  BY <1>1, <1>2, <1>3 DEF MouseSound, TypeOK, GarbledByFaultOnly, BackInStep
<1>8. SyncInv'
  BY <1>1, <1>2, <1>3, <1>5, PacketAssumption DEF MouseSound, TypeOK, GarbledByFaultOnly, SyncInv
<1>. QED BY <1>6, <1>7, <1>8 DEF MouseSound

\* A packet gathered in step is whole when its last byte arrives.
LEMMA InStepIsWhole ==
  ASSUME TypeOK, InStep, NEW bit0 \in BOOLEAN, index + 1 = PacketSize
  PROVE  LET filled == Append(bytes, NextByte(bit0))
         IN  Len(filled) = PacketSize /\ ~IsGarbled(filled) /\ filled[1].bit0 = left
<1> DEFINE filled == Append(bytes, NextByte(bit0))
<1>1. /\ Len(filled) = Len(bytes) + 1
      /\ \A i \in 1 .. Len(bytes) : filled[i] = bytes[i]
      /\ filled[Len(bytes) + 1] = NextByte(bit0)
  BY Filled
<1>. HIDE DEF filled
<1>2. Len(bytes) = index /\ index \in Nat /\ index > 0 /\ PacketSize \in Nat
  BY PacketAssumption DEF TypeOK, InStep
<1>3. ASSUME NEW i \in 1 .. Len(filled) PROVE filled[i].packet = packet /\ filled[i].index = i - 1
  <2>1. CASE i = index + 1
    <3>1. filled[i] = NextByte(bit0)
      BY <1>1, <1>2, <2>1
    <3>. QED BY <1>2, <2>1, <3>1 DEF NextByte
  <2>2. CASE i # index + 1
    <3>1. i \in 1 .. index /\ i \in 1 .. Len(bytes)
      BY <1>1, <1>2, <2>2
    <3>. QED BY <1>1, <3>1 DEF InStep
  <2>. QED BY <2>1, <2>2
<1>4. Len(filled) = PacketSize /\ 1 \in 1 .. Len(filled) /\ 1 \in 1 .. Len(bytes)
  BY <1>1, <1>2
<1>5. ~IsGarbled(filled)
  BY <1>3, <1>4 DEF IsGarbled
<1>6. filled[1].bit0 = left
  BY <1>1, <1>2, <1>4 DEF InStep
<1>. QED BY <1>4, <1>5, <1>6 DEF filled

\* One byte, whatever the driver makes of it, keeps it sound.
LEMMA IrqKeeps ==
  ASSUME MouseSound, NEW bit3 \in BOOLEAN, NEW bit0 \in BOOLEAN, handle_irq(bit3, bit0)
  PROVE  MouseSound'
<1> DEFINE filled == Append(bytes, NextByte(bit0))
           event == Decoded(filled)
<1>1. /\ index = 0 => bit3 /\ bit0 = left
      /\ Advance
      /\ lost' = lost
      /\ \/ /\ bytes = <<>> /\ index # 0 /\ bit3
            /\ mistaken' = mistaken + 1 /\ spoiltAt' = packet
         \/ /\ bytes # <<>> \/ index = 0 \/ ~bit3
            /\ mistaken' = mistaken /\ spoiltAt' = spoiltAt
  BY DEF handle_irq, Mistakes
<1>2. TypeOK /\ SyncInv /\ BackInStep /\ GarbledByFaultOnly
  BY DEF MouseSound
<1>3. TypeOK'
  BY <1>2, TypesKept DEF Next
<1>4. /\ filled # <<>>
      /\ Len(filled) = Len(bytes) + 1
      /\ \A i \in 1 .. Len(bytes) : filled[i] = bytes[i]
      /\ filled[Len(bytes) + 1] = NextByte(bit0)
  BY <1>2, Filled
<1>5. /\ event.left = filled[1].bit0 /\ event.intact = ~IsGarbled(filled)
      /\ \/ /\ OutOfSync(bit3)
            /\ UNCHANGED <<bytes, MOUSE_BUTTONS, garbled, bufferVars>>
         \/ /\ ~OutOfSync(bit3) /\ ~Completes(Len(filled)) /\ bytes' = filled
            /\ UNCHANGED <<MOUSE_BUTTONS, garbled, bufferVars>>
         \/ /\ ~OutOfSync(bit3) /\ Completes(Len(filled)) /\ MOUSE_BUTTONS' = event.left
            /\ push(event) /\ bytes' = <<>>
            /\ garbled' = IF event.intact THEN garbled ELSE garbled + 1
  BY <1>2, IrqOutcomes
<1>. HIDE DEF filled, event
<1>6. /\ packet' \in 1 .. MaxPackets + 1 /\ index' \in 0 .. PacketSize - 1
      /\ left' \in BOOLEAN /\ before' \in BOOLEAN
      /\ \/ /\ index + 1 < PacketSize /\ index' = index + 1
            /\ packet' = packet /\ left' = left /\ before' = before
         \/ /\ index + 1 = PacketSize /\ index' = 0
            /\ packet' = packet + 1 /\ before' = left
  BY <1>1, <1>2, MouseAdvances
<1>7. /\ Len(bytes) \in Nat /\ (bytes = <<>> <=> Len(bytes) = 0)
      /\ index \in Nat /\ packet \in Nat /\ PacketSize \in {3, 4}
      /\ spoiltAt \in 0 .. packet /\ lost \in Nat /\ mistaken \in Nat /\ garbled \in Nat
  BY <1>2, LenProperties, EmptySeq, PacketAssumption DEF TypeOK
<1>8. CASE OutOfSync(bit3) /\ UNCHANGED <<bytes, MOUSE_BUTTONS, garbled, bufferVars>>
  <2>1. /\ bytes = <<>> /\ index # 0 /\ packet <= spoiltAt + 1 /\ Len(bytes) = 0
        /\ mistaken' = mistaken /\ spoiltAt' = spoiltAt
    BY <1>1, <1>2, <1>7, <1>8 DEF OutOfSync, SyncInv
  <2>4. GarbledByFaultOnly' /\ SyncInv'
    BY <1>1, <1>2, <1>6, <1>7, <1>8, <2>1 DEF GarbledByFaultOnly, SyncInv
  <2>5. BackInStep'
    BY <1>1, <1>6, <1>7, <1>8, <2>1 DEF BackInStep
  <2>. QED BY <1>3, <2>4, <2>5 DEF MouseSound
<1>9. CASE /\ ~OutOfSync(bit3) /\ ~Completes(Len(filled)) /\ bytes' = filled
           /\ UNCHANGED <<MOUSE_BUTTONS, garbled, bufferVars>>
  <2>1. Len(bytes) + 1 < PacketSize /\ bytes' # <<>> /\ Len(bytes') = Len(bytes) + 1
    BY <1>4, <1>7, <1>9 DEF Completes
  <2>4. GarbledByFaultOnly'
    BY <1>1, <1>2, <1>7, <1>9 DEF GarbledByFaultOnly
  <2>5. CASE InStep
    <3>1. Len(bytes) = index
      BY <2>5 DEF InStep
    <3>0. spoiltAt' = spoiltAt
      BY <1>1, <1>7, <3>1
    <3>2. index' = index + 1 /\ packet' = packet /\ left' = left /\ before' = before
      BY <1>6, <1>7, <2>1, <3>1
    <3>3. ASSUME NEW i \in 1 .. index + 1
          PROVE  bytes'[i].packet = packet /\ bytes'[i].index = i - 1
      <4>1. CASE i = index + 1
        <5>1. bytes'[i] = NextByte(bit0)
          BY <1>4, <1>9, <3>1, <4>1
        <5>. QED BY <1>7, <4>1, <5>1 DEF NextByte
      <4>2. CASE i # index + 1
        <5>1. i \in 1 .. index /\ i \in 1 .. Len(bytes)
          BY <1>7, <3>1, <4>2
        <5>2. bytes # <<>>
          BY <1>7, <5>1
        <5>. QED BY <1>4, <1>9, <2>5, <5>1, <5>2 DEF InStep
      <4>. QED BY <4>1, <4>2
    <3>4. bytes'[1].bit0 = left
      <4>1. CASE index = 0
        <5>1. bytes'[1] = NextByte(bit0) /\ bit0 = left
          BY <1>1, <1>4, <1>9, <3>1, <4>1
        <5>. QED BY <5>1 DEF NextByte
      <4>2. CASE index # 0
        <5>1. bytes # <<>> /\ index > 0 /\ 1 \in 1 .. Len(bytes)
          BY <1>7, <3>1, <4>2
        <5>. QED BY <1>4, <1>9, <2>5, <5>1 DEF InStep
      <4>. QED BY <4>1, <4>2
    <3>5. InStep'
      BY <2>1, <3>1, <3>2, <3>3, <3>4 DEF InStep
    <3>6. SyncInv'
      BY <2>1, <3>5 DEF SyncInv
    <3>7. BackInStep'
      BY <1>7, <2>1, <3>0, <3>1, <3>2 DEF BackInStep
    <3>. QED BY <1>3, <2>4, <3>6, <3>7 DEF MouseSound
  <2>6. CASE ~InStep /\ bytes # <<>>
    <3>1. /\ garbled < lost + mistaken /\ mistaken' = mistaken /\ spoiltAt' = spoiltAt
          /\ packet <= spoiltAt + 1 /\ (packet = spoiltAt + 1 => index <= Len(bytes))
      BY <1>1, <1>2, <2>6 DEF SyncInv
    <3>2. packet' <= spoiltAt' + 1 /\ (packet' = spoiltAt' + 1 => index' <= Len(bytes'))
      BY <1>1, <1>6, <1>7, <2>1, <3>1
    <3>3. SyncInv'
      BY <1>1, <1>9, <2>1, <3>1, <3>2 DEF SyncInv
    <3>4. BackInStep'
      BY <1>1, <1>6, <1>7, <3>2 DEF BackInStep
    <3>. QED BY <1>3, <2>4, <3>3, <3>4 DEF MouseSound
  <2>7. CASE ~InStep /\ bytes = <<>>
    <3>1. index # 0
      BY <1>7, <2>7 DEF InStep
    <3>2. mistaken' = mistaken + 1 /\ spoiltAt' = packet
      BY <1>1, <1>9, <2>7, <3>1 DEF OutOfSync
    <3>3. garbled' < lost' + mistaken'
      BY <1>1, <1>2, <1>7, <1>9, <3>2 DEF GarbledByFaultOnly
    <3>4. packet' <= spoiltAt' + 1 /\ (packet' = spoiltAt' + 1 => index' <= Len(bytes'))
      BY <1>6, <1>7, <2>1, <3>2
    <3>5. SyncInv'
      BY <2>1, <3>3, <3>4 DEF SyncInv
    <3>6. BackInStep'
      BY <1>6, <1>7, <3>2, <3>4 DEF BackInStep
    <3>. QED BY <1>3, <2>4, <3>5, <3>6 DEF MouseSound
  <2>. QED BY <2>5, <2>6, <2>7
<1>10. CASE /\ ~OutOfSync(bit3) /\ Completes(Len(filled)) /\ MOUSE_BUTTONS' = event.left
            /\ push(event) /\ bytes' = <<>>
            /\ garbled' = IF event.intact THEN garbled ELSE garbled + 1
  <2>1. /\ Len(bytes) + 1 = PacketSize /\ bytes # <<>> /\ Len(bytes') = 0
        /\ mistaken' = mistaken /\ spoiltAt' = spoiltAt
    BY <1>1, <1>2, <1>4, <1>7, <1>10 DEF Completes, TypeOK
  <2>4. CASE InStep
    <3>1. index + 1 = PacketSize
      BY <2>1, <2>4 DEF InStep
    <3>2. ~IsGarbled(filled) /\ filled[1].bit0 = left
      BY <1>2, <2>4, <3>1, InStepIsWhole DEF filled
    <3>3. index' = 0 /\ before' = left /\ garbled' = garbled /\ MOUSE_BUTTONS' = left
      <4>1. index' = 0 /\ before' = left
        BY <1>6, <1>7, <3>1
      <4>2. event.intact
        BY <1>5, <3>2, Zenon
      <4>3. garbled' = garbled /\ MOUSE_BUTTONS' = left
        BY <1>5, <1>10, <3>2, <4>2, Zenon
      <4>. QED BY <4>1, <4>3
    <3>4. GarbledByFaultOnly' /\ SyncInv'
      BY <1>1, <1>2, <1>10, <2>1, <3>3 DEF GarbledByFaultOnly, SyncInv
    <3>5. BackInStep'
      BY <1>6, <2>1, <3>1, <3>3 DEF BackInStep
    <3>. QED BY <1>3, <3>4, <3>5 DEF MouseSound
  <2>5. CASE ~InStep
    <3>1. garbled < lost + mistaken /\ packet <= spoiltAt + 1
      BY <1>2, <2>1, <2>5 DEF SyncInv
    <3>2. GarbledByFaultOnly'
      BY <1>1, <1>7, <1>10, <2>1, <3>1 DEF GarbledByFaultOnly
    <3>3. SyncInv'
      BY <1>1, <1>6, <1>7, <1>10, <2>1, <3>1 DEF SyncInv
    <3>4. BackInStep'
      BY <1>1, <1>6, <1>7, <2>1, <3>1 DEF BackInStep
    <3>. QED BY <1>3, <3>2, <3>3, <3>4 DEF MouseSound
  <2>. QED BY <2>4, <2>5
<1>. QED BY <1>5, <1>8, <1>9, <1>10

\* Reading an event leaves the driver alone.
LEMMA ReadKeeps ==
  ASSUME MouseSound, try_read_event
  PROVE  MouseSound'
<1>1. UNCHANGED <<packet, index, left, before, lost, mistaken, spoiltAt, bytes, MOUSE_BUTTONS,
                  garbled>>
  BY DEF try_read_event, mouse, faults
<1>2. TypeOK'
  BY TypesKept DEF MouseSound, Next
<1>. QED BY <1>1, <1>2 DEF MouseSound, GarbledByFaultOnly, BackInStep, SyncInv, InStep

\* The mouse begins in step.
LEMMA MouseInitSound ==
  ASSUME Init
  PROVE  MouseSound
<1>1. BufferOK /\ IndexInv
  BY BufferAssumption DEF Init, BufferInit, BufferOK, IndexInv, Slot, Positions
<1>2. Len(bytes) = 0 /\ bytes \in Seq([packet : Nat, index : Nat, bit0 : BOOLEAN])
  BY DEF Init
<1>3. /\ packet \in 1 .. MaxPackets + 1 /\ index \in 0 .. PacketSize - 1
      /\ lost \in 0 .. MaxLost /\ mistaken \in Nat /\ spoiltAt \in 0 .. packet
      /\ garbled \in Nat /\ Len(bytes) < PacketSize
  BY <1>2, PacketAssumption DEF Init
<1>4. left \in BOOLEAN /\ before \in BOOLEAN /\ MOUSE_BUTTONS \in BOOLEAN
  BY DEF Init
<1>5. TypeOK
  BY <1>1, <1>2, <1>3, <1>4 DEF TypeOK
<1>6. GarbledByFaultOnly /\ BackInStep /\ SyncInv
  BY <1>2 DEF Init, GarbledByFaultOnly, BackInStep, SyncInv
<1>. QED BY <1>5, <1>6 DEF MouseSound

\* For every ring, packet size, number of packets and losses, and for any
\* movements: an event is garbled only by a byte lost or by a movement byte that a
\* driver out of step took for a first byte, and one packet without either brings
\* the driver back in step.
THEOREM MouseIsSound == Spec => []MouseSound
<1>1. Init => MouseSound
  BY MouseInitSound
<1>2. MouseSound /\ [Next]_vars => MouseSound'
  <2>1. ASSUME MouseSound, UNCHANGED vars PROVE MouseSound'
    <3>1. TypeOK'
      BY <2>1, TypesKept DEF MouseSound
    <3>. QED BY <2>1, <3>1 DEF vars, MouseSound, GarbledByFaultOnly, BackInStep, SyncInv, InStep
  <2>. QED BY <2>1, LossKeeps, IrqKeeps, ReadKeeps DEF Next
<1>. QED BY <1>1, <1>2, PTL DEF Spec

\* The driver's ring is the queue, whatever the mouse sends and the wire loses.
THEOREM DriverKeepsQueue == Spec => ImplementsQueue
<1>1. Init => BufferInit /\ TypeOK
  BY MouseInitSound DEF Init, MouseSound
<1>2. TypeOK /\ [Next]_vars => TypeOK' /\ [BufferNext]_bufferVars
  BY TypesKept
<1>. QED BY <1>1, <1>2, MouseBufferIsQueue, PTL DEF Spec, BufferSpec

-----------------------------------------------------------------------------
(* The window manager                                                      *)

\* A window list all of whose ids were given before n, each to one window.
Listed(ws, n) ==
  /\ ws \in Seq(Window)
  /\ Len(ws) <= MAX_WINDOWS
  /\ \A i, j \in DOMAIN ws : ws[i].id = ws[j].id => i = j
  /\ \A i \in DOMAIN ws : ws[i].id < n

OneFocus(ws) == \A i, j \in DOMAIN ws : ws[i].focused /\ ws[j].focused => i = j

\* r has windows of ws, each at most once, in places that p tells; their flags
\* may have changed.
Selects(r, ws, p) ==
  /\ r \in Seq(Window)
  /\ Len(r) <= Len(ws)
  /\ \A k \in DOMAIN r : p[k] \in DOMAIN ws /\ r[k].id = ws[p[k]].id
  /\ \A k, l \in DOMAIN r : p[k] = p[l] => k = l

\* Whatever selects windows of a list gives no id anew and none twice.
LEMMA SelectedListed ==
  ASSUME NEW n, NEW ws, NEW r, NEW p, Listed(ws, n), Selects(r, ws, p), MAX_WINDOWS \in Nat
  PROVE  Listed(r, n) /\ Ids(r) \subseteq Ids(ws)
<1>1. Ids(r) \subseteq Ids(ws)
  BY Zenon DEF Ids, Selects
<1>2. Len(r) <= MAX_WINDOWS
  <2>1. Len(r) \in Nat /\ Len(ws) \in Nat
    BY LenProperties DEF Selects, Listed
  <2>. QED BY <2>1 DEF Selects, Listed
<1>3. ASSUME NEW i \in DOMAIN r, NEW j \in DOMAIN r, r[i].id = r[j].id
      PROVE  i = j
  <2>1. p[i] \in DOMAIN ws /\ p[j] \in DOMAIN ws /\ ws[p[i]].id = ws[p[j]].id
    BY <1>3, Zenon DEF Selects
  <2>2. p[i] = p[j]
    BY <2>1, Zenon DEF Listed
  <2>. QED BY <2>2, Zenon DEF Selects
<1>4. \A i \in DOMAIN r : r[i].id < n
  BY Zenon DEF Selects, Listed
<1>. QED BY <1>1, <1>2, <1>3, <1>4, Zenon DEF Listed, Selects

\* A list of the same length with the same ids place by place.
SamePlaces(r, ws) ==
  /\ r \in Seq(Window)
  /\ Len(r) = Len(ws)
  /\ \A i \in DOMAIN ws : r[i].id = ws[i].id

\* It is a list of the same windows.
LEMMA SameListed ==
  ASSUME NEW n, NEW ws, NEW r, Listed(ws, n), SamePlaces(r, ws), MAX_WINDOWS \in Nat
  PROVE  Listed(r, n) /\ Ids(r) = Ids(ws)
<1>1. DOMAIN r = DOMAIN ws
  BY DEF SamePlaces, Listed
<1>2. Ids(r) = Ids(ws)
  BY <1>1, Zenon DEF Ids, SamePlaces
<1>3. Len(r) <= MAX_WINDOWS
  BY Zenon DEF SamePlaces, Listed
<1>. QED BY <1>1, <1>2, <1>3, Zenon DEF Listed, SamePlaces

\* The flags of a window change one at a time, and its id never does.
LEMMA FocusWritten ==
  ASSUME NEW w \in Window, NEW f \in BOOLEAN, NEW e, e = [w EXCEPT !.focused = f]
  PROVE  e \in Window /\ e.id = w.id /\ e.focused = f
  BY DEF Window

\* Neither the id nor the focus depends on minimized,
LEMMA MinimizedWritten ==
  ASSUME NEW w \in Window, NEW f \in BOOLEAN, NEW e, e = [w EXCEPT !.minimized = f]
  PROVE  e \in Window /\ e.id = w.id /\ e.focused = w.focused
  BY DEF Window

\* nor on maximized.
LEMMA MaximizedWritten ==
  ASSUME NEW w \in Window, NEW f \in BOOLEAN, NEW e, e = [w EXCEPT !.maximized = f]
  PROVE  e \in Window /\ e.id = w.id /\ e.focused = w.focused
  BY DEF Window

\* A function on the places of a list, with windows of the same ids.
LEMMA FunctionPlaces ==
  ASSUME NEW ws \in Seq(Window), NEW r, r = [i \in DOMAIN ws |-> r[i]],
         \A i \in DOMAIN ws : r[i] \in Window /\ r[i].id = ws[i].id
  PROVE  SamePlaces(r, ws) /\ DOMAIN r = DOMAIN ws
<1>1. DOMAIN ws = 1 .. Len(ws) /\ Len(ws) \in Nat
  BY LenProperties
<1>2. r \in [1 .. Len(ws) -> Window]
  BY <1>1, Zenon
<1>3. r \in Seq(Window) /\ Len(r) = Len(ws)
  BY <1>1, <1>2
<1>. QED BY <1>1, <1>2, <1>3, Zenon DEF SamePlaces

\* set_focus leaves the windows in their places and the focus with at most one
\* of them; so does unfocus_all, with none.
LEMMA SetFocus ==
  ASSUME NEW ws \in Seq(Window), NEW idx
  PROVE  /\ SamePlaces(set_focus(ws, idx), ws)
         /\ OneFocus(set_focus(ws, idx))
         /\ \A i \in DOMAIN ws : set_focus(ws, idx)[i].focused <=> (i = idx)
<1>. DEFINE r == set_focus(ws, idx)
<1>1. r = [i \in DOMAIN ws |-> [ws[i] EXCEPT !.focused = (i = idx)]]
  BY Zenon DEF set_focus
<1>. HIDE DEF r
<1>2. ASSUME NEW i \in DOMAIN ws
      PROVE  r[i] \in Window /\ r[i].id = ws[i].id /\ (r[i].focused <=> i = idx)
  <2>1. ws[i] \in Window
    BY ElementOfSeq, LenProperties, Zenon
  <2>2. PICK f \in BOOLEAN : f = (i = idx)
    BY Zenon
  <2>3. r[i] = [ws[i] EXCEPT !.focused = f]
    BY <1>1, <2>2, Zenon
  <2>4. r[i] \in Window /\ r[i].id = ws[i].id /\ r[i].focused = f
    BY <2>1, <2>3, FocusWritten
  <2>. QED BY <2>2, <2>4, Zenon
<1>3. SamePlaces(r, ws) /\ DOMAIN r = DOMAIN ws
  BY <1>1, <1>2, FunctionPlaces, Zenon
<1>4. OneFocus(r)
  <2>1. ASSUME NEW i \in DOMAIN r, NEW j \in DOMAIN r, r[i].focused, r[j].focused
        PROVE  i = j
    <3>1. i = idx /\ j = idx
      BY <1>2, <1>3, <2>1, Zenon
    <3>. QED BY <3>1, Zenon
  <2>. QED BY <2>1, Zenon DEF OneFocus
<1>. QED BY <1>2, <1>3, <1>4, Zenon DEF r

\* One window's flags are written: the places stay, and so do the flags of the
\* others.
LEMMA OneWritten ==
  ASSUME NEW ws \in Seq(Window), NEW idx, NEW w,
         idx \in DOMAIN ws => w \in Window /\ w.id = ws[idx].id
  PROVE  /\ SamePlaces([ws EXCEPT ![idx] = w], ws)
         /\ DOMAIN [ws EXCEPT ![idx] = w] = DOMAIN ws
         /\ \A i \in DOMAIN ws : [ws EXCEPT ![idx] = w][i] = IF i = idx THEN w ELSE ws[i]
<1>. DEFINE r == [ws EXCEPT ![idx] = w]
<1>1. r = [i \in DOMAIN ws |-> IF i = idx THEN w ELSE ws[i]]
  BY Zenon
<1>. HIDE DEF r
<1>2. r = [i \in DOMAIN ws |-> r[i]]
  BY <1>1, Zenon
<1>3. \A i \in DOMAIN ws : r[i] \in Window /\ r[i].id = ws[i].id
  BY <1>1, ElementOfSeq, LenProperties, Zenon
<1>4. SamePlaces(r, ws) /\ DOMAIN r = DOMAIN ws
  BY <1>2, <1>3, FunctionPlaces, Zenon
<1>. QED BY <1>1, <1>4, Zenon DEF r

\* t is s with e at its end; m is the list with the window at idx moved there.
Appended(t, s, e) == t = Append(s, e)
Moved(m, ws, idx) == Appended(m, remove(ws, idx), ws[idx])

\* What is appended comes last, and the rest stays where it was.
LEMMA AppendFacts ==
  ASSUME NEW S, NEW s \in Seq(S), NEW e \in S, NEW t, Appended(t, s, e)
  PROVE  /\ t \in Seq(S) /\ Len(t) = Len(s) + 1 /\ DOMAIN t = 1 .. Len(s) + 1
         /\ \A k \in 1 .. Len(s) : t[k] = s[k]
         /\ t[Len(s) + 1] = e
  BY DEF Appended

\* An element taken out of a sequence and put back at its end.
LEMMA MoveFacts ==
  ASSUME NEW S, NEW s \in Seq(S), NEW i \in 1 .. Len(s),
         NEW r, Removed(r, s, i), NEW t, Appended(t, r, s[i])
  PROVE  /\ t \in Seq(S) /\ Len(t) = Len(s)
         /\ \A k \in 1 .. Len(s) - 1 : t[k] = s[IF k < i THEN k ELSE k + 1]
         /\ t[Len(s)] = s[i]
<1>1. /\ r \in Seq(S) /\ Len(r) = Len(s) - 1
      /\ \A k \in 1 .. Len(s) - 1 : r[k] = s[IF k < i THEN k ELSE k + 1]
  BY RemoveFacts, Zenon
<1>2. s[i] \in S
  BY ElementOfSeq, Zenon
<1>3. /\ t \in Seq(S) /\ Len(t) = Len(r) + 1
      /\ \A k \in 1 .. Len(r) : t[k] = r[k]
      /\ t[Len(r) + 1] = s[i]
  BY <1>1, <1>2, AppendFacts
<1>4. Len(r) + 1 = Len(s)
  BY <1>1, LenProperties
<1>. QED BY <1>1, <1>3, <1>4, Zenon

\* Removing a window keeps the others, once each.
LEMMA RemoveListed ==
  ASSUME NEW n, NEW ws, Listed(ws, n), NEW idx \in DOMAIN ws, MAX_WINDOWS \in Nat
  PROVE  /\ Listed(remove(ws, idx), n)
         /\ Ids(remove(ws, idx)) \subseteq Ids(ws)
<1>. DEFINE r == remove(ws, idx)
            p == [k \in DOMAIN r |-> IF k < idx THEN k ELSE k + 1]
<1>1. Removed(r, ws, idx)
  BY Zenon DEF remove, Removed
<1>2. ws \in Seq(Window) /\ idx \in 1 .. Len(ws) /\ Len(ws) \in Nat /\ DOMAIN ws = 1 .. Len(ws)
  BY LenProperties DEF Listed
<1>. HIDE DEF r
<1>3. /\ r \in Seq(Window) /\ Len(r) = Len(ws) - 1
      /\ \A k \in 1 .. Len(ws) - 1 : r[k] = ws[IF k < idx THEN k ELSE k + 1]
  BY <1>1, <1>2, RemoveFacts, Zenon
<1>4. DOMAIN r = 1 .. Len(ws) - 1
  BY <1>2, <1>3
<1>5. \A k \in DOMAIN r : p[k] \in DOMAIN ws /\ r[k] = ws[p[k]]
  BY <1>2, <1>3, <1>4
<1>6. \A k, l \in DOMAIN r : p[k] = p[l] => k = l
  BY <1>2, <1>4
<1>7. Len(r) <= Len(ws)
  BY <1>2, <1>3
<1>. HIDE DEF p
<1>8. Selects(r, ws, p)
  BY <1>3, <1>5, <1>6, <1>7, Zenon DEF Selects
<1>. QED BY <1>8, SelectedListed, Zenon DEF r

\* So does moving it to the end.
LEMMA MoveListed ==
  ASSUME NEW n, NEW ws, Listed(ws, n), NEW idx \in DOMAIN ws, MAX_WINDOWS \in Nat,
         NEW m, Moved(m, ws, idx)
  PROVE  Listed(m, n) /\ Ids(m) \subseteq Ids(ws) /\ Len(m) \in DOMAIN m
<1>. DEFINE p == [k \in DOMAIN m |-> IF k = Len(ws) THEN idx ELSE IF k < idx THEN k ELSE k + 1]
<1>1. ws \in Seq(Window) /\ idx \in 1 .. Len(ws) /\ Len(ws) \in Nat /\ DOMAIN ws = 1 .. Len(ws)
  BY LenProperties DEF Listed
<1>2. PICK r : r = remove(ws, idx)
  BY Zenon
<1>3. Removed(r, ws, idx) /\ Appended(m, r, ws[idx])
  BY <1>2, Zenon DEF remove, Removed, Moved
<1>4. /\ m \in Seq(Window) /\ Len(m) = Len(ws)
      /\ \A k \in 1 .. Len(ws) - 1 : m[k] = ws[IF k < idx THEN k ELSE k + 1]
      /\ m[Len(ws)] = ws[idx]
  BY <1>1, <1>3, MoveFacts
<1>5. DOMAIN m = 1 .. Len(ws)
  BY <1>4, LenProperties, Zenon
<1>6. \A k \in DOMAIN m : p[k] \in DOMAIN ws /\ m[k] = ws[p[k]]
  BY <1>1, <1>4, <1>5
<1>7. \A k, l \in DOMAIN m : p[k] = p[l] => k = l
  BY <1>1, <1>5
<1>8. Len(m) <= Len(ws) /\ Len(m) \in DOMAIN m
  BY <1>1, <1>4, <1>5
<1>. HIDE DEF p
<1>9. Selects(m, ws, p)
  BY <1>4, <1>6, <1>7, <1>8, Zenon DEF Selects
<1>. QED BY <1>8, <1>9, SelectedListed, Zenon

\* bring_to_front moves a window to the end, focuses it and keeps them all.
LEMMA Front ==
  ASSUME NEW n, NEW ws, Listed(ws, n), NEW id \in Ids(ws), MAX_WINDOWS \in Nat
  PROVE  /\ Listed(bring_to_front(ws, id), n)
         /\ OneFocus(bring_to_front(ws, id))
         /\ Ids(bring_to_front(ws, id)) \subseteq Ids(ws)
         /\ Len(bring_to_front(ws, id)) \in DOMAIN bring_to_front(ws, id)
         /\ bring_to_front(ws, id)[Len(bring_to_front(ws, id))].focused
<1>1. IndexOf(ws, id) \in DOMAIN ws
  BY Zenon DEF IndexOf, Ids
<1>2. PICK m : Moved(m, ws, IndexOf(ws, id))
  BY Zenon DEF Moved, Appended
<1>3. Listed(m, n) /\ Ids(m) \subseteq Ids(ws) /\ Len(m) \in DOMAIN m
  BY <1>1, <1>2, MoveListed, Zenon
<1>4. PICK f : f = set_focus(m, Len(m))
  BY Zenon
<1>5. f = bring_to_front(ws, id)
  BY <1>2, <1>4, Zenon DEF bring_to_front, Moved, Appended
<1>6. m \in Seq(Window)
  BY <1>3, Zenon DEF Listed
<1>7. /\ SamePlaces(f, m) /\ OneFocus(f)
      /\ \A i \in DOMAIN m : f[i].focused <=> (i = Len(m))
  BY <1>4, <1>6, SetFocus, Zenon
<1>8. Listed(f, n) /\ Ids(f) = Ids(m)
  BY <1>3, <1>7, SameListed, Zenon
<1>9. DOMAIN f = DOMAIN m /\ Len(f) = Len(m)
  BY <1>6, <1>7, LenProperties, Zenon DEF SamePlaces
<1>10. Len(f) \in DOMAIN f /\ f[Len(f)].focused
  BY <1>3, <1>7, <1>9, Zenon
<1>. QED BY <1>3, <1>5, <1>7, <1>8, <1>10, Zenon

\* The window that comes after a removed one takes the focus.
LEMMA RemovedAtListed ==
  ASSUME NEW n, NEW ws, Listed(ws, n), NEW idx \in DOMAIN ws, MAX_WINDOWS \in Nat
  PROVE  /\ Listed(RemovedAt(ws, idx), n)
         /\ OneFocus(RemovedAt(ws, idx))
         /\ Ids(RemovedAt(ws, idx)) \subseteq Ids(ws)
<1>1. PICK r : r = remove(ws, idx)
  BY Zenon
<1>2. Listed(r, n) /\ Ids(r) \subseteq Ids(ws)
  BY <1>1, RemoveListed, Zenon
<1>3. r \in Seq(Window)
  BY <1>2, Zenon DEF Listed
<1>4. CASE r = <<>>
  <2>1. RemovedAt(ws, idx) = r
    BY <1>1, <1>4, Zenon DEF RemovedAt
  <2>2. DOMAIN r = {}
    BY <1>4
  <2>3. OneFocus(r)
    BY <2>2, Zenon DEF OneFocus
  <2>. QED BY <1>2, <2>1, <2>3, Zenon
<1>5. CASE r # <<>>
  <2>1. PICK j : RemovedAt(ws, idx) = set_focus(r, j)
    BY <1>1, <1>5, Zenon DEF RemovedAt
  <2>2. SamePlaces(set_focus(r, j), r) /\ OneFocus(set_focus(r, j))
    BY <1>3, SetFocus, Zenon
  <2>3. Listed(set_focus(r, j), n) /\ Ids(set_focus(r, j)) = Ids(r)
    BY <1>2, <2>2, SameListed, Zenon
  <2>. QED BY <1>2, <2>1, <2>2, <2>3, Zenon
<1>. QED BY <1>4, <1>5

\* Minimized takes the focus from the window that has it, and gives it to at
\* most one other.
LEMMA MinimizedListed ==
  ASSUME NEW n, NEW ws, Listed(ws, n), OneFocus(ws), NEW idx \in DOMAIN ws, ws[idx].focused,
         MAX_WINDOWS \in Nat
  PROVE  /\ Listed(Minimized(ws, idx), n)
         /\ OneFocus(Minimized(ws, idx))
         /\ Ids(Minimized(ws, idx)) = Ids(ws)
<1>1. ws \in Seq(Window) /\ ws[idx] \in Window
  BY ElementOfSeq, LenProperties, Zenon DEF Listed
<1>2. PICK w : w = [ws[idx] EXCEPT !.minimized = TRUE, !.focused = FALSE]
  BY Zenon
<1>3. w \in Window /\ w.id = ws[idx].id /\ w.focused = FALSE
  BY <1>1, <1>2 DEF Window
<1>4. PICK hidden : hidden = [ws EXCEPT ![idx] = w]
  BY Zenon
<1>5. /\ SamePlaces(hidden, ws) /\ DOMAIN hidden = DOMAIN ws
      /\ \A i \in DOMAIN ws : hidden[i] = IF i = idx THEN w ELSE ws[i]
  BY <1>1, <1>3, <1>4, OneWritten, Zenon
<1>6. \A i \in DOMAIN hidden : ~hidden[i].focused
  BY <1>3, <1>5, Zenon DEF OneFocus
<1>7. Listed(hidden, n) /\ Ids(hidden) = Ids(ws)
  BY <1>5, SameListed, Zenon
<1>8. hidden = [ws EXCEPT ![idx].minimized = TRUE, ![idx].focused = FALSE]
  BY <1>1, <1>2, <1>4
<1>9. CASE Minimized(ws, idx) = hidden
  BY <1>6, <1>7, <1>9, Zenon DEF OneFocus
<1>10. CASE Minimized(ws, idx) # hidden
  <2>1. PICK j : Minimized(ws, idx) = [hidden EXCEPT ![j].focused = TRUE]
    BY <1>8, <1>10, Zenon DEF Minimized
  <2>2. PICK v : v = [hidden[j] EXCEPT !.focused = TRUE]
    BY Zenon
  <2>3. PICK r : r = [hidden EXCEPT ![j] = v]
    BY Zenon
  <2>4. r = Minimized(ws, idx)
    BY <2>1, <2>2, <2>3, Zenon
  <2>5. hidden \in Seq(Window)
    BY <1>7, Zenon DEF Listed
  <2>6. j \in DOMAIN hidden => v \in Window /\ v.id = hidden[j].id
    <3>1. j \in DOMAIN hidden => hidden[j] \in Window
      BY <2>5, ElementOfSeq, LenProperties, Zenon
    <3>. QED BY <2>2, <3>1, FocusWritten
  <2>7. /\ SamePlaces(r, hidden) /\ DOMAIN r = DOMAIN hidden
        /\ \A i \in DOMAIN hidden : r[i] = IF i = j THEN v ELSE hidden[i]
    BY <2>3, <2>5, <2>6, OneWritten, Zenon
  <2>8. Listed(r, n) /\ Ids(r) = Ids(hidden)
    BY <1>7, <2>7, SameListed, Zenon
  <2>9. OneFocus(r)
    BY <1>6, <2>7, Zenon DEF OneFocus
  <2>. QED BY <1>7, <2>4, <2>8, <2>9, Zenon
<1>. QED BY <1>9, <1>10

-----------------------------------------------------------------------------
\* The inductive invariant of the window manager, and what each of its
\* functions keeps.
WmInv ==
  /\ Listed(windows, next_id)
  /\ OneFocus(windows)
  /\ next_id \in 1 .. MaxOpened + 1
  /\ drag \in 0 .. MaxOpened
  /\ drag < next_id

WmKept == WmInv' /\ DragNeverAdoptsStep

\* Windows are opened by open_app only: whatever else changes the list selects
\* from it, and a drag begins on one of its windows or ends.
LEMMA NothingOpened ==
  ASSUME DesktopConstants, WmInv, next_id' = next_id,
         Listed(windows', next_id), OneFocus(windows'), Ids(windows') \subseteq Ids(windows),
         drag' \in Ids(windows) \cup {0, drag}
  PROVE  WmKept
<1>1. ASSUME NEW id \in Ids(windows) PROVE id \in 1 .. MaxOpened /\ id < next_id
  <2>1. PICK i \in DOMAIN windows : windows[i].id = id
    BY Zenon DEF Ids
  <2>2. windows[i] \in Window /\ windows[i].id < next_id
    BY ElementOfSeq, LenProperties, Zenon DEF WmInv, Listed
  <2>. QED BY <2>1, <2>2 DEF Window
<1>2. drag' \in 0 .. MaxOpened /\ drag' < next_id
  <2>1. 0 \in 0 .. MaxOpened /\ 0 < next_id
    BY DEF WmInv, DesktopConstants
  <2>2. \A id \in 1 .. MaxOpened : id \in 0 .. MaxOpened
    BY DEF DesktopConstants
  <2>. QED BY <1>1, <2>1, <2>2, Zenon DEF WmInv
<1>3. WmInv'
  BY <1>2, Zenon DEF WmInv
<1>4. DragNeverAdoptsStep
  BY Zenon DEF DragNeverAdoptsStep
<1>. QED BY <1>3, <1>4, Zenon DEF WmKept

\* A new window has a new id, so it is not the one being dragged.
LEMMA OpenKeeps ==
  ASSUME DesktopConstants, WmInv, open_app
  PROVE  WmKept
<1>1. CASE Len(windows) >= MAX_WINDOWS
  <2>1. windows' = windows /\ next_id' = next_id /\ drag' = drag
    BY <1>1, Zenon DEF open_app
  <2>. QED BY <2>1, NothingOpened, Zenon DEF WmInv
<1>2. CASE ~(Len(windows) >= MAX_WINDOWS)
  <2>1. PICK w : w = [id |-> next_id, focused |-> TRUE, minimized |-> FALSE, maximized |-> FALSE]
    BY Zenon
  <2>2. PICK t : Appended(t, windows, w)
    BY Zenon DEF Appended
  <2>3. /\ windows' = set_focus(t, Len(windows) + 1)
        /\ next_id' = next_id + 1
        /\ drag' = drag
        /\ next_id <= MaxOpened
    BY <1>2, <2>1, <2>2, Zenon DEF open_app, Appended
  <2>4. w \in Window /\ w.id = next_id
    BY <2>1, <2>3 DEF Window, WmInv, DesktopConstants
  <2>5. windows \in Seq(Window) /\ Len(windows) \in Nat /\ DOMAIN windows = 1 .. Len(windows)
    BY LenProperties DEF WmInv, Listed
  <2>6. /\ t \in Seq(Window) /\ Len(t) = Len(windows) + 1 /\ DOMAIN t = 1 .. Len(windows) + 1
        /\ \A k \in 1 .. Len(windows) : t[k] = windows[k]
        /\ t[Len(windows) + 1] = w
    BY <2>2, <2>4, <2>5, AppendFacts
  <2>7. /\ \A i, j \in DOMAIN windows : windows[i].id = windows[j].id => i = j
        /\ \A i \in DOMAIN windows : windows[i].id < next_id
        /\ \A i \in DOMAIN windows : windows[i].id \in Int
    <3>1. \A i \in DOMAIN windows : windows[i] \in Window
      BY <2>5, ElementOfSeq, Zenon
    <3>. QED BY <3>1 DEF WmInv, Listed, Window
  <2>8. Listed(t, next_id + 1)
    <3>1. next_id \in Nat /\ MAX_WINDOWS \in Nat
      BY DEF WmInv, DesktopConstants
    <3>2. ASSUME NEW i \in DOMAIN t PROVE t[i].id \in Int /\ t[i].id < next_id + 1
      BY <2>4, <2>5, <2>6, <2>7, <3>1
    <3>3. ASSUME NEW i \in DOMAIN t, NEW j \in DOMAIN t, t[i].id = t[j].id PROVE i = j
      <4>1. CASE i \in DOMAIN windows /\ j \in DOMAIN windows
        BY <2>5, <2>6, <2>7, <3>3, <4>1
      <4>2. CASE i \in DOMAIN windows /\ j = Len(windows) + 1
        BY <2>4, <2>5, <2>6, <2>7, <3>1, <3>3, <4>2
      <4>3. CASE i = Len(windows) + 1 /\ j \in DOMAIN windows
        BY <2>4, <2>5, <2>6, <2>7, <3>1, <3>3, <4>3
      <4>. QED BY <2>5, <2>6, <4>1, <4>2, <4>3
    <3>4. Len(t) <= MAX_WINDOWS
      BY <1>2, <2>5, <2>6, <3>1
    <3>. QED BY <2>6, <3>2, <3>3, <3>4, Zenon DEF Listed
  <2>9. SamePlaces(windows', t) /\ OneFocus(windows')
    BY <2>3, <2>6, SetFocus, Zenon
  <2>10. MAX_WINDOWS \in Nat
    BY DEF DesktopConstants
  <2>11. Listed(windows', next_id') /\ Ids(windows') = Ids(t)
    <3>1. Listed(windows', next_id + 1) /\ Ids(windows') = Ids(t)
      BY <2>8, <2>9, <2>10, SameListed, Zenon
    <3>. QED BY <2>3, <3>1, Zenon
  <2>12. \A id \in Ids(t) : id \in Ids(windows) \/ id = next_id
    <3>1. \A k \in DOMAIN t : k \in DOMAIN windows \/ k = Len(windows) + 1
      BY <2>5, <2>6
    <3>. QED BY <2>4, <2>5, <2>6, <3>1, Zenon DEF Ids
  <2>13. next_id' \in 1 .. MaxOpened + 1 /\ drag' \in 0 .. MaxOpened /\ drag' < next_id'
         /\ drag # next_id
    BY <2>3 DEF WmInv, DesktopConstants
  <2>14. WmInv'
    BY <2>9, <2>11, <2>13, Zenon DEF WmInv
  <2>15. DragNeverAdoptsStep
    BY <2>11, <2>12, <2>13, Zenon DEF DragNeverAdoptsStep
  <2>. QED BY <2>14, <2>15, Zenon DEF WmKept
<1>. QED BY <1>1, <1>2

\* Escape or F4 closes the focused window.
LEMMA CloseKeeps ==
  ASSUME DesktopConstants, WmInv, close_focused
  PROVE  WmKept
<1>1. focused_index \in DOMAIN windows
  BY Zenon DEF close_focused, has_focused_window, focused_index
<1>2. MAX_WINDOWS \in Nat
  BY DEF DesktopConstants
<1>3. /\ Listed(RemovedAt(windows, focused_index), next_id)
      /\ OneFocus(RemovedAt(windows, focused_index))
      /\ Ids(RemovedAt(windows, focused_index)) \subseteq Ids(windows)
  BY <1>1, <1>2, RemovedAtListed, Zenon DEF WmInv
<1>4. windows' = RemovedAt(windows, focused_index) /\ next_id' = next_id /\ drag' = drag
  BY Zenon DEF close_focused
<1>. QED BY <1>3, <1>4, NothingOpened, Zenon

\* Setting the focus, on a list with the same windows, is all that F2 and the
\* task bar do to windows that are not minimized.
LEMMA FocusKeeps ==
  ASSUME DesktopConstants, WmInv, next_id' = next_id, drag' = drag,
         NEW ws, SamePlaces(ws, windows), NEW idx, windows' = set_focus(ws, idx)
  PROVE  WmKept
<1>1. MAX_WINDOWS \in Nat
  BY DEF DesktopConstants
<1>2. Listed(ws, next_id) /\ Ids(ws) = Ids(windows)
  BY <1>1, SameListed, Zenon DEF WmInv
<1>3. SamePlaces(windows', ws) /\ OneFocus(windows')
  <2>1. ws \in Seq(Window)
    BY Zenon DEF SamePlaces
  <2>. QED BY <2>1, SetFocus, Zenon
<1>4. Listed(windows', next_id) /\ Ids(windows') = Ids(ws)
  BY <1>1, <1>2, <1>3, SameListed, Zenon
<1>. QED BY <1>2, <1>3, <1>4, NothingOpened, Zenon

\* F2 passes the focus on.
LEMMA CycleKeeps ==
  ASSUME DesktopConstants, WmInv, cycle_focus
  PROVE  WmKept
<1>1. next_id' = next_id /\ drag' = drag
  BY Zenon DEF cycle_focus
<1>2. CASE Len(windows) <= 1
  <2>1. windows' = windows
    BY <1>2, Zenon DEF cycle_focus
  <2>. QED BY <1>1, <2>1, NothingOpened, Zenon DEF WmInv
<1>3. CASE ~(Len(windows) <= 1)
  <2>1. PICK idx : windows' = set_focus(windows, idx)
    BY <1>3, Zenon DEF cycle_focus
  <2>2. SamePlaces(windows, windows)
    BY Zenon DEF SamePlaces, WmInv, Listed
  <2>. QED BY <1>1, <2>1, <2>2, FocusKeeps, Zenon
<1>. QED BY <1>2, <1>3

\* A click on a window's button in the task bar restores, hides or focuses it.
LEMMA ToggleKeeps ==
  ASSUME DesktopConstants, WmInv, NEW id, toggle_minimize_by_id(id)
  PROVE  WmKept
<1>1. PICK idx : idx = IndexOf(windows, id)
  BY Zenon
<1>2. idx \in DOMAIN windows
  BY <1>1, Zenon DEF toggle_minimize_by_id, IndexOf, Ids
<1>3. next_id' = next_id /\ drag' = drag
  BY Zenon DEF toggle_minimize_by_id
<1>4. windows \in Seq(Window) /\ windows[idx] \in Window
  BY <1>2, ElementOfSeq, LenProperties, Zenon DEF WmInv, Listed
<1>5. CASE windows[idx].minimized
  <2>1. windows' = set_focus([windows EXCEPT ![idx].minimized = FALSE], idx)
    BY <1>1, <1>5, Zenon DEF toggle_minimize_by_id
  <2>2. PICK w : w = [windows[idx] EXCEPT !.minimized = FALSE]
    BY Zenon
  <2>3. w \in Window /\ w.id = windows[idx].id
    BY <1>4, <2>2, MinimizedWritten
  <2>4. PICK ws : ws = [windows EXCEPT ![idx] = w]
    BY Zenon
  <2>5. SamePlaces(ws, windows)
    BY <1>4, <2>3, <2>4, OneWritten, Zenon
  <2>6. windows' = set_focus(ws, idx)
    BY <2>1, <2>2, <2>4, Zenon
  <2>. QED BY <1>3, <2>5, <2>6, FocusKeeps, Zenon
<1>6. CASE ~windows[idx].minimized /\ windows[idx].focused
  <2>1. windows' = Minimized(windows, idx)
    BY <1>1, <1>6, Zenon DEF toggle_minimize_by_id
  <2>2. MAX_WINDOWS \in Nat
    BY DEF DesktopConstants
  <2>3. Listed(windows', next_id) /\ OneFocus(windows') /\ Ids(windows') = Ids(windows)
    BY <1>2, <1>6, <2>1, <2>2, MinimizedListed, Zenon DEF WmInv
  <2>. QED BY <1>3, <2>3, NothingOpened, Zenon
<1>7. CASE ~windows[idx].minimized /\ ~windows[idx].focused
  <2>1. windows' = set_focus(windows, idx)
    BY <1>1, <1>7, Zenon DEF toggle_minimize_by_id
  <2>2. SamePlaces(windows, windows)
    BY <1>4, Zenon DEF SamePlaces
  <2>. QED BY <1>3, <2>1, <2>2, FocusKeeps, Zenon
<1>. QED BY <1>5, <1>6, <1>7, Zenon

\* A click on the empty desktop takes the focus away.
LEMMA UnfocusKeeps ==
  ASSUME DesktopConstants, WmInv, unfocus_all
  PROVE  WmKept
<1>1. /\ windows' = [i \in DOMAIN windows |-> [windows[i] EXCEPT !.focused = FALSE]]
      /\ next_id' = next_id /\ drag' = drag
  BY Zenon DEF unfocus_all
<1>2. windows \in Seq(Window)
  BY Zenon DEF WmInv, Listed
<1>3. ASSUME NEW i \in DOMAIN windows
      PROVE  windows'[i] \in Window /\ windows'[i].id = windows[i].id /\ windows'[i].focused = FALSE
  <2>1. windows[i] \in Window
    BY <1>2, ElementOfSeq, LenProperties, Zenon
  <2>2. windows'[i] = [windows[i] EXCEPT !.focused = FALSE]
    BY <1>1, Zenon
  <2>. QED BY <2>1, <2>2, FocusWritten
<1>4. windows' = [i \in DOMAIN windows |-> windows'[i]]
  BY <1>1, Zenon
<1>5. SamePlaces(windows', windows) /\ DOMAIN windows' = DOMAIN windows
  BY <1>2, <1>3, <1>4, FunctionPlaces, Zenon
<1>6. OneFocus(windows')
  BY <1>3, <1>5, Zenon DEF OneFocus
<1>7. MAX_WINDOWS \in Nat
  BY DEF DesktopConstants
<1>8. Listed(windows', next_id) /\ Ids(windows') = Ids(windows)
  BY <1>5, <1>7, SameListed, Zenon DEF WmInv
<1>. QED BY <1>1, <1>6, <1>8, NothingOpened, Zenon

\* A click on a window brings it to the front before its zone is looked at.
LEMMA ClickKeeps ==
  ASSUME DesktopConstants, WmInv, NEW id, NEW zone, handle_click(id, zone)
  PROVE  WmKept
<1>1. PICK front : front = bring_to_front(windows, id)
  BY Zenon
<1>. DEFINE top == Len(front)
<1>2. MAX_WINDOWS \in Nat
  BY DEF DesktopConstants
<1>3. id \in Ids(windows) /\ next_id' = next_id
  BY Zenon DEF handle_click
<1>4. /\ Listed(front, next_id) /\ OneFocus(front) /\ Ids(front) \subseteq Ids(windows)
      /\ top \in DOMAIN front /\ front[top].focused
  BY <1>1, <1>2, <1>3, Front, Zenon DEF WmInv
<1>5. drag' \in Ids(windows) \cup {0, drag}
  BY <1>3 DEF handle_click
<1>6. ASSUME NEW m \in BOOLEAN, NEW ws, ws = [front EXCEPT ![top].maximized = m]
      PROVE  Listed(ws, next_id) /\ OneFocus(ws) /\ Ids(ws) = Ids(front)
  <2>1. front \in Seq(Window) /\ front[top] \in Window
    BY <1>4, ElementOfSeq, LenProperties, Zenon DEF Listed
  <2>2. PICK w : w = [front[top] EXCEPT !.maximized = m]
    BY Zenon
  <2>3. w \in Window /\ w.id = front[top].id /\ w.focused = front[top].focused
    BY <2>1, <2>2, MaximizedWritten
  <2>4. ws = [front EXCEPT ![top] = w]
    BY <1>6, <2>2, Zenon
  <2>5. /\ SamePlaces(ws, front) /\ DOMAIN ws = DOMAIN front
        /\ \A i \in DOMAIN front : ws[i] = IF i = top THEN w ELSE front[i]
    BY <2>1, <2>3, <2>4, OneWritten, Zenon
  <2>6. \A i \in DOMAIN front : ws[i].focused = front[i].focused
    BY <2>3, <2>5, Zenon
  <2>7. OneFocus(ws)
    BY <1>4, <2>5, <2>6, Zenon DEF OneFocus
  <2>. QED BY <1>2, <1>4, <2>5, <2>7, SameListed, Zenon
<1>7. Listed(windows', next_id) /\ OneFocus(windows') /\ Ids(windows') \subseteq Ids(front)
  <2>1. CASE zone = "close"
    <3>1. windows' = RemovedAt(front, top)
      BY <1>1, <2>1 DEF handle_click
    <3>. QED BY <1>2, <1>4, <3>1, RemovedAtListed, Zenon
  <2>2. CASE zone = "maximize"
    <3>1. windows' = [front EXCEPT ![top].maximized = ~front[top].maximized]
      BY <1>1, <2>2 DEF handle_click
    <3>2. (~front[top].maximized) \in BOOLEAN
      BY Zenon
    <3>. QED BY <1>6, <3>1, <3>2, Zenon
  <2>3. CASE zone = "minimize"
    <3>1. windows' = Minimized(front, top)
      BY <1>1, <2>3 DEF handle_click
    <3>. QED BY <1>2, <1>4, <3>1, MinimizedListed, Zenon
  <2>4. CASE zone = "title"
    <3>1. windows' = [front EXCEPT ![top].maximized = FALSE]
      BY <1>1, <2>4 DEF handle_click
    <3>. QED BY <1>6, <3>1, Zenon
  <2>5. CASE zone \notin {"close", "maximize", "minimize", "title"}
    <3>1. windows' = front
      BY <1>1, <2>5 DEF handle_click
    <3>. QED BY <1>4, <3>1, Zenon
  <2>. QED BY <2>1, <2>2, <2>3, <2>4, <2>5, Zenon
<1>. QED BY <1>3, <1>4, <1>5, <1>7, NothingOpened, Zenon

\* Movements and releases only end a drag; a turn of the loop may also leave
\* the window manager alone.
LEMMA DragKeeps ==
  ASSUME DesktopConstants, WmInv, handle_mouse_move \/ handle_mouse_up \/ UNCHANGED wm
  PROVE  WmKept
<1>1. windows' = windows /\ next_id' = next_id /\ (drag' = drag \/ drag' = 0)
  BY DEF handle_mouse_move, handle_mouse_up, wm
<1>. QED BY <1>1, NothingOpened, Zenon DEF WmInv

-----------------------------------------------------------------------------
\* The mouse events and the tracker; the menu, the icons and the loop.
DeviceInv ==
  /\ buttons \in Buttons /\ prev \in Buttons
  /\ mouseCount \in 0 .. MaxMouse
  /\ ring \in Seq(Buttons) /\ Len(ring) <= QUEUE_SIZE
  /\ moved \in BOOLEAN
  /\ ButtonsTracked

MenuInv ==
  /\ start_menu_open \in BOOLEAN
  /\ start_menu_selection \in 0 .. MenuCount - 1
  /\ selected_icon \in 0 .. NoIcon
  /\ phase \in {"mouse", "drag", "keys", "exit"}

\* The invariant that the runs check is that of the three parts.
LEMMA SoundParts == DesktopSound <=> WmInv /\ DeviceInv /\ MenuInv
  BY Zenon DEF DesktopSound, DesktopTypeOK, WmTypeOK, AtMostOneFocused, IdsFresh,
     WmInv, Listed, OneFocus, DeviceInv, MenuInv

\* A push keeps the new state of the buttons, if need be instead of the oldest.
LEMMA PushKeeps ==
  ASSUME DesktopConstants, NEW s \in Seq(Buttons), Len(s) <= QUEUE_SIZE, NEW b \in Buttons
  PROVE  /\ Pushed(s, b) \in Seq(Buttons) /\ Len(Pushed(s, b)) <= QUEUE_SIZE
         /\ Pushed(s, b) # <<>> /\ Pushed(s, b)[Len(Pushed(s, b))] = b
<1>1. QUEUE_SIZE \in Nat \ {0} /\ Len(s) \in Nat
  BY DEF DesktopConstants
<1>2. PICK r \in Seq(Buttons) : Appended(Pushed(s, b), r, b) /\ Len(r) < QUEUE_SIZE
  <2>1. CASE Len(s) < QUEUE_SIZE
    BY <2>1, Zenon DEF Pushed, Appended
  <2>2. CASE ~(Len(s) < QUEUE_SIZE)
    <3>1. Appended(Pushed(s, b), Tail(s), b)
      BY <2>2, Zenon DEF Pushed, Appended
    <3>2. s # <<>>
      BY <1>1, <2>2
    <3>3. Tail(s) \in Seq(Buttons) /\ Len(Tail(s)) = Len(s) - 1
      BY <3>2
    <3>4. Len(Tail(s)) < QUEUE_SIZE
      BY <1>1, <3>3
    <3>. QED BY <3>1, <3>3, <3>4, Zenon
  <2>. QED BY <2>1, <2>2
<1>3. PICK t : t = Pushed(s, b)
  BY Zenon
<1>4. t \in Seq(Buttons) /\ Len(t) = Len(r) + 1 /\ t[Len(r) + 1] = b
  BY <1>2, <1>3, AppendFacts
<1>5. Len(r) \in Nat
  BY <1>2
<1>6. Len(t) <= QUEUE_SIZE /\ t # <<>> /\ t[Len(t)] = b
  BY <1>1, <1>2, <1>4, <1>5
<1>. QED BY <1>3, <1>4, <1>6, Zenon

\* process_events leaves the tracker with the state of the last event.
LEMMA DrainKeeps ==
  ASSUME DesktopConstants, DeviceInv, Drained
  PROVE  DeviceInv'
<1>1. /\ ring' = <<>> /\ buttons' = buttons /\ mouseCount' = mouseCount
      /\ moved' = (ring # <<>>)
      /\ prev' = IF ring = <<>> THEN prev ELSE ring[Len(ring)]
  BY Zenon DEF Drained
<1>2. prev' = buttons
  BY <1>1, Zenon DEF DeviceInv, ButtonsTracked
<1>3. ring' \in Seq(Buttons) /\ Len(ring') <= QUEUE_SIZE
  BY <1>1 DEF DesktopConstants
<1>4. moved' \in BOOLEAN
  BY <1>1, Zenon
<1>. QED BY <1>1, <1>2, <1>3, <1>4, Zenon DEF DeviceInv, ButtonsTracked

\* A mouse interrupt queues the new state and touches nothing else.
LEMMA InterruptKeeps ==
  ASSUME DesktopConstants, WmInv, DeviceInv, MenuInv, NEW b \in Buttons, mouse_interrupt(b)
  PROVE  WmKept /\ DeviceInv' /\ MenuInv'
<1>1. /\ mouseCount < MaxMouse /\ buttons' = b /\ ring' = Pushed(ring, b)
      /\ mouseCount' = mouseCount + 1
      /\ UNCHANGED <<wm, desk, prev, phase, moved>>
  BY Zenon DEF mouse_interrupt
<1>2. /\ ring' \in Seq(Buttons) /\ Len(ring') <= QUEUE_SIZE
      /\ ring' # <<>> /\ ring'[Len(ring')] = b
  BY <1>1, PushKeeps, Zenon DEF DeviceInv
<1>3. mouseCount' \in 0 .. MaxMouse
  BY <1>1 DEF DeviceInv, DesktopConstants
<1>4. prev' = prev /\ moved' = moved
  BY <1>1, Zenon
<1>5. DeviceInv'
  BY <1>1, <1>2, <1>3, <1>4, Zenon DEF DeviceInv, ButtonsTracked
<1>6. MenuInv'
  BY <1>1, Zenon DEF MenuInv, desk
<1>7. WmKept
  BY <1>1, DragKeeps, Zenon
<1>. QED BY <1>5, <1>6, <1>7

-----------------------------------------------------------------------------
\* The handlers, which leave the mouse events alone.
LEMMA MouseClickKeeps ==
  ASSUME DesktopConstants, WmInv, MenuInv, handle_mouse_click
  PROVE  WmKept /\ MenuInv'
<1>. USE DEF Continue, Exit
<1>0. 0 \in 0 .. MenuCount - 1 /\ NoIcon \in 0 .. NoIcon /\ \A i \in 0 .. Icons - 1 : i \in 0 .. NoIcon
  BY DEF MenuCount, NoIcon, DesktopConstants
<1>1. ASSUME NEW item \in 0 .. MenuCount - 1, ClickMenuItem(item) PROVE WmKept /\ MenuInv'
  <2>1. CASE item = Separator
    <3>1. UNCHANGED <<wm, desk>> /\ phase' = "drag"
      BY <1>1, <2>1, Zenon DEF ClickMenuItem
    <3>. QED BY <3>1, DragKeeps, Zenon DEF MenuInv, desk
  <2>2. CASE item # Separator
    <3>1. /\ start_menu_open' = FALSE /\ UNCHANGED <<start_menu_selection, selected_icon>>
          /\ \/ open_app /\ phase' = "drag"
             \/ UNCHANGED wm /\ phase' = "exit"
      BY <1>1, <2>2, Zenon DEF ClickMenuItem
    <3>. QED BY <3>1, DragKeeps, OpenKeeps, Zenon DEF MenuInv
  <2>. QED BY <2>1, <2>2
<1>2. CASE ClickStartButton
  BY <1>0, <1>2, DragKeeps, Zenon DEF ClickStartButton, MenuInv
<1>3. CASE ClickTaskbar
  BY <1>3, DragKeeps, ToggleKeeps, Zenon DEF ClickTaskbar, MenuInv
<1>4. CASE ClickWindow
  BY <1>4, ClickKeeps, Zenon DEF ClickWindow, MenuInv
<1>5. ASSUME NEW i \in 0 .. Icons - 1, ClickIcon(i) PROVE WmKept /\ MenuInv'
  <2>1. /\ start_menu_open' = FALSE /\ start_menu_selection' = start_menu_selection
        /\ phase' = "drag" /\ (selected_icon' = selected_icon \/ selected_icon' = i)
        /\ (open_app \/ UNCHANGED wm)
    BY <1>5, Zenon DEF ClickIcon
  <2>. QED BY <1>0, <2>1, OpenKeeps, DragKeeps, Zenon DEF MenuInv
<1>6. CASE ClickEmpty
  BY <1>0, <1>6, UnfocusKeeps, Zenon DEF ClickEmpty, MenuInv
<1>. QED BY <1>1, <1>2, <1>3, <1>4, <1>5, <1>6, Zenon DEF handle_mouse_click

\* A key goes to the menu, to the focused window or to the desktop.
LEMMA KeysKeep ==
  ASSUME DesktopConstants, WmInv, DeviceInv, MenuInv, LoopKeys
  PROVE  WmKept /\ DeviceInv' /\ MenuInv'
<1>. USE DEF Exit
<1>0. UNCHANGED <<device, prev, moved>>
  BY Zenon DEF LoopKeys
<1>1. DeviceInv'
  BY <1>0, Zenon DEF DeviceInv, ButtonsTracked, device
<1>2. 0 \in 0 .. MenuCount - 1
  BY DEF MenuCount, DesktopConstants
<1>3. CASE handle_start_menu_input
  <2>1. CASE start_menu_selection > 0 /\ start_menu_selection' = start_menu_selection - 1
             /\ UNCHANGED <<start_menu_open, selected_icon, wm>> /\ phase' = "mouse"
    <3>1. start_menu_selection' \in 0 .. MenuCount - 1
      BY <2>1 DEF MenuInv, MenuCount, DesktopConstants
    <3>. QED BY <1>1, <2>1, <3>1, DragKeeps, Zenon DEF MenuInv
  <2>2. CASE start_menu_selection + 1 < MenuCount /\ start_menu_selection' = start_menu_selection + 1
             /\ UNCHANGED <<start_menu_open, selected_icon, wm>> /\ phase' = "mouse"
    <3>1. start_menu_selection' \in 0 .. MenuCount - 1
      BY <2>2 DEF MenuInv, MenuCount, DesktopConstants
    <3>. QED BY <1>1, <2>2, <3>1, DragKeeps, Zenon DEF MenuInv
  <2>3. CASE /\ start_menu_open' = FALSE /\ UNCHANGED <<start_menu_selection, selected_icon>>
             /\ phase' \in {"mouse", "exit"}
             /\ open_app \/ UNCHANGED wm
    BY <1>1, <2>3, DragKeeps, OpenKeeps, Zenon DEF MenuInv
  <2>. QED BY <1>3, <2>1, <2>2, <2>3, Zenon DEF handle_start_menu_input
<1>4. CASE handle_input
  BY <1>1, <1>4, CloseKeeps, CycleKeeps, Zenon DEF handle_input, MenuInv, desk
<1>5. CASE handle_desktop_input
  <2>1. CASE UNCHANGED <<wm, desk>> /\ phase' = "exit"
    BY <1>1, <2>1, DragKeeps, Zenon DEF MenuInv, desk
  <2>2. CASE /\ start_menu_open' = TRUE /\ start_menu_selection' = 0
             /\ UNCHANGED <<wm, selected_icon>> /\ phase' = "mouse"
    BY <1>1, <1>2, <2>2, DragKeeps, Zenon DEF MenuInv
  <2>3. CASE /\ selected_icon' \in IF selected_icon = NoIcon THEN {0}
                                   ELSE Neighbours(selected_icon) \cup {selected_icon}
             /\ UNCHANGED <<wm, menu>> /\ phase' = "mouse"
    <3>1. selected_icon' \in 0 .. NoIcon
      BY <2>3 DEF Neighbours, NoIcon, MenuInv, DesktopConstants
    <3>. QED BY <1>1, <2>3, <3>1, DragKeeps, Zenon DEF MenuInv, menu
  <2>4. CASE open_app /\ UNCHANGED desk /\ phase' = "mouse"
    BY <1>1, <2>4, OpenKeeps, Zenon DEF MenuInv, desk
  <2>. QED BY <1>5, <2>1, <2>2, <2>3, <2>4, Zenon DEF handle_desktop_input
<1>6. CASE NoKey
  BY <1>1, <1>6, DragKeeps, Zenon DEF NoKey, MenuInv, desk
<1>. QED BY <1>3, <1>4, <1>5, <1>6, Zenon DEF LoopKeys

\* A turn of the loop: the events, the click, the drag and the keys.
LEMMA StepKeeps ==
  ASSUME DesktopConstants, WmInv, DeviceInv, MenuInv, DesktopNext
  PROVE  WmKept /\ DeviceInv' /\ MenuInv'
<1>. USE DEF Continue
<1>0. NoIcon \in 0 .. NoIcon
  BY DEF NoIcon, DesktopConstants
<1>1. ASSUME NEW b \in Buttons, mouse_interrupt(b) PROVE WmKept /\ DeviceInv' /\ MenuInv'
  BY <1>1, InterruptKeeps, Zenon
<1>2. CASE LoopLeftDown
  BY <1>2, DrainKeeps, MouseClickKeeps, Zenon DEF LoopLeftDown
<1>3. CASE LoopLeftUp
  BY <1>3, DrainKeeps, DragKeeps, Zenon DEF LoopLeftUp, MenuInv, desk
<1>4. CASE LoopRightDown
  <2>1. DeviceInv'
    BY <1>4, DrainKeeps, Zenon DEF LoopRightDown
  <2>2. WmKept
    BY <1>4, DragKeeps, ClickKeeps, UnfocusKeeps, Zenon DEF LoopRightDown
  <2>3. /\ start_menu_open' = start_menu_open /\ start_menu_selection' = start_menu_selection
        /\ phase' = "drag" /\ (selected_icon' = selected_icon \/ selected_icon' = NoIcon)
    BY <1>4, Zenon DEF LoopRightDown, menu
  <2>4. MenuInv'
    BY <1>0, <2>3, Zenon DEF MenuInv
  <2>. QED BY <2>1, <2>2, <2>4
<1>5. CASE LoopNoClick
  BY <1>5, DrainKeeps, DragKeeps, Zenon DEF LoopNoClick, MenuInv, desk
<1>6. CASE LoopDrag
  <2>1. WmKept
    BY <1>6, DragKeeps, Zenon DEF LoopDrag
  <2>2. DeviceInv'
    BY <1>6, Zenon DEF LoopDrag, DeviceInv, ButtonsTracked, device
  <2>3. MenuInv'
    BY <1>6, Zenon DEF LoopDrag, MenuInv, desk
  <2>. QED BY <2>1, <2>2, <2>3
<1>7. CASE LoopKeys
  BY <1>7, KeysKeep, Zenon
<1>. QED BY <1>1, <1>2, <1>3, <1>4, <1>5, <1>6, <1>7, Zenon DEF DesktopNext

\* The desktop starts with no window, no event and all buttons released.
LEMMA InitSound == ASSUME DesktopConstants, DesktopInit PROVE DesktopSound
<1>1. WmInv
  BY DEF DesktopInit, WmInit, WmInv, Listed, OneFocus, DesktopConstants
<1>2. DeviceInv
  <2>1. Released \in Buttons /\ buttons = Released /\ prev = Released
    BY DEF DesktopInit, Released, Buttons
  <2>2. ring \in Seq(Buttons) /\ Len(ring) <= QUEUE_SIZE /\ mouseCount \in 0 .. MaxMouse
    BY DEF DesktopInit, DesktopConstants
  <2>. QED BY <2>1, <2>2, Zenon DEF DesktopInit, DeviceInv, ButtonsTracked
<1>3. MenuInv
  <2>1. start_menu_selection \in 0 .. MenuCount - 1 /\ selected_icon \in 0 .. NoIcon
    BY DEF DesktopInit, MenuCount, NoIcon, DesktopConstants
  <2>. QED BY <2>1, Zenon DEF DesktopInit, MenuInv
<1>. QED BY <1>1, <1>2, <1>3, SoundParts

\* The invariant is inductive, and its steps adopt no window.
LEMMA NextSound ==
  ASSUME DesktopConstants, DesktopSound, [DesktopNext]_desktopVars
  PROVE  DesktopSound' /\ [DragNeverAdoptsStep]_desktopVars
<1>1. CASE DesktopNext
  <2>1. WmInv /\ DeviceInv /\ MenuInv
    BY SoundParts, Zenon
  <2>2. WmKept /\ DeviceInv' /\ MenuInv'
    BY <1>1, <2>1, StepKeeps, Zenon
  <2>3. DesktopSound'
    BY <2>2, Zenon DEF WmKept, DesktopSound, DesktopTypeOK, WmTypeOK, AtMostOneFocused, IdsFresh,
       WmInv, Listed, OneFocus, DeviceInv, MenuInv
  <2>. QED BY <2>2, <2>3, Zenon DEF WmKept
<1>2. CASE UNCHANGED desktopVars
  <2>1. DesktopSound'
    BY <1>2, Zenon DEF desktopVars, wm, desk, device, DesktopSound, DesktopTypeOK, WmTypeOK,
       AtMostOneFocused, IdsFresh, ButtonsTracked
  <2>. QED BY <1>2, <2>1, Zenon
<1>. QED BY <1>1, <1>2

-----------------------------------------------------------------------------
\* Through any clicks and keys and with any number of windows, at most one has
\* the focus, no id is given twice, and the tracker is never left with a button
\* that is no longer held (wm.rs, MouseTracker::process_events).
THEOREM DesktopIsSound == DesktopSpec => []DesktopSound
<1>. QED BY DesktopAssumption, InitSound, NextSound, PTL DEF DesktopSpec

\* No window opened while a closed window's drag is still on is taken for the
\* dragged one (close_focused, handle_mouse_move).
THEOREM DragAdoptsNone == DesktopSpec => DragNeverAdopts
<1>. QED BY DesktopAssumption, InitSound, NextSound, PTL DEF DesktopSpec, DragNeverAdopts
=============================================================================
