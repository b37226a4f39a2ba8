--------------------------- MODULE InputProofs -----------------------------
(***************************************************************************)
(* The keyboard driver reads what the typist types, its ring of events and *)
(* the ring of the kernel log are queues: for every size of the rings, any *)
(* keys and any number of strokes, loggers and messages.                   *)
(***************************************************************************)
EXTENDS Keyboard, LogRing, SequenceTheorems, TLAPS

-----------------------------------------------------------------------------
(* Sequences                                                               *)

\* A function on 1 .. n is a sequence of length n.
LEMMA FunctionIsSeq ==
  ASSUME NEW S, NEW n \in Nat, NEW f \in [1 .. n -> S]
  PROVE  f \in Seq(S) /\ Len(f) = n
OBVIOUS

\* A longer sequence that agrees with s and ends in e is s with e appended.
LEMMA AppendIs ==
  ASSUME NEW S, NEW s \in Seq(S), NEW t \in Seq(S), NEW e \in S,
         Len(t) = Len(s) + 1, t[Len(t)] = e,
         \A i \in 1 .. Len(s) : t[i] = s[i]
  PROVE  t = Append(s, e)
<1>1. /\ Append(s, e) \in Seq(S)
      /\ Len(Append(s, e)) = Len(s) + 1
      /\ \A i \in 1 .. Len(s) : Append(s, e)[i] = s[i]
      /\ Append(s, e)[Len(s) + 1] = e
  BY AppendProperties
<1>2. Len(s) \in Nat
  BY LenProperties
<1>3. \A i \in 1 .. Len(t) : t[i] = Append(s, e)[i]
  BY <1>1, <1>2
<1>. QED
  BY <1>1, <1>3, SeqEqual

\* A shorter sequence that agrees with s one place on is the tail of s.
LEMMA TailIs ==
  ASSUME NEW S, NEW s \in Seq(S), NEW t \in Seq(S), s # <<>>,
         Len(t) = Len(s) - 1,
         \A i \in 1 .. Len(t) : t[i] = s[i + 1]
  PROVE  t = Tail(s)
<1>1. /\ Tail(s) \in Seq(S)
      /\ Len(Tail(s)) = Len(s) - 1
      /\ \A i \in 1 .. Len(Tail(s)) : Tail(s)[i] = s[i + 1]
  BY HeadTailProperties
<1>. QED
  BY <1>1, SeqEqual

\* A sequence of the same length that agrees with s one place on and ends in
\* e is the tail of s with e appended.
LEMMA ShiftIs ==
  ASSUME NEW S, NEW s \in Seq(S), NEW t \in Seq(S), NEW e \in S, s # <<>>,
         Len(t) = Len(s), t[Len(t)] = e,
         \A i \in 1 .. Len(t) - 1 : t[i] = s[i + 1]
  PROVE  t = Append(Tail(s), e)
<1>1. /\ Tail(s) \in Seq(S)
      /\ Len(Tail(s)) = Len(s) - 1
      /\ \A i \in 1 .. Len(Tail(s)) : Tail(s)[i] = s[i + 1]
  BY HeadTailProperties
<1>2. Len(s) \in Nat
  BY LenProperties
<1>. QED
  BY <1>1, <1>2, AppendIs

-----------------------------------------------------------------------------

\* The successor of a position, without the remainder.
LEMMA AfterIs ==
  ASSUME NEW x \in Positions
  PROVE  After(x) = IF x + 1 = KEY_BUFFER_SIZE THEN 0 ELSE x + 1
BY BufferAssumption DEF After, Positions

\* Both positions stay inside the ring of key events (KeyBuffer::push, pop).
THEOREM PositionsInRange == BufferSpec => []BufferOK
<1>. USE BufferAssumption
<1>1. BufferInit => BufferOK
  BY DEF BufferInit, BufferOK, Positions
<1>2. BufferOK /\ [BufferNext]_bufferVars => BufferOK'
  <2>. SUFFICES ASSUME BufferOK, [BufferNext]_bufferVars PROVE BufferOK'
    OBVIOUS
  <2>0. After(read_pos) \in Positions /\ After(write_pos) \in Positions
    BY AfterIs DEF BufferOK, Positions
  <2>1. ASSUME NEW e \in Events, push(e) PROVE BufferOK'
    BY <2>0, <2>1 DEF BufferOK, push
  <2>2. CASE pop
    BY <2>0, <2>2 DEF BufferOK, pop
  <2>3. CASE UNCHANGED bufferVars
    BY <2>3 DEF BufferOK, bufferVars
  <2>. QED
    BY <2>1, <2>2, <2>3 DEF BufferNext
<1>. QED
  BY <1>1, <1>2, PTL DEF BufferSpec

ContentsOK == Contents \in Seq(Events) /\ Len(Contents) = Used

\* The readable part of the ring is a sequence of Used events.
LEMMA ContentsSeq == BufferOK => ContentsOK
<1>. SUFFICES ASSUME BufferOK PROVE ContentsOK
  OBVIOUS
<1>1. Used \in Nat /\ \A i \in 1 .. Used : Slot(i - 1) \in Positions
  BY BufferAssumption DEF BufferOK, Used, Slot, Positions
<1>2. Contents \in [1 .. Used -> Events]
  BY <1>1 DEF BufferOK, Contents
<1>. QED
  BY <1>1, <1>2, FunctionIsSeq DEF ContentsOK

\* KeyBuffer is a queue of KEY_BUFFER_SIZE - 1 events that loses only new
\* events, and only when it is full.
THEOREM KeyBufferIsQueue == BufferSpec => ImplementsQueue
<1>. USE BufferAssumption
<1>1. BufferInit => Queue!Init
  BY DEF BufferInit, Queue!Init, Contents, Used
<1>2. BufferOK /\ ContentsOK /\ ContentsOK' /\ [BufferNext]_bufferVars => [Queue!Next]_Contents
  <2>. SUFFICES ASSUME BufferOK, ContentsOK, ContentsOK', [BufferNext]_bufferVars
               PROVE  [Queue!Next]_Contents
    OBVIOUS
  <2>0. /\ After(read_pos) = IF read_pos + 1 = KEY_BUFFER_SIZE THEN 0 ELSE read_pos + 1
        /\ After(write_pos) = IF write_pos + 1 = KEY_BUFFER_SIZE THEN 0 ELSE write_pos + 1
    BY AfterIs DEF BufferOK
  <2>s. /\ Contents \in Seq(Events) /\ Len(Contents) = Used
        /\ Contents' \in Seq(Events) /\ Len(Contents') = Used'
    BY DEF ContentsOK
  <2>1. ASSUME NEW e \in Events, push(e), After(write_pos) # read_pos
        PROVE  Queue!Push(e)
    <3>1. /\ Used < KEY_BUFFER_SIZE - 1
          /\ Used' = Used + 1
      BY <2>0, <2>1 DEF BufferOK, Used, Positions, push
    <3>2. Contents'[Used'] = e
      BY <2>0, <2>1, <3>1 DEF BufferOK, Contents, Used, Slot, Positions, push
    <3>3. \A i \in 1 .. Used : Contents'[i] = Contents[i]
      BY <2>0, <2>1, <3>1 DEF BufferOK, Contents, Used, Slot, Positions, push
    <3>4. Contents' = Append(Contents, e)
      BY <2>s, <3>1, <3>2, <3>3, AppendIs
    <3>. QED
      BY <2>s, <3>1, <3>4 DEF Queue!Push
  <2>2. ASSUME NEW e \in Events, push(e), After(write_pos) = read_pos
        PROVE  Queue!Push(e)
    <3>1. Used = KEY_BUFFER_SIZE - 1
      BY <2>0, <2>2 DEF BufferOK, Used, Positions
    <3>2. Contents' = Contents
      BY <2>2 DEF push, Contents, Used, Slot
    <3>. QED
      BY <2>s, <3>1, <3>2 DEF Queue!Push
  <2>3. CASE pop
    <3>1. Used # 0 /\ Used' = Used - 1
      BY <2>0, <2>3 DEF BufferOK, Used, Positions, pop
    <3>2. \A i \in 1 .. Used' : Contents'[i] = Contents[i + 1]
      BY <2>0, <2>3, <3>1 DEF BufferOK, Contents, Used, Slot, Positions, pop
    <3>3. Contents # <<>>
      BY <2>s, <3>1, EmptySeq
    <3>4. Contents' = Tail(Contents)
      BY <2>s, <3>1, <3>2, <3>3, TailIs
    <3>. QED
      BY <3>3, <3>4 DEF Queue!Next, Queue!Pop
  <2>4. CASE UNCHANGED bufferVars
    BY <2>4 DEF bufferVars, Contents, Used, Slot
  <2>. QED
    BY <2>1, <2>2, <2>3, <2>4 DEF BufferNext, Queue!Next
<1>. QED
  BY <1>1, <1>2, PositionsInRange, ContentsSeq, PTL
     DEF BufferSpec, ImplementsQueue, Queue!Spec

-----------------------------------------------------------------------------
(* The keyboard                                                            *)

\* The bytes of every key: one, or pairs of a prefix and a byte; a byte that is
\* no prefix is decoded to the key meant.
CodesShape(k) ==
  /\ Len(Codes(k)) \in Nat
  /\ \/ /\ Len(Codes(k)) = 1 /\ Codes(k)[1] # "E0"
        /\ Keycode(FALSE, Codes(k)[1]) = Meant(k)
     \/ /\ Len(Codes(k)) = 2 \/ (Len(Codes(k)) = 4 /\ Meant(k) = "Unknown")
        /\ \A i \in 1 .. Len(Codes(k)) :
             IF i \in {1, 3} THEN Codes(k)[i] = "E0"
             ELSE Codes(k)[i] # "E0" /\ Keycode(TRUE, Codes(k)[i]) = Meant(k)

\* Every key has bytes of that shape.
LEMMA CodesDecoded ==
  ASSUME NEW k \in AllKeys
  PROVE  CodesShape(k) /\ Meant(k) \in KeyCode /\ \A i \in 1 .. Len(Codes(k)) : Codes(k)[i] \in ScanCode
<1>1. Meant(k) \in KeyCode
  BY DEF AllKeys, KeyCode, Meant
<1>2. CASE k \in {"LeftShift", "LeftCtrl", "CapsLock", "A", "G", "Key1"}
  <2>1. Len(Codes(k)) = 1 /\ Codes(k)[1] \in ScanCode \ {"E0"}
    BY <1>2 DEF Codes, ScanCode
  <2>2. scancode_to_keycode(Codes(k)[1]) = k /\ Meant(k) = k
    BY <1>2 DEF Codes, scancode_to_keycode, Meant
  <2>. QED BY <1>1, <2>1, <2>2 DEF CodesShape, Keycode
<1>3. CASE k \in {"RightCtrl", "Up"}
  <2>1. Len(Codes(k)) = 2 /\ Codes(k)[1] = "E0" /\ Codes(k)[2] \in ScanCode \ {"E0"}
    BY <1>3 DEF Codes, ScanCode
  <2>2. ExtendedKeycode(Codes(k)[2]) = k /\ Meant(k) = k
    BY <1>3 DEF Codes, ExtendedKeycode, Meant
  <2>. QED BY <1>1, <2>1, <2>2 DEF CodesShape, Keycode, ScanCode
<1>4. CASE k = "PrintScreen"
  <2>1. /\ Len(Codes(k)) = 4 /\ Codes(k)[1] = "E0" /\ Codes(k)[2] \in ScanCode \ {"E0"}
        /\ Codes(k)[3] = "E0" /\ Codes(k)[4] \in ScanCode \ {"E0"}
    BY <1>4 DEF Codes, ScanCode
  <2>2. /\ ExtendedKeycode(Codes(k)[2]) = "Unknown" /\ ExtendedKeycode(Codes(k)[4]) = "Unknown"
        /\ Meant(k) = "Unknown"
    BY <1>4 DEF Codes, ExtendedKeycode, Meant
  <2>. QED BY <1>1, <2>1, <2>2 DEF CodesShape, Keycode, ScanCode
<1>. QED BY <1>2, <1>3, <1>4 DEF AllKeys

\* Modifiers are updated to modifiers; a key that is none changes nothing.
LEMMA UpdatedFacts ==
  ASSUME NEW mods \in Modifiers, NEW key, NEW pressed \in BOOLEAN
  PROVE  /\ UpdatedModifiers(mods, key, pressed) \in Modifiers
         /\ key = "Unknown" => UpdatedModifiers(mods, key, pressed) = mods
<1>1. UpdatedModifiers(mods, key, pressed) \in Modifiers
  BY DEF Modifiers, UpdatedModifiers, ModifierKeys
<1>2. ASSUME key = "Unknown" PROVE UpdatedModifiers(mods, key, pressed) = mods
  <2>1. UpdatedModifiers(mods, key, pressed).down = mods.down
    BY <1>2 DEF UpdatedModifiers, ModifierKeys
  <2>2. UpdatedModifiers(mods, key, pressed).caps_lock = mods.caps_lock
    BY <1>2 DEF UpdatedModifiers, Modifiers
  <2>. QED BY <1>1, <2>1, <2>2 DEF Modifiers
<1>. QED BY <1>1, <1>2

\* The modifiers the typist means after a stroke are the ones before it with
\* the key meant.
LEMMA ModsUpdated ==
  ASSUME NEW down \in SUBSET AllKeys, NEW caps \in BOOLEAN, NEW k \in AllKeys, NEW pressed \in BOOLEAN
  PROVE  /\ Mods(down, caps) \in Modifiers
         /\ Mods(IF pressed THEN down \cup {k} ELSE down \ {k}, caps # (k = "CapsLock" /\ pressed))
              = UpdatedModifiers(Mods(down, caps), Meant(k), pressed)
<1> DEFINE d == IF pressed THEN down \cup {k} ELSE down \ {k}
           c == caps # (k = "CapsLock" /\ pressed)
           u == UpdatedModifiers(Mods(down, caps), Meant(k), pressed)
<1>1. Mods(down, caps) \in Modifiers
  BY DEF Mods, Modifiers
<1>2. Mods(down, caps).down = down \cap ModifierKeys /\ Mods(down, caps).caps_lock = caps
  BY DEF Mods
<1>3. Meant(k) \in ModifierKeys <=> k \in ModifierKeys
  BY DEF Meant, ModifierKeys
<1>4. Meant(k) \in ModifierKeys => Meant(k) = k
  BY DEF Meant, ModifierKeys
<1>5. Meant(k) = "CapsLock" <=> k = "CapsLock"
  BY DEF Meant
<1>6. d \cap ModifierKeys = IF Meant(k) \notin ModifierKeys THEN down \cap ModifierKeys
                            ELSE IF pressed THEN (down \cap ModifierKeys) \cup {Meant(k)}
                            ELSE (down \cap ModifierKeys) \ {Meant(k)}
  BY <1>3, <1>4
<1>7. Mods(d, c) = [down |-> d \cap ModifierKeys, caps_lock |-> c]
  BY Zenon DEF Mods
<1>8. u = [down |-> d \cap ModifierKeys, caps_lock |-> caps # (Meant(k) = "CapsLock" /\ pressed)]
  BY <1>2, <1>6, Zenon DEF UpdatedModifiers
<1>9. c <=> (caps # (Meant(k) = "CapsLock" /\ pressed))
  BY <1>5
<1>. QED BY <1>1, <1>7, <1>8, <1>9

\* Two deliveries in a row are one.
LEMMA DeliversBoth ==
  ASSUME NEW S, NEW w \in Seq(S), NEW v \in Seq(S), NEW d, NEW e, NEW f,
         Delivers(d, w, e), Delivers(e, v, f)
  PROVE  Delivers(d, w \o v, f)
<1> DEFINE u == w \o v
<1>1. Len(w) \in Nat /\ Len(v) \in Nat
  BY LenProperties
<1>2. /\ u \in Seq(S) /\ Len(u) = Len(w) + Len(v)
      /\ \A i \in 1 .. Len(w) + Len(v) : u[i] = IF i <= Len(w) THEN w[i] ELSE v[i - Len(w)]
  BY ConcatProperties
<1>. HIDE DEF u
<1>3. \A i \in 1 .. Len(w) + 1 : Before(d, u, i) = Before(d, w, i)
  <2>. TAKE i \in 1 .. Len(w) + 1
  <2>1. CASE i = 1
    BY <2>1 DEF Before
  <2>2. CASE i # 1
    <3>1. i - 1 \in 1 .. Len(w) + Len(v) /\ i - 1 <= Len(w)
      BY <1>1, <2>2
    <3>2. u[i - 1] = w[i - 1]
      BY <1>2, <3>1
    <3>. QED BY <2>2, <3>2 DEF Before
  <2>. QED BY <2>1, <2>2
<1>4. ASSUME NEW j \in 1 .. Len(v) + 1 PROVE Before(d, u, Len(w) + j) = Before(e, v, j)
  <2>1. CASE j = 1
    <3>1. Before(d, u, Len(w) + 1) = Before(d, w, Len(w) + 1)
      BY <1>1, <1>3
    <3>2. Before(d, w, Len(w) + 1) = e /\ Before(e, v, 1) = e
      BY Zenon DEF Delivers, Before
    <3>. QED BY <2>1, <3>1, <3>2
  <2>2. CASE j # 1
    <3>1. /\ (Len(w) + j) - 1 \in 1 .. Len(w) + Len(v) /\ ~((Len(w) + j) - 1 <= Len(w))
          /\ ((Len(w) + j) - 1) - Len(w) = j - 1 /\ Len(w) + j # 1
      BY <1>1, <2>2
    <3>2. u[(Len(w) + j) - 1] = v[j - 1]
      BY <1>2, <3>1
    <3>. QED BY <2>2, <3>1, <3>2 DEF Before
  <2>. QED BY <2>1, <2>2
<1>5. ASSUME NEW i \in 1 .. Len(u) PROVE Decodes(Before(d, u, i), u[i])
  <2>1. CASE i <= Len(w)
    <3>1. i \in 1 .. Len(w) /\ i \in 1 .. Len(w) + 1 /\ i \in 1 .. Len(w) + Len(v)
      BY <1>1, <1>2, <2>1
    <3>2. u[i] = w[i] /\ Before(d, u, i) = Before(d, w, i)
      BY <1>2, <1>3, <2>1, <3>1
    <3>3. Decodes(Before(d, w, i), w[i])
      BY <3>1, Zenon DEF Delivers
    <3>. QED BY <3>2, <3>3
  <2>2. CASE ~(i <= Len(w))
    <3>1. PICK j \in 1 .. Len(v) : i = Len(w) + j
      BY <1>1, <1>2, <2>2
    <3>2. i - Len(w) = j /\ j \in 1 .. Len(v) + 1 /\ i \in 1 .. Len(w) + Len(v)
      BY <1>1, <1>2, <3>1
    <3>3. u[i] = v[j] /\ Before(d, u, i) = Before(e, v, j)
      BY <1>2, <1>4, <2>2, <3>1, <3>2
    <3>4. Decodes(Before(e, v, j), v[j])
      BY <3>1, Zenon DEF Delivers
    <3>. QED BY <3>3, <3>4
  <2>. QED BY <2>1, <2>2
<1>6. Before(d, u, Len(u) + 1) = f
  <2>1. Len(u) + 1 = Len(w) + (Len(v) + 1) /\ Len(v) + 1 \in 1 .. Len(v) + 1
    BY <1>1, <1>2
  <2>2. Before(e, v, Len(v) + 1) = f
    BY Zenon DEF Delivers
  <2>. QED BY <1>4, <2>1, <2>2
<1>. QED BY <1>5, <1>6 DEF Delivers, u

\* The first byte is read as meant and leads to a state from which the others
\* are.
LEMMA DeliversTail ==
  ASSUME NEW S, NEW w \in Seq(S), w # <<>>, NEW d, NEW e, Delivers(d, w, e)
  PROVE  Decodes(d, Head(w)) /\ Delivers(Head(w).after, Tail(w), e)
<1> DEFINE t == Tail(w)
<1>1. /\ Len(w) \in Nat \ {0} /\ Head(w) = w[1]
      /\ t \in Seq(S) /\ Len(t) = Len(w) - 1 /\ \A i \in 1 .. Len(t) : t[i] = w[i + 1]
  BY HeadTailProperties, LenProperties, EmptySeq
<1>. HIDE DEF t
<1>2. ASSUME NEW i \in 1 .. Len(w) PROVE Before(w[1].after, t, i) = Before(d, w, i + 1)
  <2>1. CASE i = 1
    BY <2>1 DEF Before
  <2>2. CASE i # 1
    <3>1. i - 1 \in 1 .. Len(t) /\ (i - 1) + 1 = i /\ (i + 1) - 1 = i /\ i + 1 # 1
      BY <1>1, <2>2
    <3>2. t[i - 1] = w[i]
      BY <1>1, <3>1
    <3>. QED BY <2>2, <3>1, <3>2 DEF Before
  <2>. QED BY <2>1, <2>2
<1>3. Decodes(d, w[1])
  <2>1. 1 \in 1 .. Len(w) /\ Before(d, w, 1) = d
    BY <1>1 DEF Before
  <2>. QED BY <2>1, Zenon DEF Delivers
<1>4. ASSUME NEW i \in 1 .. Len(t) PROVE Decodes(Before(w[1].after, t, i), t[i])
  <2>1. i \in 1 .. Len(w) /\ i + 1 \in 1 .. Len(w)
    BY <1>1
  <2>2. Decodes(Before(d, w, i + 1), w[i + 1])
    BY <2>1, Zenon DEF Delivers
  <2>. QED BY <1>1, <1>2, <2>1, <2>2
<1>5. Before(w[1].after, t, Len(t) + 1) = e
  <2>1. Len(t) + 1 = Len(w) /\ Len(w) \in 1 .. Len(w)
    BY <1>1
  <2>2. Before(d, w, Len(w) + 1) = e
    BY Zenon DEF Delivers
  <2>. QED BY <1>2, <2>1, <2>2
<1>. QED BY <1>1, <1>3, <1>4, <1>5 DEF Delivers, t

\* The driver reads the bytes of a key as they are meant.
LEMMA BytesDelivered ==
  ASSUME NEW k \in AllKeys, NEW pressed \in BOOLEAN, NEW before \in Modifiers, NEW now,
         now = UpdatedModifiers(before, Meant(k), pressed)
  PROVE  /\ Bytes(k, pressed, before, now) \in Seq(Byte)
         /\ Delivers([mods |-> before, extended |-> FALSE], Bytes(k, pressed, before, now),
                     [mods |-> now, extended |-> FALSE])
<1> DEFINE bytes == Bytes(k, pressed, before, now)
           n == Len(Codes(k))
           P == [mods |-> before, extended |-> TRUE]
           Q == [mods |-> now, extended |-> FALSE]
           d == [mods |-> before, extended |-> FALSE]
           typed == Event(Meant(k), pressed, now)
           code(i) == Codes(k)[i]
<1>1. CodesShape(k) /\ Meant(k) \in KeyCode /\ \A i \in 1 .. n : code(i) \in ScanCode
  BY CodesDecoded
<1>2. now \in Modifiers /\ (Meant(k) = "Unknown" => now = before)
  BY UpdatedFacts
<1>3. typed \in Events
  BY <1>1, <1>2, EventsAssumption
<1>4. bytes = [i \in 1 .. n |-> [code |-> code(i), release |-> ~pressed, typed |-> typed,
                                 after |-> IF code(i) = "E0" THEN P ELSE Q]]
  BY Zenon DEF Bytes
<1>5. P \in [mods : Modifiers, extended : BOOLEAN] /\ Q \in [mods : Modifiers, extended : BOOLEAN]
  BY <1>2
<1>6. n \in Nat
  BY <1>1 DEF CodesShape
<1>7. bytes \in Seq(Byte) /\ Len(bytes) = n
  <2>1. \A i \in 1 .. n : [code |-> code(i), release |-> ~pressed, typed |-> typed,
                           after |-> IF code(i) = "E0" THEN P ELSE Q] \in Byte
    BY <1>1, <1>3, <1>5 DEF Byte
  <2>2. bytes \in [1 .. n -> Byte]
    BY <1>4, <2>1
  <2>. QED BY <1>6, <2>2, FunctionIsSeq
<1>8. \A i \in 1 .. n : /\ bytes[i].code = code(i) /\ bytes[i].release = ~pressed
                        /\ bytes[i].typed = typed
                        /\ bytes[i].after = IF code(i) = "E0" THEN P ELSE Q
  <2>. HIDE DEF bytes, n, P, Q, typed, code
  <2>. TAKE i \in 1 .. n
  <2>1. bytes[i] = [code |-> code(i), release |-> ~pressed, typed |-> typed,
                    after |-> IF code(i) = "E0" THEN P ELSE Q]
    BY <1>4, Zenon
  <2>2. bytes[i].code = code(i)
    BY <2>1
  <2>3. bytes[i].release = ~pressed
    BY <2>1
  <2>4. bytes[i].typed = typed
    BY <2>1
  <2>5. bytes[i].after = IF code(i) = "E0" THEN P ELSE Q
    BY <2>1
  <2>. QED BY <2>2, <2>3, <2>4, <2>5, Zenon
<1>9. d.mods = before /\ d.extended = FALSE /\ P.mods = before /\ P.extended = TRUE /\ Q.mods = now /\ Q.extended = FALSE
  OBVIOUS
<1>10. (~(~pressed)) = pressed
  OBVIOUS
<1>. HIDE DEF bytes, n, P, Q, d, typed, code
\* A prefix is read in a state without one that has the modifiers before.
<1>11. ASSUME NEW i \in 1 .. n, code(i) = "E0", NEW x, x.mods = before
       PROVE  Decodes(x, bytes[i])
  BY <1>8, <1>11, Zenon DEF Decodes, P
\* The byte after it is read in the state the prefix leaves.
<1>12. ASSUME NEW i \in 1 .. n, code(i) # "E0", NEW x, x.mods = before,
              Keycode(x.extended, code(i)) = Meant(k)
       PROVE  Decodes(x, bytes[i])
  <2>1. /\ bytes[i].code = code(i) /\ bytes[i].release = ~pressed
        /\ bytes[i].typed = typed /\ bytes[i].after = Q
    BY <1>8, <1>12
  <2>2. UpdatedModifiers(x.mods, Keycode(x.extended, bytes[i].code), ~bytes[i].release) = now
    BY <1>10, <1>12, <2>1, Zenon
  <2>3. Event(Keycode(x.extended, bytes[i].code), ~bytes[i].release, bytes[i].after.mods) = typed
    BY <1>9, <1>10, <1>12, <2>1, Zenon DEF typed
  <2>. QED BY <1>12, <2>1, <2>2, <2>3, Zenon DEF Decodes, Q
<1>13. CASE n = 1
  <2>0. code(1) # "E0" /\ Keycode(FALSE, code(1)) = Meant(k)
    <3>1. Len(Codes(k)) = 1 /\ ~(Len(Codes(k)) = 2 \/ Len(Codes(k)) = 4)
      BY <1>13 DEF n
    <3>. QED BY <1>1, <3>1, Zenon DEF CodesShape, code
  <2>1. 1 \in 1 .. n
    BY <1>13
  <2>2. Decodes(d, bytes[1])
    BY <1>9, <1>12, <2>0, <2>1, Zenon
  <2>3. bytes[1].after = Q
    BY <1>8, <2>0, <2>1, Zenon
  <2>4. \A i \in 1 .. n : i = 1
    BY <1>13
  <2>5. Before(d, bytes, 1) = d /\ Before(d, bytes, n + 1) = Q
    BY <1>13, <2>3 DEF Before
  <2>. QED BY <1>7, <2>2, <2>4, <2>5 DEF Delivers, bytes, d, Q
<1>14. CASE n # 1
  <2>1. /\ n = 2 \/ (n = 4 /\ Meant(k) = "Unknown")
        /\ \A i \in 1 .. n : IF i \in {1, 3} THEN code(i) = "E0"
                             ELSE code(i) # "E0" /\ Keycode(TRUE, code(i)) = Meant(k)
    BY <1>1, <1>14 DEF CodesShape, n, code
  <2>2. ASSUME NEW i \in 1 .. n + 1
        PROVE  IF i \in {1, 3, 5} THEN Before(d, bytes, i).mods = IF i = 1 THEN before ELSE now
               ELSE Before(d, bytes, i) = P
    <3>1. CASE i = 1
      BY <1>9, <3>1 DEF Before
    <3>2. CASE i # 1
      <4>1. i - 1 \in 1 .. n /\ (i - 1 \in {1, 3} <=> i \notin {1, 3, 5})
        BY <1>6, <2>1, <3>2
      <4>2. bytes[i - 1].after = IF i \in {1, 3, 5} THEN Q ELSE P
        BY <1>8, <2>1, <4>1
      <4>. QED BY <1>9, <3>2, <4>2 DEF Before
    <3>. QED BY <3>1, <3>2
  <2>3. ASSUME NEW i \in 1 .. n PROVE Decodes(Before(d, bytes, i), bytes[i])
    <3>1. i \in 1 .. n + 1 /\ (i \in {1, 3} <=> i \in {1, 3, 5}) /\ (i = 3 => n = 4)
      BY <1>6, <2>1
    <3>2. CASE i \in {1, 3}
      <4>1. Before(d, bytes, i).mods = before
        BY <1>2, <2>1, <2>2, <3>1, <3>2
      <4>. QED BY <1>11, <2>1, <3>2, <4>1
    <3>3. CASE i \notin {1, 3}
      <4>1. Before(d, bytes, i).mods = before /\ Before(d, bytes, i).extended = TRUE
        BY <1>9, <2>2, <3>1, <3>3
      <4>. QED BY <1>12, <2>1, <3>3, <4>1
    <3>. QED BY <3>2, <3>3
  <2>4. Before(d, bytes, n + 1) = Q
    <3>1. n \in 1 .. n /\ n \notin {1, 3} /\ n + 1 # 1 /\ (n + 1) - 1 = n
      BY <1>6, <2>1
    <3>2. bytes[n].after = Q
      BY <1>8, <2>1, <3>1
    <3>. QED BY <3>1, <3>2 DEF Before
  <2>. QED BY <1>7, <2>3, <2>4 DEF Delivers, bytes, d, Q
<1>. QED BY <1>7, <1>13, <1>14 DEF bytes, d, Q

\* A push keeps the positions inside the ring; the event it keeps is at the old
\* write position.
LEMMA PushKeeps ==
  ASSUME BufferOK, NEW e \in Events, push(e)
  PROVE  BufferOK' /\ (write_pos' # write_pos => buffer'[write_pos] = e)
<1>1. After(write_pos) \in Positions
  BY AfterIs, BufferAssumption DEF BufferOK, Positions
<1>. QED BY <1>1 DEF BufferOK, push

\* Taking an event out keeps the positions inside the ring.
LEMMA PopKeeps ==
  ASSUME BufferOK, pop
  PROVE  BufferOK'
<1>1. After(read_pos) \in Positions
  BY AfterIs, BufferAssumption DEF BufferOK, Positions
<1>. QED BY <1>1 DEF BufferOK, pop

\* What a step establishes: the invariant again, and that the event it puts
\* into the ring is the one its byte was meant to be.
KeyInv == TypeOK /\ WireInv
Typed == write_pos' # write_pos => buffer'[write_pos] = Head(wire).typed

\* A stroke only appends bytes that are read as meant.
LEMMA StrokeKeeps ==
  ASSUME KeyInv, NEW k \in Keys, NEW pressed \in BOOLEAN, Stroke(k, pressed)
  PROVE  KeyInv' /\ Typed
<1> DEFINE down == IF pressed THEN held \cup {k} ELSE held \ {k}
           caps == capsOn # (k = "CapsLock" /\ pressed)
           bytes == Bytes(k, pressed, Mods(held, capsOn), Mods(down, caps))
<1>1. /\ held' = down /\ capsOn' = caps /\ wire' = wire \o bytes
      /\ Len(wire) + Len(bytes) <= WireSize
      /\ UNCHANGED <<EXTENDED_KEY, MODIFIERS, buffer, read_pos, write_pos, shell>>
  BY DEF Stroke, driver, bufferVars
<1>2. k \in AllKeys /\ held \in SUBSET AllKeys /\ capsOn \in BOOLEAN /\ wire \in Seq(Byte)
  BY KeyboardAssumption DEF KeyInv, TypeOK
<1>3. Mods(held, capsOn) \in Modifiers /\ Mods(down, caps) = UpdatedModifiers(Mods(held, capsOn), Meant(k), pressed)
  BY <1>2, ModsUpdated
<1>4. /\ bytes \in Seq(Byte)
      /\ Delivers([mods |-> Mods(held, capsOn), extended |-> FALSE], bytes,
                  [mods |-> Mods(down, caps), extended |-> FALSE])
  BY <1>2, <1>3, BytesDelivered
<1>. HIDE DEF bytes
<1>5. TypeOK'
  <2>1. wire' \in Seq(Byte) /\ Len(wire') <= WireSize
    BY <1>1, <1>2, <1>4, ConcatProperties
  <2>2. held' \subseteq Keys /\ capsOn' \in BOOLEAN
    BY <1>1 DEF KeyInv, TypeOK
  <2>. QED BY <1>1, <2>1, <2>2 DEF KeyInv, TypeOK, BufferOK
<1>6. WireInv'
  <2>1. Delivers(DriverState, wire, TypistState)
    BY DEF KeyInv, WireInv
  <2>2. TypistState = [mods |-> Mods(held, capsOn), extended |-> FALSE]
    BY DEF TypistState
  <2>3. Delivers(DriverState, wire \o bytes, [mods |-> Mods(down, caps), extended |-> FALSE])
    BY <1>2, <1>4, <2>1, <2>2, DeliversBoth
  <2>4. DriverState' = DriverState /\ TypistState' = [mods |-> Mods(down, caps), extended |-> FALSE]
    BY <1>1, Zenon DEF DriverState, TypistState, Mods
  <2>. QED BY <1>1, <2>3, <2>4 DEF WireInv
<1>. QED BY <1>1, <1>5, <1>6 DEF KeyInv, Typed

\* A prefix leaves the driver in the state its byte was to leave.
LEMMA PrefixKeeps ==
  ASSUME KeyInv, handle_scancode_prefix
  PROVE  KeyInv' /\ Typed
<1>1. /\ wire # <<>> /\ Head(wire).code = "E0" /\ wire' = Tail(wire) /\ EXTENDED_KEY' = TRUE
      /\ UNCHANGED <<held, capsOn, MODIFIERS, buffer, read_pos, write_pos>>
      /\ shell' = IF shell = "halted" THEN "polling" ELSE shell
  BY DEF handle_scancode_prefix, Wake, typist, bufferVars
<1>2. TypeOK'
  <2>1. wire' \in Seq(Byte) /\ Len(wire') <= WireSize
    BY <1>1, KeyboardAssumption DEF KeyInv, TypeOK
  <2>. QED BY <1>1, <2>1 DEF KeyInv, TypeOK, BufferOK
<1>3. Decodes(DriverState, Head(wire)) /\ Delivers(Head(wire).after, Tail(wire), TypistState)
  BY <1>1, DeliversTail DEF KeyInv, TypeOK, WireInv
<1>4. Head(wire).after = DriverState'
  BY <1>1, <1>3 DEF Decodes, DriverState
<1>5. TypistState' = TypistState
  BY <1>1 DEF TypistState
<1>. QED BY <1>1, <1>2, <1>3, <1>4, <1>5 DEF KeyInv, WireInv, Typed

\* Any other byte does too, and pushes the event its byte was meant to be.
LEMMA ScancodeKeeps ==
  ASSUME KeyInv, handle_scancode
  PROVE  KeyInv' /\ Typed /\ \E e \in Events : push(e)
<1> DEFINE b == Head(wire)
           key == Keycode(EXTENDED_KEY, b.code)
           mods == UpdatedModifiers(MODIFIERS, key, ~b.release)
           e == Event(key, ~b.release, mods)
<1>1. /\ wire # <<>> /\ b.code # "E0" /\ wire' = Tail(wire) /\ EXTENDED_KEY' = FALSE
      /\ MODIFIERS' = mods /\ push(e)
      /\ UNCHANGED <<held, capsOn>>
      /\ shell' = IF shell = "halted" THEN "polling" ELSE shell
  BY Zenon DEF handle_scancode, Wake, typist
<1>2. b \in Byte /\ Tail(wire) \in Seq(Byte) /\ Len(Tail(wire)) <= WireSize
  BY <1>1, KeyboardAssumption DEF KeyInv, TypeOK
<1>3. Decodes(DriverState, b) /\ Delivers(b.after, Tail(wire), TypistState)
  BY <1>1, DeliversTail DEF KeyInv, TypeOK, WireInv
<1>4. DriverState.mods = MODIFIERS /\ DriverState.extended = EXTENDED_KEY
  BY DEF DriverState
<1>5. b.after = [mods |-> mods, extended |-> FALSE] /\ b.typed = Event(key, ~b.release, b.after.mods)
  BY <1>1, <1>3, <1>4, Zenon DEF Decodes
<1>6. b.typed = e /\ b.typed \in Events /\ mods \in Modifiers
  <2>. HIDE DEF b, key, mods
  <2>1. b.after.mods = mods
    BY <1>5
  <2>2. b.typed \in Events /\ b.after.mods \in Modifiers
    BY <1>2 DEF Byte
  <2>. QED BY <1>5, <2>1, <2>2, Zenon
<1>7. DriverState' = b.after
  BY <1>1, <1>5, Zenon DEF DriverState
<1>. HIDE DEF b, key, mods, e
<1>8. e \in Events /\ push(e) /\ e = b.typed
  BY <1>1, <1>6, Zenon
<1>9. BufferOK' /\ (write_pos' # write_pos => buffer'[write_pos] = e)
  BY <1>8, PushKeeps DEF KeyInv, TypeOK
<1>10. TypeOK'
  BY <1>1, <1>2, <1>6, <1>9 DEF KeyInv, TypeOK
<1>11. TypistState' = TypistState
  BY <1>1 DEF TypistState
<1>12. WireInv'
  BY <1>1, <1>3, <1>7, <1>11, Zenon DEF WireInv
<1>. QED BY <1>8, <1>9, <1>10, <1>12, Zenon DEF KeyInv, Typed, b

\* No step but that of a byte that is no prefix, and a pop, changes the ring.
LEMMA KeyStep ==
  ASSUME KeyInv, Next
  PROVE  KeyInv' /\ Typed /\ [BufferNext]_bufferVars
<1>1. ASSUME NEW k \in Keys, NEW pressed \in BOOLEAN, Stroke(k, pressed)
      PROVE  KeyInv' /\ Typed /\ UNCHANGED bufferVars
  BY <1>1, StrokeKeeps DEF Stroke
<1>2. CASE handle_scancode_prefix
  BY <1>2, PrefixKeeps DEF handle_scancode_prefix
<1>3. CASE handle_scancode
  BY <1>3, ScancodeKeeps DEF BufferNext
<1>4. CASE try_read_char_some
  <2>1. BufferOK' /\ write_pos' = write_pos
    BY <1>4, PopKeeps DEF KeyInv, TypeOK, try_read_char_some, pop
  <2>2. TypeOK'
    BY <1>4, <2>1 DEF KeyInv, TypeOK, try_read_char_some, typist, driver
  <2>3. WireInv'
    BY <1>4, Zenon DEF KeyInv, WireInv, DriverState, TypistState, try_read_char_some, typist, driver
  <2>. QED BY <1>4, <2>1, <2>2, <2>3 DEF KeyInv, Typed, BufferNext, try_read_char_some
<1>5. CASE timer_interrupt \/ try_read_char_none \/ shell_hlt
  <2>1. /\ UNCHANGED <<typist, wire, driver, bufferVars>>
        /\ shell' \in {"polling", "halting", "halted"}
    BY <1>5 DEF KeyInv, TypeOK, timer_interrupt, Wake, try_read_char_none, shell_hlt
  <2>2. TypeOK' /\ Typed
    BY <2>1 DEF KeyInv, TypeOK, BufferOK, Typed, typist, driver, bufferVars
  <2>3. WireInv'
    BY <2>1, Zenon DEF KeyInv, WireInv, DriverState, TypistState, typist, driver
  <2>. QED BY <2>1, <2>2, <2>3 DEF KeyInv
<1>. QED BY <1>1, <1>2, <1>3, <1>4, <1>5 DEF Next, Interrupt, Shell

\* At first no byte is under way and no key is held.
LEMMA KeyStarts == Init => KeyInv
<1>. SUFFICES ASSUME Init PROVE KeyInv
  OBVIOUS
<1>1. TypeOK
  BY KeyboardAssumption, BufferAssumption
     DEF Init, BufferInit, TypeOK, BufferOK, NoModifiers, Modifiers, Positions
<1>2. DriverState = TypistState
  BY DEF Init, NoModifiers, DriverState, TypistState, Mods
<1>3. WireInv
  BY <1>2 DEF Init, WireInv, Delivers, Before
<1>. QED BY <1>1, <1>3 DEF KeyInv

\* Whatever the typist presses and releases, however late the interrupts and
\* however full the ring (handle_scancode): every event put into the ring is the
\* one meant, the bytes under way lead the driver to the typist's modifiers, and
\* with none under way the driver has them.
THEOREM KeysAreFaithful == Spec => TypedFaithfully
<1>1. KeyInv /\ [Next]_vars => KeyInv' /\ [Typed]_vars
  <2>. SUFFICES ASSUME KeyInv, UNCHANGED vars PROVE KeyInv'
    BY KeyStep
  <2>1. TypeOK'
    BY DEF KeyInv, TypeOK, BufferOK, vars
  <2>2. WireInv'
    BY Zenon DEF KeyInv, WireInv, DriverState, TypistState, vars
  <2>. QED BY <2>1, <2>2 DEF KeyInv
<1>2. KeyInv => TypeOK /\ WireInv /\ ModifiersFollowKeys
  <2>. SUFFICES ASSUME KeyInv, wire = <<>> PROVE MODIFIERS = Mods(held, capsOn) /\ ~EXTENDED_KEY
    BY DEF KeyInv, ModifiersFollowKeys
  <2>1. DriverState = TypistState
    <3>1. Before(DriverState, wire, 1) = TypistState
      BY DEF KeyInv, WireInv, Delivers
    <3>. QED BY <3>1 DEF Before
  <2>2. DriverState.mods = MODIFIERS /\ TypistState.mods = Mods(held, capsOn)
    BY DEF DriverState, TypistState
  <2>3. DriverState.extended = EXTENDED_KEY /\ TypistState.extended = FALSE
    BY DEF DriverState, TypistState
  <2>. QED BY <2>1, <2>2, <2>3
<1>. QED
  BY <1>1, <1>2, KeyStarts, PTL DEF Spec, TypedFaithfully, AsTyped, Typed

\* The whole driver uses its ring only as a queue that loses new events when
\* it is full, and the shell takes them out in order (KeyBuffer::push, pop).
THEOREM KeyboardKeepsQueue == Spec => ImplementsQueue
<1>1. Init => BufferInit
  BY DEF Init
<1>2. KeyInv /\ [Next]_vars => KeyInv' /\ [BufferNext]_bufferVars
  <2>. SUFFICES ASSUME KeyInv, UNCHANGED vars PROVE KeyInv' /\ UNCHANGED bufferVars
    BY KeyStep
  <2>1. TypeOK'
    BY DEF KeyInv, TypeOK, BufferOK, vars
  <2>2. WireInv'
    BY Zenon DEF KeyInv, WireInv, DriverState, TypistState, vars
  <2>. QED BY <2>1, <2>2 DEF KeyInv, vars, bufferVars
<1>3. Spec => BufferSpec
  BY <1>1, <1>2, KeyStarts, PTL DEF Spec, BufferSpec
<1>. QED BY <1>3, KeyBufferIsQueue, PTL

-----------------------------------------------------------------------------
(* The kernel log                                                          *)

\* A remainder of less than twice the modulus.
LEMMA ModIs ==
  ASSUME NEW C \in Nat \ {0}, NEW a \in Nat, a < 2 * C
  PROVE  a % C = IF a < C THEN a ELSE a - C
OBVIOUS

LogContentsOK == LogContents \in Seq(0 .. MaxSeq) /\ Len(LogContents) = count

\* What the ring of the log holds is a sequence of count numbers.
LEMMA LogContentsSeq == LogTypeOK => LogContentsOK
<1>. SUFFICES ASSUME LogTypeOK PROVE LogContentsOK
  OBVIOUS
<1>1. \A i \in 1 .. count : EntryAt(i - 1) \in 0 .. MaxSeq
  <2>. TAKE i \in 1 .. count
  <2>1. (log_pos + (i - 1)) % LOG_RING_CAPACITY \in LogPositions
    BY LogAssumption DEF LogTypeOK, LogPositions
  <2>2. i - 1 \in LogPositions
    BY LogAssumption DEF LogTypeOK, LogPositions
  <2>. QED BY <2>1, <2>2 DEF LogTypeOK, EntryAt
<1>2. LogContents \in [1 .. count -> 0 .. MaxSeq]
  BY <1>1 DEF LogContents
<1>3. count \in Nat
  BY LogAssumption DEF LogTypeOK
<1>. QED BY <1>2, <1>3, FunctionIsSeq DEF LogContentsOK

\* The position after p.
LEMMA NextLogPos ==
  ASSUME NEW p \in LogPositions
  PROVE  (p + 1) % LOG_RING_CAPACITY = IF p + 1 < LOG_RING_CAPACITY THEN p + 1 ELSE 0
<1>1. PICK a \in Nat : a = p + 1
  BY LogAssumption DEF LogPositions
<1>2. a <= LOG_RING_CAPACITY
  BY <1>1, LogAssumption DEF LogPositions
<1>3. a < 2 * LOG_RING_CAPACITY
  BY <1>2, LogAssumption
<1>4. a % LOG_RING_CAPACITY = IF a < LOG_RING_CAPACITY THEN a ELSE a - LOG_RING_CAPACITY
  BY <1>3, ModIs, LogAssumption
<1>5. a % LOG_RING_CAPACITY = IF a < LOG_RING_CAPACITY THEN a ELSE 0
  BY <1>2, <1>4, LogAssumption
<1>. QED BY <1>1, <1>5, Zenon

\* A copy stays a prefix while the ring and the copy stay as they are.
LEMMA CopyKept ==
  ASSUME CopyConsistent, UNCHANGED <<ringVars, result>>, pc'[Dmesg] = pc[Dmesg]
  PROVE  CopyConsistent'
<1>1. LogContents' = LogContents /\ count' = count /\ result' = result
  BY DEF LogContents, EntryAt, ringVars
<1>. QED BY <1>1 DEF CopyConsistent

\* A push appends to the ring, or shifts it by one when it is full.
LEMMA LogPush ==
  ASSUME LogTypeOK, LogContentsOK, LogContentsOK', FillInv,
         NEW l \in Loggers, push_entry(l)
  PROVE  LogQueue!Push(seq[l])
<1> DEFINE C == LOG_RING_CAPACITY
<1>a. C \in Nat \ {0}
  BY LogAssumption
<1>b. log_pos \in 0 .. C - 1 /\ count \in 0 .. C /\ seq[l] \in 0 .. MaxSeq
  BY DEF LogTypeOK, LogPositions
<1>1. log_pos' = IF log_pos + 1 < C THEN log_pos + 1 ELSE 0
  BY NextLogPos DEF LogTypeOK, push_entry
<1>2. \A i \in 0 .. C - 1 : entries'[i] = IF i = log_pos THEN seq[l] ELSE entries[i]
  <2>1. entries' = [entries EXCEPT ![log_pos] = seq[l]]
    BY DEF push_entry
  <2>2. entries \in [0 .. C - 1 -> 0 .. MaxSeq]
    BY DEF LogTypeOK, LogPositions
  <2>. QED BY <2>1, <2>2
<1>3. count' = IF count < C THEN count + 1 ELSE count
  BY DEF push_entry
<1>4. count < C => log_pos = count
  BY DEF FillInv
<1>6. /\ LogContents \in Seq(0 .. MaxSeq) /\ Len(LogContents) = count
      /\ LogContents' \in Seq(0 .. MaxSeq) /\ Len(LogContents') = count'
  BY DEF LogContentsOK
<1>7. /\ \A i \in 1 .. count : LogContents[i] = IF count < C THEN entries[i - 1]
                                                ELSE entries[(log_pos + (i - 1)) % C]
      /\ \A i \in 1 .. count' : LogContents'[i] = IF count' < C THEN entries'[i - 1]
                                                  ELSE entries'[(log_pos' + (i - 1)) % C]
  BY DEF LogContents, EntryAt
<1>. HIDE DEF C
<1>8. CASE count < C
  <2>1. ASSUME NEW i \in 1 .. count'
        PROVE  LogContents'[i] = entries'[i - 1]
    <3>1. CASE count' < C
      BY <1>7, <3>1
    <3>2. CASE ~(count' < C)
      <4>1. log_pos' = 0 /\ i - 1 < C /\ i - 1 \in Nat /\ log_pos' + (i - 1) = i - 1
        <5>1. count' = C /\ count + 1 = C /\ log_pos + 1 = C
          BY <1>a, <1>b, <1>3, <1>4, <1>8, <3>2
        <5>. QED BY <1>a, <1>1, <5>1
      <4>2. PICK a \in Nat : a = i - 1
        BY <4>1
      <4>3. a < C /\ a < 2 * C
        BY <1>a, <4>1, <4>2
      <4>4. a % C = a
        BY <1>a, <4>3, ModIs
      <4>. QED BY <1>7, <3>2, <4>1, <4>2, <4>4
    <3>. QED BY <3>1, <3>2
  <2>2. LogContents'[count'] = seq[l]
    <3>1. count' \in 1 .. count' /\ count' - 1 = log_pos
      BY <1>a, <1>b, <1>3, <1>4, <1>8
    <3>. QED BY <1>b, <1>2, <2>1, <3>1
  <2>3. ASSUME NEW i \in 1 .. count PROVE LogContents'[i] = LogContents[i]
    <3>1. i \in 1 .. count' /\ i - 1 \in 0 .. C - 1 /\ i - 1 # log_pos
      BY <1>a, <1>b, <1>3, <1>4, <1>8
    <3>. QED BY <1>2, <1>7, <1>8, <2>1, <3>1
  <2>4. LogContents' = Append(LogContents, seq[l])
    <3>1. count' = count + 1
      BY <1>3, <1>8
    <3>. QED BY <1>b, <1>6, <2>2, <2>3, <3>1, AppendIs
  <2>. QED BY <1>6, <1>8, <2>4 DEF LogQueue!Push, C
<1>9. CASE ~(count < C)
  <2>1. count = C /\ count' = C
    BY <1>a, <1>b, <1>3, <1>9
  <2>2. \A i \in 1 .. C : /\ (log_pos + (i - 1)) % C = IF log_pos + (i - 1) < C THEN log_pos + (i - 1)
                                                      ELSE (log_pos + (i - 1)) - C
                         /\ (log_pos' + (i - 1)) % C = IF log_pos' + (i - 1) < C THEN log_pos' + (i - 1)
                                                       ELSE (log_pos' + (i - 1)) - C
    <3>1. log_pos' \in 0 .. C - 1
      BY <1>a, <1>b, <1>1
    <3>2. ASSUME NEW w \in 0 .. C - 1, NEW i \in 1 .. C
          PROVE  (w + (i - 1)) % C = IF w + (i - 1) < C THEN w + (i - 1) ELSE (w + (i - 1)) - C
      <4>1. PICK a \in Nat : a = w + (i - 1)
        BY <1>a
      <4>2. a < 2 * C
        BY <1>a, <4>1
      <4>3. a % C = IF a < C THEN a ELSE a - C
        BY <1>a, <4>2, ModIs
      <4>. QED BY <4>1, <4>3, Zenon
    <3>. QED BY <1>b, <3>1, <3>2
  <2>3. LogContents'[C] = seq[l]
    <3>1. (log_pos' + (C - 1)) % C = log_pos /\ C \in 1 .. C
      BY <1>a, <1>b, <1>1, <2>2
    <3>. QED BY <1>b, <1>2, <1>7, <2>1, <3>1
  <2>4. ASSUME NEW i \in 1 .. C - 1 PROVE LogContents'[i] = LogContents[i + 1]
    <3>1. i \in 1 .. C /\ i + 1 \in 1 .. C /\ (i + 1) - 1 = i
      BY <1>a
    <3>2. /\ (log_pos' + (i - 1)) % C = (log_pos + i) % C
          /\ (log_pos + i) % C \in 0 .. C - 1 /\ (log_pos + i) % C # log_pos
      <4>1. (log_pos + i) % C = IF log_pos + i < C THEN log_pos + i ELSE (log_pos + i) - C
        BY <2>2, <3>1, Zenon
      <4>2. (log_pos' + (i - 1)) % C = IF log_pos' + (i - 1) < C THEN log_pos' + (i - 1)
                                       ELSE (log_pos' + (i - 1)) - C
        BY <2>2, <3>1
      <4>. QED BY <1>a, <1>b, <1>1, <4>1, <4>2
    <3>3. LogContents'[i] = entries'[(log_pos + i) % C]
      BY <1>7, <1>9, <2>1, <3>1, <3>2
    <3>4. LogContents[i + 1] = entries[(log_pos + i) % C]
      BY <1>7, <1>9, <2>1, <3>1
    <3>. QED BY <1>2, <3>2, <3>3, <3>4
  <2>5. LogContents' = Append(Tail(LogContents), seq[l])
    <3>1. LogContents # <<>>
      BY <1>a, <1>6, <2>1, EmptySeq
    <3>. QED BY <1>b, <1>6, <2>1, <2>3, <2>4, <3>1, ShiftIs
  <2>. QED BY <1>6, <1>9, <2>5 DEF LogQueue!Push, C
<1>. QED BY <1>8, <1>9

LogInv == LogTypeOK /\ FillInv /\ HolderInv /\ CopyConsistent

\* The log starts empty and unlocked.
LEMMA LogStarts == LogInit => LogInv
<1>. SUFFICES ASSUME LogInit PROVE LogInv
  OBVIOUS
<1>. USE LogAssumption
<1>1. LogTypeOK /\ FillInv
  BY DEF LogInit, LogTypeOK, LogPositions, FillInv
<1>2. HolderInv /\ CopyConsistent
  BY DEF LogInit, HolderInv, CopyConsistent
<1>. QED BY <1>1, <1>2 DEF LogInv

\* What a step of a logger or of dmesg keeps.
LEMMA LogStep ==
  ASSUME LogInv, LogContentsOK, LogNext
  PROVE  LogInv'
<1>. USE LogAssumption
<1>t. LogTypeOK /\ FillInv /\ HolderInv /\ CopyConsistent
  BY DEF LogInv
<1>1. ASSUME NEW l \in Loggers, log_numbers(l) PROVE LogInv'
  <2>1. LogTypeOK'
    BY <1>t, <1>1 DEF LogTypeOK, log_numbers, Go, ringVars
  <2>2. FillInv'
    BY <1>t, <1>1 DEF FillInv, log_numbers, ringVars
  <2>3. HolderInv'
    BY <1>t, <1>1 DEF LogTypeOK, HolderInv, log_numbers, Go
  <2>4. CopyConsistent'
    <3>1. pc'[Dmesg] = pc[Dmesg]
      BY <1>t, <1>1 DEF LogTypeOK, log_numbers, Go
    <3>. QED BY <1>t, <1>1, <3>1, CopyKept DEF log_numbers
  <2>. QED BY <2>1, <2>2, <2>3, <2>4 DEF LogInv
<1>2. ASSUME NEW l \in Loggers, try_lock(l) PROVE LogInv'
  <2>1. LogTypeOK'
    BY <1>t, <1>2 DEF LogTypeOK, try_lock, Go, ringVars
  <2>2. FillInv'
    BY <1>t, <1>2 DEF FillInv, try_lock, ringVars
  <2>3. HolderInv'
    BY <1>t, <1>2 DEF LogTypeOK, HolderInv, try_lock, Go
  <2>4. CopyConsistent'
    <3>1. pc'[Dmesg] = pc[Dmesg]
      BY <1>t, <1>2 DEF LogTypeOK, try_lock, Go
    <3>. QED BY <1>t, <1>2, <3>1, CopyKept DEF try_lock
  <2>. QED BY <2>1, <2>2, <2>3, <2>4 DEF LogInv
<1>3. ASSUME NEW l \in Loggers, push_entry(l) PROVE LogInv'
  <2>0. log_pos' = IF log_pos + 1 < LOG_RING_CAPACITY THEN log_pos + 1 ELSE 0
    BY <1>t, <1>3, NextLogPos DEF LogTypeOK, push_entry
  <2>1. LogTypeOK'
    <3>1. /\ log_pos' \in LogPositions /\ count' \in 0 .. LOG_RING_CAPACITY
          /\ entries' \in [LogPositions -> 0 .. MaxSeq]
      BY <1>t, <1>3, <2>0 DEF LogTypeOK, LogPositions, push_entry
    <3>. QED BY <1>t, <1>3, <3>1 DEF LogTypeOK, push_entry, Go
  <2>2. FillInv'
    BY <1>t, <1>3, <2>0 DEF LogTypeOK, LogPositions, FillInv, push_entry
  <2>3. HolderInv'
    BY <1>t, <1>3 DEF LogTypeOK, HolderInv, push_entry, Go
  <2>4. CopyConsistent'
    <3>1. pc[Dmesg] # "copying" /\ pc'[Dmesg] = pc[Dmesg]
      BY <1>t, <1>3 DEF LogTypeOK, HolderInv, push_entry, Go
    <3>. QED BY <3>1 DEF CopyConsistent
  <2>. QED BY <2>1, <2>2, <2>3, <2>4 DEF LogInv
<1>4. CASE get_log_entries_locks
  <2>1. LogTypeOK'
    BY <1>t, <1>4 DEF LogTypeOK, get_log_entries_locks, Go, ringVars
  <2>2. FillInv'
    BY <1>t, <1>4 DEF FillInv, get_log_entries_locks, ringVars
  <2>3. HolderInv'
    BY <1>t, <1>4 DEF LogTypeOK, HolderInv, get_log_entries_locks, Go
  <2>4. CopyConsistent'
    <3>1. result' = <<>> /\ count' \in Nat
      BY <1>t, <1>4 DEF LogTypeOK, get_log_entries_locks, ringVars
    <3>. QED BY <3>1 DEF CopyConsistent
  <2>. QED BY <2>1, <2>2, <2>3, <2>4 DEF LogInv
<1>5. CASE get_log_entries_copies
  <2>0. /\ result \in Seq(0 .. MaxSeq) /\ Len(result) \in Nat /\ count \in Nat /\ Len(result) < count
        /\ EntryAt(Len(result)) = LogContents[Len(result) + 1]
        /\ EntryAt(Len(result)) \in 0 .. MaxSeq
    <3>1. result \in Seq(0 .. MaxSeq) /\ Len(result) \in Nat /\ count \in Nat /\ Len(result) < count
      BY <1>t, <1>5 DEF LogTypeOK, get_log_entries_copies
    <3>2. Len(result) + 1 \in 1 .. count /\ (Len(result) + 1) - 1 = Len(result)
      BY <3>1
    <3>3. LogContents[Len(result) + 1] = EntryAt((Len(result) + 1) - 1)
      BY <3>2, Zenon DEF LogContents
    <3>4. LogContents[Len(result) + 1] \in 0 .. MaxSeq
      BY <3>1, <3>2 DEF LogContentsOK
    <3>5. EntryAt(Len(result)) = LogContents[Len(result) + 1]
      BY <3>2, <3>3, Zenon
    <3>. QED BY <3>1, <3>4, <3>5
  <2>1. /\ result' \in Seq(0 .. MaxSeq) /\ Len(result') = Len(result) + 1
        /\ \A i \in 1 .. Len(result) : result'[i] = result[i]
        /\ result'[Len(result) + 1] = LogContents[Len(result) + 1]
    BY <1>5, <2>0, AppendProperties DEF get_log_entries_copies
  <2>2. LogTypeOK'
    BY <1>t, <1>5, <2>1 DEF LogTypeOK, get_log_entries_copies, ringVars
  <2>3. FillInv' /\ HolderInv'
    BY <1>t, <1>5 DEF FillInv, HolderInv, get_log_entries_copies, ringVars
  <2>4. LogContents' = LogContents /\ count' = count /\ pc' = pc
    BY <1>5 DEF LogContents, EntryAt, get_log_entries_copies, ringVars
  <2>5. \A i \in 1 .. Len(result) : result[i] = LogContents[i]
    BY <1>t, <1>5 DEF CopyConsistent, get_log_entries_copies
  <2>6. CopyConsistent'
    <3>1. \A i \in 1 .. Len(result') : i \in 1 .. Len(result) \/ i = Len(result) + 1
      BY <2>0, <2>1
    <3>2. \A i \in 1 .. Len(result') : result'[i] = LogContents[i]
      BY <2>1, <2>5, <3>1, Zenon
    <3>3. Len(result') <= count
      BY <2>0, <2>1
    <3>. QED BY <2>4, <3>2, <3>3 DEF CopyConsistent
  <2>. QED BY <2>2, <2>3, <2>6 DEF LogInv
<1>6. CASE get_log_entries_returns
  <2>1. LogTypeOK'
    BY <1>t, <1>6 DEF LogTypeOK, get_log_entries_returns, Go, ringVars
  <2>2. FillInv'
    BY <1>t, <1>6 DEF FillInv, get_log_entries_returns, ringVars
  <2>3. HolderInv'
    BY <1>t, <1>6 DEF LogTypeOK, HolderInv, get_log_entries_returns, Go
  <2>4. CopyConsistent'
    BY <1>t, <1>6 DEF LogTypeOK, CopyConsistent, get_log_entries_returns, Go
  <2>. QED BY <2>1, <2>2, <2>3, <2>4 DEF LogInv
<1>. QED BY <1>1, <1>2, <1>3, <1>4, <1>5, <1>6 DEF LogNext

\* The kernel log, for any capacity and any loggers: the ring is a queue that
\* loses only its oldest entry, to a push into a full ring, and what dmesg has
\* copied is at all times a prefix of the ring (LogRing::push, get_log_entries).
THEOREM LogIsFaithful == LogSpec => LogFaithful
<1>1. LogInit => LogQueue!Init
  <2>. SUFFICES ASSUME LogInit PROVE LogContents = <<>>
    BY DEF LogQueue!Init
  <2>. QED BY DEF LogInit, LogContents
<1>2. LogInv /\ LogContentsOK /\ [LogNext]_logVars => LogInv'
  <2>. SUFFICES ASSUME LogInv, LogContentsOK, UNCHANGED logVars PROVE LogInv'
    BY LogStep
  <2>1. CopyConsistent'
    BY CopyKept DEF LogInv, logVars, ringVars
  <2>. QED BY <2>1 DEF LogInv, LogTypeOK, FillInv, HolderInv, logVars
<1>3. LogInv /\ LogContentsOK /\ LogContentsOK' /\ [LogNext]_logVars => [LogQueue!Next]_LogContents
  <2>. SUFFICES ASSUME LogInv, LogContentsOK, LogContentsOK', [LogNext]_logVars
               PROVE  [LogQueue!Next]_LogContents
    OBVIOUS
  <2>1. ASSUME NEW l \in Loggers, push_entry(l) PROVE LogQueue!Next
    <3>1. LogQueue!Push(seq[l])
      BY <2>1, LogPush DEF LogInv
    <3>2. seq[l] \in 0 .. MaxSeq
      BY DEF LogInv, LogTypeOK
    <3>. QED BY <3>1, <3>2 DEF LogQueue!Next
  <2>2. ASSUME UNCHANGED ringVars PROVE LogContents' = LogContents
    BY <2>2 DEF ringVars, LogContents, EntryAt
  <2>3. (\E l \in Loggers : push_entry(l)) \/ UNCHANGED ringVars
    BY DEF LogNext, logVars, ringVars, log_numbers, try_lock, get_log_entries_locks,
           get_log_entries_copies, get_log_entries_returns
  <2>. QED BY <2>1, <2>2, <2>3
<1>4. LogInv => LogContentsOK
  BY LogContentsSeq DEF LogInv
<1>. QED
  BY <1>1, <1>2, <1>3, <1>4, LogStarts, PTL DEF LogSpec, LogFaithful, LogQueue!Spec, LogInv
=============================================================================
