------------------------------ MODULE Keyboard ------------------------------
(***************************************************************************)
(* The keyboard driver (kernel/src/hal/keyboard.rs) between a typist and   *)
(* the shell: keys become scancode bytes, each byte an interrupt that      *)
(* decodes it, keeps the modifiers and queues an event; the shell polls    *)
(* and halts until the next interrupt.  Nine keys stand for the classes of *)
(* keys the tables of the driver tell apart.                               *)
(***************************************************************************)
EXTENDS KeyBuffer

CONSTANTS
  Keys,         \* keys of the keyboard, among AllKeys
  WireSize,     \* bound: bytes waiting in the controller
  MaxStrokes    \* bound: presses and releases

AllKeys == {"LeftShift", "LeftCtrl", "RightCtrl", "CapsLock", "A", "G", "Key1", "Up", "PrintScreen"}

ASSUME KeyboardAssumption ==
  /\ Keys \subseteq AllKeys
  /\ WireSize \in Nat
  /\ MaxStrokes \in Nat

VARIABLES
  held, capsOn, strokes,     \* the typist: keys held down, the caps lock state wanted
  wire,                      \* bytes the controller has not delivered
  EXTENDED_KEY, MODIFIERS,   \* the driver
  shell                      \* "polling", "halting" or "halted"

typist == <<held, capsOn, strokes>>
driver == <<EXTENDED_KEY, MODIFIERS>>
vars == <<held, capsOn, strokes, wire, EXTENDED_KEY, MODIFIERS, shell, buffer, read_pos, write_pos>>

\* The bytes of a key in scancode set 1, without the release bit.  The
\* keyboard brackets PrintScreen with a shift of its own.
Codes(k) ==
  CASE k = "LeftShift"   -> <<"2A">>
    [] k = "LeftCtrl"    -> <<"1D">>
    [] k = "RightCtrl"   -> <<"E0", "1D">>
    [] k = "CapsLock"    -> <<"3A">>
    [] k = "A"           -> <<"1E">>
    [] k = "G"           -> <<"22">>
    [] k = "Key1"        -> <<"02">>
    [] k = "Up"          -> <<"E0", "48">>
    [] k = "PrintScreen" -> <<"E0", "2A", "E0", "37">>

scancode_to_keycode(code) ==
  CASE code = "2A" -> "LeftShift"
    [] code = "1D" -> "LeftCtrl"
    [] code = "3A" -> "CapsLock"
    [] code = "1E" -> "A"
    [] code = "22" -> "G"
    [] code = "02" -> "Key1"
    [] OTHER       -> "Unknown"

\* Mutant: the extended codes fall back to the plain table.
ExtendedKeycode_falls_back(code) ==
  CASE code = "48" -> "Up"
    [] code = "1D" -> "RightCtrl"
    [] OTHER       -> scancode_to_keycode(code)

ExtendedKeycode(code) ==
  CASE code = "48" -> "Up"
    [] code = "1D" -> "RightCtrl"
    [] OTHER       -> "Unknown"

KeyCode == (AllKeys \ {"PrintScreen"}) \cup {"Unknown"}

Keycode(extended, code) ==
  IF extended THEN ExtendedKeycode(code) ELSE scancode_to_keycode(code)

\* The character of a key, as the key and the form it takes.
keycode_to_ascii(key, shift, caps, ctrl) ==
  CASE ctrl                          -> IF key = "A" THEN <<"A", "control">> ELSE <<>>
    [] ~ctrl /\ key \in {"A", "G"}   -> <<key, IF shift # caps THEN "upper" ELSE "lower">>
    [] ~ctrl /\ key = "Key1"         -> <<key, IF shift THEN "symbol" ELSE "digit">>
    [] OTHER                         -> <<>>

ModifierKeys == {"LeftShift", "LeftCtrl", "RightCtrl"}

NoModifiers == [down |-> {}, caps_lock |-> FALSE]

shift(mods) == "LeftShift" \in mods.down

ctrl(mods) == mods.down \cap {"LeftCtrl", "RightCtrl"} # {}

UpdatedModifiers(mods, key, pressed) ==
  [down |-> IF key \notin ModifierKeys THEN mods.down
            ELSE IF pressed THEN mods.down \cup {key} ELSE mods.down \ {key},
   caps_lock |-> mods.caps_lock # (key = "CapsLock" /\ pressed)]

Event(key, pressed, mods) ==
  [key |-> key, pressed |-> pressed,
   ascii |-> IF pressed THEN keycode_to_ascii(key, shift(mods), mods.caps_lock, ctrl(mods))
             ELSE <<>>]

Modifiers == [down : SUBSET ModifierKeys, caps_lock : BOOLEAN]

\* The ring can hold whatever the driver makes of a key.
ASSUME EventsAssumption ==
  \A key \in KeyCode, pressed \in BOOLEAN, mods \in Modifiers :
    Event(key, pressed, mods) \in Events

Init ==
  /\ held = {}
  /\ capsOn = FALSE
  /\ strokes = 0
  /\ wire = <<>>
  /\ EXTENDED_KEY = FALSE
  /\ MODIFIERS = NoModifiers
  /\ BufferInit
  /\ shell = "polling"

-----------------------------------------------------------------------------
\* The modifiers the typist means, by the keys held down.
Mods(down, caps) == [down |-> down \cap ModifierKeys, caps_lock |-> caps]

\* The key the driver has for a key of the keyboard.
Meant(k) == IF k = "PrintScreen" THEN "Unknown" ELSE k

\* The bytes of a key.  Each remembers the event the typist means by it (the
\* key with the modifiers really held at the time) and the state in which it
\* is to leave the driver: the modifiers, and whether a prefix is pending.
Bytes(k, pressed, before, now) ==
  [i \in 1 .. Len(Codes(k)) |->
     [code |-> Codes(k)[i], release |-> ~pressed,
      typed |-> Event(Meant(k), pressed, now),
      after |-> IF Codes(k)[i] = "E0" THEN [mods |-> before, extended |-> TRUE]
                ELSE [mods |-> now, extended |-> FALSE]]]

\* The typist presses or releases a key (a key held down repeats its press,
\* except for the caps lock, whose repetition the typist avoids).
Stroke(k, pressed) ==
  LET caps == capsOn # (k = "CapsLock" /\ pressed)
      down == IF pressed THEN held \cup {k} ELSE held \ {k}
      bytes == Bytes(k, pressed, Mods(held, capsOn), Mods(down, caps))
  IN  /\ strokes < MaxStrokes
      /\ IF pressed THEN k = "CapsLock" => k \notin held ELSE k \in held
      /\ Len(wire) + Len(bytes) <= WireSize
      /\ held' = down
      /\ capsOn' = caps
      /\ strokes' = strokes + 1
      /\ wire' = wire \o bytes
      /\ UNCHANGED <<driver, bufferVars, shell>>

\* An interrupt ends a hlt.
Wake == shell' = IF shell = "halted" THEN "polling" ELSE shell

handle_scancode_prefix ==
  /\ wire # <<>>
  /\ Head(wire).code = "E0"
  /\ wire' = Tail(wire)
  /\ EXTENDED_KEY' = TRUE
  /\ Wake
  /\ UNCHANGED <<typist, MODIFIERS, bufferVars>>

\* Mutant: a full ring drops the modifier with its event.
handle_scancode_drops_modifiers ==
  LET b == Head(wire)
      key == Keycode(EXTENDED_KEY, b.code)
  IN  /\ wire # <<>>
      /\ b.code # "E0"
      /\ wire' = Tail(wire)
      /\ EXTENDED_KEY' = FALSE
      /\ MODIFIERS' = IF After(write_pos) # read_pos
                      THEN UpdatedModifiers(MODIFIERS, key, ~b.release) ELSE MODIFIERS
      /\ push(Event(key, ~b.release, MODIFIERS'))
      /\ Wake
      /\ UNCHANGED typist

handle_scancode ==
  LET b == Head(wire)
      key == Keycode(EXTENDED_KEY, b.code)
  IN  /\ wire # <<>>
      /\ b.code # "E0"
      /\ wire' = Tail(wire)
      /\ EXTENDED_KEY' = FALSE
      /\ MODIFIERS' = UpdatedModifiers(MODIFIERS, key, ~b.release)
      /\ push(Event(key, ~b.release, MODIFIERS'))
      /\ Wake
      /\ UNCHANGED typist

\* Mutant: the timer does not end the hlt.
timer_interrupt_ignored == shell = "halted" /\ UNCHANGED vars

timer_interrupt ==
  /\ shell = "halted"
  /\ Wake
  /\ UNCHANGED <<typist, wire, driver, bufferVars>>

\* try_read_char takes events out one by one: releases are skipped, a press
\* is returned and the shell comes back for the next one.
try_read_char_some ==
  /\ shell = "polling"
  /\ pop
  /\ UNCHANGED <<typist, wire, driver, shell>>

try_read_char_none ==
  /\ shell = "polling"
  /\ read_pos = write_pos
  /\ shell' = "halting"
  /\ UNCHANGED <<typist, wire, driver, bufferVars>>

\* Between the empty poll and the hlt interrupts are on: a key that arrives
\* there does not end the hlt.
shell_hlt ==
  /\ shell = "halting"
  /\ shell' = "halted"
  /\ UNCHANGED <<typist, wire, driver, bufferVars>>

Interrupt == handle_scancode_prefix \/ handle_scancode \/ timer_interrupt

Shell == try_read_char_some \/ try_read_char_none \/ shell_hlt

Next ==
  \/ \E k \in Keys, pressed \in BOOLEAN : Stroke(k, pressed)
  \/ Interrupt
  \/ Shell

Spec == Init /\ [][Next]_vars

\* The controller delivers its bytes, the timer ticks, the shell is scheduled.
FairSpec ==
  /\ Spec
  /\ WF_vars(handle_scancode_prefix \/ handle_scancode)
  /\ WF_vars(timer_interrupt)
  /\ WF_vars(Shell)

-----------------------------------------------------------------------------
ScanCode == {"E0", "2A", "1D", "3A", "1E", "22", "02", "48", "37"}
Byte == [code : ScanCode, release : BOOLEAN, typed : Events,
         after : [mods : Modifiers, extended : BOOLEAN]]

\* Type invariant.
TypeOK ==
  /\ held \subseteq Keys
  /\ capsOn \in BOOLEAN /\ EXTENDED_KEY \in BOOLEAN /\ MODIFIERS \in Modifiers
  /\ wire \in Seq(Byte) /\ Len(wire) <= WireSize
  /\ BufferOK
  /\ shell \in {"polling", "halting", "halted"}

\* Once all bytes are delivered, the driver's modifiers are those the typist
\* holds, however many events the full ring has dropped and although the
\* keyboard sends shifts of its own (update of MODIFIERS before the push).
ModifiersFollowKeys ==
  wire = <<>> => MODIFIERS = Mods(held, capsOn) /\ ~EXTENDED_KEY

\* The driver in state d reads the byte as the typist means it: it pushes the
\* event typed and goes on in the state after.
Decodes(d, b) ==
  IF b.code = "E0" THEN b.after = [mods |-> d.mods, extended |-> TRUE]
  ELSE LET key == Keycode(d.extended, b.code)
       IN  /\ b.after = [mods |-> UpdatedModifiers(d.mods, key, ~b.release), extended |-> FALSE]
           /\ b.typed = Event(key, ~b.release, b.after.mods)

\* The bytes w take the driver from state d to state e, each read as it was
\* meant.
Before(d, w, i) == IF i = 1 THEN d ELSE w[i - 1].after
Delivers(d, w, e) ==
  /\ \A i \in 1 .. Len(w) : Decodes(Before(d, w, i), w[i])
  /\ Before(d, w, Len(w) + 1) = e

\* The bytes under way take the driver from its modifiers to those the typist
\* holds: the driver lags behind the typist and never diverges.
DriverState == [mods |-> MODIFIERS, extended |-> EXTENDED_KEY]
TypistState == [mods |-> Mods(held, capsOn), extended |-> FALSE]
WireInv == Delivers(DriverState, wire, TypistState)

\* Every event put into the ring is the one the typist meant: the key, and the
\* character under the modifiers held when it was struck, however late the
\* interrupt and however many events were lost before.
AsTyped == [][write_pos' # write_pos => buffer'[write_pos] = Head(wire).typed]_vars

\* Events and modifiers, together.
TypedFaithfully == AsTyped /\ [](TypeOK /\ WireInv /\ ModifiersFollowKeys)

\* Whatever is in the ring is read, also a key that arrived between the
\* empty poll and the hlt (shell/mod.rs:285): at the latest the timer wakes
\* the shell.
EveryKeyRead == read_pos # write_pos ~> read_pos = write_pos
=============================================================================
