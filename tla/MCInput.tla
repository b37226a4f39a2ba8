------------------------------- MODULE MCInput --------------------------------
(***************************************************************************)
(* The keyboard (Keyboard) and the kernel log (LogRing) in one run. A      *)
(* behaviour is one of one of them, part; the variables of the other stay  *)
(* as they are initially.                                                  *)
(***************************************************************************)
EXTENDS Keyboard, LogRing

VARIABLE part

-----------------------------------------------------------------------------
(* Instances                                                               *)

\* A keyboard with one key of each class and a ring of two events.
KeyEvents == { Event(k, pressed, mods) : k \in KeyCode, pressed \in BOOLEAN, mods \in Modifiers }
NoEvent == Event("Unknown", FALSE, NoModifiers)

\* Two tasks that log and one that reads the log, a ring of three entries.
Logging == {"shell", "worker"}

-----------------------------------------------------------------------------
(* The sum                                                                 *)

MCInit == part \in {"keys", "log"} /\ Init /\ LogInit

KeepLog == UNCHANGED <<part, logVars>>
KeepKeys == UNCHANGED <<part, vars>>

MCNext ==
  \/ part = "keys" /\ Next /\ KeepLog
  \/ part = "log" /\ LogNext /\ KeepKeys

mcvars == <<part, held, capsOn, strokes, wire, EXTENDED_KEY, MODIFIERS, shell,
            buffer, read_pos, write_pos, entries, log_pos, count,
            LOG_SEQ, lock, pc, seq, result>>
MCSpec == MCInit /\ [][MCNext]_mcvars
          /\ WF_mcvars(part = "keys" /\ (handle_scancode_prefix \/ handle_scancode) /\ KeepLog)
          /\ WF_mcvars(part = "keys" /\ timer_interrupt /\ KeepLog)
          /\ WF_mcvars(part = "keys" /\ Shell /\ KeepLog)
=============================================================================
