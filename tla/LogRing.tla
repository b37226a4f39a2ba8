------------------------------- MODULE LogRing -------------------------------
(***************************************************************************)
(* The kernel log (kernel/src/logging.rs): tasks and interrupt handlers    *)
(* number their messages and push them into a ring, dmesg copies the ring. *)
(* A message is its number; a logger that finds the ring locked drops it.  *)
(***************************************************************************)
EXTENDS Naturals, Sequences

CONSTANTS
  LOG_RING_CAPACITY,
  Loggers,     \* the contexts that log
  Dmesg,       \* the context that reads the log
  Free,        \* no holder of the lock
  MaxSeq       \* bound: messages logged

ASSUME LogAssumption ==
  /\ LOG_RING_CAPACITY \in Nat \ {0}
  /\ MaxSeq \in Nat
  /\ Dmesg \notin Loggers
  /\ Free \notin Loggers \cup {Dmesg}

VARIABLES
  entries, log_pos, count,     \* LogRing; log_pos is its write_pos
  LOG_SEQ,
  lock,                        \* holder of LOG_RING
  pc,                          \* of each context
  seq,                         \* the number a logger formatted into its message
  result                       \* what dmesg has copied

ringVars == <<entries, log_pos, count>>
logVars == <<entries, log_pos, count, LOG_SEQ, lock, pc, seq, result>>

LogPositions == 0 .. LOG_RING_CAPACITY - 1

\* The entry dmesg copies after it has copied n.
EntryAt(n) == IF count < LOG_RING_CAPACITY THEN entries[n]
              ELSE entries[(log_pos + n) % LOG_RING_CAPACITY]

LogInit ==
  /\ entries = [i \in LogPositions |-> 0]
  /\ log_pos = 0
  /\ count = 0
  /\ LOG_SEQ = 0
  /\ lock = Free
  /\ pc = [c \in Loggers \cup {Dmesg} |-> "idle"]
  /\ seq = [l \in Loggers |-> 0]
  /\ result = <<>>

Go(c, label) == pc' = [pc EXCEPT ![c] = label]

\* fetch_add and the formatting of the message.
log_numbers(l) ==
  /\ pc[l] = "idle"
  /\ LOG_SEQ < MaxSeq
  /\ seq' = [seq EXCEPT ![l] = LOG_SEQ]
  /\ LOG_SEQ' = LOG_SEQ + 1
  /\ Go(l, "formatted")
  /\ UNCHANGED <<ringVars, lock, result>>

\* Mutant: the ring is entered whether it is locked or not.
try_lock_ignored(l) ==
  /\ pc[l] = "formatted"
  /\ lock' = l
  /\ Go(l, "pushing")
  /\ UNCHANGED <<ringVars, LOG_SEQ, seq, result>>

try_lock(l) ==
  /\ pc[l] = "formatted"
  /\ IF lock = Free THEN lock' = l /\ Go(l, "pushing")
     ELSE Go(l, "idle") /\ UNCHANGED lock
  /\ UNCHANGED <<ringVars, LOG_SEQ, seq, result>>

\* Mutant: the position is advanced only while the ring fills.
push_stays(l) ==
  /\ pc[l] = "pushing"
  /\ entries' = [entries EXCEPT ![log_pos] = seq[l]]
  /\ IF count < LOG_RING_CAPACITY
     THEN count' = count + 1 /\ log_pos' = (log_pos + 1) % LOG_RING_CAPACITY
     ELSE UNCHANGED <<count, log_pos>>
  /\ lock' = Free
  /\ Go(l, "idle")
  /\ UNCHANGED <<LOG_SEQ, seq, result>>

push_entry(l) ==
  /\ pc[l] = "pushing"
  /\ entries' = [entries EXCEPT ![log_pos] = seq[l]]
  /\ log_pos' = (log_pos + 1) % LOG_RING_CAPACITY
  /\ count' = IF count < LOG_RING_CAPACITY THEN count + 1 ELSE count
  /\ lock' = Free
  /\ Go(l, "idle")
  /\ UNCHANGED <<LOG_SEQ, seq, result>>

get_log_entries_locks ==
  /\ pc[Dmesg] = "idle"
  /\ lock = Free
  /\ lock' = Dmesg
  /\ result' = <<>>
  /\ Go(Dmesg, "copying")
  /\ UNCHANGED <<ringVars, LOG_SEQ, seq>>

get_log_entries_copies ==
  /\ pc[Dmesg] = "copying"
  /\ Len(result) < count
  /\ result' = Append(result, EntryAt(Len(result)))
  /\ UNCHANGED <<ringVars, LOG_SEQ, lock, pc, seq>>

get_log_entries_returns ==
  /\ pc[Dmesg] = "copying"
  /\ Len(result) = count
  /\ lock' = Free
  /\ Go(Dmesg, "idle")
  /\ UNCHANGED <<ringVars, LOG_SEQ, seq, result>>

LogNext ==
  \/ \E l \in Loggers : log_numbers(l) \/ try_lock(l) \/ push_entry(l)
  \/ get_log_entries_locks
  \/ get_log_entries_copies
  \/ get_log_entries_returns

LogSpec == LogInit /\ [][LogNext]_logVars

-----------------------------------------------------------------------------
\* Type invariant.
LogTypeOK ==
  /\ entries \in [LogPositions -> 0 .. MaxSeq]
  /\ log_pos \in LogPositions
  /\ count \in 0 .. LOG_RING_CAPACITY
  /\ LOG_SEQ \in 0 .. MaxSeq
  /\ lock \in Loggers \cup {Dmesg, Free}
  /\ pc \in [Loggers \cup {Dmesg} -> {"idle", "formatted", "pushing", "copying"}]
  /\ \A l \in Loggers : pc[l] # "copying"
  /\ pc[Dmesg] \in {"idle", "copying"}
  /\ seq \in [Loggers -> 0 .. MaxSeq]
  /\ result \in Seq(0 .. MaxSeq)

\* The ring in the order get_log_entries reads it.
LogContents == [i \in 1 .. count |-> EntryAt(i - 1)]

LogQueue == INSTANCE EventQueue WITH
              queue <- LogContents, Events <- 0 .. MaxSeq,
              Capacity <- LOG_RING_CAPACITY, DropOldest <- TRUE

\* Until the ring is full it is written from its start.
FillInv == count < LOG_RING_CAPACITY => log_pos = count

\* Whoever is in the ring holds its lock: a logger that pushes, the reader
\* that copies.
HolderInv ==
  /\ \A l \in Loggers : pc[l] = "pushing" <=> lock = l
  /\ pc[Dmesg] = "copying" <=> lock = Dmesg

\* A copy in progress is a prefix of the ring as it is now: no push changes
\* the ring under dmesg, which holds no copy of log_pos.
CopyConsistent ==
  pc[Dmesg] = "copying" =>
    Len(result) <= count /\ \A i \in 1 .. Len(result) : result[i] = LogContents[i]

\* The ring "stores the most recent LOG_RING_CAPACITY entries" (logging.rs:26):
\* read oldest first, it is a queue that loses only its oldest entry, and
\* only to a push into a full ring; and a copy is a prefix of it.
LogFaithful ==
  /\ LogQueue!Spec
  /\ [](LogTypeOK /\ FillInv /\ HolderInv /\ CopyConsistent)

\* dmesg lists the messages oldest first (logging.rs:72), that is by number.
OldestFirst == \A i, j \in 1 .. Len(result) : i < j => result[i] < result[j]

\* log_count is the number of messages recorded (logging.rs:96): while
\* nothing has been overwritten and nobody is logging, it is count.
LogCountRecorded ==
  (count < LOG_RING_CAPACITY /\ \A l \in Loggers : pc[l] = "idle")
    => LOG_SEQ = count
=============================================================================
