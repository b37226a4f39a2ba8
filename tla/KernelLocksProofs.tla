------------------------- MODULE KernelLocksProofs -------------------------
(***************************************************************************)
(* Why the kernel's locks are sound, for any tasks and any mix of calls    *)
(* and interrupts.                                                         *)
(*                                                                         *)
(* The functions of KernelLocks are sequences of steps put together with   *)
(* \o.  The first part computes the handlers, the exit and the masked      *)
(* calls step by step, and of the other calls which steps they consist of. *)
(* The second shows that a handler always has a next step that its point   *)
(* in HandlerStates allows.  The third shows that every action keeps the   *)
(* inductive invariant KInv, separately for the executing task             *)
(* (TaskKeeps) and for a handler (HandlerKeeps, HandlerReturns).           *)
(***************************************************************************)
EXTENDS KernelLocks, SequenceTheorems, TLAPS

\* What is left of a function; and what the functions are made of.
Code == Seq(AStep)

Pair(l) == {Take(l), Give(l)}
LogSteps == Pair("SERIAL") \cup {Try("LOG_RING"), Give("LOG_RING")}
AllocSteps == Pair("ALLOCATOR") \cup Pair("FRAME_ALLOCATOR") \cup LogSteps

-----------------------------------------------------------------------------
(* Sequences of steps                                                      *)

\* A composed function starts with the first part's first step and goes on with
\* the rest of it.
LEMMA JoinForm ==
  ASSUME NEW s \in Code, NEW t \in Code, NEW u \in Code, s # <<>>, u # <<>>,
         Head(u) = Head(s), Tail(u) = Tail(s) \o t
  PROVE  s \o t = u
<1> DEFINE w == s \o t
           m == Len(s)
           n == Len(t)
           k == Len(u)
           r == Tail(s)
           v == Tail(u)
<1>1. /\ w \in Code /\ Len(w) = m + n
      /\ \A i \in 1 .. m + n : w[i] = IF i <= m THEN s[i] ELSE t[i - m]
  BY ConcatProperties DEF Code
<1>2. /\ r \in Code /\ Len(r) = m - 1 /\ \A i \in 1 .. m - 1 : r[i] = s[i + 1]
      /\ v \in Code /\ Len(v) = k - 1 /\ \A i \in 1 .. k - 1 : v[i] = u[i + 1]
      /\ s[1] = u[1] /\ v = r \o t
  BY HeadTailProperties DEF Code
<1>3. m \in Nat /\ m # 0 /\ n \in Nat /\ k \in Nat /\ k # 0
  BY LenProperties, EmptySeq DEF Code
<1>. HIDE DEF w, r, v, m
<1>4. /\ Len(v) = Len(r) + n
      /\ \A i \in 1 .. Len(r) + n : v[i] = IF i <= Len(r) THEN r[i] ELSE t[i - Len(r)]
  BY <1>2, ConcatProperties, Zenon DEF Code
<1>. HIDE DEF n, k
<1>5. k = m + n /\ \A i \in 1 .. k - 1 : u[i + 1] = IF i <= m - 1 THEN s[i + 1] ELSE t[i - (m - 1)]
  <2>1. k = m + n /\ (m - 1) + n = k - 1
    BY <1>2, <1>3, <1>4
  <2>2. \A i \in 1 .. k - 1 : v[i] = IF i <= m - 1 THEN r[i] ELSE t[i - (m - 1)]
    BY <1>2, <1>4, <2>1, Zenon
  <2>3. \A i \in 1 .. k - 1 : i <= m - 1 => i \in 1 .. m - 1
    BY <1>3, <2>1
  <2>. QED BY <1>2, <2>1, <2>2, <2>3, Zenon
<1>6. ASSUME NEW i \in 1 .. k PROVE w[i] = u[i]
  <2>1. CASE i = 1
    BY <1>1, <1>2, <1>3, <1>5, <2>1
  <2>2. CASE i # 1
    <3>1. i - 1 \in 1 .. k - 1 /\ (i - 1) + 1 = i /\ (i - 1) - (m - 1) = i - m
      BY <1>3, <1>5, <2>2
    <3>2. u[i] = IF i - 1 <= m - 1 THEN s[i] ELSE t[i - m]
      BY <1>5, <3>1, Zenon
    <3>. QED BY <1>1, <1>3, <1>5, <3>2
  <2>. QED BY <2>1, <2>2
<1>7. w = u
  BY <1>1, <1>5, <1>6, SeqEqual DEF Code, k
<1>. QED BY <1>7 DEF w

\* A step put in front of the rest of a function.
LEMMA Cons ==
  ASSUME NEW x \in AStep, NEW r \in Code, NEW u \in Code, u # <<>>, Head(u) = x, Tail(u) = r
  PROVE  <<x>> \o r = u
<1> DEFINE s == <<x>>
<1>1. s \in Code /\ s # <<>> /\ Head(s) = x /\ Tail(s) = <<>>
  BY DEF Code
<1>2. <<>> \o r = r
  BY ConcatEmptySeq DEF Code
<1>. HIDE DEF s
<1>3. Head(u) = Head(s) /\ Tail(u) = Tail(s) \o r
  BY <1>1, <1>2, Zenon
<1>4. s \o r = u
  BY <1>1, <1>3, JoinForm, Zenon
<1>. QED BY <1>4 DEF s

\* Equality, kept closed while a lemma is applied.
Is(s, t) == s = t

\* Two steps, one after the other.
LEMMA Chain2 ==
  ASSUME NEW a \in AStep, NEW b \in AStep
  PROVE  Is(<<a>> \o <<b>>, <<a, b>>)
<1>1. /\ <<b>> \in Code /\ <<a, b>> \in Code /\ <<a, b>> # <<>>
      /\ Head(<<a, b>>) = a /\ Tail(<<a, b>>) = <<b>>
  BY DEF Code
<1>2. <<a>> \o <<b>> = <<a, b>>
  BY <1>1, Cons, Zenon
<1>. QED BY <1>2, Zenon DEF Is

\* Three steps, one after the other.
LEMMA Chain3 ==
  ASSUME NEW a \in AStep, NEW b \in AStep, NEW c \in AStep
  PROVE  Is(<<a>> \o (<<b>> \o <<c>>), <<a, b, c>>)
<1>1. /\ <<b, c>> \in Code /\ <<a, b, c>> \in Code /\ <<a, b, c>> # <<>>
      /\ Head(<<a, b, c>>) = a /\ Tail(<<a, b, c>>) = <<b, c>>
  BY DEF Code
<1>2. <<a>> \o <<b, c>> = <<a, b, c>>
  BY <1>1, Cons, Zenon
<1>3. Is(<<b>> \o <<c>>, <<b, c>>)
  BY Chain2, Zenon
<1>. QED BY <1>2, <1>3, Zenon DEF Is

\* Four steps, one after the other.
LEMMA Chain4 ==
  ASSUME NEW a \in AStep, NEW b \in AStep, NEW c \in AStep, NEW d \in AStep
  PROVE  Is(<<a>> \o (<<b>> \o (<<c>> \o <<d>>)), <<a, b, c, d>>)
<1>1. /\ <<b, c, d>> \in Code /\ <<a, b, c, d>> \in Code /\ <<a, b, c, d>> # <<>>
      /\ Head(<<a, b, c, d>>) = a /\ Tail(<<a, b, c, d>>) = <<b, c, d>>
  BY DEF Code
<1>2. <<a>> \o <<b, c, d>> = <<a, b, c, d>>
  BY <1>1, Cons, Zenon
<1>3. Is(<<b>> \o (<<c>> \o <<d>>), <<b, c, d>>)
  BY Chain3, Zenon
<1>. QED BY <1>2, <1>3, Zenon DEF Is

\* Five steps, one after the other.
LEMMA Chain5 ==
  ASSUME NEW a \in AStep, NEW b \in AStep, NEW c \in AStep,
         NEW d \in AStep, NEW e \in AStep
  PROVE  Is(<<a>> \o (<<b>> \o (<<c>> \o (<<d>> \o <<e>>))), <<a, b, c, d, e>>)
<1>1. /\ <<b, c, d, e>> \in Code /\ <<a, b, c, d, e>> \in Code /\ <<a, b, c, d, e>> # <<>>
      /\ Head(<<a, b, c, d, e>>) = a /\ Tail(<<a, b, c, d, e>>) = <<b, c, d, e>>
  BY DEF Code
<1>2. <<a>> \o <<b, c, d, e>> = <<a, b, c, d, e>>
  BY <1>1, Cons, Zenon
<1>3. Is(<<b>> \o (<<c>> \o (<<d>> \o <<e>>)), <<b, c, d, e>>)
  BY Chain4, Zenon
<1>. QED BY <1>2, <1>3, Zenon DEF Is

\* Six steps, one after the other.
LEMMA Chain6 ==
  ASSUME NEW a \in AStep, NEW b \in AStep, NEW c \in AStep,
         NEW d \in AStep, NEW e \in AStep, NEW f \in AStep
  PROVE  Is(<<a>> \o (<<b>> \o (<<c>> \o (<<d>> \o (<<e>> \o <<f>>)))), <<a, b, c, d, e, f>>)
<1>1. /\ <<b, c, d, e, f>> \in Code /\ <<a, b, c, d, e, f>> \in Code /\ <<a, b, c, d, e, f>> # <<>>
      /\ Head(<<a, b, c, d, e, f>>) = a /\ Tail(<<a, b, c, d, e, f>>) = <<b, c, d, e, f>>
  BY DEF Code
<1>2. <<a>> \o <<b, c, d, e, f>> = <<a, b, c, d, e, f>>
  BY <1>1, Cons, Zenon
<1>3. Is(<<b>> \o (<<c>> \o (<<d>> \o (<<e>> \o <<f>>))), <<b, c, d, e, f>>)
  BY Chain5, Zenon
<1>. QED BY <1>2, <1>3, Zenon DEF Is

\* Composition is associative.
LEMMA JoinAssoc ==
  ASSUME NEW s \in Code, NEW t \in Code, NEW u \in Code
  PROVE  Is((s \o t) \o u, s \o (t \o u))
  BY ConcatAssociative DEF Code, Is

\* A composed function is a function.
LEMMA JoinCode ==
  ASSUME NEW s \in Code, NEW t \in Code
  PROVE  s \o t \in Code
  BY ConcatProperties DEF Code

\* A function between two others, followed by a fourth.
LEMMA Around ==
  ASSUME NEW x \in Code, NEW s \in Code, NEW y \in Code, NEW t \in Code
  PROVE  Is(((x \o s) \o y) \o t, x \o (s \o (y \o t)))
<1>1. x \o s \in Code /\ y \o t \in Code
  BY JoinCode
<1>2. Is(((x \o s) \o y) \o t, (x \o s) \o (y \o t)) /\ Is((x \o s) \o (y \o t), x \o (s \o (y \o t)))
  BY <1>1, JoinAssoc, Zenon
<1>. QED BY <1>2, Zenon DEF Is

\* A critical section takes its lock, runs its body and releases the lock.
LEMMA OnForm ==
  ASSUME NEW l \in Locks, NEW s \in Code
  PROVE  /\ On(l, s) = <<Take(l)>> \o (s \o <<Give(l)>>)
         /\ \A t \in Code : Is(On(l, s) \o t, <<Take(l)>> \o (s \o (<<Give(l)>> \o t)))
<1> DEFINE x == <<Take(l)>>
           y == <<Give(l)>>
<1>1. x \in Code /\ y \in Code
  <2>1. Take(l) \in AStep /\ Give(l) \in AStep
    BY DEF AStep
  <2>. QED BY <2>1 DEF Code
<1>2. On(l, s) = (x \o s) \o y
  BY DEF On, Take, Give
<1>. HIDE DEF x, y
<1>3. ASSUME NEW t \in Code PROVE Is(On(l, s) \o t, <<Take(l)>> \o (s \o (<<Give(l)>> \o t)))
  <2>1. Is(((x \o s) \o y) \o t, x \o (s \o (y \o t)))
    BY <1>1, Around, Zenon
  <2>2. On(l, s) \o t = x \o (s \o (y \o t))
    BY <1>2, <2>1, Zenon DEF Is
  <2>. QED BY <2>2, Zenon DEF x, y, Is
<1>4. Is((x \o s) \o y, x \o (s \o y))
  BY <1>1, JoinAssoc, Zenon
<1>5. On(l, s) = <<Take(l)>> \o (s \o <<Give(l)>>)
  BY <1>2, <1>4, Zenon DEF Is, x, y
<1>. QED BY <1>3, <1>5, Zenon

\* A step of a composed function is a step of one of its parts.
LEMMA StepsJoin ==
  ASSUME NEW s \in Code, NEW t \in Code
  PROVE  s \o t \in Code /\ Steps(s \o t) = Steps(s) \cup Steps(t)
<1>1. /\ s \o t \in Code
      /\ Len(s \o t) = Len(s) + Len(t)
      /\ \A i \in 1 .. Len(s) + Len(t) : (s \o t)[i] =
           IF i <= Len(s) THEN s[i] ELSE t[i - Len(s)]
  BY ConcatProperties DEF Code
<1>2. /\ Len(s) \in Nat /\ Len(t) \in Nat
      /\ DOMAIN s = 1 .. Len(s) /\ DOMAIN t = 1 .. Len(t)
      /\ DOMAIN (s \o t) = 1 .. Len(s) + Len(t)
  BY <1>1, LenProperties DEF Code
<1>3. ASSUME NEW i \in 1 .. Len(s) PROVE s[i] \in Steps(s \o t)
  <2>1. i \in DOMAIN (s \o t) /\ (s \o t)[i] = s[i]
    BY <1>1, <1>2
  <2>. QED BY <2>1 DEF Steps
<1>4. ASSUME NEW i \in 1 .. Len(t) PROVE t[i] \in Steps(s \o t)
  <2>1. i + Len(s) \in DOMAIN (s \o t) /\ (s \o t)[i + Len(s)] = t[i]
    BY <1>1, <1>2
  <2>. QED BY <2>1 DEF Steps
<1>5. ASSUME NEW i \in 1 .. Len(s) + Len(t) PROVE (s \o t)[i] \in Steps(s) \cup Steps(t)
  <2>1. CASE i <= Len(s)
    BY <1>1, <1>2, <2>1 DEF Steps
  <2>2. CASE i > Len(s)
    <3>1. i - Len(s) \in DOMAIN t /\ (s \o t)[i] = t[i - Len(s)]
      BY <1>1, <1>2, <2>2
    <3>. QED BY <3>1 DEF Steps
  <2>. QED BY <1>2, <2>1, <2>2
<1>6. Steps(s \o t) \subseteq Steps(s) \cup Steps(t)
   BY <1>2, <1>5 DEF Steps
<1>7. Steps(s) \cup Steps(t) \subseteq Steps(s \o t)
   BY <1>2, <1>3, <1>4, Zenon DEF Steps
<1>. QED BY <1>1, <1>6, <1>7

\* What is left of a function after a step is still made of its steps.
LEMMA StepsTail ==
  ASSUME NEW c \in Code, c # <<>>
  PROVE  /\ Head(c) \in AStep
         /\ Head(c) \in Steps(c)
         /\ Tail(c) \in Code
         /\ Steps(Tail(c)) \subseteq Steps(c)
<1>1. Len(c) \in Nat /\ DOMAIN c = 1 .. Len(c) /\ Len(c) # 0
  BY EmptySeq, LenProperties DEF Code
<1>2. Head(c) \in AStep /\ Head(c) = c[1]
  BY HeadTailProperties DEF Code
<1>3. /\ Tail(c) \in Code /\ Len(Tail(c)) = Len(c) - 1
      /\ \A i \in 1 .. Len(Tail(c)) : Tail(c)[i] = c[i + 1]
  BY HeadTailProperties DEF Code
<1>4. DOMAIN Tail(c) = 1 .. Len(c) - 1
  BY <1>3, LenProperties DEF Code
<1>5. ASSUME NEW i \in DOMAIN Tail(c) PROVE Tail(c)[i] \in Steps(c)
  <2>1. i + 1 \in DOMAIN c
    BY <1>1, <1>4
  <2>2. Tail(c)[i] = c[i + 1]
    BY <1>1, <1>3, <1>4
  <2>. QED BY <2>1, <2>2, Zenon DEF Steps
<1>6. Head(c) \in Steps(c)
  BY <1>1, <1>2 DEF Steps
<1>. QED BY <1>2, <1>3, <1>5, <1>6, Zenon DEF Steps

\* Skipping a critical section leaves a part of the function.
LEMMA StepsSkip ==
  ASSUME NEW c \in Code
  PROVE  SubSeq(c, 3, Len(c)) \in Code /\ Steps(SubSeq(c, 3, Len(c))) \subseteq Steps(c)
<1> DEFINE n == Len(c)
           d == SubSeq(c, 3, n)
<1>1. n \in Nat /\ DOMAIN c = 1 .. n /\ \A i \in 1 .. n : c[i] \in AStep
  BY LenProperties, ElementOfSeq DEF Code
<1>. HIDE DEF n
<1>2. \A i \in 3 .. n : c[i] \in AStep
  BY <1>1
<1>3. /\ d \in Code
      /\ Len(d) = IF 3 <= n THEN n - 3 + 1 ELSE 0
      /\ \A i \in 1 .. n - 3 + 1 : d[i] = c[3 + i - 1]
  BY <1>1, <1>2, SubSeqProperties DEF Code
<1>. HIDE DEF d
<1>4. DOMAIN d = 1 .. Len(d)
  BY <1>3, LenProperties DEF Code
<1>5. ASSUME NEW i \in DOMAIN d PROVE d[i] \in Steps(c)
  <2>1. 3 + i - 1 \in DOMAIN c /\ d[i] = c[3 + i - 1]
    BY <1>1, <1>3, <1>4
  <2>. QED BY <2>1, Zenon DEF Steps
<1>6. Steps(d) \subseteq Steps(c)
  BY <1>5, Zenon DEF Steps
<1>. QED BY <1>3, <1>6, Zenon DEF d, n

\* The steps of a short function, one by one.
LEMMA StepsShort ==
  ASSUME NEW a \in AStep, NEW b \in AStep
  PROVE  /\ <<>> \in Code /\ Steps(<<>>) = {}
         /\ <<a>> \in Code /\ Steps(<<a>>) = {a}
         /\ <<a, b>> \in Code /\ Steps(<<a, b>>) = {a, b}
<1>1. <<>> \in Code /\ <<a>> \in Code /\ <<a, b>> \in Code
  BY DEF Code
<1>2. Steps(<<>>) = {} /\ Steps(<<a>>) = {a}
  <2>1. DOMAIN <<>> = {} /\ DOMAIN <<a>> = {1} /\ <<a>>[1] = a
    OBVIOUS
  <2>. QED BY <2>1, Zenon DEF Steps
<1>3. DOMAIN <<a, b>> = {1, 2} /\ <<a, b>>[1] = a /\ <<a, b>>[2] = b
  <2>1. DOMAIN <<a, b>> = 1 .. 2
    OBVIOUS
  <2>2. 1 .. 2 = {1, 2}
    OBVIOUS
  <2>. QED BY <2>1, <2>2
<1>4. Steps(<<a, b>>) = {a, b}
  BY <1>3, Zenon DEF Steps
<1>. QED BY <1>1, <1>2, <1>4

\* What a function does under a lock is done between taking and releasing it.
LEMMA StepsOn ==
  ASSUME NEW l \in Locks, NEW c \in Code
  PROVE  On(l, c) \in Code /\ Steps(On(l, c)) = Pair(l) \cup Steps(c)
<1>1. <<"lock", l>> \in AStep /\ <<"unlock", l>> \in AStep
  BY DEF AStep, Take, Give
<1>2. /\ <<<<"lock", l>>>> \in Code /\ Steps(<<<<"lock", l>>>>) = {Take(l)}
      /\ <<<<"unlock", l>>>> \in Code /\ Steps(<<<<"unlock", l>>>>) = {Give(l)}
  BY <1>1, StepsShort, Zenon DEF Take, Give
<1>3. /\ <<<<"lock", l>>>> \o c \in Code
      /\ Steps(<<<<"lock", l>>>> \o c) = {Take(l)} \cup Steps(c)
  BY <1>2, StepsJoin, Zenon
<1>4. /\ On(l, c) \in Code
      /\ Steps(On(l, c)) = ({Take(l)} \cup Steps(c)) \cup {Give(l)}
  BY <1>2, <1>3, StepsJoin, Zenon DEF On
<1>. QED BY <1>4, Zenon DEF Pair

\* The same for a function that masks interrupts.
LEMMA StepsMasked ==
  ASSUME NEW c \in Code
  PROVE  Masked(c) \in Code /\ Steps(Masked(c)) = {Cli, Sti} \cup Steps(c)
<1>1. <<"cli", "">> \in AStep /\ <<"sti", "">> \in AStep
  BY DEF AStep, Cli, Sti
<1>2. /\ <<<<"cli", "">>>> \in Code /\ Steps(<<<<"cli", "">>>>) = {Cli}
      /\ <<<<"sti", "">>>> \in Code /\ Steps(<<<<"sti", "">>>>) = {Sti}
  BY <1>1, StepsShort, Zenon DEF Cli, Sti
<1>3. /\ <<<<"cli", "">>>> \o c \in Code
      /\ Steps(<<<<"cli", "">>>> \o c) = {Cli} \cup Steps(c)
  BY <1>2, StepsJoin, Zenon
<1>4. /\ Masked(c) \in Code
      /\ Steps(Masked(c)) = ({Cli} \cup Steps(c)) \cup {Sti}
  BY <1>2, <1>3, StepsJoin, Zenon DEF Masked
<1>. QED BY <1>4, Zenon

\* A critical section with nothing in it takes the lock and releases it.
LEMMA OnEmpty ==
  ASSUME NEW l \in Locks
  PROVE  /\ On(l, <<>>) = <<Take(l)>> \o <<Give(l)>>
         /\ On(l, <<>>) \in Code
         /\ \A t \in Code : Is(On(l, <<>>) \o t, <<Take(l)>> \o (<<Give(l)>> \o t))
<1>1. Give(l) \in AStep
  BY DEF AStep
<1>2. <<>> \in Code /\ <<Give(l)>> \in Code
  BY <1>1 DEF Code
<1>3. ASSUME NEW t \in Code PROVE <<>> \o t = t
  BY ConcatEmptySeq DEF Code
<1>4. <<>> \o <<Give(l)>> = <<Give(l)>>
  BY <1>2, <1>3, Zenon
<1>5. On(l, <<>>) = <<Take(l)>> \o <<Give(l)>>
  BY <1>2, <1>4, OnForm, Zenon
<1>6. On(l, <<>>) \in Code
  BY <1>2, StepsOn, Zenon
<1>7. ASSUME NEW t \in Code PROVE Is(On(l, <<>>) \o t, <<Take(l)>> \o (<<Give(l)>> \o t))
  <2>1. Is(On(l, <<>>) \o t, <<Take(l)>> \o (<<>> \o (<<Give(l)>> \o t))) /\ <<Give(l)>> \o t \in Code
    BY <1>2, OnForm, JoinCode, Zenon
  <2>2. <<>> \o (<<Give(l)>> \o t) = <<Give(l)>> \o t
    BY <1>3, <2>1, Zenon
  <2>. QED BY <2>1, <2>2, Zenon DEF Is
<1>. QED BY <1>5, <1>6, <1>7, Zenon

-----------------------------------------------------------------------------
(* The functions                                                           *)

\* The locks every function called by a task takes and releases.
LEMMA FunctionSteps ==
  /\ log \in Code /\ Steps(log) = LogSteps
  /\ alloc \in Code /\ Steps(alloc) = AllocSteps
  /\ dealloc \in Code /\ Steps(dealloc) = Pair("ALLOCATOR")
  /\ get_log_entries \in Code /\ Steps(get_log_entries) = Pair("LOG_RING") \cup AllocSteps
  /\ spawn_with_priority \in Code
  /\ Steps(spawn_with_priority) = Pair("SCHEDULER") \cup (Pair("FRAME_ALLOCATOR") \cup LogSteps)
  /\ kill \in Code /\ Steps(kill) = Pair("SCHEDULER") \cup (Pair("FRAME_ALLOCATOR") \cup LogSteps)
  /\ task_list \in Code /\ Steps(task_list) = Pair("SCHEDULER") \cup AllocSteps
  /\ exit_current_task \in Code
  /\ Steps(exit_current_task) = Pair("SCHEDULER") \cup (Pair("DEFERRED_FREE") \cup {DeferStep})
  /\ read_key \in Code /\ Steps(read_key) = Pair("KEY_BUFFER")
  /\ try_read_event \in Code /\ Steps(try_read_event) = {Cli, Sti} \cup Pair("MOUSE_BUFFER")
  /\ buttons \in Code /\ Steps(buttons) = {Cli, Sti} \cup Pair("MOUSE_BUTTONS")
<1>1. /\ "SERIAL" \in Locks /\ "LOG_RING" \in Locks /\ "ALLOCATOR" \in Locks
      /\ "FRAME_ALLOCATOR" \in Locks /\ "SCHEDULER" \in Locks /\ "DEFERRED_FREE" \in Locks
      /\ "KEY_BUFFER" \in Locks /\ "MOUSE_BUFFER" \in Locks /\ "MOUSE_BUTTONS" \in Locks
  BY DEF Locks
<1>2. /\ <<"try", "LOG_RING">> \in AStep /\ <<"unlock", "LOG_RING">> \in AStep
      /\ <<"defer", "">> \in AStep
  BY <1>1 DEF AStep, Try, Give, DeferStep
<1> DEFINE push == <<<<"try", "LOG_RING">>, <<"unlock", "LOG_RING">>>>
           fill == <<<<"defer", "">>>>
<1>3. /\ <<>> \in Code /\ Steps(<<>>) = {}
      /\ push \in Code /\ Steps(push) = {Try("LOG_RING"), Give("LOG_RING")}
      /\ fill \in Code /\ Steps(fill) = {DeferStep}
  BY <1>2, StepsShort, Zenon DEF Try, Give, DeferStep
<1>. HIDE DEF push, fill
<1>4. ASSUME NEW l \in Locks PROVE On(l, <<>>) \in Code /\ Steps(On(l, <<>>)) = Pair(l)
  <2>1. On(l, <<>>) \in Code /\ Steps(On(l, <<>>)) = Pair(l) \cup Steps(<<>>)
    <3>1. <<>> \in Code
      BY <1>3, Zenon
    <3>. QED BY <3>1, StepsOn, Zenon
  <2>2. Pair(l) \cup {} = Pair(l)
    BY Zenon
  <2>. QED BY <1>3, <2>1, <2>2, Zenon
<1>5. log \in Code /\ Steps(log) = LogSteps
  <2>1. log = On("SERIAL", <<>>) \o push
    BY Zenon DEF log, push
  <2>2. On("SERIAL", <<>>) \in Code /\ Steps(On("SERIAL", <<>>)) = Pair("SERIAL")
    BY <1>1, <1>4, Zenon
  <2>. QED BY <1>3, <2>1, <2>2, StepsJoin, Zenon DEF LogSteps
<1>6. /\ allocate_contiguous_frames \o log \in Code
      /\ Steps(allocate_contiguous_frames \o log) = Pair("FRAME_ALLOCATOR") \cup LogSteps
  BY <1>1, <1>4, <1>5, StepsJoin DEF allocate_contiguous_frames
<1>7. alloc \in Code /\ Steps(alloc) = AllocSteps
  <2>1. alloc \in Code /\ Steps(alloc) = Pair("ALLOCATOR") \cup (Pair("FRAME_ALLOCATOR") \cup LogSteps)
    BY <1>1, <1>6, StepsOn DEF alloc
  <2>. QED BY <2>1, Zenon DEF AllocSteps
<1>8. dealloc \in Code /\ Steps(dealloc) = Pair("ALLOCATOR")
  BY <1>1, <1>4, Zenon DEF dealloc
<1>9. get_log_entries \in Code /\ Steps(get_log_entries) = Pair("LOG_RING") \cup AllocSteps
  BY <1>1, <1>7, StepsOn, Zenon DEF get_log_entries
<1>10. /\ spawn_with_priority \in Code
       /\ Steps(spawn_with_priority) = Pair("SCHEDULER") \cup (Pair("FRAME_ALLOCATOR") \cup LogSteps)
  BY <1>1, <1>6, StepsOn DEF spawn_with_priority
<1>11. kill \in Code /\ Steps(kill) = Pair("SCHEDULER") \cup (Pair("FRAME_ALLOCATOR") \cup LogSteps)
  BY <1>1, <1>6, StepsOn DEF kill, allocate_contiguous_frames
<1>12. task_list \in Code /\ Steps(task_list) = Pair("SCHEDULER") \cup AllocSteps
  BY <1>1, <1>7, StepsOn, Zenon DEF task_list
<1>13. /\ exit_current_task \in Code
       /\ Steps(exit_current_task) = Pair("SCHEDULER") \cup (Pair("DEFERRED_FREE") \cup {DeferStep})
  <2>1. exit_current_task = On("SCHEDULER", On("DEFERRED_FREE", fill))
    BY Zenon DEF exit_current_task, fill
  <2>2. /\ On("DEFERRED_FREE", fill) \in Code
        /\ Steps(On("DEFERRED_FREE", fill)) = Pair("DEFERRED_FREE") \cup {DeferStep}
    BY <1>1, <1>3, StepsOn
  <2>. QED BY <1>1, <2>1, <2>2, StepsOn
<1>14. read_key \in Code /\ Steps(read_key) = Pair("KEY_BUFFER")
  BY <1>1, <1>4, Zenon DEF read_key
<1>15. try_read_event \in Code /\ Steps(try_read_event) = {Cli, Sti} \cup Pair("MOUSE_BUFFER")
  BY <1>1, <1>4, StepsMasked, Zenon DEF try_read_event
<1>16. buttons \in Code /\ Steps(buttons) = {Cli, Sti} \cup Pair("MOUSE_BUTTONS")
  BY <1>1, <1>4, StepsMasked, Zenon DEF buttons
<1>. QED
  BY <1>5, <1>7, <1>8, <1>9, <1>10, <1>11, <1>12, <1>13, <1>14, <1>15, <1>16, Zenon

\* Two steps are the same only if they are of one kind and on one lock.
LEMMA StepsDiffer ==
  ASSUME NEW l, NEW m
  PROVE  /\ Take(l) = Take(m) <=> l = m
         /\ Try(l) = Try(m) <=> l = m
         /\ Give(l) = Give(m) <=> l = m
         /\ Take(l) # Try(m) /\ Take(l) # Give(m) /\ Take(l) # Cli /\ Take(l) # Sti
         /\ Take(l) # DeferStep /\ Take(l) # Resume
         /\ Try(l) # Give(m) /\ Try(l) # Cli /\ Try(l) # Sti /\ Try(l) # DeferStep /\ Try(l) # Resume
         /\ Give(l) # Cli /\ Give(l) # Sti /\ Give(l) # DeferStep /\ Give(l) # Resume
         /\ Cli # Sti /\ Cli # DeferStep /\ Cli # Resume
         /\ Sti # DeferStep /\ Sti # Resume /\ DeferStep # Resume
  BY DEF Take, Try, Give, Cli, Sti, DeferStep, Resume

\* Taking a lock is no other step, and takes one lock.
LEMMA TakeApart ==
  ASSUME NEW l
  PROVE  /\ Take(l) # Cli /\ Take(l) # Sti /\ Take(l) # DeferStep /\ Take(l) # Resume
         /\ \A m : (Take(l) = Take(m) => l = m) /\ Take(l) # Give(m) /\ Take(l) # Try(m)
  BY StepsDiffer

\* A release is no other step, and releases one lock.
LEMMA GiveApart ==
  ASSUME NEW l
  PROVE  /\ Give(l) # Cli /\ Give(l) # Sti /\ Give(l) # DeferStep /\ Give(l) # Resume
         /\ \A m : (Give(l) = Give(m) => l = m) /\ Give(l) # Take(m) /\ Give(l) # Try(m)
  BY StepsDiffer

\* A try_lock is no other step.
LEMMA TryApart ==
  ASSUME NEW l
  PROVE  /\ Try(l) # Cli /\ Try(l) # Sti /\ Try(l) # DeferStep /\ Try(l) # Resume
         /\ \A m : Try(l) # Take(m) /\ Try(l) # Give(m)
  BY StepsDiffer

\* The steps that name no lock are no other steps.
LEMMA OthersApart ==
  /\ Cli # Sti /\ Cli # DeferStep /\ Cli # Resume /\ Sti # DeferStep /\ Sti # Resume
  /\ DeferStep # Resume
  /\ \A m : /\ Cli # Take(m) /\ Cli # Give(m) /\ Cli # Try(m)
            /\ Sti # Take(m) /\ Sti # Give(m) /\ Sti # Try(m)
            /\ DeferStep # Take(m) /\ DeferStep # Give(m) /\ DeferStep # Try(m)
            /\ Resume # Take(m) /\ Resume # Give(m) /\ Resume # Try(m)
  BY StepsDiffer

\* The calls: only exit fills DEFERRED_FREE, only read_key and exit take a lock
\* of a handler with interrupts on, only SchedulerCalls take SCHEDULER, and the
\* only lock that is tried is the ring of the log.
LEMMA BodySteps ==
  ASSUME NEW c \in TaskCalls
  PROVE  /\ Body(c) \in Code
         /\ DeferStep \in Steps(Body(c)) => c = "exit"
         /\ Resume \notin Steps(Body(c))
         /\ \A l : Try(l) \in Steps(Body(c)) => l = "LOG_RING"
         /\ \A l \in {"DEFERRED_FREE", "EXTENDED_KEY", "MODIFIERS", "KEY_BUFFER", "MOUSE_PACKET"} :
              Take(l) \in Steps(Body(c)) => c \in {"read_key", "exit"}
         /\ Take("SCHEDULER") \in Steps(Body(c)) => c \in SchedulerCalls
         /\ c \notin {"try_read_event", "buttons"} =>
              Steps(Body(c)) \cap ({Cli, Sti} \cup {Take(l) : l \in Shared}) = {}
<1> DEFINE Plain == Pair("LOG_RING") \cup AllocSteps
           Others == Plain \cup Pair("SCHEDULER")
<1>1. ASSUME NEW s \in Plain
      PROVE  /\ s # DeferStep /\ s # Resume /\ s # Cli /\ s # Sti
             /\ \A l : s = Try(l) => l = "LOG_RING"
             /\ \A l : s = Take(l) => l \in {"SERIAL", "LOG_RING", "ALLOCATOR", "FRAME_ALLOCATOR"}
  BY StepsDiffer DEF AllocSteps, LogSteps, Pair
<1>2. ASSUME NEW s \in Pair("SCHEDULER")
      PROVE  /\ s # DeferStep /\ s # Resume /\ s # Cli /\ s # Sti
             /\ \A l : s # Try(l)
             /\ \A l : s = Take(l) => l = "SCHEDULER"
  BY StepsDiffer DEF Pair
<1>. HIDE DEF Plain
<1>3. CASE c \in {"log", "alloc", "dealloc", "get_log_entries"}
  <2>1. Body(c) \in Code /\ Steps(Body(c)) \subseteq Plain
    BY <1>3, FunctionSteps DEF Body, Plain, AllocSteps
  <2>. QED BY <1>1, <1>3, <2>1 DEF Shared
<1>4. CASE c \in {"spawn", "kill", "task_list"}
  <2>1. Body(c) \in Code /\ Steps(Body(c)) \subseteq Others
    BY <1>4, FunctionSteps DEF Body, Plain, AllocSteps
  <2>. QED BY <1>1, <1>2, <1>4, <2>1 DEF Shared, SchedulerCalls
<1>5. CASE c = "exit"
  <2>1. Body(c) = exit_current_task
    BY <1>5 DEF Body
  <2>. QED BY <1>5, <2>1, FunctionSteps, StepsDiffer DEF Pair, Shared, SchedulerCalls
<1>6. CASE c = "read_key"
  <2>1. Body(c) = read_key
    BY <1>6 DEF Body
  <2>. QED BY <1>6, <2>1, FunctionSteps, StepsDiffer DEF Pair, Shared
<1>7. CASE c = "try_read_event"
  <2>1. Body(c) = try_read_event
    BY <1>7 DEF Body
  <2>. QED BY <1>7, <2>1, FunctionSteps, StepsDiffer DEF Pair
<1>8. CASE c = "buttons"
  <2>1. Body(c) = buttons
    BY <1>8 DEF Body
  <2>. QED BY <1>8, <2>1, FunctionSteps, StepsDiffer DEF Pair
<1>. QED BY <1>3, <1>4, <1>5, <1>6, <1>7, <1>8, Zenon DEF TaskCalls

\* The exit and the two masked calls, step by step.
LEMMA BodyForms ==
  /\ Body("exit") = <<Take("SCHEDULER"), Take("DEFERRED_FREE"), DeferStep,
                      Give("DEFERRED_FREE"), Give("SCHEDULER")>>
  /\ Body("try_read_event") = <<Cli, Take("MOUSE_BUFFER"), Give("MOUSE_BUFFER"), Sti>>
  /\ Body("buttons") = <<Cli, Take("MOUSE_BUTTONS"), Give("MOUSE_BUTTONS"), Sti>>
<1> DEFINE S == "SCHEDULER"
           D == "DEFERRED_FREE"
           fill == <<DeferStep>>
<1>1. S \in Locks /\ D \in Locks /\ "MOUSE_BUFFER" \in Locks /\ "MOUSE_BUTTONS" \in Locks
  BY DEF Locks
<1>2. /\ \A l \in Locks : Take(l) \in AStep /\ Give(l) \in AStep
      /\ DeferStep \in AStep /\ Cli \in AStep /\ Sti \in AStep
  BY <1>1 DEF AStep
<1>3. fill \in Code /\ <<Give(S)>> \in Code /\ <<Cli>> \in Code /\ <<Sti>> \in Code
  BY <1>1, <1>2 DEF Code
<1>4. exit_current_task = <<Take(S), Take(D), DeferStep, Give(D), Give(S)>>
  <2>1. Is(On(D, fill) \o <<Give(S)>>, <<Take(D)>> \o (fill \o (<<Give(D)>> \o <<Give(S)>>))) /\ On(D, fill) \in Code
    BY <1>1, <1>3, OnForm, StepsOn, Zenon
  <2>2. On(S, On(D, fill)) = <<Take(S)>> \o (On(D, fill) \o <<Give(S)>>)
    BY <1>1, <2>1, OnForm, Zenon
  <2>3. exit_current_task = On(S, On(D, fill))
    BY Zenon DEF exit_current_task, DeferStep
  <2>4. exit_current_task = <<Take(S)>> \o (<<Take(D)>> \o (<<DeferStep>> \o (<<Give(D)>> \o <<Give(S)>>)))
    BY <2>1, <2>2, <2>3, Zenon DEF Is
  <2>5. Is(<<Take(S)>> \o (<<Take(D)>> \o (<<DeferStep>> \o (<<Give(D)>> \o <<Give(S)>>))),
           <<Take(S), Take(D), DeferStep, Give(D), Give(S)>>)
    BY <1>1, <1>2, Chain5, Zenon
  <2>. QED BY <2>4, <2>5, Zenon DEF Is
<1>5. ASSUME NEW l \in Locks PROVE Masked(On(l, <<>>)) = <<Cli, Take(l), Give(l), Sti>>
  <2>1. Masked(On(l, <<>>)) = (<<Cli>> \o On(l, <<>>)) \o <<Sti>>
    BY Zenon DEF Masked, Cli, Sti
  <2>2. Is(On(l, <<>>) \o <<Sti>>, <<Take(l)>> \o (<<Give(l)>> \o <<Sti>>)) /\ On(l, <<>>) \in Code
    BY <1>3, OnEmpty, Zenon
  <2>3. Is((<<Cli>> \o On(l, <<>>)) \o <<Sti>>, <<Cli>> \o (On(l, <<>>) \o <<Sti>>))
    BY <1>3, <2>2, JoinAssoc, Zenon
  <2>4. Masked(On(l, <<>>)) = <<Cli>> \o (<<Take(l)>> \o (<<Give(l)>> \o <<Sti>>))
    BY <2>1, <2>2, <2>3, Zenon DEF Is
  <2>5. Is(<<Cli>> \o (<<Take(l)>> \o (<<Give(l)>> \o <<Sti>>)), <<Cli, Take(l), Give(l), Sti>>)
    BY <1>2, Chain4, Zenon
  <2>. QED BY <2>4, <2>5, Zenon DEF Is
<1>6. /\ try_read_event = <<Cli, Take("MOUSE_BUFFER"), Give("MOUSE_BUFFER"), Sti>>
      /\ buttons = <<Cli, Take("MOUSE_BUTTONS"), Give("MOUSE_BUTTONS"), Sti>>
  BY <1>1, <1>5, Zenon DEF try_read_event, buttons
<1>7. /\ Body("exit") = exit_current_task
      /\ Body("try_read_event") = try_read_event
      /\ Body("buttons") = buttons
  BY DEF Body
<1>. QED BY <1>4, <1>6, <1>7, Zenon

\* The handlers, step by step.
LEMMA HandlerForms ==
  /\ timer_tick(FALSE) = <<Take("DEFERRED_FREE"), Give("DEFERRED_FREE"), Resume>>
  /\ timer_tick(TRUE) = <<Take("DEFERRED_FREE"), Take("FRAME_ALLOCATOR"),
                          Give("FRAME_ALLOCATOR"), Give("DEFERRED_FREE"), Resume>>
  /\ handle_scancode = <<Take("EXTENDED_KEY"), Give("EXTENDED_KEY"), Take("MODIFIERS"),
                         Give("MODIFIERS"), Take("KEY_BUFFER"), Give("KEY_BUFFER")>>
  /\ handle_irq = <<Take("MOUSE_PACKET"), Take("MOUSE_BUTTONS"), Give("MOUSE_BUTTONS"),
                    Take("MOUSE_BUFFER"), Give("MOUSE_BUFFER"), Give("MOUSE_PACKET")>>
<1> DEFINE D == "DEFERRED_FREE"
           F == "FRAME_ALLOCATOR"
           E == "EXTENDED_KEY"
           M == "MODIFIERS"
           K == "KEY_BUFFER"
           P == "MOUSE_PACKET"
           B == "MOUSE_BUTTONS"
           R == "MOUSE_BUFFER"
<1>1. /\ D \in Locks /\ F \in Locks /\ E \in Locks /\ M \in Locks
      /\ K \in Locks /\ P \in Locks /\ B \in Locks /\ R \in Locks
  BY DEF Locks
<1>2. (\A l \in Locks : Take(l) \in AStep /\ Give(l) \in AStep) /\ Resume \in AStep
  BY DEF AStep
<1>3. /\ \A l \in Locks : <<Give(l)>> \in Code
      /\ <<Resume>> \in Code
  BY <1>2 DEF Code
<1>4. <<Give(D)>> \o <<Resume>> \in Code
  BY <1>1, <1>3, JoinCode, Zenon
<1>5. timer_tick(FALSE) = <<Take(D), Give(D), Resume>>
  <2>1. timer_tick(FALSE) = On(D, <<>>) \o <<Resume>>
    BY Zenon DEF timer_tick, Resume
  <2>2. Is(On(D, <<>>) \o <<Resume>>, <<Take(D)>> \o (<<Give(D)>> \o <<Resume>>))
    BY <1>1, <1>3, OnEmpty, Zenon
  <2>3. Is(<<Take(D)>> \o (<<Give(D)>> \o <<Resume>>), <<Take(D), Give(D), Resume>>)
    BY <1>1, <1>2, Chain3, Zenon
  <2>. QED BY <2>1, <2>2, <2>3, Zenon DEF Is
<1>6. timer_tick(TRUE) = <<Take(D), Take(F), Give(F), Give(D), Resume>>
  <2> DEFINE free == On(F, <<>>)
  <2>1. timer_tick(TRUE) = On(D, free) \o <<Resume>>
    BY Zenon DEF timer_tick, Resume
  <2>2. /\ free \in Code
        /\ Is(free \o (<<Give(D)>> \o <<Resume>>), <<Take(F)>> \o (<<Give(F)>> \o (<<Give(D)>> \o <<Resume>>)))
    BY <1>1, <1>4, OnEmpty, Zenon
  <2>. HIDE DEF free
  <2>3. Is(On(D, free) \o <<Resume>>, <<Take(D)>> \o (free \o (<<Give(D)>> \o <<Resume>>)))
    BY <1>1, <1>3, <2>2, OnForm, Zenon
  <2>4. Is(<<Take(D)>> \o (<<Take(F)>> \o (<<Give(F)>> \o (<<Give(D)>> \o <<Resume>>))),
           <<Take(D), Take(F), Give(F), Give(D), Resume>>)
    BY <1>1, <1>2, Chain5, Zenon
  <2>. QED BY <2>1, <2>2, <2>3, <2>4, Zenon DEF Is
<1>7. handle_scancode = <<Take(E), Give(E), Take(M), Give(M), Take(K), Give(K)>>
  <2> DEFINE e == On(E, <<>>)
             m == On(M, <<>>)
             k == On(K, <<>>)
  <2>1. handle_scancode = (e \o m) \o k
    BY Zenon DEF handle_scancode
  <2>2. /\ e \in Code /\ m \in Code /\ k \in Code
        /\ k = <<Take(K)>> \o <<Give(K)>>
        /\ \A t \in Code : Is(e \o t, <<Take(E)>> \o (<<Give(E)>> \o t))
        /\ \A t \in Code : Is(m \o t, <<Take(M)>> \o (<<Give(M)>> \o t))
    BY <1>1, OnEmpty, Zenon
  <2>. HIDE DEF e, m, k
  <2>3. Is((e \o m) \o k, e \o (m \o k)) /\ m \o k \in Code
    BY <2>2, JoinAssoc, JoinCode, Zenon
  <2>4. /\ Is(e \o (m \o k), <<Take(E)>> \o (<<Give(E)>> \o (m \o k)))
        /\ Is(m \o k, <<Take(M)>> \o (<<Give(M)>> \o k))
    BY <2>2, <2>3, Zenon
  <2>5. Is(<<Take(E)>> \o (<<Give(E)>> \o (<<Take(M)>> \o (<<Give(M)>> \o (<<Take(K)>> \o <<Give(K)>>)))),
           <<Take(E), Give(E), Take(M), Give(M), Take(K), Give(K)>>)
    BY <1>1, <1>2, Chain6, Zenon
  <2>. QED BY <2>1, <2>2, <2>3, <2>4, <2>5, Zenon DEF Is
<1>8. handle_irq = <<Take(P), Take(B), Give(B), Take(R), Give(R), Give(P)>>
  <2> DEFINE b == On(B, <<>>)
             r == On(R, <<>>)
             p == <<Give(P)>>
  <2>1. handle_irq = On(P, b \o r)
    BY Zenon DEF handle_irq
  <2>2. /\ b \in Code /\ r \in Code /\ p \in Code
        /\ Is(r \o p, <<Take(R)>> \o (<<Give(R)>> \o p))
        /\ \A t \in Code : Is(b \o t, <<Take(B)>> \o (<<Give(B)>> \o t))
    BY <1>1, <1>3, OnEmpty, Zenon
  <2>. HIDE DEF b, r
  <2>3. b \o r \in Code /\ r \o p \in Code /\ Is((b \o r) \o p, b \o (r \o p))
    BY <2>2, JoinAssoc, JoinCode, Zenon
  <2>4. On(P, b \o r) = <<Take(P)>> \o ((b \o r) \o p)
    BY <1>1, <2>3, OnForm, Zenon
  <2>5. Is(b \o (r \o p), <<Take(B)>> \o (<<Give(B)>> \o (r \o p)))
    BY <2>2, <2>3, Zenon
  <2>6. Is(<<Take(P)>> \o (<<Take(B)>> \o (<<Give(B)>> \o (<<Take(R)>> \o (<<Give(R)>> \o <<Give(P)>>)))),
           <<Take(P), Take(B), Give(B), Take(R), Give(R), Give(P)>>)
    BY <1>1, <1>2, Chain6, Zenon
  <2>. QED BY <2>1, <2>2, <2>3, <2>4, <2>5, <2>6, Zenon DEF Is
<1>. QED BY <1>5, <1>6, <1>7, <1>8, Zenon

-----------------------------------------------------------------------------
(* The handlers                                                            *)

\* What a handler may do next at a point h.
HandlerLocks == {"DEFERRED_FREE", "FRAME_ALLOCATOR", "EXTENDED_KEY", "MODIFIERS", "KEY_BUFFER",
                 "MOUSE_PACKET", "MOUSE_BUTTONS", "MOUSE_BUFFER"}
MayTake(h) == \E l \in Locks :
  /\ l \in HandlerLocks /\ l \notin h.held
  /\ h.code # <<>> /\ Head(h.code) = Take(l)
  /\ Holding(h.irq, h.held \cup {l}, Tail(h.code)) \in HandlerStates
MayGive(h) == \E l \in Locks :
  /\ l \in h.held
  /\ h.code # <<>> /\ Head(h.code) = Give(l)
  /\ Holding(h.irq, h.held \ {l}, Tail(h.code)) \in HandlerStates
MayResume(h) ==
  /\ h.irq = "timer" /\ h.held = {}
  /\ h.code # <<>> /\ Head(h.code) = Resume
  /\ Tail(h.code) = <<>>
Done(h) == h.code = <<>> /\ h.held = {}

\* The timer handler always has a next step: it takes a lock it does not hold,
\* releases one it holds, or lets the scheduler choose with nothing held.
LEMMA TimerStep ==
  ASSUME NEW h \in TimerStates
  PROVE  MayTake(h) \/ MayGive(h) \/ MayResume(h)
<1> DEFINE D == "DEFERRED_FREE"
           F == "FRAME_ALLOCATOR"
<1>1. CASE h = Holding("timer", {}, <<Take(D), Give(D), Resume>>)
  <2>1. h.irq = "timer" /\ h.held = {} /\ h.code # <<>> /\ Head(h.code) = Take(D) /\ Tail(h.code) = <<Give(D), Resume>>
    BY <1>1 DEF Holding
  <2>2. D \in Locks /\ {} \cup {D} = {D}
    BY DEF Locks
  <2>3. Holding(h.irq, h.held \cup {D}, Tail(h.code)) \in HandlerStates
    BY <2>1, <2>2, Zenon DEF HandlerStates, TimerStates
  <2>. QED BY <2>1, <2>2, <2>3, Zenon DEF MayTake, HandlerLocks
<1>2. CASE h = Holding("timer", {}, <<Take(D), Take(F), Give(F), Give(D), Resume>>)
  <2>1. h.irq = "timer" /\ h.held = {} /\ h.code # <<>> /\ Head(h.code) = Take(D) /\ Tail(h.code) = <<Take(F), Give(F), Give(D), Resume>>
    BY <1>2 DEF Holding
  <2>2. D \in Locks /\ {} \cup {D} = {D}
    BY DEF Locks
  <2>3. Holding(h.irq, h.held \cup {D}, Tail(h.code)) \in HandlerStates
    BY <2>1, <2>2, Zenon DEF HandlerStates, TimerStates
  <2>. QED BY <2>1, <2>2, <2>3, Zenon DEF MayTake, HandlerLocks
<1>3. CASE h = Holding("timer", {D}, <<Take(F), Give(F), Give(D), Resume>>)
  <2>1. h.irq = "timer" /\ h.held = {D} /\ h.code # <<>> /\ Head(h.code) = Take(F) /\ Tail(h.code) = <<Give(F), Give(D), Resume>>
    BY <1>3 DEF Holding
  <2>2. F \in Locks /\ {D} \cup {F} = {D, F} /\ F \notin {D}
    BY DEF Locks
  <2>3. Holding(h.irq, h.held \cup {F}, Tail(h.code)) \in HandlerStates
    BY <2>1, <2>2, Zenon DEF HandlerStates, TimerStates
  <2>. QED BY <2>1, <2>2, <2>3, Zenon DEF MayTake, HandlerLocks
<1>4. CASE h = Holding("timer", {D, F}, <<Give(F), Give(D), Resume>>)
  <2>1. h.irq = "timer" /\ h.held = {D, F} /\ h.code # <<>> /\ Head(h.code) = Give(F) /\ Tail(h.code) = <<Give(D), Resume>>
    BY <1>4 DEF Holding
  <2>2. F \in Locks /\ {D, F} \ {F} = {D}
    BY DEF Locks
  <2>3. Holding(h.irq, h.held \ {F}, Tail(h.code)) \in HandlerStates
    BY <2>1, <2>2, Zenon DEF HandlerStates, TimerStates
  <2>. QED BY <2>1, <2>2, <2>3, Zenon DEF MayGive
<1>5. CASE h = Holding("timer", {D}, <<Give(D), Resume>>)
  <2>1. h.irq = "timer" /\ h.held = {D} /\ h.code # <<>> /\ Head(h.code) = Give(D) /\ Tail(h.code) = <<Resume>>
    BY <1>5 DEF Holding
  <2>2. D \in Locks /\ {D} \ {D} = {}
    BY DEF Locks
  <2>3. Holding(h.irq, h.held \ {D}, Tail(h.code)) \in HandlerStates
    BY <2>1, <2>2, Zenon DEF HandlerStates, TimerStates
  <2>. QED BY <2>1, <2>2, <2>3, Zenon DEF MayGive
<1>6. CASE h = Holding("timer", {}, <<Resume>>)
  BY <1>6 DEF Holding, MayResume
<1>. QED BY <1>1, <1>2, <1>3, <1>4, <1>5, <1>6, Zenon DEF TimerStates

\* The keyboard handler takes a lock it does not hold or releases one it holds,
\* until it returns.
LEMMA KeyboardStep ==
  ASSUME NEW h \in KeyboardStates
  PROVE  MayTake(h) \/ MayGive(h) \/ Done(h)
<1> DEFINE E == "EXTENDED_KEY"
           M == "MODIFIERS"
           K == "KEY_BUFFER"
<1>1. CASE h = Holding("keyboard", {}, <<Take(E), Give(E), Take(M), Give(M), Take(K), Give(K)>>)
  <2>1. h.irq = "keyboard" /\ h.held = {} /\ h.code # <<>> /\ Head(h.code) = Take(E) /\ Tail(h.code) = <<Give(E), Take(M), Give(M), Take(K), Give(K)>>
    BY <1>1 DEF Holding
  <2>2. E \in Locks /\ {} \cup {E} = {E}
    BY DEF Locks
  <2>3. Holding(h.irq, h.held \cup {E}, Tail(h.code)) \in HandlerStates
    BY <2>1, <2>2, Zenon DEF HandlerStates, KeyboardStates
  <2>. QED BY <2>1, <2>2, <2>3, Zenon DEF MayTake, HandlerLocks
<1>2. CASE h = Holding("keyboard", {E}, <<Give(E), Take(M), Give(M), Take(K), Give(K)>>)
  <2>1. h.irq = "keyboard" /\ h.held = {E} /\ h.code # <<>> /\ Head(h.code) = Give(E) /\ Tail(h.code) = <<Take(M), Give(M), Take(K), Give(K)>>
    BY <1>2 DEF Holding
  <2>2. E \in Locks /\ {E} \ {E} = {}
    BY DEF Locks
  <2>3. Holding(h.irq, h.held \ {E}, Tail(h.code)) \in HandlerStates
    BY <2>1, <2>2, Zenon DEF HandlerStates, KeyboardStates
  <2>. QED BY <2>1, <2>2, <2>3, Zenon DEF MayGive
<1>3. CASE h = Holding("keyboard", {}, <<Take(M), Give(M), Take(K), Give(K)>>)
  <2>1. h.irq = "keyboard" /\ h.held = {} /\ h.code # <<>> /\ Head(h.code) = Take(M) /\ Tail(h.code) = <<Give(M), Take(K), Give(K)>>
    BY <1>3 DEF Holding
  <2>2. M \in Locks /\ {} \cup {M} = {M}
    BY DEF Locks
  <2>3. Holding(h.irq, h.held \cup {M}, Tail(h.code)) \in HandlerStates
    BY <2>1, <2>2, Zenon DEF HandlerStates, KeyboardStates
  <2>. QED BY <2>1, <2>2, <2>3, Zenon DEF MayTake, HandlerLocks
<1>4. CASE h = Holding("keyboard", {M}, <<Give(M), Take(K), Give(K)>>)
  <2>1. h.irq = "keyboard" /\ h.held = {M} /\ h.code # <<>> /\ Head(h.code) = Give(M) /\ Tail(h.code) = <<Take(K), Give(K)>>
    BY <1>4 DEF Holding
  <2>2. M \in Locks /\ {M} \ {M} = {}
    BY DEF Locks
  <2>3. Holding(h.irq, h.held \ {M}, Tail(h.code)) \in HandlerStates
    BY <2>1, <2>2, Zenon DEF HandlerStates, KeyboardStates
  <2>. QED BY <2>1, <2>2, <2>3, Zenon DEF MayGive
<1>5. CASE h = Holding("keyboard", {}, <<Take(K), Give(K)>>)
  <2>1. h.irq = "keyboard" /\ h.held = {} /\ h.code # <<>> /\ Head(h.code) = Take(K) /\ Tail(h.code) = <<Give(K)>>
    BY <1>5 DEF Holding
  <2>2. K \in Locks /\ {} \cup {K} = {K}
    BY DEF Locks
  <2>3. Holding(h.irq, h.held \cup {K}, Tail(h.code)) \in HandlerStates
    BY <2>1, <2>2, Zenon DEF HandlerStates, KeyboardStates
  <2>. QED BY <2>1, <2>2, <2>3, Zenon DEF MayTake, HandlerLocks
<1>6. CASE h = Holding("keyboard", {K}, <<Give(K)>>)
  <2>1. h.irq = "keyboard" /\ h.held = {K} /\ h.code # <<>> /\ Head(h.code) = Give(K) /\ Tail(h.code) = <<>>
    BY <1>6 DEF Holding
  <2>2. K \in Locks /\ {K} \ {K} = {}
    BY DEF Locks
  <2>3. Holding(h.irq, h.held \ {K}, Tail(h.code)) \in HandlerStates
    BY <2>1, <2>2, Zenon DEF HandlerStates, KeyboardStates
  <2>. QED BY <2>1, <2>2, <2>3, Zenon DEF MayGive
<1>7. CASE h = Holding("keyboard", {}, <<>>)
  BY <1>7 DEF Holding, Done
<1>. QED BY <1>1, <1>2, <1>3, <1>4, <1>5, <1>6, <1>7, Zenon DEF KeyboardStates

\* So does the mouse handler.
LEMMA MouseStep ==
  ASSUME NEW h \in MouseStates
  PROVE  MayTake(h) \/ MayGive(h) \/ Done(h)
<1> DEFINE P == "MOUSE_PACKET"
           B == "MOUSE_BUTTONS"
           R == "MOUSE_BUFFER"
<1>1. CASE h = Holding("mouse", {}, <<Take(P), Take(B), Give(B), Take(R), Give(R), Give(P)>>)
  <2>1. h.irq = "mouse" /\ h.held = {} /\ h.code # <<>> /\ Head(h.code) = Take(P) /\ Tail(h.code) = <<Take(B), Give(B), Take(R), Give(R), Give(P)>>
    BY <1>1 DEF Holding
  <2>2. P \in Locks /\ {} \cup {P} = {P}
    BY DEF Locks
  <2>3. Holding(h.irq, h.held \cup {P}, Tail(h.code)) \in HandlerStates
    BY <2>1, <2>2, Zenon DEF HandlerStates, MouseStates
  <2>. QED BY <2>1, <2>2, <2>3, Zenon DEF MayTake, HandlerLocks
<1>2. CASE h = Holding("mouse", {P}, <<Take(B), Give(B), Take(R), Give(R), Give(P)>>)
  <2>1. h.irq = "mouse" /\ h.held = {P} /\ h.code # <<>> /\ Head(h.code) = Take(B) /\ Tail(h.code) = <<Give(B), Take(R), Give(R), Give(P)>>
    BY <1>2 DEF Holding
  <2>2. B \in Locks /\ {P} \cup {B} = {P, B} /\ B \notin {P}
    BY DEF Locks
  <2>3. Holding(h.irq, h.held \cup {B}, Tail(h.code)) \in HandlerStates
    BY <2>1, <2>2, Zenon DEF HandlerStates, MouseStates
  <2>. QED BY <2>1, <2>2, <2>3, Zenon DEF MayTake, HandlerLocks
<1>3. CASE h = Holding("mouse", {P, B}, <<Give(B), Take(R), Give(R), Give(P)>>)
  <2>1. h.irq = "mouse" /\ h.held = {P, B} /\ h.code # <<>> /\ Head(h.code) = Give(B) /\ Tail(h.code) = <<Take(R), Give(R), Give(P)>>
    BY <1>3 DEF Holding
  <2>2. B \in Locks /\ {P, B} \ {B} = {P}
    BY DEF Locks
  <2>3. Holding(h.irq, h.held \ {B}, Tail(h.code)) \in HandlerStates
    BY <2>1, <2>2, Zenon DEF HandlerStates, MouseStates
  <2>. QED BY <2>1, <2>2, <2>3, Zenon DEF MayGive
<1>4. CASE h = Holding("mouse", {P}, <<Take(R), Give(R), Give(P)>>)
  <2>1. h.irq = "mouse" /\ h.held = {P} /\ h.code # <<>> /\ Head(h.code) = Take(R) /\ Tail(h.code) = <<Give(R), Give(P)>>
    BY <1>4 DEF Holding
  <2>2. R \in Locks /\ {P} \cup {R} = {P, R} /\ R \notin {P}
    BY DEF Locks
  <2>3. Holding(h.irq, h.held \cup {R}, Tail(h.code)) \in HandlerStates
    BY <2>1, <2>2, Zenon DEF HandlerStates, MouseStates
  <2>. QED BY <2>1, <2>2, <2>3, Zenon DEF MayTake, HandlerLocks
<1>5. CASE h = Holding("mouse", {P, R}, <<Give(R), Give(P)>>)
  <2>1. h.irq = "mouse" /\ h.held = {P, R} /\ h.code # <<>> /\ Head(h.code) = Give(R) /\ Tail(h.code) = <<Give(P)>>
    BY <1>5 DEF Holding
  <2>2. R \in Locks /\ {P, R} \ {R} = {P}
    BY DEF Locks
  <2>3. Holding(h.irq, h.held \ {R}, Tail(h.code)) \in HandlerStates
    BY <2>1, <2>2, Zenon DEF HandlerStates, MouseStates
  <2>. QED BY <2>1, <2>2, <2>3, Zenon DEF MayGive
<1>6. CASE h = Holding("mouse", {P}, <<Give(P)>>)
  <2>1. h.irq = "mouse" /\ h.held = {P} /\ h.code # <<>> /\ Head(h.code) = Give(P) /\ Tail(h.code) = <<>>
    BY <1>6 DEF Holding
  <2>2. P \in Locks /\ {P} \ {P} = {}
    BY DEF Locks
  <2>3. Holding(h.irq, h.held \ {P}, Tail(h.code)) \in HandlerStates
    BY <2>1, <2>2, Zenon DEF HandlerStates, MouseStates
  <2>. QED BY <2>1, <2>2, <2>3, Zenon DEF MayGive
<1>7. CASE h = Holding("mouse", {}, <<>>)
  BY <1>7 DEF Holding, Done
<1>. QED BY <1>1, <1>2, <1>3, <1>4, <1>5, <1>6, <1>7, Zenon DEF MouseStates

\* Where the handler is.
Held == {l \in Locks : holder[l] = "handler"}

\* A handler that is under way has a next step; one that is not, or has
\* finished, holds nothing.
LEMMA HandlerFacts ==
  ASSUME HandlerInv
  PROVE  LET c == code["handler"]
         IN  /\ irq = "none" => c = <<>> /\ Held = {}
             /\ c = <<>> => Held = {}
             /\ c # <<>> =>
                  \/ \E l \in Locks : /\ l \in HandlerLocks /\ l \notin Held /\ Head(c) = Take(l)
                                      /\ Holding(irq, Held \cup {l}, Tail(c)) \in HandlerStates
                  \/ \E l \in Locks : /\ l \in Held /\ Head(c) = Give(l)
                                      /\ Holding(irq, Held \ {l}, Tail(c)) \in HandlerStates
                  \/ irq = "timer" /\ Held = {} /\ Head(c) = Resume /\ Tail(c) = <<>>
<1> DEFINE h == Holding(irq, Held, code["handler"])
<1>1. h \in HandlerStates
  BY Zenon DEF HandlerInv, Held
<1>2. h.irq = irq /\ h.held = Held /\ h.code = code["handler"]
  BY DEF Holding
<1>. HIDE DEF h
<1>3. h.irq = "none" => h.code = <<>> /\ h.held = {}
  BY <1>1 DEF HandlerStates, TimerStates, KeyboardStates, MouseStates, Holding
<1>4. MayTake(h) \/ MayGive(h) \/ MayResume(h) \/ Done(h)
  <2>1. Done(Holding("none", {}, <<>>))
    BY DEF Holding, Done
  <2>. QED BY <1>1, <2>1, TimerStep, KeyboardStep, MouseStep, Zenon DEF HandlerStates
<1>. QED BY <1>2, <1>3, <1>4, Zenon DEF MayTake, MayGive, MayResume, Done

-----------------------------------------------------------------------------
(* The inductive invariant                                                 *)

\* What is true between any two steps of the kernel.
KInv == TypeOK /\ HandlerInv /\ CallsInv /\ MaskInv /\ SchedulerHolderRuns /\ DeferInv

\* The kind of a step tells which it is.
LEMMA Kinds ==
  ASSUME NEW s \in AStep
  PROVE  /\ s[1] = "lock" => s[2] \in Locks /\ s = Take(s[2])
         /\ s[1] = "try" => s[2] \in Locks /\ s = Try(s[2])
         /\ s[1] = "unlock" => s[2] \in Locks /\ s = Give(s[2])
         /\ s[1] = "cli" => s = Cli
         /\ s[1] = "sti" => s = Sti
         /\ s[1] = "defer" => s = DeferStep
         /\ s[1] = "resched" => s = Resume
<1>1. ASSUME NEW l \in Locks, s = Take(l) PROVE s[1] = "lock" /\ s[2] = l
  BY <1>1 DEF Take
<1>2. ASSUME NEW l \in Locks, s = Try(l) PROVE s[1] = "try" /\ s[2] = l
  BY <1>2 DEF Try
<1>3. ASSUME NEW l \in Locks, s = Give(l) PROVE s[1] = "unlock" /\ s[2] = l
  BY <1>3 DEF Give
<1>4. /\ s = Cli => s[1] = "cli"
      /\ s = Sti => s[1] = "sti"
      /\ s = DeferStep => s[1] = "defer"
      /\ s = Resume => s[1] = "resched"
  <2>1. ASSUME NEW k, NEW l PROVE <<k, l>>[1] = k
    OBVIOUS
  <2>. QED BY <2>1, Zenon DEF Cli, Sti, DeferStep, Resume
<1>. QED BY <1>1, <1>2, <1>3, <1>4, Zenon DEF AStep

\* The step the executing code is about to take is one of its own.
LEMMA NextStep ==
  ASSUME TypeOK, code[Who] # <<>>
  PROVE  /\ Who \in Tasks \cup {"handler"}
         /\ code[Who] \in Code
         /\ Head(code[Who]) \in AStep
         /\ Head(code[Who]) \in Steps(code[Who])
         /\ Tail(code[Who]) \in Code
         /\ Steps(Tail(code[Who])) \subseteq Steps(code[Who])
<1>1. Who \in Tasks \cup {"handler"}
  BY Zenon DEF TypeOK, Who
<1>2. code[Who] \in Code
  BY <1>1, Zenon DEF TypeOK, Code
<1>. QED BY <1>1, <1>2, StepsTail, Zenon

\* Only calls take the steps of tasks.
LEMMA TaskSteps ==
  ASSUME CallsInv, NEW t \in Tasks, NEW s \in Steps(code[t])
  PROVE  s # Resume /\ (\A l : s = Try(l) => l = "LOG_RING")
<1>1. PICK c \in workload.calls \cap TaskCalls : s \in Steps(Body(c))
  BY Zenon DEF CallsInv, CallSteps
<1>2. c \in TaskCalls
  BY Zenon
<1>. QED BY <1>1, <1>2, BodySteps, Zenon

\* Code without without_interrupts and without the locks it protects.
Bare(c) == Steps(c) \cap ({Cli, Sti} \cup {Take(l) : l \in Shared}) = {}

\* One program moves on; the others stay where they are.
LEMMA Moves ==
  ASSUME TypeOK, NEW x \in Tasks \cup {"handler"}, NEW c \in Code, code' = [code EXCEPT ![x] = c]
  PROVE  /\ code' \in [Tasks \cup {"handler"} -> Code]
         /\ code'[x] = c
         /\ \A y \in Tasks \cup {"handler"} : y # x => code'[y] = code[y]
  BY DEF TypeOK, Code

\* One lock changes hands; the others keep their holders.
LEMMA ChangesHands ==
  ASSUME TypeOK, NEW l \in Locks, NEW x \in Tasks \cup {"handler", "free"},
         holder' = [holder EXCEPT ![l] = x]
  PROVE  /\ holder' \in [Locks -> Tasks \cup {"handler", "free"}]
         /\ holder'[l] = x
         /\ \A m \in Locks : m # l => holder'[m] = holder[m]
  BY DEF TypeOK

\* A handler that takes or releases one of its locks leaves the tasks alone.
LEMMA HandlerKeeps ==
  ASSUME KInv, NEW c \in Code, Steps(c) \subseteq Steps(code["handler"]),
         NEW l \in Locks, l # "SCHEDULER", NEW x \in {"handler", "free"},
         code' = [code EXCEPT !["handler"] = c],
         holder' = [holder EXCEPT ![l] = x],
         UNCHANGED <<cur, irq, if_flag, pending, exited, workload>>
  PROVE  TypeOK' /\ CallsInv' /\ MaskInv' /\ SchedulerHolderRuns' /\ DeferInv'
<1>1. /\ code' \in [Tasks \cup {"handler"} -> Code]
      /\ code'["handler"] = c
      /\ \A t \in Tasks : code'[t] = code[t]
  BY Moves, TasksAssumption, Zenon DEF KInv
<1>2. /\ holder' \in [Locks -> Tasks \cup {"handler", "free"}]
      /\ holder'[l] \notin Tasks
      /\ \A m \in Locks : m # l => holder'[m] = holder[m]
  BY ChangesHands, TasksAssumption, Zenon DEF KInv
<1>3. TypeOK'
  BY <1>1, <1>2, Zenon DEF KInv, TypeOK, Code
<1>4. CallSteps' = CallSteps
  BY Zenon DEF CallSteps
<1>5. CallsInv'
  BY <1>1, <1>2, <1>4, Zenon DEF KInv, CallsInv
<1>6. MaskInv'
  <2>1. \A m \in Shared : holder'[m] \in Tasks => holder'[m] = holder[m]
    <3>1. Shared \subseteq Locks
      BY DEF Shared, Locks
    <3>. QED BY <1>2, <3>1, Zenon
  <2>2. ASSUME NEW t \in Tasks, if_flag'[t]
        PROVE  \/ Steps(code'[t]) \cap ({Cli, Sti} \cup {Take(m) : m \in Shared}) = {}
               \/ \E m \in Shared : code'[t] = <<Cli, Take(m), Give(m), Sti>>
    <3>1. \/ Steps(code[t]) \cap ({Cli, Sti} \cup {Take(m) : m \in Shared}) = {}
          \/ \E m \in Shared : code[t] = <<Cli, Take(m), Give(m), Sti>>
      BY <2>2, Zenon DEF KInv, MaskInv
    <3>2. code'[t] = code[t]
      BY <1>1, Zenon
    <3>. QED BY <3>1, <3>2, Zenon
  <2>3. ASSUME NEW t \in Tasks, ~if_flag'[t]
        PROVE  /\ t = cur' /\ irq' = "none"
               /\ \E m \in Shared : code'[t] \in {<<Take(m), Give(m), Sti>>, <<Give(m), Sti>>, <<Sti>>}
    BY <1>1, <2>3, Zenon DEF KInv, MaskInv
  <2>4. ASSUME NEW m \in Shared, holder'[m] \in Tasks
        PROVE  ~if_flag'[holder'[m]] /\ code'[holder'[m]] = <<Give(m), Sti>>
    <3>1. holder[m] \in Tasks /\ holder'[m] = holder[m]
      BY <2>1, <2>4, Zenon
    <3>2. ~if_flag[holder[m]] /\ code[holder[m]] = <<Give(m), Sti>>
      BY <3>1, Zenon DEF KInv, MaskInv
    <3>. QED BY <1>1, <3>1, <3>2, Zenon
  <2>. QED BY <2>2, <2>3, <2>4, Zenon DEF MaskInv
<1>7. SchedulerHolderRuns'
  <2>1. "SCHEDULER" \in Locks
    BY DEF Locks
  <2>. QED BY <1>2, <2>1, Zenon DEF KInv, SchedulerHolderRuns
<1>8. DeferInv'
  <2>1. cur \in Tasks
    BY Zenon DEF KInv, TypeOK
  <2>. QED BY <1>1, <2>1, Zenon DEF KInv, DeferInv
<1>. QED BY <1>3, <1>5, <1>6, <1>7, <1>8, Zenon

\* Only the executing task has interrupts masked, and only it can hold a lock
\* that it shares with the mouse handler.
LEMMA MaskFacts ==
  ASSUME TypeOK, MaskInv
  PROVE  /\ \A t \in Tasks : t # cur \/ irq # "none" => if_flag[t]
         /\ if_flag[cur] /\ code[cur] # <<>> /\ Head(code[cur]) # Cli => Bare(code[cur])
         /\ ~if_flag[cur] => code[cur] # <<>> /\ \E m \in Shared :
              \/ Head(code[cur]) = Take(m) /\ Tail(code[cur]) = <<Give(m), Sti>>
              \/ Head(code[cur]) = Give(m) /\ Tail(code[cur]) = <<Sti>>
              \/ Head(code[cur]) = Sti /\ Tail(code[cur]) = <<>>
         /\ \A m \in Shared : holder[m] \in Tasks =>
              holder[m] = cur /\ ~if_flag[cur] /\ Head(code[cur]) = Give(m)
<1>1. cur \in Tasks
  BY Zenon DEF TypeOK
<1>2. \A t \in Tasks : t # cur \/ irq # "none" => if_flag[t]
  BY Zenon DEF MaskInv
<1>3. ASSUME if_flag[cur], code[cur] # <<>>, Head(code[cur]) # Cli PROVE Bare(code[cur])
  <2>1. ASSUME NEW m PROVE Head(<<Cli, Take(m), Give(m), Sti>>) = Cli
    OBVIOUS
  <2>. QED BY <1>1, <1>3, <2>1, Zenon DEF MaskInv, Bare
<1>4. ASSUME NEW m
      PROVE  /\ <<Take(m), Give(m), Sti>> # <<>> /\ <<Give(m), Sti>> # <<>> /\ <<Sti>> # <<>>
             /\ Head(<<Take(m), Give(m), Sti>>) = Take(m)
             /\ Tail(<<Take(m), Give(m), Sti>>) = <<Give(m), Sti>>
             /\ Head(<<Give(m), Sti>>) = Give(m) /\ Tail(<<Give(m), Sti>>) = <<Sti>>
             /\ Head(<<Sti>>) = Sti /\ Tail(<<Sti>>) = <<>>
  OBVIOUS
<1>5. ASSUME ~if_flag[cur]
      PROVE  code[cur] # <<>> /\ \E m \in Shared :
              \/ Head(code[cur]) = Take(m) /\ Tail(code[cur]) = <<Give(m), Sti>>
              \/ Head(code[cur]) = Give(m) /\ Tail(code[cur]) = <<Sti>>
              \/ Head(code[cur]) = Sti /\ Tail(code[cur]) = <<>>
  <2>1. PICK m \in Shared : code[cur] \in {<<Take(m), Give(m), Sti>>, <<Give(m), Sti>>, <<Sti>>}
    BY <1>1, <1>5, Zenon DEF MaskInv
  <2>. QED BY <1>4, <2>1, Zenon
<1>6. ASSUME NEW m \in Shared, holder[m] \in Tasks
      PROVE  holder[m] = cur /\ ~if_flag[cur] /\ Head(code[cur]) = Give(m)
  <2>1. ~if_flag[holder[m]] /\ code[holder[m]] = <<Give(m), Sti>>
    BY <1>6, Zenon DEF MaskInv
  <2>2. holder[m] = cur
    BY <1>2, <1>6, <2>1, Zenon
  <2>3. Head(<<Give(m), Sti>>) = Give(m)
    BY <1>4, Zenon
  <2>. QED BY <2>1, <2>2, <2>3, Zenon
<1>. QED BY <1>2, <1>3, <1>5, <1>6, Zenon

\* What is left of a bare function is bare.
LEMMA BareTail ==
  ASSUME NEW c, NEW d, Bare(c), Steps(d) \subseteq Steps(c)
  PROVE  Bare(d)
  BY Zenon DEF Bare

\* What an exiting task has left once it has filled DEFERRED_FREE.
LEMMA ExitFacts ==
  ASSUME DeferInv, NEW t \in Tasks, DeferStep \in Steps(code[t])
  PROVE  /\ t \in exited /\ code[t] # <<>>
         /\ \/ /\ \E l : Head(code[t]) = Take(l)
               /\ Tail(code[t]) \in
                    {<<Take("DEFERRED_FREE"), DeferStep, Give("DEFERRED_FREE"), Give("SCHEDULER")>>,
                     <<DeferStep, Give("DEFERRED_FREE"), Give("SCHEDULER")>>}
            \/ Head(code[t]) = DeferStep /\ DeferStep \notin Steps(Tail(code[t]))
<1> DEFINE S == "SCHEDULER"
           D == "DEFERRED_FREE"
<1>1. /\ t \in exited
      /\ code[t] \in {<<Take(S), Take(D), DeferStep, Give(D), Give(S)>>,
                      <<Take(D), DeferStep, Give(D), Give(S)>>, <<DeferStep, Give(D), Give(S)>>}
  BY Zenon DEF DeferInv
<1>2. Steps(<<Give(D), Give(S)>>) = {Give(D), Give(S)}
  <2>1. D \in Locks /\ S \in Locks
    BY DEF Locks
  <2>. QED BY <2>1, StepsShort, Zenon DEF AStep
<1>3. DeferStep \notin Steps(<<Give(D), Give(S)>>)
  BY <1>2, StepsDiffer, Zenon
<1>4. CASE code[t] = <<Take(S), Take(D), DeferStep, Give(D), Give(S)>>
  <2>1. /\ code[t] # <<>> /\ Head(code[t]) = Take(S)
        /\ Tail(code[t]) = <<Take(D), DeferStep, Give(D), Give(S)>>
    BY <1>4
  <2>. QED BY <1>1, <2>1, Zenon
<1>5. CASE code[t] = <<Take(D), DeferStep, Give(D), Give(S)>>
  <2>1. /\ code[t] # <<>> /\ Head(code[t]) = Take(D)
        /\ Tail(code[t]) = <<DeferStep, Give(D), Give(S)>>
    BY <1>5
  <2>. QED BY <1>1, <2>1, Zenon
<1>6. CASE code[t] = <<DeferStep, Give(D), Give(S)>>
  <2>1. /\ code[t] # <<>> /\ Head(code[t]) = DeferStep
        /\ Tail(code[t]) = <<Give(D), Give(S)>>
    BY <1>6
  <2>. QED BY <1>1, <1>3, <2>1, Zenon
<1>. QED BY <1>1, <1>4, <1>5, <1>6, Zenon

\* A task that takes or releases locks, with its interrupt flag as it is, keeps
\* the invariant.
LEMMA TaskKeeps ==
  ASSUME KInv, irq = "none", code[cur] # <<>>, Head(code[cur]) # Cli, Head(code[cur]) # Sti,
         NEW c \in Code, Steps(c) \subseteq Steps(code[cur]),
         c = Tail(code[cur]) \/ \E m : Head(code[cur]) = Try(m),
         code' = [code EXCEPT ![cur] = c],
         UNCHANGED <<cur, irq, if_flag, exited, workload>>,
         holder' \in [Locks -> Tasks \cup {"handler", "free"}],
         \A m \in Locks : \/ holder'[m] = holder[m]
                          \/ holder'[m] = "free"
                          \/ /\ holder'[m] = cur
                             /\ Take(m) \in Steps(code[cur]) \/ Try(m) \in Steps(code[cur])
                             /\ m \in Shared => Head(code[cur]) = Take(m),
         \A m \in Shared : Head(code[cur]) = Give(m) => holder'[m] = "free",
         pending' \in BOOLEAN, pending' => pending \/ Head(code[cur]) = DeferStep
  PROVE  KInv'
<1>1. cur \in Tasks /\ cur # "handler" /\ cur # "free"
  BY TasksAssumption, Zenon DEF KInv, TypeOK
<1>2. /\ code' \in [Tasks \cup {"handler"} -> Code]
      /\ code'[cur] = c
      /\ code'["handler"] = code["handler"]
      /\ \A t \in Tasks : t # cur => code'[t] = code[t]
  BY <1>1, Moves, Zenon DEF KInv
<1>3. Head(code[cur]) \in Steps(code[cur])
  <2>1. code[cur] \in Code
    BY <1>1, Zenon DEF KInv, TypeOK, Code
  <2>. QED BY <2>1, StepsTail, Zenon
<1>4. TypeOK'
  BY <1>2, Zenon DEF KInv, TypeOK, Code
<1>5. HandlerInv'
  <2>1. ASSUME NEW m \in Locks PROVE holder'[m] # "handler"
    <3>1. holder[m] # "handler"
      BY HandlerFacts, Zenon DEF KInv, Held
    <3>. QED BY <1>1, <3>1, Zenon
  <2>2. {m \in Locks : holder'[m] = "handler"} = {m \in Locks : holder[m] = "handler"}
    BY <2>1, HandlerFacts, Zenon DEF KInv, Held
  <2>. QED BY <1>2, <2>2, Zenon DEF KInv, HandlerInv
<1>6. CallsInv'
  <2>1. CallSteps' = CallSteps
    BY Zenon DEF CallSteps
  <2>2. Steps(code[cur]) \subseteq CallSteps
    BY <1>1, Zenon DEF KInv, CallsInv
  <2>3. ASSUME NEW t \in Tasks PROVE Steps(code'[t]) \subseteq CallSteps
    <3>1. CASE t = cur
      BY <1>2, <2>2, <3>1, Zenon
    <3>2. CASE t # cur
      BY <1>2, <3>2, Zenon DEF KInv, CallsInv
    <3>. QED BY <3>1, <3>2, Zenon
  <2>4. ASSUME NEW m \in Locks, holder'[m] \in Tasks
        PROVE  Take(m) \in CallSteps \/ Try(m) \in CallSteps
    <3>1. CASE holder'[m] = holder[m]
      BY <2>4, <3>1, Zenon DEF KInv, CallsInv
    <3>2. CASE holder'[m] # holder[m]
      BY <2>2, <2>4, <3>2, TasksAssumption, Zenon
    <3>. QED BY <3>1, <3>2, Zenon
  <2>5. pending' => DeferStep \in CallSteps
    BY <1>3, <2>2, Zenon DEF KInv, CallsInv
  <2>. QED BY <1>2, <2>1, <2>3, <2>4, <2>5, Zenon DEF KInv, CallsInv
<1>7. SchedulerHolderRuns'
  <2>1. "SCHEDULER" \in Locks
    BY DEF Locks
  <2>. QED BY <2>1, Zenon DEF KInv, SchedulerHolderRuns
<1>8. MaskInv'
  <2>1. ASSUME NEW t \in Tasks, if_flag'[t]
        PROVE  \/ Steps(code'[t]) \cap ({Cli, Sti} \cup {Take(m) : m \in Shared}) = {}
               \/ \E m \in Shared : code'[t] = <<Cli, Take(m), Give(m), Sti>>
    <3>1. CASE t = cur
      <4>1. Bare(code[cur])
        BY <2>1, <3>1, MaskFacts, Zenon DEF KInv
      <4>2. Bare(c)
        BY <4>1, BareTail, Zenon
      <4>. QED BY <1>2, <3>1, <4>2, Zenon DEF Bare
    <3>2. CASE t # cur
      <4>1. \/ Steps(code[t]) \cap ({Cli, Sti} \cup {Take(m) : m \in Shared}) = {}
            \/ \E m \in Shared : code[t] = <<Cli, Take(m), Give(m), Sti>>
        BY <2>1, Zenon DEF KInv, MaskInv
      <4>2. code'[t] = code[t]
        BY <1>2, <3>2, Zenon
      <4>. QED BY <4>1, <4>2, Zenon
    <3>. QED BY <3>1, <3>2, Zenon
  <2>2. ASSUME ~if_flag[cur] PROVE c = Tail(code[cur])
    <3>1. PICK k \in Shared : Head(code[cur]) = Take(k) \/ Head(code[cur]) = Give(k) \/ Head(code[cur]) = Sti
      BY <2>2, MaskFacts, Zenon DEF KInv
    <3>. QED BY <3>1, TryApart, Zenon
  <2>3. ASSUME NEW t \in Tasks, ~if_flag'[t]
        PROVE  /\ t = cur' /\ irq' = "none"
               /\ \E m \in Shared : code'[t] \in {<<Take(m), Give(m), Sti>>, <<Give(m), Sti>>, <<Sti>>}
    <3>1. t = cur /\ ~if_flag[cur]
      BY <2>3, MaskFacts, Zenon DEF KInv
    <3>2. \E m \in Shared : c \in {<<Give(m), Sti>>, <<Sti>>}
      BY <2>2, <3>1, MaskFacts, Zenon DEF KInv
    <3>. QED BY <1>2, <3>1, <3>2, Zenon
  <2>4. ASSUME NEW m \in Shared, holder'[m] \in Tasks
        PROVE  ~if_flag'[holder'[m]] /\ code'[holder'[m]] = <<Give(m), Sti>>
    <3>1. m \in Locks
      BY DEF Shared, Locks
    <3>2. CASE holder'[m] = holder[m]
      BY <2>4, <3>2, MaskFacts, TasksAssumption, Zenon DEF KInv
    <3>3. CASE holder'[m] # holder[m]
      <4>1. holder'[m] = cur /\ Head(code[cur]) = Take(m)
        BY <2>4, <3>1, <3>3, TasksAssumption, Zenon
      <4>2. Take(m) \in {Take(k) : k \in Shared} /\ Take(m) \in Steps(code[cur])
        BY <1>3, <4>1, Zenon
      <4>3. ~if_flag[cur]
        BY <4>1, <4>2, MaskFacts, Zenon DEF KInv, Bare
      <4>4. c = <<Give(m), Sti>>
        <5>1. PICK k \in Shared : \/ Head(code[cur]) = Take(k) /\ Tail(code[cur]) = <<Give(k), Sti>>
                                  \/ Head(code[cur]) = Give(k)
                                  \/ Head(code[cur]) = Sti
          BY <4>3, MaskFacts, Zenon DEF KInv
        <5>2. (Take(m) = Take(k) => m = k) /\ Take(m) # Give(k) /\ Take(m) # Sti
          BY StepsDiffer
        <5>. QED BY <2>2, <4>1, <4>3, <5>1, <5>2, Zenon
      <4>. QED BY <1>2, <4>1, <4>3, <4>4, Zenon
    <3>. QED BY <3>2, <3>3, Zenon
  <2>. QED BY <2>1, <2>3, <2>4, Zenon DEF MaskInv
<1>9. DeferInv'
  <2>1. ASSUME DeferStep \in Steps(code[cur]) PROVE c = Tail(code[cur])
    <3>1. Head(code[cur]) = DeferStep \/ \E l : Head(code[cur]) = Take(l)
      BY <1>1, <2>1, ExitFacts, Zenon DEF KInv
    <3>. QED BY <3>1, TryApart, Zenon
  <2>2. ASSUME DeferStep \in Steps(c)
        PROVE  /\ cur \in exited /\ Head(code[cur]) # DeferStep
               /\ c \in {<<Take("DEFERRED_FREE"), DeferStep, Give("DEFERRED_FREE"), Give("SCHEDULER")>>,
                         <<DeferStep, Give("DEFERRED_FREE"), Give("SCHEDULER")>>}
    <3>1. DeferStep \in Steps(code[cur])
      BY <2>2, Zenon
    <3>2. c = Tail(code[cur])
      BY <2>1, <3>1, Zenon
    <3>3. \A l : Take(l) # DeferStep
      BY StepsDiffer
    <3>4. DeferInv
      BY Zenon DEF KInv
    <3>. QED BY <1>1, <2>2, <3>1, <3>2, <3>3, <3>4, ExitFacts, Zenon
  <2>3. ASSUME NEW t \in Tasks, DeferStep \in Steps(code'[t])
        PROVE  /\ t \in exited'
               /\ code'[t] \in {<<Take("SCHEDULER"), Take("DEFERRED_FREE"), DeferStep,
                                  Give("DEFERRED_FREE"), Give("SCHEDULER")>>,
                                <<Take("DEFERRED_FREE"), DeferStep, Give("DEFERRED_FREE"), Give("SCHEDULER")>>,
                                <<DeferStep, Give("DEFERRED_FREE"), Give("SCHEDULER")>>}
    <3>1. CASE t = cur
      BY <1>2, <2>2, <2>3, <3>1, Zenon
    <3>2. CASE t # cur
      BY <1>2, <2>3, <3>2, Zenon DEF KInv, DeferInv
    <3>. QED BY <3>1, <3>2, Zenon
  <2>4. pending' => irq' # "timer" /\ cur' \in exited' /\ DeferStep \notin Steps(code'[cur'])
    <3>1. CASE pending
      BY <1>2, <3>1, Zenon DEF KInv, DeferInv
    <3>2. CASE Head(code[cur]) = DeferStep
      <4>1. cur \in exited
        BY <1>1, <1>3, <3>2, ExitFacts, Zenon DEF KInv
      <4>. QED BY <1>2, <2>2, <3>2, <4>1, Zenon
    <3>. QED BY <3>1, <3>2, Zenon
  <2>. QED BY <2>3, <2>4, Zenon DEF DeferInv
<1>. QED BY <1>4, <1>5, <1>6, <1>7, <1>8, <1>9, Zenon DEF KInv

\* Taking a lock keeps the invariant.
LEMMA AcquireKeeps ==
  ASSUME KInv, Acquire
  PROVE  KInv'
<1> DEFINE l == Lock
           c == Tail(code[Who])
<1>1. /\ code[Who] # <<>> /\ holder[l] = "free"
      /\ holder' = [holder EXCEPT ![l] = Who] /\ code' = [code EXCEPT ![Who] = c]
      /\ UNCHANGED <<cur, irq, if_flag, pending, exited, workload>>
  BY DEF Acquire, AtStep, Advance
<1>2. /\ Who \in Tasks \cup {"handler"} /\ Head(code[Who]) \in AStep
      /\ Head(code[Who]) \in Steps(code[Who])
      /\ c \in Code /\ Steps(c) \subseteq Steps(code[Who])
  BY <1>1, NextStep, Zenon DEF KInv
<1>3. l \in Locks /\ Head(code[Who]) = Take(l)
  BY <1>2, Kinds, Zenon DEF Acquire, AtStep, Lock
<1>. HIDE DEF c, l
<1>4. /\ holder' \in [Locks -> Tasks \cup {"handler", "free"}]
      /\ holder'[l] = Who
      /\ \A m \in Locks : m # l => holder'[m] = holder[m]
  BY <1>1, <1>2, <1>3, ChangesHands, Zenon DEF KInv
<1>5. CASE irq = "none"
  <2>1. Who = cur
    BY <1>5 DEF Who
  <2>2. /\ Take(l) # Cli /\ Take(l) # Sti /\ \A m : Take(l) # Give(m)
        /\ pending' \in BOOLEAN
    BY <1>1, TakeApart, Zenon DEF KInv, TypeOK
  <2>3. \A m \in Locks : holder'[m] = holder[m] \/ (holder'[m] = cur /\ m = l)
    BY <1>4, <2>1, Zenon
  <2>4. \A m \in Locks : \/ holder'[m] = holder[m]
                         \/ holder'[m] = "free"
                         \/ /\ holder'[m] = cur
                            /\ Take(m) \in Steps(code[cur]) \/ Try(m) \in Steps(code[cur])
                            /\ m \in Shared => Head(code[cur]) = Take(m)
    BY <1>2, <1>3, <2>1, <2>3, Zenon
  <2>5. c = Tail(code[cur])
    BY <2>1, Zenon DEF c
  <2>. QED BY <1>1, <1>2, <1>3, <1>4, <1>5, <2>1, <2>2, <2>4, <2>5, TaskKeeps, Zenon
<1>6. CASE irq # "none"
  <2>1. Who = "handler" /\ c = Tail(code["handler"])
    BY <1>6, Zenon DEF Who, c
  <2>2. PICK m \in Locks : /\ m \in HandlerLocks /\ Take(l) = Take(m)
                           /\ Holding(irq, Held \cup {m}, c) \in HandlerStates
    BY <1>1, <1>3, <2>1, HandlerFacts, TakeApart, Zenon DEF KInv
  <2>3. m = l
    BY <2>2, TakeApart, Zenon
  <2>4. l # "SCHEDULER"
    BY <2>2, <2>3 DEF HandlerLocks
  <2>5. {k \in Locks : holder'[k] = "handler"} = Held \cup {l}
    BY <1>3, <1>4, <2>1, Zenon DEF Held
  <2>6. code'["handler"] = c
    BY <1>1, <1>2, <2>1, Moves, Zenon DEF KInv
  <2>7. HandlerInv'
    BY <1>1, <2>2, <2>3, <2>5, <2>6, Zenon DEF HandlerInv
  <2>. QED BY <1>1, <1>2, <1>3, <2>1, <2>4, <2>7, HandlerKeeps, Zenon DEF KInv
<1>. QED BY <1>5, <1>6, Zenon

\* A handler never masks interrupts, tries a lock or fills DEFERRED_FREE.
LEMMA HandlerNever ==
  ASSUME HandlerInv, irq # "none", code[Who] # <<>>
  PROVE  LET s == Head(code[Who])
         IN  s # Cli /\ s # Sti /\ s # DeferStep /\ \A l : s # Try(l)
<1>1. Who = "handler"
  BY Zenon DEF Who
<1>2. \/ \E l \in Locks : Head(code[Who]) = Take(l)
      \/ \E l \in Locks : Head(code[Who]) = Give(l)
      \/ Head(code[Who]) = Resume
  BY <1>1, HandlerFacts, Zenon
<1>. QED BY <1>2, TakeApart, GiveApart, OthersApart, Zenon

\* try_lock, taken or skipped, keeps the invariant.
LEMMA TryAcquireKeeps ==
  ASSUME KInv, TryAcquire
  PROVE  KInv'
<1> DEFINE l == Lock
           c == Tail(code[Who])
           d == SubSeq(code[Who], 3, Len(code[Who]))
<1>1. /\ code[Who] # <<>> /\ UNCHANGED <<cur, irq, if_flag, pending, exited, workload>>
      /\ \/ holder' = [holder EXCEPT ![l] = Who] /\ code' = [code EXCEPT ![Who] = c]
         \/ holder' = holder /\ code' = [code EXCEPT ![Who] = d]
  BY DEF TryAcquire, AtStep, Advance
<1>2. /\ Who \in Tasks \cup {"handler"} /\ Head(code[Who]) \in AStep
      /\ Head(code[Who]) \in Steps(code[Who])
      /\ c \in Code /\ Steps(c) \subseteq Steps(code[Who])
      /\ d \in Code /\ Steps(d) \subseteq Steps(code[Who])
  BY <1>1, NextStep, StepsSkip, Zenon DEF KInv
<1>3. l \in Locks /\ Head(code[Who]) = Try(l)
  BY <1>2, Kinds, Zenon DEF TryAcquire, AtStep, Lock
<1>. HIDE DEF c, d, l
<1>4. irq = "none"
  BY <1>1, <1>3, HandlerNever, Zenon DEF KInv
<1>5. Who = cur /\ cur \in Tasks /\ pending' \in BOOLEAN
  BY <1>1, <1>4, Zenon DEF Who, KInv, TypeOK
<1>6. l \notin Shared
  <2>1. l = "LOG_RING"
    BY <1>2, <1>3, <1>5, TaskSteps, Zenon DEF KInv
  <2>. QED BY <2>1 DEF Shared
<1>7. Try(l) # Cli /\ Try(l) # Sti /\ \A m : Try(l) # Give(m)
  BY TryApart, Zenon
<1>8. CASE holder' = [holder EXCEPT ![l] = Who] /\ code' = [code EXCEPT ![Who] = c]
  <2>1. /\ holder' \in [Locks -> Tasks \cup {"handler", "free"}]
        /\ \A m \in Locks : holder'[m] = holder[m] \/ (holder'[m] = cur /\ m = l)
    BY <1>2, <1>3, <1>5, <1>8, ChangesHands, Zenon DEF KInv
  <2>2. \A m \in Locks : \/ holder'[m] = holder[m]
                         \/ holder'[m] = "free"
                         \/ /\ holder'[m] = cur
                            /\ Take(m) \in Steps(code[cur]) \/ Try(m) \in Steps(code[cur])
                            /\ m \in Shared => Head(code[cur]) = Take(m)
    BY <1>2, <1>3, <1>5, <1>6, <2>1, Zenon
  <2>. QED BY <1>1, <1>2, <1>3, <1>4, <1>5, <1>7, <1>8, <2>1, <2>2, TaskKeeps, Zenon
<1>9. CASE holder' = holder /\ code' = [code EXCEPT ![Who] = d]
  <2>1. /\ holder' \in [Locks -> Tasks \cup {"handler", "free"}]
        /\ \A m \in Locks : holder'[m] = holder[m]
    BY <1>9, Zenon DEF KInv, TypeOK
  <2>. QED BY <1>1, <1>2, <1>3, <1>4, <1>5, <1>7, <1>9, <2>1, TaskKeeps, Zenon
<1>. QED BY <1>1, <1>8, <1>9, Zenon

\* Releasing a lock keeps the invariant.
LEMMA ReleaseKeeps ==
  ASSUME KInv, Release
  PROVE  KInv'
<1> DEFINE l == Lock
           c == Tail(code[Who])
<1>1. /\ code[Who] # <<>>
      /\ holder' = [holder EXCEPT ![l] = "free"] /\ code' = [code EXCEPT ![Who] = c]
      /\ UNCHANGED <<cur, irq, if_flag, pending, exited, workload>>
  BY DEF Release, AtStep, Advance
<1>2. /\ Who \in Tasks \cup {"handler"} /\ Head(code[Who]) \in AStep
      /\ c \in Code /\ Steps(c) \subseteq Steps(code[Who])
  BY <1>1, NextStep, Zenon DEF KInv
<1>3. l \in Locks /\ Head(code[Who]) = Give(l)
  BY <1>2, Kinds, Zenon DEF Release, AtStep, Lock
<1>. HIDE DEF c, l
<1>4. /\ holder' \in [Locks -> Tasks \cup {"handler", "free"}]
      /\ holder'[l] = "free"
      /\ \A m \in Locks : m # l => holder'[m] = holder[m]
  BY <1>1, <1>3, ChangesHands, Zenon DEF KInv
<1>5. CASE irq = "none"
  <2>1. Who = cur /\ c = Tail(code[cur])
    BY <1>5, Zenon DEF Who, c
  <2>2. /\ Give(l) # Cli /\ Give(l) # Sti /\ (\A m : Give(l) = Give(m) => l = m)
        /\ pending' \in BOOLEAN
    BY <1>1, GiveApart, Zenon DEF KInv, TypeOK
  <2>3. \A m \in Locks : holder'[m] = holder[m] \/ holder'[m] = "free"
    BY <1>4, Zenon
  <2>4. \A m \in Shared : Head(code[cur]) = Give(m) => holder'[m] = "free"
    BY <1>3, <1>4, <2>1, <2>2, Zenon
  <2>. QED BY <1>1, <1>2, <1>3, <1>4, <1>5, <2>1, <2>2, <2>3, <2>4, TaskKeeps, Zenon
<1>6. CASE irq # "none"
  <2>1. Who = "handler" /\ c = Tail(code["handler"])
    BY <1>6, Zenon DEF Who, c
  <2>2. PICK m \in Locks : /\ m \in Held /\ Give(l) = Give(m)
                           /\ Holding(irq, Held \ {m}, c) \in HandlerStates
    BY <1>1, <1>3, <2>1, HandlerFacts, GiveApart, Zenon DEF KInv
  <2>3. m = l
    BY <2>2, GiveApart, Zenon
  <2>4. l # "SCHEDULER"
    <3>1. "SCHEDULER" \in Held => cur = "handler"
      BY Zenon DEF KInv, SchedulerHolderRuns, Held
    <3>. QED BY <2>2, <2>3, <3>1, TasksAssumption, Zenon DEF KInv, TypeOK
  <2>5. {k \in Locks : holder'[k] = "handler"} = Held \ {l}
    BY <1>3, <1>4, <2>1, Zenon DEF Held
  <2>6. code'["handler"] = c
    BY <1>1, <1>2, <2>1, Moves, Zenon DEF KInv
  <2>7. HandlerInv'
    BY <1>1, <2>2, <2>3, <2>5, <2>6, Zenon DEF HandlerInv
  <2>. QED BY <1>1, <1>2, <1>3, <2>1, <2>4, <2>7, HandlerKeeps, Zenon DEF KInv
<1>. QED BY <1>5, <1>6, Zenon

\* Filling DEFERRED_FREE keeps the invariant.
LEMMA DeferKeeps ==
  ASSUME KInv, Defer
  PROVE  KInv' /\ ~pending
<1> DEFINE c == Tail(code[Who])
<1>1. /\ code[Who] # <<>> /\ holder' = holder /\ code' = [code EXCEPT ![Who] = c]
      /\ pending' = TRUE
      /\ UNCHANGED <<cur, irq, if_flag, exited, workload>>
  BY DEF Defer, AtStep, Advance
<1>2. /\ Head(code[Who]) \in AStep /\ Head(code[Who]) \in Steps(code[Who])
      /\ c \in Code /\ Steps(c) \subseteq Steps(code[Who])
  BY <1>1, NextStep, Zenon DEF KInv
<1>3. Head(code[Who]) = DeferStep
  BY <1>2, Kinds, Zenon DEF Defer, AtStep
<1>4. irq = "none"
  BY <1>1, <1>3, HandlerNever, Zenon DEF KInv
<1>5. Who = cur /\ c = Tail(code[cur])
  BY <1>4, Zenon DEF Who
<1>. HIDE DEF c
<1>6. ~pending
  BY <1>2, <1>3, <1>5, Zenon DEF KInv, DeferInv
<1>7. /\ DeferStep # Cli /\ DeferStep # Sti /\ \A m : DeferStep # Give(m)
      /\ pending' \in BOOLEAN
  BY <1>1, OthersApart, Zenon
<1>8. /\ holder' \in [Locks -> Tasks \cup {"handler", "free"}]
      /\ \A m \in Locks : holder'[m] = holder[m]
  BY <1>1, Zenon DEF KInv, TypeOK
<1>. QED BY <1>1, <1>2, <1>3, <1>4, <1>5, <1>6, <1>7, <1>8, TaskKeeps, Zenon

\* Masking and unmasking interrupts keep the invariant.
LEMMA MaskKeeps ==
  ASSUME KInv, Mask
  PROVE  KInv'
<1> DEFINE c == Tail(code[Who])
<1>1. /\ code[Who] # <<>> /\ code' = [code EXCEPT ![Who] = c]
      /\ UNCHANGED <<holder, cur, irq, pending, exited, workload>>
  BY DEF Mask, AtStep, Advance
<1>2. /\ Head(code[Who]) \in AStep /\ Head(code[Who]) \in Steps(code[Who])
      /\ c \in Code /\ Steps(c) \subseteq Steps(code[Who])
  BY <1>1, NextStep, Zenon DEF KInv
<1>3. \/ Head(code[Who]) = Cli /\ if_flag' = [if_flag EXCEPT ![cur] = FALSE]
      \/ Head(code[Who]) = Sti /\ if_flag' = [if_flag EXCEPT ![cur] = TRUE]
  <2>1. CASE Head(code[Who])[1] = "cli"
    <3>1. Head(code[Who]) = Cli
      BY <1>2, <2>1, Kinds, Zenon
    <3>2. AtStep("sti") = FALSE
      BY <2>1 DEF AtStep
    <3>. QED BY <3>1, <3>2, Zenon DEF Mask
  <2>2. CASE Head(code[Who])[1] = "sti"
    <3>1. Head(code[Who]) = Sti
      BY <1>2, <2>2, Kinds, Zenon
    <3>2. AtStep("sti") = TRUE
      BY <1>1, <2>2, Zenon DEF AtStep
    <3>. QED BY <3>1, <3>2, Zenon DEF Mask
  <2>. QED BY <2>1, <2>2, Zenon DEF Mask, AtStep
<1>4. irq = "none"
  BY <1>1, <1>3, HandlerNever, Zenon DEF KInv
<1>5. /\ Who = cur /\ c = Tail(code[cur]) /\ cur \in Tasks /\ cur # "handler"
  BY <1>4, TasksAssumption, Zenon DEF Who, KInv, TypeOK
<1>. HIDE DEF c
<1>6. /\ code' \in [Tasks \cup {"handler"} -> Code]
      /\ code'[cur] = c
      /\ code'["handler"] = code["handler"]
      /\ \A t \in Tasks : t # cur => code'[t] = code[t]
  BY <1>1, <1>2, <1>5, Moves, Zenon DEF KInv
<1>7. /\ if_flag' \in [Tasks -> BOOLEAN]
      /\ \A t \in Tasks : t # cur => if_flag'[t] = if_flag[t]
      /\ Head(code[cur]) = Cli => if_flag'[cur] = FALSE
      /\ Head(code[cur]) = Sti => if_flag'[cur] = TRUE
  <2>1. if_flag \in [Tasks -> BOOLEAN]
    BY Zenon DEF KInv, TypeOK
  <2>2. Cli # Sti
    BY OthersApart, Zenon
  <2>. QED BY <1>3, <1>5, <2>1, <2>2, Zenon
<1>8. \/ /\ if_flag'[cur] = FALSE
         /\ \E m \in Shared : c = <<Take(m), Give(m), Sti>>
      \/ if_flag'[cur] = TRUE /\ c = <<>>
  <2>1. ASSUME NEW m
        PROVE  /\ Head(<<Cli, Take(m), Give(m), Sti>>) = Cli
               /\ Tail(<<Cli, Take(m), Give(m), Sti>>) = <<Take(m), Give(m), Sti>>
    OBVIOUS
  <2>2. CASE Head(code[cur]) = Cli
    <3>1. if_flag[cur]
      BY <2>2, MaskFacts, OthersApart, Zenon DEF KInv
    <3>2. \E m \in Shared : code[cur] = <<Cli, Take(m), Give(m), Sti>>
      <4>1. Cli \in Steps(code[cur]) \cap ({Cli, Sti} \cup {Take(m) : m \in Shared})
        BY <1>2, <1>5, <2>2, Zenon
      <4>. QED BY <1>5, <3>1, <4>1, Zenon DEF KInv, MaskInv
    <3>. QED BY <1>5, <1>7, <2>1, <2>2, <3>2, Zenon
  <2>3. CASE Head(code[cur]) = Sti
    <3>1. Sti # Cli /\ \A m : Sti # Take(m) /\ Sti # Give(m)
      BY OthersApart, Zenon
    <3>2. ~Bare(code[cur])
      BY <1>2, <1>5, <2>3, Zenon DEF Bare
    <3>3. ~if_flag[cur]
      BY <1>1, <1>5, <2>3, <3>1, <3>2, MaskFacts, Zenon DEF KInv
    <3>. QED BY <1>5, <1>7, <2>3, <3>1, <3>3, MaskFacts, Zenon DEF KInv
  <2>. QED BY <1>3, <1>5, <2>2, <2>3, Zenon
<1>9. \A m \in Shared : holder[m] \notin Tasks
  <2>1. \A m : Give(m) # Cli /\ Give(m) # Sti
    BY GiveApart, Zenon
  <2>. QED BY <1>3, <1>5, <2>1, MaskFacts, Zenon DEF KInv
<1>10. TypeOK'
  BY <1>1, <1>6, <1>7, Zenon DEF KInv, TypeOK, Code
<1>11. HandlerInv'
  BY <1>1, <1>6, Zenon DEF KInv, HandlerInv
<1>12. CallsInv'
  <2>1. CallSteps' = CallSteps
    BY <1>1, Zenon DEF CallSteps
  <2>2. ASSUME NEW t \in Tasks PROVE Steps(code'[t]) \subseteq CallSteps
    <3>1. CASE t = cur
      BY <1>2, <1>5, <1>6, <3>1, Zenon DEF KInv, CallsInv
    <3>2. CASE t # cur
      BY <1>6, <3>2, Zenon DEF KInv, CallsInv
    <3>. QED BY <3>1, <3>2, Zenon
  <2>. QED BY <1>1, <1>6, <2>1, <2>2, Zenon DEF KInv, CallsInv
<1>13. MaskInv'
  <2>1. ASSUME NEW t \in Tasks, if_flag'[t]
        PROVE  \/ Steps(code'[t]) \cap ({Cli, Sti} \cup {Take(m) : m \in Shared}) = {}
               \/ \E m \in Shared : code'[t] = <<Cli, Take(m), Give(m), Sti>>
    <3>1. CASE t = cur
      <4>1. Steps(<<>>) = {}
        BY StepsShort, Zenon DEF AStep
      <4>. QED BY <1>6, <1>8, <2>1, <3>1, <4>1, Zenon
    <3>2. CASE t # cur
      <4>1. \/ Steps(code[t]) \cap ({Cli, Sti} \cup {Take(m) : m \in Shared}) = {}
            \/ \E m \in Shared : code[t] = <<Cli, Take(m), Give(m), Sti>>
        BY <1>7, <2>1, <3>2, Zenon DEF KInv, MaskInv
      <4>2. code'[t] = code[t]
        BY <1>6, <3>2, Zenon
      <4>. QED BY <4>1, <4>2, Zenon
    <3>. QED BY <3>1, <3>2, Zenon
  <2>2. ASSUME NEW t \in Tasks, ~if_flag'[t]
        PROVE  /\ t = cur' /\ irq' = "none"
               /\ \E m \in Shared : code'[t] \in {<<Take(m), Give(m), Sti>>, <<Give(m), Sti>>, <<Sti>>}
    <3>1. t = cur
      BY <1>7, <2>2, MaskFacts, Zenon DEF KInv
    <3>. QED BY <1>1, <1>4, <1>6, <1>8, <2>2, <3>1, Zenon
  <2>. QED BY <1>1, <1>9, <2>1, <2>2, Zenon DEF MaskInv
<1>14. SchedulerHolderRuns'
  BY <1>1, Zenon DEF KInv, SchedulerHolderRuns
<1>15. DeferInv'
  <2>1. DeferStep \notin Steps(code[cur])
    <3>1. \A l : DeferStep # Cli /\ DeferStep # Sti /\ Take(l) # Cli /\ Take(l) # Sti
      BY TakeApart, OthersApart, Zenon
    <3>. QED BY <1>3, <1>5, <3>1, ExitFacts, Zenon DEF KInv
  <2>2. DeferStep \notin Steps(code'[cur])
    BY <1>2, <1>5, <1>6, <2>1, Zenon
  <2>3. \A t \in Tasks : DeferStep \in Steps(code'[t]) => code'[t] = code[t]
    BY <1>6, <2>2, Zenon
  <2>. QED BY <1>1, <2>2, <2>3, Zenon DEF KInv, DeferInv
<1>. QED BY <1>10, <1>11, <1>12, <1>13, <1>14, <1>15, Zenon DEF KInv

\* A call keeps the invariant: the task has interrupts on, and nothing waits in
\* DEFERRED_FREE while it can still call.
LEMMA CallKeeps ==
  ASSUME KInv, NEW c \in TaskCalls, Call(c)
  PROVE  KInv'
<1>1. /\ c \in workload.calls /\ irq = "none" /\ code[cur] = <<>> /\ cur \notin exited
      /\ code' = [code EXCEPT ![cur] = Body(c)]
      /\ UNCHANGED <<holder, cur, irq, if_flag, pending, workload>>
  BY Zenon DEF Call
<1>2. exited' = IF c = "exit" THEN exited \cup {cur} ELSE exited
  BY Zenon DEF Call
<1>3. cur \in Tasks /\ cur # "handler"
  BY TasksAssumption, Zenon DEF KInv, TypeOK
<1>4. Body(c) \in Code
  BY BodySteps, Zenon
<1>5. /\ code' \in [Tasks \cup {"handler"} -> Code]
      /\ code'[cur] = Body(c)
      /\ code'["handler"] = code["handler"]
      /\ \A t \in Tasks : t # cur => code'[t] = code[t]
  BY <1>1, <1>3, <1>4, Moves, Zenon DEF KInv
<1>6. /\ exited' \subseteq Tasks /\ exited \subseteq exited'
      /\ c = "exit" => cur \in exited'
  BY <1>2, <1>3, Zenon DEF KInv, TypeOK
<1>7. if_flag[cur] /\ ~pending
  BY <1>1, MaskFacts, Zenon DEF KInv, DeferInv
<1>8. TypeOK'
  BY <1>1, <1>5, <1>6, Zenon DEF KInv, TypeOK, Code
<1>9. HandlerInv'
  BY <1>1, <1>5, Zenon DEF KInv, HandlerInv
<1>10. CallsInv'
  <2>1. CallSteps' = CallSteps
    BY <1>1, Zenon DEF CallSteps
  <2>2. Steps(Body(c)) \subseteq CallSteps
    BY <1>1, Zenon DEF CallSteps
  <2>3. ASSUME NEW t \in Tasks PROVE Steps(code'[t]) \subseteq CallSteps
    <3>1. CASE t = cur
      BY <1>5, <2>2, <3>1, Zenon
    <3>2. CASE t # cur
      BY <1>5, <3>2, Zenon DEF KInv, CallsInv
    <3>. QED BY <3>1, <3>2, Zenon
  <2>. QED BY <1>1, <1>5, <2>1, <2>3, Zenon DEF KInv, CallsInv
<1>11. MaskInv'
  <2>1. ASSUME NEW t \in Tasks, if_flag'[t]
        PROVE  \/ Steps(code'[t]) \cap ({Cli, Sti} \cup {Take(m) : m \in Shared}) = {}
               \/ \E m \in Shared : code'[t] = <<Cli, Take(m), Give(m), Sti>>
    <3>1. CASE t = cur
      <4>1. CASE c \in {"try_read_event", "buttons"}
        <5>1. "MOUSE_BUTTONS" \in Shared /\ "MOUSE_BUFFER" \in Shared
          BY Zenon DEF Shared
        <5>. QED BY <1>5, <3>1, <4>1, <5>1, BodyForms, Zenon
      <4>2. CASE c \notin {"try_read_event", "buttons"}
        BY <1>5, <3>1, <4>2, BodySteps, Zenon
      <4>. QED BY <4>1, <4>2, Zenon
    <3>2. CASE t # cur
      <4>1. \/ Steps(code[t]) \cap ({Cli, Sti} \cup {Take(m) : m \in Shared}) = {}
            \/ \E m \in Shared : code[t] = <<Cli, Take(m), Give(m), Sti>>
        BY <1>1, <2>1, Zenon DEF KInv, MaskInv
      <4>2. code'[t] = code[t]
        BY <1>5, <3>2, Zenon
      <4>. QED BY <4>1, <4>2, Zenon
    <3>. QED BY <3>1, <3>2, Zenon
  <2>2. \A t \in Tasks : if_flag'[t]
    BY <1>1, <1>7, MaskFacts, Zenon DEF KInv
  <2>3. \A m \in Shared : holder'[m] \notin Tasks
    BY <1>1, <1>7, MaskFacts, Zenon DEF KInv
  <2>. QED BY <2>1, <2>2, <2>3, Zenon DEF MaskInv
<1>12. SchedulerHolderRuns'
  BY <1>1, Zenon DEF KInv, SchedulerHolderRuns
<1>13. DeferInv'
  <2>1. ASSUME NEW t \in Tasks, DeferStep \in Steps(code'[t])
        PROVE  /\ t \in exited'
               /\ code'[t] \in {<<Take("SCHEDULER"), Take("DEFERRED_FREE"), DeferStep,
                                  Give("DEFERRED_FREE"), Give("SCHEDULER")>>,
                                <<Take("DEFERRED_FREE"), DeferStep, Give("DEFERRED_FREE"), Give("SCHEDULER")>>,
                                <<DeferStep, Give("DEFERRED_FREE"), Give("SCHEDULER")>>}
    <3>1. CASE t = cur
      <4>1. c = "exit"
        BY <1>5, <2>1, <3>1, BodySteps, Zenon
      <4>. QED BY <1>5, <1>6, <3>1, <4>1, BodyForms, Zenon
    <3>2. CASE t # cur
      BY <1>5, <1>6, <2>1, <3>2, Zenon DEF KInv, DeferInv
    <3>. QED BY <3>1, <3>2, Zenon
  <2>. QED BY <1>1, <1>7, <2>1, Zenon DEF DeferInv
<1>. QED BY <1>8, <1>9, <1>10, <1>11, <1>12, <1>13, Zenon DEF KInv

\* Where a handler starts: with a whole function, and no lock.
LEMMA HandlerStarts ==
  ASSUME NEW i \in Handlers, NEW p \in BOOLEAN
  PROVE  /\ Handler(i, p) \in Code
         /\ Holding(i, {}, Handler(i, p)) \in HandlerStates
         /\ Take("FRAME_ALLOCATOR") \in Steps(Handler(i, p)) => p
<1> DEFINE D == "DEFERRED_FREE"
           F == "FRAME_ALLOCATOR"
           E == "EXTENDED_KEY"
           M == "MODIFIERS"
           K == "KEY_BUFFER"
           P == "MOUSE_PACKET"
           B == "MOUSE_BUTTONS"
           R == "MOUSE_BUFFER"
<1>1. /\ Resume \in AStep
      /\ \A l \in {D, F, E, M, K, P, B, R} : Take(l) \in AStep /\ Give(l) \in AStep
  BY DEF AStep, Locks
<1>2. \A l \in {D, E, M, K, P, B, R} : Take(F) # Take(l)
  BY TakeApart
<1>3. Take(F) # Resume /\ \A l : Take(F) # Give(l)
  BY TakeApart, Zenon
<1>4. CASE i = "timer" /\ ~p
  <2>1. Handler(i, p) = <<Take(D), Give(D), Resume>>
    BY <1>4, HandlerForms, Zenon DEF Handler
  <2>2. <<Take(D), Give(D), Resume>> \in Code
    BY <1>1 DEF Code
  <2>3. ASSUME NEW s \in Steps(<<Take(D), Give(D), Resume>>) PROVE s # Take(F)
    <3>1. s \in {Take(D), Give(D), Resume}
      BY DEF Steps
    <3>. QED BY <1>2, <1>3, <3>1, Zenon
  <2>. QED BY <1>4, <2>1, <2>2, <2>3, Zenon DEF HandlerStates, TimerStates
<1>5. CASE i = "timer" /\ p
  <2>1. Handler(i, p) = <<Take(D), Take(F), Give(F), Give(D), Resume>>
    BY <1>5, HandlerForms, Zenon DEF Handler
  <2>2. <<Take(D), Take(F), Give(F), Give(D), Resume>> \in Code
    BY <1>1 DEF Code
  <2>. QED BY <1>5, <2>1, <2>2, Zenon DEF HandlerStates, TimerStates
<1>6. CASE i = "keyboard"
  <2> DEFINE c == <<Take(E), Give(E), Take(M), Give(M), Take(K), Give(K)>>
  <2>1. Handler(i, p) = c
    BY <1>6, HandlerForms DEF Handler
  <2>2. c \in Code
    BY <1>1 DEF Code
  <2>3. ASSUME NEW s \in Steps(c) PROVE s # Take(F)
    <3>1. s \in {Take(E), Give(E), Take(M), Give(M), Take(K), Give(K)}
      BY DEF Steps
    <3>. QED BY <1>2, <1>3, <3>1, Zenon
  <2>. QED BY <1>6, <2>1, <2>2, <2>3, Zenon DEF HandlerStates, KeyboardStates
<1>7. CASE i = "mouse"
  <2> DEFINE c == <<Take(P), Take(B), Give(B), Take(R), Give(R), Give(P)>>
  <2>1. Handler(i, p) = c
    BY <1>7, HandlerForms DEF Handler
  <2>2. c \in Code
    BY <1>1 DEF Code
  <2>3. ASSUME NEW s \in Steps(c) PROVE s # Take(F)
    <3>1. s \in {Take(P), Take(B), Give(B), Take(R), Give(R), Give(P)}
      BY DEF Steps
    <3>. QED BY <1>2, <1>3, <3>1, Zenon
  <2>. QED BY <1>7, <2>1, <2>2, <2>3, Zenon DEF HandlerStates, MouseStates
<1>. QED BY <1>4, <1>5, <1>6, <1>7, Zenon DEF Handlers

\* An interrupt keeps the invariant: it only hits a task with interrupts on,
\* which holds no lock that it shares with the mouse handler.
LEMMA InterruptKeeps ==
  ASSUME KInv, NEW i \in Handlers, Interrupt(i)
  PROVE  KInv'
<1> DEFINE c == Handler(i, pending)
<1>1. /\ irq = "none" /\ if_flag[cur] /\ irq' = i
      /\ code' = [code EXCEPT !["handler"] = c]
      /\ UNCHANGED <<holder, cur, if_flag, exited, workload>>
  BY Zenon DEF Interrupt
<1>2. pending \in BOOLEAN /\ cur \in Tasks
  BY Zenon DEF KInv, TypeOK
<1>3. pending' \in BOOLEAN /\ (pending' <=> pending /\ i # "timer")
  BY Zenon DEF Interrupt
<1>4. /\ c \in Code /\ Holding(i, {}, c) \in HandlerStates
      /\ Take("FRAME_ALLOCATOR") \in Steps(c) => pending
  BY <1>2, HandlerStarts, Zenon
<1>. HIDE DEF c
<1>5. /\ code' \in [Tasks \cup {"handler"} -> Code]
      /\ code'["handler"] = c
      /\ \A t \in Tasks : code'[t] = code[t]
  BY <1>1, <1>4, Moves, TasksAssumption, Zenon DEF KInv
<1>6. TypeOK'
  BY <1>1, <1>3, <1>5, Zenon DEF KInv, TypeOK, Code
<1>7. HandlerInv'
  <2>1. {l \in Locks : holder'[l] = "handler"} = {}
    BY <1>1, HandlerFacts, Zenon DEF KInv, Held
  <2>. QED BY <1>1, <1>4, <1>5, <2>1, Zenon DEF HandlerInv
<1>8. CallsInv'
  <2>1. CallSteps' = CallSteps
    BY <1>1, Zenon DEF CallSteps
  <2>. QED BY <1>1, <1>3, <1>4, <1>5, <2>1, Zenon DEF KInv, CallsInv
<1>9. MaskInv'
  <2>1. ASSUME NEW t \in Tasks
        PROVE  \/ Steps(code'[t]) \cap ({Cli, Sti} \cup {Take(m) : m \in Shared}) = {}
               \/ \E m \in Shared : code'[t] = <<Cli, Take(m), Give(m), Sti>>
    <3>1. if_flag[t]
      BY <1>1, MaskFacts, Zenon DEF KInv
    <3>2. \/ Steps(code[t]) \cap ({Cli, Sti} \cup {Take(m) : m \in Shared}) = {}
          \/ \E m \in Shared : code[t] = <<Cli, Take(m), Give(m), Sti>>
      BY <3>1, Zenon DEF KInv, MaskInv
    <3>3. code'[t] = code[t]
      BY <1>5, Zenon
    <3>. QED BY <3>2, <3>3, Zenon
  <2>2. \A t \in Tasks : if_flag'[t]
    BY <1>1, MaskFacts, Zenon DEF KInv
  <2>3. \A m \in Shared : holder'[m] \notin Tasks
    BY <1>1, MaskFacts, Zenon DEF KInv
  <2>. QED BY <2>1, <2>2, <2>3, Zenon DEF MaskInv
<1>10. SchedulerHolderRuns'
  BY <1>1, Zenon DEF KInv, SchedulerHolderRuns
<1>11. DeferInv'
  BY <1>1, <1>2, <1>3, <1>5, Zenon DEF KInv, DeferInv
<1>. QED BY <1>6, <1>7, <1>8, <1>9, <1>10, <1>11, Zenon DEF KInv

\* The end of a handler keeps the invariant, whether it returns to the task it
\* interrupted or, at a tick with SCHEDULER free, to another one.
LEMMA HandlerReturns ==
  ASSUME KInv, irq # "none", Held = {}, irq' = "none", cur' \in Tasks,
         code' = [code EXCEPT !["handler"] = <<>>],
         UNCHANGED <<holder, if_flag, pending, exited, workload>>,
         \/ cur' = cur
         \/ irq = "timer" /\ holder["SCHEDULER"] = "free"
  PROVE  KInv'
<1>1. /\ code' \in [Tasks \cup {"handler"} -> Code]
      /\ code'["handler"] = <<>>
      /\ \A t \in Tasks : code'[t] = code[t]
  <2>1. <<>> \in Code
    BY StepsShort, Zenon DEF AStep
  <2>. QED BY <2>1, Moves, TasksAssumption, Zenon DEF KInv
<1>2. cur \in Tasks /\ \A t \in Tasks : if_flag[t]
  BY MaskFacts, Zenon DEF KInv, TypeOK
<1>3. TypeOK'
  BY <1>1, Zenon DEF KInv, TypeOK, Code
<1>4. HandlerInv'
  BY <1>1, Zenon DEF HandlerInv, HandlerStates, Held
<1>5. CallsInv'
  <2>1. CallSteps' = CallSteps
    BY Zenon DEF CallSteps
  <2>2. Steps(<<>>) = {}
    BY StepsShort, Zenon DEF AStep
  <2>. QED BY <1>1, <2>1, <2>2, Zenon DEF KInv, CallsInv
<1>6. MaskInv'
  <2>1. ASSUME NEW t \in Tasks
        PROVE  \/ Steps(code'[t]) \cap ({Cli, Sti} \cup {Take(m) : m \in Shared}) = {}
               \/ \E m \in Shared : code'[t] = <<Cli, Take(m), Give(m), Sti>>
    <3>1. \/ Steps(code[t]) \cap ({Cli, Sti} \cup {Take(m) : m \in Shared}) = {}
          \/ \E m \in Shared : code[t] = <<Cli, Take(m), Give(m), Sti>>
      BY <1>2, Zenon DEF KInv, MaskInv
    <3>2. code'[t] = code[t]
      BY <1>1, Zenon
    <3>. QED BY <3>1, <3>2, Zenon
  <2>2. \A t \in Tasks : if_flag'[t]
    BY <1>2, Zenon
  <2>3. \A m \in Shared : holder'[m] \notin Tasks
    BY <1>2, MaskFacts, Zenon DEF KInv
  <2>. QED BY <2>1, <2>2, <2>3, Zenon DEF MaskInv
<1>7. SchedulerHolderRuns'
  BY Zenon DEF KInv, SchedulerHolderRuns
<1>8. DeferInv'
  <2>1. pending => cur' = cur
    BY Zenon DEF KInv, DeferInv
  <2>2. irq' # "timer"
    OBVIOUS
  <2>. QED BY <1>1, <1>2, <2>1, <2>2, Zenon DEF KInv, DeferInv
<1>. QED BY <1>3, <1>4, <1>5, <1>6, <1>7, <1>8, Zenon DEF KInv

\* Only the timer handler gets to the scheduler, and it holds nothing there.
LEMMA AtResched ==
  ASSUME KInv, AtStep("resched")
  PROVE  irq = "timer" /\ Held = {} /\ Who = "handler" /\ Tail(code[Who]) = <<>>
<1>1. code[Who] # <<>> /\ Head(code[Who])[1] = "resched"
  BY Zenon DEF AtStep
<1>2. Head(code[Who]) = Resume /\ Head(code[Who]) \in Steps(code[Who])
  BY <1>1, NextStep, Kinds, Zenon DEF KInv
<1>3. irq # "none"
  <2>1. ASSUME irq = "none" PROVE FALSE
    <3>1. Who = cur /\ cur \in Tasks
      BY <2>1, Zenon DEF Who, KInv, TypeOK
    <3>. QED BY <1>2, <3>1, TaskSteps, Zenon DEF KInv
  <2>. QED BY <2>1, Zenon
<1>4. Who = "handler"
  BY <1>3, Zenon DEF Who
<1>5. \A l : Resume # Take(l) /\ Resume # Give(l)
  BY OthersApart, Zenon
<1>. QED BY <1>1, <1>2, <1>4, <1>5, HandlerFacts, Zenon DEF KInv

\* A tick keeps the invariant, with and without a switch.
LEMMA ReschedKeeps ==
  ASSUME KInv, ReschedSkipped \/ \E t \in Tasks : Resched(t)
  PROVE  KInv'
<1>1. cur \in Tasks
  BY Zenon DEF KInv, TypeOK
<1>2. ASSUME NEW t \in Tasks, Resched(t) PROVE KInv'
  <2>1. /\ AtStep("resched") /\ holder["SCHEDULER"] = "free" /\ cur' = t /\ irq' = "none"
        /\ code' = [code EXCEPT ![Who] = Tail(code[Who])]
        /\ UNCHANGED <<holder, if_flag, pending, exited, workload>>
    BY <1>2 DEF Resched, Advance
  <2>2. irq = "timer" /\ irq # "none" /\ Held = {} /\ Who = "handler" /\ Tail(code[Who]) = <<>>
    <3>1. irq = "timer" => irq # "none"
      OBVIOUS
    <3>. QED BY <2>1, <3>1, AtResched, Zenon
  <2>. QED BY <2>1, <2>2, HandlerReturns, Zenon
<1>3. ASSUME ReschedSkipped PROVE KInv'
  <2>1. /\ AtStep("resched") /\ cur' = cur /\ irq' = "none"
        /\ code' = [code EXCEPT ![Who] = Tail(code[Who])]
        /\ UNCHANGED <<holder, if_flag, pending, exited, workload>>
    BY <1>3 DEF ReschedSkipped, Advance
  <2>2. irq # "none" /\ Held = {} /\ Who = "handler" /\ Tail(code[Who]) = <<>>
    <3>1. irq = "timer" => irq # "none"
      OBVIOUS
    <3>. QED BY <2>1, <3>1, AtResched, Zenon
  <2>. QED BY <1>1, <2>1, <2>2, HandlerReturns, Zenon
<1>. QED BY <1>2, <1>3, Zenon

\* The return from the other handlers keeps the invariant.
LEMMA IretKeeps ==
  ASSUME KInv, Iret
  PROVE  KInv'
<1>1. /\ irq # "none" /\ code["handler"] = <<>> /\ irq' = "none" /\ cur' = cur
      /\ code' = code
      /\ UNCHANGED <<holder, if_flag, pending, exited, workload>>
  BY Zenon DEF Iret
<1>2. cur \in Tasks /\ Held = {}
  BY <1>1, HandlerFacts, Zenon DEF KInv, TypeOK
<1>3. code' = [code EXCEPT !["handler"] = <<>>]
  <2>1. code \in [Tasks \cup {"handler"} -> Code]
    BY Zenon DEF KInv, TypeOK, Code
  <2>. QED BY <1>1, <2>1
<1>. QED BY <1>1, <1>2, <1>3, HandlerReturns, Zenon

-----------------------------------------------------------------------------
(* Theorems                                                                *)

\* The kernel starts with no call under way and every lock free.
LEMMA InitKeeps ==
  ASSUME Init
  PROVE  KInv
<1>1. /\ code \in [Tasks \cup {"handler"} -> Code]
      /\ \A x \in Tasks \cup {"handler"} : code[x] = <<>>
  <2>1. <<>> \in Code
    BY StepsShort, Zenon DEF AStep
  <2>. QED BY <2>1, Zenon DEF Init
<1>2. holder \in [Locks -> Tasks \cup {"handler", "free"}] /\ \A l \in Locks : holder[l] = "free"
  BY Zenon DEF Init
<1>3. if_flag \in [Tasks -> BOOLEAN] /\ \A t \in Tasks : if_flag[t]
  BY Zenon DEF Init
<1>4. TypeOK
  BY <1>1, <1>2, <1>3, Zenon DEF Init, TypeOK, Code
<1>5. HandlerInv
  <2>1. {l \in Locks : holder[l] = "handler"} = {}
    <3>1. "free" # "handler"
      OBVIOUS
    <3>. QED BY <1>2, <3>1, Zenon
  <2>2. code["handler"] = <<>> /\ irq = "none"
    BY <1>1, Zenon DEF Init
  <2>. QED BY <2>1, <2>2, Zenon DEF HandlerInv, HandlerStates
<1>6. Steps(<<>>) = {}
  BY StepsShort, Zenon DEF AStep
<1>7. \A l \in Locks : holder[l] \notin Tasks
  BY <1>2, TasksAssumption, Zenon
<1>8. CallsInv
  BY <1>1, <1>6, <1>7, Zenon DEF Init, CallsInv
<1>9. MaskInv
  <2>1. Shared \subseteq Locks
    BY DEF Shared, Locks
  <2>. QED BY <1>1, <1>3, <1>6, <1>7, <2>1, Zenon DEF MaskInv
<1>10. SchedulerHolderRuns
  <2>1. "SCHEDULER" \in Locks
    BY DEF Locks
  <2>. QED BY <1>2, <2>1, Zenon DEF SchedulerHolderRuns
<1>11. DeferInv
  BY <1>1, <1>6, Zenon DEF Init, DeferInv
<1>. QED BY <1>4, <1>5, <1>8, <1>9, <1>10, <1>11, Zenon DEF KInv

\* Every step of the kernel keeps the invariant.
LEMMA NextKeeps ==
  ASSUME KInv, [Next]_vars
  PROVE  KInv'
<1>1. CASE UNCHANGED vars
  <2>1. UNCHANGED <<code, holder, cur, irq, if_flag, pending, exited, workload>>
    BY <1>1, Zenon DEF vars
  <2>2. TypeOK' /\ HandlerInv' /\ SchedulerHolderRuns'
    BY <2>1, Zenon DEF KInv, TypeOK, HandlerInv, SchedulerHolderRuns
  <2>3. CallSteps' = CallSteps
    BY <2>1, Zenon DEF CallSteps
  <2>4. CallsInv'
    BY <2>1, <2>3, Zenon DEF KInv, CallsInv
  <2>5. MaskInv'
    BY <2>1, Zenon DEF KInv, MaskInv
  <2>6. DeferInv'
    BY <2>1, Zenon DEF KInv, DeferInv
  <2>. QED BY <2>2, <2>4, <2>5, <2>6, Zenon DEF KInv
<1>2. CASE Step
  BY <1>2, AcquireKeeps, TryAcquireKeeps, ReleaseKeeps, MaskKeeps, DeferKeeps, Zenon DEF Step
<1>. QED BY <1>1, <1>2, CallKeeps, InterruptKeeps, ReschedKeeps, IretKeeps, Zenon DEF Next

\* A step of a call is a step of one of the calls the tasks make.
LEMMA CalledFrom ==
  ASSUME NEW s \in CallSteps
  PROVE  \E c \in TaskCalls : c \in workload.calls /\ s \in Steps(Body(c))
  BY Zenon DEF CallSteps

\* No handler finds a lock taken unless some task reads a key or exits.
LEMMA HandlersPass ==
  ASSUME KInv
  PROVE  OthersNeverStopHandlers
<1>. SUFFICES ASSUME ~Calling({"read_key", "exit"}), irq # "none", Spinning("handler")
              PROVE  FALSE
  BY Zenon DEF OthersNeverStopHandlers, HandlersNeverSpin
<1> DEFINE s == Head(code["handler"])
           l == s[2]
<1>1. code["handler"] # <<>> /\ s[1] = "lock" /\ holder[l] # "free"
  BY Zenon DEF Spinning
<1>2. s \in AStep /\ s \in Steps(code["handler"])
  <2>1. code["handler"] \in Code
    BY Zenon DEF KInv, TypeOK, Code
  <2>. QED BY <1>1, <2>1, StepsTail, Zenon
<1>3. l \in Locks /\ s = Take(l)
  BY <1>1, <1>2, Kinds, Zenon
<1>4. l \in HandlerLocks /\ l \notin Held
  <2>1. PICK m \in Locks : m \in HandlerLocks /\ m \notin Held /\ Take(l) = Take(m)
    BY <1>1, <1>3, HandlerFacts, TakeApart, Zenon DEF KInv
  <2>2. l = m
    BY <2>1, TakeApart, Zenon
  <2>. QED BY <2>1, <2>2, Zenon
<1>. HIDE DEF s, l
<1>5. holder[l] \in Tasks
  BY <1>1, <1>3, <1>4, Zenon DEF KInv, TypeOK, Held
<1>6. ASSUME NEW c \in TaskCalls, c \in workload.calls PROVE c \notin {"read_key", "exit"}
  BY <1>6, Zenon DEF Calling
<1>7. DeferStep \notin CallSteps
  BY <1>6, CalledFrom, BodySteps, Zenon
<1>8. l \notin {"DEFERRED_FREE", "EXTENDED_KEY", "MODIFIERS", "KEY_BUFFER", "MOUSE_PACKET"}
  <2>1. Take(l) \in CallSteps \/ Try(l) \in CallSteps
    BY <1>3, <1>5, Zenon DEF KInv, CallsInv
  <2>2. CASE Take(l) \in CallSteps
    BY <1>6, <2>2, CalledFrom, BodySteps, Zenon
  <2>3. CASE Try(l) \in CallSteps
    <3>1. l = "LOG_RING"
      BY <2>3, CalledFrom, BodySteps, Zenon
    <3>. QED BY <3>1
  <2>. QED BY <2>1, <2>2, <2>3, Zenon
<1>9. l # "FRAME_ALLOCATOR"
  BY <1>2, <1>3, <1>7, Zenon DEF KInv, CallsInv
<1>10. l \notin Shared
  BY <1>5, MaskFacts, Zenon DEF KInv, TypeOK
<1>. QED BY <1>4, <1>8, <1>9, <1>10, Zenon DEF HandlerLocks, Shared

\* A spinning task can be preempted unless some task takes SCHEDULER.
LEMMA SpinnersYield ==
  ASSUME KInv
  PROVE  SpinnersPreemptible
<1>. SUFFICES ASSUME ~Calling(SchedulerCalls), irq = "none", Spinning(cur)
              PROVE  if_flag[cur] /\ holder["SCHEDULER"] = "free"
  BY Zenon DEF SpinnersPreemptible
<1> DEFINE s == Head(code[cur])
           l == s[2]
<1>1. cur \in Tasks /\ code[cur] # <<>> /\ s[1] = "lock" /\ holder[l] # "free"
  BY Zenon DEF Spinning, KInv, TypeOK
<1>2. s \in AStep
  <2>1. code[cur] \in Code
    BY <1>1, Zenon DEF KInv, TypeOK, Code
  <2>. QED BY <1>1, <2>1, StepsTail, Zenon
<1>3. l \in Locks /\ s = Take(l)
  BY <1>1, <1>2, Kinds, Zenon
<1>4. holder[l] \in Tasks
  BY <1>1, <1>3, HandlerFacts, Zenon DEF KInv, TypeOK, Held
<1>5. if_flag[cur]
  <2>1. ASSUME ~if_flag[cur] PROVE FALSE
    <3>1. \A m : Take(l) # Give(m) /\ Take(l) # Sti /\ (Take(l) = Take(m) => l = m)
      BY TakeApart, Zenon
    <3>2. l \in Shared
      BY <1>3, <2>1, <3>1, MaskFacts, Zenon DEF KInv
    <3>. QED BY <1>3, <1>4, <3>1, <3>2, MaskFacts, Zenon DEF KInv
  <2>. QED BY <2>1, Zenon
<1>6. holder["SCHEDULER"] = "free"
  <2>1. ASSUME holder["SCHEDULER"] # "free" PROVE FALSE
    <3>1. "SCHEDULER" \in Locks /\ "SCHEDULER" # "LOG_RING"
      BY DEF Locks
    <3>2. holder["SCHEDULER"] \in Tasks
      BY <1>1, <2>1, Zenon DEF KInv, SchedulerHolderRuns
    <3>3. Take("SCHEDULER") \in CallSteps \/ Try("SCHEDULER") \in CallSteps
      BY <3>1, <3>2, Zenon DEF KInv, CallsInv
    <3>4. \E c \in SchedulerCalls : c \in workload.calls
      BY <3>1, <3>3, CalledFrom, BodySteps, Zenon
    <3>. QED BY <3>4, Zenon DEF Calling
  <2>. QED BY <2>1, Zenon
<1>. QED BY <1>5, <1>6, Zenon

\* For any tasks and any mix of calls and interrupts: handlers never find one
\* of their locks taken unless some task reads a key or exits; a spinning task
\* can be preempted unless some task takes SCHEDULER; and the holder of
\* SCHEDULER stays on the CPU.
THEOREM LocksAreSound == Spec => []LocksSound
<1>1. Init => KInv
  BY InitKeeps, Zenon
<1>2. KInv /\ [Next]_vars => KInv'
  BY NextKeeps, Zenon
<1>3. KInv => LocksSound
  BY HandlersPass, SpinnersYield, Zenon DEF KInv, LocksSound
<1>. QED BY <1>1, <1>2, <1>3, PTL DEF Spec

\* exit_current_task never overwrites a stack that waits in DEFERRED_FREE, with
\* any number of tasks exiting.
THEOREM DeferredKept == Spec => DeferredNeverOverwritten
<1>1. Init => KInv
  BY InitKeeps, Zenon
<1>2. KInv /\ [Next]_vars => KInv'
  BY NextKeeps, Zenon
<1>3. KInv /\ [Next]_vars => [Defer => ~pending]_vars
  BY DeferKeeps, Zenon
<1>. QED BY <1>1, <1>2, <1>3, PTL DEF Spec, DeferredNeverOverwritten
=============================================================================
