---------------------------- MODULE NetworkProofs ----------------------------
(***************************************************************************)
(* The network stack of module Network: the cache, the echo requests and   *)
(* the waits are faithful for any hosts, any cache and queue size, any     *)
(* number of attempts and any frames the wire may bring.                   *)
(***************************************************************************)
EXTENDS Network, FiniteSetTheorems, TLAPS

-----------------------------------------------------------------------------
(* The ARP cache                                                           *)

Places == 1..ARP_CACHE_SIZE
Entry(ip, mac) == [valid |-> TRUE, ip |-> ip, mac |-> mac]
Entries(l) == {Entry(h, l[h]) : h \in Local}

\* The entries of the cache: what their hosts announced last, one per host;
\* and a host that announced itself is there unless no place was left.
CacheOK(c, l) ==
    /\ c \in [Places -> Entries(l) \cup {Invalid}]
    /\ \A i, j \in Places : c[i].valid /\ c[j].valid /\ c[i].ip = c[j].ip => i = j
    /\ \A h \in Local : l[h] # None => \/ \E i \in Places : c[i].valid /\ c[i].ip = h
                                       \/ \A i \in Places : c[i] # Invalid

\* An entry is what it looks like.
LEMMA EntryIs ==
  ASSUME NEW ip, NEW mac
  PROVE  Entry(ip, mac).valid /\ Entry(ip, mac).ip = ip /\ Entry(ip, mac).mac = mac
BY DEF Entry

\* An entry of the cache is a host's last announcement or invalid.
LEMMA CacheEntry ==
  ASSUME NEW c, NEW l, CacheOK(c, l), NEW i \in Places
  PROVE  /\ c[i].valid => c[i].ip \in Local /\ c[i].mac = l[c[i].ip] /\ c[i] = Entry(c[i].ip, l[c[i].ip])
         /\ ~c[i].valid <=> c[i] = Invalid
<1>1. c[i] \in Entries(l) \cup {Invalid}
  BY Zenon DEF CacheOK
<1>2. CASE c[i] = Invalid
  <2>1. ~Invalid.valid
    BY DEF Invalid
  <2>. QED BY <1>2, <2>1, Zenon
<1>3. ASSUME NEW h \in Local, c[i] = Entry(h, l[h])
      PROVE  /\ c[i].valid /\ c[i].ip = h /\ c[i].mac = l[h] /\ c[i] # Invalid
  <2>1. c[i].valid /\ c[i].ip = h /\ c[i].mac = l[h]
    BY <1>3 DEF Entry
  <2>2. ~Invalid.valid
    BY DEF Invalid
  <2>. QED BY <2>1, <2>2, Zenon
<1>. QED BY <1>1, <1>2, <1>3, Zenon DEF Entries

\* A valid entry names its host and what the host announced last.
LEMMA ValidEntry ==
  ASSUME NEW c, NEW l, CacheOK(c, l), NEW i \in Places, c[i].valid
  PROVE  c[i].ip \in Local /\ c[i].mac = l[c[i].ip] /\ c[i] = Entry(c[i].ip, l[c[i].ip])
BY CacheEntry

\* lookup finds the entry of a host.
LEMMA LookupIs ==
  ASSUME NEW c, NEW l, CacheOK(c, l), NEW h \in Local
  PROVE  /\ (\E i \in Places : c[i].valid /\ c[i].ip = h) => lookup(c, h) = l[h]
         /\ ~(\E i \in Places : c[i].valid /\ c[i].ip = h) => lookup(c, h) = None
<1> DEFINE P(i) == c[i].valid /\ c[i].ip = h
           First(i) == /\ c[i].valid /\ c[i].ip = h
                       /\ \A j \in 1..(i - 1) : ~(c[j].valid /\ c[j].ip = h)
<1>1. DOMAIN c = Places
  BY Zenon DEF CacheOK
<1>2. lookup(c, h) = IF \E i \in DOMAIN c : P(i) THEN c[CHOOSE i \in DOMAIN c : First(i)].mac ELSE None
  BY Zenon DEF lookup
<1>3. ASSUME NEW i \in Places, P(i) PROVE lookup(c, h) = l[h]
  <2>1. First(i)
    <3>1. ASSUME NEW j \in 1..(i - 1), P(j) PROVE FALSE
      <4>1. j \in Places /\ j # i
        BY NetworkAssumption DEF Places
      <4>. QED BY <1>3, <3>1, <4>1, Zenon DEF CacheOK
    <3>. QED BY <1>3, <3>1, Zenon
  <2>2. PICK k : k = CHOOSE x \in DOMAIN c : First(x)
    OBVIOUS
  <2>3. k \in Places /\ First(k)
    <3> HIDE DEF First
    <3>. QED BY <1>1, <2>1, <2>2, Zenon
  <2>4. lookup(c, h) = c[k].mac
    <3> HIDE DEF First
    <3>. QED BY <1>1, <1>2, <1>3, <2>2, Zenon
  <2>5. c[k].mac = l[c[k].ip]
    BY <2>3, ValidEntry, Zenon
  <2>. QED BY <2>3, <2>4, <2>5, Zenon
<1>4. ~(\E i \in DOMAIN c : P(i)) => lookup(c, h) = None
  <2> HIDE DEF First, P
  <2>. QED BY <1>2, Zenon
<1>. QED BY <1>1, <1>3, <1>4, Zenon

\* Among natural numbers there is a least one.
LEMMA LeastNat ==
  ASSUME NEW T \in SUBSET Nat, T # {}
  PROVE  \E m \in T : \A n \in T : m <= n
<1>1. PICK m \in T : \A n \in T : ~(<<n, m>> \in OpToRel(<, Nat))
  BY WFMin, NatLessThanWellFounded, Zenon
<1>2. ASSUME NEW n \in T PROVE m <= n
  <2>1. ~(<<n, m>> \in OpToRel(<, Nat))
    BY <1>1, Zenon
  <2>2. n \in Nat /\ m \in Nat
    OBVIOUS
  <2>. QED BY <2>1, <2>2 DEF OpToRel
<1>. QED BY <1>2, Zenon

\* insert writes the host's own place, else a free one, else the first.
LEMMA SlotIs ==
  ASSUME NEW c, NEW l, CacheOK(c, l), NEW h
  PROVE  /\ Slot(c, h) \in Places
         /\ (\E i \in Places : c[i].valid /\ c[i].ip = h) => c[Slot(c, h)].valid /\ c[Slot(c, h)].ip = h
         /\ (\A i \in Places : ~(c[i].valid /\ c[i].ip = h)) /\ (\E i \in Places : ~c[i].valid)
                => ~c[Slot(c, h)].valid
<1> DEFINE mine == {i \in DOMAIN c : c[i].valid /\ c[i].ip = h}
           free == {i \in DOMAIN c : ~c[i].valid}
           ours == IF mine # {} THEN mine ELSE free
           Least(i) == \A j \in ours : i <= j
<1>1. DOMAIN c = Places
  BY Zenon DEF CacheOK
<1>2. Slot(c, h) = IF ours # {} THEN CHOOSE i \in ours : Least(i) ELSE 1
  BY Zenon DEF Slot
<1>3. ours \subseteq Places /\ 1 \in Places /\ Places \subseteq Nat
  <2>1. ours \subseteq Places
    BY <1>1, Zenon
  <2>. QED BY <2>1, NetworkAssumption DEF Places
<1>4. ASSUME ours # {} PROVE Slot(c, h) \in ours
  <2>1. \E i \in ours : Least(i)
    <3>1. ours \in SUBSET Nat
      BY <1>3, Zenon
    <3> HIDE DEF ours
    <3>. QED BY <1>4, <3>1, LeastNat, Zenon
  <2> HIDE DEF ours, Least
  <2>. QED BY <1>2, <1>4, <2>1, Zenon
<1>5. ours = {} => Slot(c, h) = 1
  <2> HIDE DEF ours
  <2>. QED BY <1>2, Zenon
<1>6. Slot(c, h) \in Places
  <2> HIDE DEF ours
  <2>. QED BY <1>3, <1>4, <1>5, Zenon
<1>7. mine # {} => Slot(c, h) \in mine
  BY <1>4, Zenon
<1>8. mine = {} /\ free # {} => Slot(c, h) \in free
  BY <1>4, Zenon
<1>. QED BY <1>1, <1>6, <1>7, <1>8, Zenon

\* What insert leaves: the announced mapping, and no older one.
LEMMA InsertKeeps ==
  ASSUME NEW c, NEW l, DOMAIN l = Local, CacheOK(c, l), NEW h \in Local, NEW mac
  PROVE  CacheOK(insert(c, h, mac), [l EXCEPT ![h] = mac])
<1> DEFINE k == Slot(c, h)
           d == insert(c, h, mac)
           m == [l EXCEPT ![h] = mac]
           Had == \E i \in Places : c[i].valid /\ c[i].ip = h
<1>1. DOMAIN c = Places
  BY Zenon DEF CacheOK
<1>2. k \in Places
  BY SlotIs, Zenon
<1>3. Had => c[k].valid /\ c[k].ip = h
  BY SlotIs, Zenon
<1>4. ~Had /\ (\E i \in Places : ~c[i].valid) => ~c[k].valid
  BY SlotIs, Zenon
<1>5. m[h] = mac /\ \A g \in Local : g # h => m[g] = l[g]
  OBVIOUS
<1>6. d = [c EXCEPT ![k] = Entry(h, mac)]
  BY DEF insert, Entry
<1> HIDE DEF k, m, d
<1>7. d[k] = Entry(h, mac) /\ DOMAIN d = Places /\ d = [i \in Places |-> d[i]]
  BY <1>1, <1>2, <1>6
<1>8. \A i \in Places : i # k => d[i] = c[i]
  BY <1>1, <1>2, <1>6
<1>9. d[k].valid /\ d[k].ip = h
  BY <1>7 DEF Entry
<1>10. \A i \in Places : i # k /\ d[i].valid => d[i].ip # h
  <2>1. SUFFICES ASSUME NEW i \in Places, i # k, c[i].valid, c[i].ip = h PROVE FALSE
    BY <1>8, Zenon
  <2>2. c[k].valid /\ c[k].ip = h
    BY <1>3, <2>1, Zenon
  <2>. QED BY <1>2, <2>1, <2>2, Zenon DEF CacheOK
<1>11. d \in [Places -> Entries(m) \cup {Invalid}]
  <2>1. ASSUME NEW i \in Places PROVE d[i] \in Entries(m) \cup {Invalid}
    <3>1. CASE i = k
      BY <1>5, <1>7, <3>1, Zenon DEF Entries
    <3>2. CASE i # k /\ c[i].valid
      <4>1. c[i].ip \in Local /\ c[i] = Entry(c[i].ip, l[c[i].ip])
        BY <3>2, ValidEntry
      <4>2. c[i].ip # h
        BY <1>8, <1>10, <3>2, Zenon
      <4>. QED BY <1>5, <1>8, <3>2, <4>1, <4>2, Zenon DEF Entries
    <3>3. CASE i # k /\ ~c[i].valid
      <4>1. c[i] = Invalid
        BY <3>3, CacheEntry, Zenon
      <4>. QED BY <1>8, <3>3, <4>1, Zenon
    <3>. QED BY <3>1, <3>2, <3>3, Zenon
  <2>. QED BY <1>7, <2>1, Zenon
<1>12. \A i, j \in Places : d[i].valid /\ d[j].valid /\ d[i].ip = d[j].ip => i = j
  BY <1>8, <1>9, <1>10, Zenon DEF CacheOK
<1>13. ASSUME NEW g \in Local, m[g] # None
       PROVE  (\E i \in Places : d[i].valid /\ d[i].ip = g) \/ \A i \in Places : d[i] # Invalid
  <2>1. CASE g = h
    BY <1>2, <1>9, <2>1, Zenon
  <2>2. CASE g # h /\ \A i \in Places : c[i] # Invalid
    <3>1. d[k] # Invalid
      <4>1. ~Invalid.valid
        BY DEF Invalid
      <4>. QED BY <1>9, <4>1, Zenon
    <3>. QED BY <1>8, <2>2, <3>1, Zenon
  <2>3. CASE g # h /\ ~(\A i \in Places : c[i] # Invalid)
    <3>1. l[g] # None
      BY <1>5, <1>13, <2>3, Zenon
    <3>2. PICK i \in Places : c[i].valid /\ c[i].ip = g
      BY <2>3, <3>1, Zenon DEF CacheOK
    <3>3. \E j \in Places : ~c[j].valid
      BY <2>3, CacheEntry, Zenon
    <3>4. i # k
      BY <1>3, <1>4, <2>3, <3>2, <3>3, Zenon
    <3>. QED BY <1>8, <3>2, <3>4, Zenon
  <2>. QED BY <2>1, <2>2, <2>3, Zenon
<1>14. CacheOK(d, m)
  BY <1>11, <1>12, <1>13, Zenon DEF CacheOK
<1>. QED BY <1>14, Zenon DEF d, m

-----------------------------------------------------------------------------
(* The stack of activations                                                *)

\* An element in front of a sequence.
LEMMA PushIs ==
  ASSUME NEW A, NEW s \in Seq(A), NEW r \in A
  PROVE  /\ <<r>> \o s \in Seq(A) /\ Len(<<r>> \o s) = Len(s) + 1 /\ (<<r>> \o s)[1] = r
         /\ \A k \in 1..Len(s) : (<<r>> \o s)[k + 1] = s[k]
OBVIOUS

\* A sequence without its first element.
LEMMA TailIs ==
  ASSUME NEW A, NEW s \in Seq(A), s # <<>>
  PROVE  /\ Tail(s) \in Seq(A) /\ Len(Tail(s)) = Len(s) - 1 /\ Len(s) >= 1
         /\ Head(s) = s[1] /\ Head(s) \in A
         /\ \A k \in 1..Len(Tail(s)) : Tail(s)[k] = s[k + 1]
OBVIOUS

\* A sequence is its head in front of its tail.
LEMMA HeadTail ==
  ASSUME NEW A, NEW s \in Seq(A), s # <<>>
  PROVE  s = <<Head(s)>> \o Tail(s)
OBVIOUS

\* The replies to h that wait on a stack.
IsReply(r, h) == r.f = "resolve" /\ r.dst = h /\ r.pkt = "echo_reply"
Replies(s, h) == {k \in DOMAIN s : IsReply(s[k], h)}
Count(s, h) == Cardinality(Replies(s, h))

\* The replies on a stack are finitely many.
LEMMA CountType ==
  ASSUME NEW A, NEW s \in Seq(A), NEW h
  PROVE  IsFiniteSet(Replies(s, h)) /\ Count(s, h) \in Nat
<1>1. Len(s) \in Nat /\ DOMAIN s = 1..Len(s)
  OBVIOUS
<1>2. IsFiniteSet(1..Len(s))
  <2>1. 1 \in Int /\ Len(s) \in Int
    BY <1>1
  <2>. QED BY <2>1, FS_Interval, Zenon
<1>3. Replies(s, h) \subseteq 1..Len(s)
  BY <1>1, Zenon DEF Replies
<1>4. IsFiniteSet(Replies(s, h))
  BY <1>2, <1>3, FS_Subset, Zenon
<1>5. Cardinality(Replies(s, h)) \in Nat
  BY <1>4, FS_CardinalityType, Zenon
<1>. QED BY <1>4, <1>5, Zenon DEF Count

\* Pushing an activation counts when it is a reply to h.
LEMMA CountPush ==
  ASSUME NEW A, NEW s \in Seq(A), NEW r \in A, NEW h
  PROVE  Count(<<r>> \o s, h) = Count(s, h) + (IF IsReply(r, h) THEN 1 ELSE 0)
<1> DEFINE p == <<r>> \o s
           S == Replies(s, h)
           T == {k + 1 : k \in S}
           f == [k \in S |-> k + 1]
<1>1. p \in Seq(A) /\ Len(p) = Len(s) + 1 /\ p[1] = r /\ DOMAIN p = 1..Len(p)
      /\ Len(s) \in Nat /\ DOMAIN s = 1..Len(s)
  BY PushIs
<1>2. \A k \in 1..Len(s) : p[k + 1] = s[k]
  BY PushIs
<1> HIDE DEF p
<1>3. IsFiniteSet(S)
  BY CountType, Zenon
<1>4. S \subseteq 1..Len(s) /\ S \subseteq Nat
  <2>1. S \subseteq 1..Len(s)
    BY <1>1, Zenon DEF Replies
  <2>. QED BY <2>1
<1>5. IsFiniteSet(T) /\ Cardinality(T) = Cardinality(S)
  <2>1. f \in Bijection(S, T)
    <3>1. f \in [S -> T]
      BY Zenon
    <3>2. \A a, b \in S : f[a] = f[b] => a = b
      <4> HIDE DEF S
      <4>. QED BY <1>4
    <3>3. \A t \in T : \E a \in S : f[a] = t
      BY Zenon
    <3> HIDE DEF f, T, S
    <3>. QED BY <3>1, <3>2, <3>3, Zenon DEF Bijection, Injection, Surjection, IsInjective
  <2>2. ExistsBijection(S, T)
    BY <2>1, Zenon DEF ExistsBijection
  <2> HIDE DEF S, T
  <2>. QED BY <1>3, <2>2, FS_Bijection, Zenon
<1>6. 1 \notin T
  <2> HIDE DEF S
  <2>. QED BY <1>4
<1>7. \A k \in DOMAIN p : k # 1 => k - 1 \in 1..Len(s) /\ (k - 1) + 1 = k /\ p[k] = s[k - 1]
  BY <1>1, <1>2
<1>8. \A k \in 1..Len(s) : k + 1 \in DOMAIN p /\ k + 1 # 1
  BY <1>1
<1>9. \A k : k \in T <=> k \in Replies(p, h) /\ k # 1
  <2>1. ASSUME NEW k \in T PROVE k \in Replies(p, h) /\ k # 1
    <3>1. PICK j \in S : k = j + 1
      BY <2>1, Zenon
    <3>2. j \in 1..Len(s) /\ IsReply(s[j], h)
      BY <1>1, <3>1, Zenon DEF Replies
    <3>. QED BY <1>2, <1>8, <3>1, <3>2, Zenon DEF Replies
  <2>2. ASSUME NEW k, k \in Replies(p, h), k # 1 PROVE k \in T
    <3>1. k \in DOMAIN p /\ IsReply(p[k], h)
      BY <2>2, Zenon DEF Replies
    <3>2. k - 1 \in 1..Len(s) /\ (k - 1) + 1 = k /\ p[k] = s[k - 1]
      BY <1>7, <2>2, <3>1, Zenon
    <3>3. k - 1 \in S
      BY <1>1, <3>1, <3>2, Zenon DEF Replies
    <3>. QED BY <3>2, <3>3, Zenon
  <2>. QED BY <2>1, <2>2, Zenon
<1>10. 1 \in DOMAIN p
  BY <1>1
<1>11. CASE IsReply(r, h)
  <2>1. Replies(p, h) = T \cup {1}
    <3>1. 1 \in Replies(p, h)
      BY <1>1, <1>10, <1>11, Zenon DEF Replies
    <3> HIDE DEF T
    <3>. QED BY <1>9, <3>1, Zenon
  <2> HIDE DEF T
  <2>2. Cardinality(T \cup {1}) = Cardinality(T) + 1
    BY <1>5, <1>6, FS_AddElement, Zenon
  <2>. QED BY <1>5, <1>11, <2>1, <2>2, Zenon DEF Count, p
<1>12. CASE ~IsReply(r, h)
  <2>1. Replies(p, h) = T
    <3>1. 1 \notin Replies(p, h)
      BY <1>1, <1>12, Zenon DEF Replies
    <3> HIDE DEF T
    <3>. QED BY <1>9, <3>1, Zenon
  <2>2. Count(s, h) \in Nat /\ Count(s, h) + 0 = Count(s, h)
    <3>1. Count(s, h) \in Nat
      BY CountType, Zenon
    <3>. QED BY <3>1
  <2> HIDE DEF T
  <2>. QED BY <1>5, <1>12, <2>1, <2>2, Zenon DEF Count, p
<1>. QED BY <1>11, <1>12, Zenon

\* Popping one.
LEMMA CountPop ==
  ASSUME NEW A, NEW s \in Seq(A), s # <<>>, NEW h
  PROVE  Count(Tail(s), h) = Count(s, h) - (IF IsReply(Head(s), h) THEN 1 ELSE 0)
<1>1. Tail(s) \in Seq(A) /\ Head(s) \in A
  BY TailIs
<1>2. s = <<Head(s)>> \o Tail(s)
  BY HeadTail
<1>3. Count(<<Head(s)>> \o Tail(s), h) = Count(Tail(s), h) + (IF IsReply(Head(s), h) THEN 1 ELSE 0)
  BY <1>1, CountPush, Zenon
<1>4. Count(Tail(s), h) \in Nat
  BY <1>1, CountType, Zenon
<1> DEFINE x == Count(Tail(s), h)
           y == Count(s, h)
           b == IF IsReply(Head(s), h) THEN 1 ELSE 0
<1>5. y = x + b /\ b \in {0, 1} /\ x \in Nat
  <2>1. b \in {0, 1}
    BY Zenon
  <2>. QED BY <1>2, <1>3, <1>4, <2>1, Zenon
<1> HIDE DEF x, y, b
<1>6. x = y - b
  BY <1>5
<1>. QED BY <1>6, Zenon DEF x, y, b

\* Replacing the top by one that is as much of a reply.
LEMMA CountSame ==
  ASSUME NEW s, NEW p, DOMAIN p = DOMAIN s, NEW h,
         \A k \in DOMAIN s : IsReply(p[k], h) <=> IsReply(s[k], h)
  PROVE  Count(p, h) = Count(s, h)
<1>1. Replies(p, h) = Replies(s, h)
  BY Zenon DEF Replies
<1>. QED BY <1>1, Zenon DEF Count

\* The activations, and how deep each may be: the command at the bottom, then
\* what it waits in, then polls and the replies that wait inside them.
Resolves == [f : {"resolve"}, ip : Local, dst : Hosts, pkt : {"echo_request", "echo_reply"},
             seq : Nat, attempt : Nat, ms : Nat, pc : {"poll", "check"}]
Pings == [f : {"ping"}, seq : Nat, ms : Nat, pc : {"poll", "check"}]
Pauses == [f : {"pause"}, ms : Nat, pc : {"poll", "check"}]
Cmds == [f : {"cmd"}, dst : Hosts, i : Nat]
Polls == [f : {"poll"}]
Acts == Resolves \cup Pings \cup Pauses \cup Cmds \cup Polls

Level(r) == IF r.f = "cmd" THEN 0
            ELSE IF r.f \in {"ping", "pause"} \/ (r.f = "resolve" /\ r.pkt = "echo_request") THEN 1
            ELSE 2
Depth(n) == IF n <= 1 THEN n ELSE 2
StackOK(s) == s \in Seq(Acts) /\ \A k \in 1..Len(s) : Level(s[k]) = Depth(Len(s) - k)

\* The function an activation is in tells its fields.
LEMMA ActCases ==
  ASSUME NEW r \in Acts
  PROVE  /\ r.f = "resolve" => r \in Resolves
         /\ r.f = "ping" => r \in Pings
         /\ r.f = "pause" => r \in Pauses
         /\ r.f = "cmd" => r \in Cmds
         /\ r.f \in {"resolve", "ping", "pause", "cmd", "poll"}
BY DEF Acts, Resolves, Pings, Pauses, Cmds, Polls

\* What the stack's shape says of its top.
LEMMA TopDepth ==
  ASSUME NEW s, StackOK(s), s # <<>>
  PROVE  /\ Head(s) \in Acts /\ Len(s) \in Nat /\ Len(s) >= 1
         /\ Level(Head(s)) = Depth(Len(s) - 1)
<1>1. s \in Seq(Acts) /\ \A k \in 1..Len(s) : Level(s[k]) = Depth(Len(s) - k)
  BY Zenon DEF StackOK
<1>2. Head(s) = s[1] /\ Head(s) \in Acts /\ Len(s) >= 1 /\ Len(s) \in Nat
  BY <1>1, TailIs
<1>3. 1 \in 1..Len(s)
  BY <1>2
<1>. QED BY <1>1, <1>2, <1>3, Zenon

\* What an activation's depth says of the height of the stack.
LEMMA DepthIs ==
  ASSUME NEW n \in Nat, n >= 1
  PROVE  /\ Depth(n - 1) = 0 => n = 1
         /\ Depth(n - 1) = 1 => n = 2
         /\ Depth(n - 1) = 2 => n >= 3
BY DEF Depth

\* An activation of the right level on top keeps the stack's shape.
LEMMA PushOK ==
  ASSUME NEW s, StackOK(s), NEW r \in Acts, Level(r) = Depth(Len(s))
  PROVE  StackOK(<<r>> \o s) /\ Len(<<r>> \o s) = Len(s) + 1
<1> DEFINE p == <<r>> \o s
<1>1. s \in Seq(Acts) /\ \A k \in 1..Len(s) : Level(s[k]) = Depth(Len(s) - k)
  BY Zenon DEF StackOK
<1>2. p \in Seq(Acts) /\ Len(p) = Len(s) + 1 /\ p[1] = r /\ Len(s) \in Nat
  BY <1>1, PushIs
<1>3. \A k \in 1..Len(s) : p[k + 1] = s[k]
  BY <1>1, PushIs
<1> HIDE DEF p
<1>4. ASSUME NEW k \in 1..Len(p) PROVE Level(p[k]) = Depth(Len(p) - k)
  <2>1. CASE k = 1
    <3>1. Len(p) - k = Len(s)
      BY <1>2, <2>1
    <3>. QED BY <1>2, <2>1, <3>1, Zenon
  <2>2. CASE k # 1
    <3>1. k - 1 \in 1..Len(s) /\ (k - 1) + 1 = k /\ Len(p) - k = Len(s) - (k - 1)
      BY <1>2, <2>2
    <3>2. p[k] = s[k - 1]
      BY <1>3, <3>1, Zenon
    <3>. QED BY <1>1, <3>1, <3>2, Zenon
  <2>. QED BY <2>1, <2>2, Zenon
<1>. QED BY <1>2, <1>4, Zenon DEF StackOK, p

\* A return keeps the stack's shape.
LEMMA PopOK ==
  ASSUME NEW s, StackOK(s), s # <<>>
  PROVE  StackOK(Tail(s)) /\ Len(Tail(s)) = Len(s) - 1
<1> DEFINE p == Tail(s)
<1>1. s \in Seq(Acts) /\ \A k \in 1..Len(s) : Level(s[k]) = Depth(Len(s) - k)
  BY Zenon DEF StackOK
<1>2. p \in Seq(Acts) /\ Len(p) = Len(s) - 1 /\ Len(s) \in Nat /\ Len(s) >= 1
  BY <1>1, TailIs
<1>3. \A k \in 1..Len(p) : p[k] = s[k + 1]
  BY <1>1, TailIs
<1> HIDE DEF p
<1>4. ASSUME NEW k \in 1..Len(p) PROVE Level(p[k]) = Depth(Len(p) - k)
  <2>1. k + 1 \in 1..Len(s) /\ Len(s) - (k + 1) = Len(p) - k
    BY <1>2
  <2>. QED BY <1>1, <1>3, <2>1, Zenon
<1>. QED BY <1>2, <1>4, Zenon DEF StackOK, p

\* An activation that only its own loop has changed.
Same(x, r) == x.f = r.f /\ (r.f = "resolve" => x.dst = r.dst /\ x.pkt = r.pkt)

\* An activation that its loop has changed is at the same level and as much
\* of a reply.
LEMMA SameIs ==
  ASSUME NEW x, NEW r, Same(x, r), NEW h
  PROVE  Level(x) = Level(r) /\ (IsReply(x, h) <=> IsReply(r, h))
<1>1. CASE r.f = "resolve"
  BY <1>1, Zenon DEF Same, Level, IsReply
<1>2. CASE r.f # "resolve"
  BY <1>2, Zenon DEF Same, Level, IsReply
<1>. QED BY <1>1, <1>2, Zenon

\* A waiting loop's program counter and clock are its own affair.
LEMMA WaitUpdate ==
  ASSUME NEW r \in Acts, Waits(r), NEW p \in {"poll", "check"}
  PROVE  /\ [r EXCEPT !.pc = p] \in Acts /\ Same([r EXCEPT !.pc = p], r)
         /\ [r EXCEPT !.ms = @ + 1] \in Acts /\ Same([r EXCEPT !.ms = @ + 1], r)
<1>1. CASE r.f = "resolve"
  <2>1. r \in Resolves
    BY <1>1, ActCases, Zenon
  <2>2. [r EXCEPT !.pc = p] \in Resolves /\ Same([r EXCEPT !.pc = p], r)
    BY <2>1 DEF Resolves, Same
  <2>3. [r EXCEPT !.ms = @ + 1] \in Resolves /\ Same([r EXCEPT !.ms = @ + 1], r)
    BY <2>1 DEF Resolves, Same
  <2>. QED BY <2>2, <2>3, Zenon DEF Acts
<1>2. CASE r.f = "ping"
  <2>1. r \in Pings /\ r.f # "resolve"
    <3>1. r.f # "resolve"
      BY <1>2
    <3>. QED BY <1>2, <3>1, ActCases, Zenon
  <2>2. [r EXCEPT !.pc = p] \in Pings /\ Same([r EXCEPT !.pc = p], r)
    BY <2>1 DEF Pings, Same
  <2>3. [r EXCEPT !.ms = @ + 1] \in Pings /\ Same([r EXCEPT !.ms = @ + 1], r)
    BY <2>1 DEF Pings, Same
  <2>. QED BY <2>2, <2>3, Zenon DEF Acts
<1>3. CASE r.f = "pause"
  <2>1. r \in Pauses /\ r.f # "resolve"
    <3>1. r.f # "resolve"
      BY <1>3
    <3>. QED BY <1>3, <3>1, ActCases, Zenon
  <2>2. [r EXCEPT !.pc = p] \in Pauses /\ Same([r EXCEPT !.pc = p], r)
    BY <2>1 DEF Pauses, Same
  <2>3. [r EXCEPT !.ms = @ + 1] \in Pauses /\ Same([r EXCEPT !.ms = @ + 1], r)
    BY <2>1 DEF Pauses, Same
  <2>. QED BY <2>2, <2>3, Zenon DEF Acts
<1>. QED BY <1>1, <1>2, <1>3, Zenon DEF Waits

\* Replacing the top keeps the shape and the count.
LEMMA ReplaceOK ==
  ASSUME NEW s, StackOK(s), s # <<>>, NEW r \in Acts, Same(r, Head(s)), NEW h
  PROVE  /\ StackOK(<<r>> \o Tail(s)) /\ Len(<<r>> \o Tail(s)) = Len(s)
         /\ Count(<<r>> \o Tail(s), h) = Count(s, h)
<1> DEFINE a == Head(s)
           t == Tail(s)
<1>1. s \in Seq(Acts) /\ a \in Acts /\ Len(s) \in Nat /\ Len(s) >= 1 /\ Level(a) = Depth(Len(s) - 1)
  BY TopDepth, Zenon DEF StackOK
<1>2. StackOK(t) /\ Len(t) = Len(s) - 1 /\ t \in Seq(Acts)
  BY PopOK, Zenon DEF StackOK
<1>3. Level(r) = Level(a) /\ (IsReply(r, h) <=> IsReply(a, h))
  BY SameIs
<1>4. s = <<a>> \o t
  BY <1>1, HeadTail, Zenon
<1> HIDE DEF a, t
<1>5. StackOK(<<r>> \o t) /\ Len(<<r>> \o t) = Len(t) + 1
  BY <1>1, <1>2, <1>3, PushOK, Zenon
<1>6. Len(t) + 1 = Len(s)
  BY <1>1, <1>2
<1>7. Count(<<r>> \o t, h) = Count(t, h) + (IF IsReply(r, h) THEN 1 ELSE 0)
  BY <1>2, CountPush, Zenon
<1>8. Count(<<a>> \o t, h) = Count(t, h) + (IF IsReply(a, h) THEN 1 ELSE 0)
  BY <1>1, <1>2, CountPush, Zenon
<1>9. Count(<<r>> \o t, h) = Count(s, h)
  BY <1>3, <1>4, <1>7, <1>8, Zenon
<1>. QED BY <1>5, <1>6, <1>9, Zenon DEF t

\* The empty stack.
LEMMA EmptyOK == StackOK(<<>>) /\ Len(<<>>) = 0 /\ \A h : Count(<<>>, h) = 0
<1>1. <<>> \in Seq(Acts) /\ Len(<<>>) = 0 /\ DOMAIN <<>> = {}
  OBVIOUS
<1>2. StackOK(<<>>)
  BY <1>1 DEF StackOK
<1>3. \A h : Replies(<<>>, h) = {}
  BY <1>1, Zenon DEF Replies
<1>4. Cardinality({}) = 0
  BY FS_EmptySet, Zenon
<1>. QED BY <1>1, <1>2, <1>3, <1>4, Zenon DEF Count

-----------------------------------------------------------------------------
(* The invariant                                                           *)

\* The frames there can be.
Frames == Unasked \cup {ArpReply(h) : h \in Local} \cup {EchoReply(h, n) : h \in Hosts, n \in Nat}

\* What is outstanding for a host is the replies that wait on the stack.
CountsOK(s, e) == DOMAIN e = Hosts /\ \A h \in Hosts : e[h] = Count(s, h)

\* The inductive invariant: the stack has its shape, which tells how high it
\* is from what runs; the ghosts agree with the stack and the cache.
NetInv ==
    /\ StackOK(stack) /\ CountsOK(stack, echoes)
    /\ DOMAIN learned = Local /\ CacheOK(cache, learned)
    /\ icmp_seq \in Nat
    /\ rxq \in Seq(Frames) /\ ring \in Seq(Frames) /\ air \subseteq Frames

\* The senders of the frames whose sender is looked at.
LEMMA FrameIs ==
  ASSUME NEW f \in Frames
  PROVE  /\ f.kind \in {"arp_request", "arp_reply"} => f.src \in Local
         /\ f.kind = "echo_request" => f.src \in Hosts
<1>1. CASE f \in Unasked
  <2>1. f.kind \in {"arp_request", "arp_reply"} => f.src \in Local
    BY <1>1, NetworkAssumption
  <2>2. f.kind = "echo_request" => f.src \in Local \cup Remote
    BY <1>1, NetworkAssumption
  <2>. QED BY <2>1, <2>2, Zenon DEF Hosts
<1>2. ASSUME NEW h \in Local, f = ArpReply(h) PROVE f.src \in Local /\ f.kind # "echo_request"
  BY <1>2 DEF ArpReply
<1>3. ASSUME NEW h \in Hosts, NEW n \in Nat, f = EchoReply(h, n) PROVE f.kind = "echo_reply"
  BY <1>3 DEF EchoReply
<1>4. "echo_reply" \notin {"arp_request", "arp_reply"} /\ "echo_reply" # "echo_request"
  OBVIOUS
<1>. QED BY <1>1, <1>2, <1>3, <1>4 DEF Frames

\* Next hops are on the subnet, and what the wire answers are frames.
LEMMA HopLocal ==
  ASSUME NEW d
  PROVE  next_hop(d) \in Local
BY NetworkAssumption, Zenon DEF next_hop

\* What the wire answers to a request is a frame.
LEMMA WireFrames ==
  ASSUME NEW d \in Hosts, NEW pkt, NEW n \in Nat, NEW ip \in Local
  PROVE  Asked(ip) \subseteq Frames /\ Carried(pkt, d, n) \subseteq Frames
<1>1. ArpReply(ip) \in Frames /\ EchoReply(d, n) \in Frames
  BY DEF Frames
<1>. QED BY <1>1, Zenon DEF Asked, Carried

\* A new resolution, a new wait.
LEMMA ResolveIs ==
  ASSUME NEW d \in Hosts, NEW pkt \in {"echo_request", "echo_reply"}, NEW n \in Nat
  PROVE  LET r == Resolve(d, pkt, n) IN
         /\ r \in Acts /\ r.f = "resolve" /\ r.dst = d /\ r.pkt = pkt
         /\ Level(r) = IF pkt = "echo_request" THEN 1 ELSE 2
<1>1. next_hop(d) \in Local
  BY HopLocal
<1>2. Resolve(d, pkt, n) \in Resolves /\ Resolve(d, pkt, n).f = "resolve"
      /\ Resolve(d, pkt, n).dst = d /\ Resolve(d, pkt, n).pkt = pkt
  BY <1>1 DEF Resolve, Resolves
<1>3. Level(Resolve(d, pkt, n)) = IF pkt = "echo_request" THEN 1 ELSE 2
  <2> DEFINE r == Resolve(d, pkt, n)
  <2>1. r.f = "resolve" /\ r.pkt = pkt
    BY <1>2, Zenon
  <2> HIDE DEF r
  <2>2. r.f # "cmd" /\ r.f \notin {"ping", "pause"}
    BY <2>1
  <2>3. Level(r) = IF pkt = "echo_request" THEN 1 ELSE 2
    BY <2>1, <2>2, Zenon DEF Level
  <2>. QED BY <2>3, Zenon DEF r
<1>. QED BY <1>2, <1>3, Zenon DEF Acts

\* The waits of the ping command: level one, no replies.
LEMMA WaitIs ==
  ASSUME NEW n \in Nat
  PROVE  /\ Ping(n) \in Acts /\ Level(Ping(n)) = 1 /\ \A h : ~IsReply(Ping(n), h)
         /\ Pause \in Acts /\ Level(Pause) = 1 /\ \A h : ~IsReply(Pause, h)
<1>1. Ping(n) \in Pings /\ Ping(n).f = "ping"
  BY DEF Ping, Pings
<1>2. Pause \in Pauses /\ Pause.f = "pause"
  BY DEF Pause, Pauses
<1>3. "ping" # "cmd" /\ "pause" # "cmd" /\ "ping" # "resolve" /\ "pause" # "resolve"
  OBVIOUS
<1>. QED BY <1>1, <1>2, <1>3, Zenon DEF Acts, Level, IsReply

\* The command is at the bottom, a poll above the waits; neither is a reply.
LEMMA OthersAre ==
  ASSUME NEW d \in Hosts
  PROVE  /\ Cmd(d) \in Acts /\ Level(Cmd(d)) = 0 /\ \A h : ~IsReply(Cmd(d), h)
         /\ [f |-> "poll"] \in Acts /\ Level([f |-> "poll"]) = 2 /\ \A h : ~IsReply([f |-> "poll"], h)
<1>1. Cmd(d) \in Cmds /\ Cmd(d).f = "cmd"
  BY DEF Cmd, Cmds
<1>2. [f |-> "poll"] \in Polls /\ [f |-> "poll"].f = "poll"
  BY DEF Polls
<1>3. "poll" # "cmd" /\ "poll" \notin {"ping", "pause"} /\ "poll" # "resolve" /\ "cmd" # "resolve"
  OBVIOUS
<1> DEFINE p == [f |-> "poll"]
<1>4. p \in Polls /\ p.f = "poll"
  BY <1>2, Zenon
<1> HIDE DEF p
<1>5. p \in Acts /\ Level(p) = 2 /\ \A h : ~IsReply(p, h)
  BY <1>3, <1>4, Zenon DEF Acts, Level, IsReply
<1>6. Cmd(d) \in Acts /\ Level(Cmd(d)) = 0 /\ \A h : ~IsReply(Cmd(d), h)
  BY <1>1, <1>3, Zenon DEF Acts, Level, IsReply
<1>. QED BY <1>5, <1>6, Zenon DEF p

\* Pushing something that is no reply leaves the counts alone.
LEMMA PushCounts ==
  ASSUME NEW s, StackOK(s), NEW e, CountsOK(s, e), NEW r \in Acts, \A h : ~IsReply(r, h)
  PROVE  CountsOK(<<r>> \o s, e)
<1>1. s \in Seq(Acts)
  BY Zenon DEF StackOK
<1>2. ASSUME NEW h \in Hosts PROVE Count(<<r>> \o s, h) = Count(s, h)
  <2>1. Count(<<r>> \o s, h) = Count(s, h) + (IF IsReply(r, h) THEN 1 ELSE 0)
    BY <1>1, CountPush, Zenon
  <2>2. Count(s, h) \in Nat
    BY <1>1, CountType, Zenon
  <2>3. Count(<<r>> \o s, h) = Count(s, h) + 0
    BY <2>1, Zenon
  <2>. QED BY <2>2, <2>3
<1>. QED BY <1>2, Zenon DEF CountsOK

\* Popping something that is no reply leaves the counts alone.
LEMMA PopCounts ==
  ASSUME NEW s, StackOK(s), s # <<>>, NEW e, CountsOK(s, e), \A h : ~IsReply(Head(s), h)
  PROVE  CountsOK(Tail(s), e)
<1>1. s \in Seq(Acts)
  BY Zenon DEF StackOK
<1>2. ASSUME NEW h \in Hosts PROVE Count(Tail(s), h) = Count(s, h)
  <2>1. Count(Tail(s), h) = Count(s, h) - (IF IsReply(Head(s), h) THEN 1 ELSE 0)
    BY <1>1, CountPop, Zenon
  <2>2. Count(s, h) \in Nat
    BY <1>1, CountType, Zenon
  <2>3. Count(Tail(s), h) = Count(s, h) - 0
    BY <2>1, Zenon
  <2>. QED BY <2>2, <2>3
<1>. QED BY <1>2, Zenon DEF CountsOK

\* So does a change within the innermost loop.
LEMMA ReplaceCounts ==
  ASSUME NEW s, StackOK(s), s # <<>>, NEW e, CountsOK(s, e), NEW r \in Acts, Same(r, Head(s))
  PROVE  CountsOK(<<r>> \o Tail(s), e) /\ StackOK(<<r>> \o Tail(s)) /\ Len(<<r>> \o Tail(s)) = Len(s)
<1>1. \A h : Count(<<r>> \o Tail(s), h) = Count(s, h)
  BY ReplaceOK, Zenon
<1>2. StackOK(<<r>> \o Tail(s)) /\ Len(<<r>> \o Tail(s)) = Len(s)
  BY ReplaceOK, Zenon
<1>. QED BY <1>1, <1>2, Zenon DEF CountsOK

\* A reply that goes to wait is one more, one that is settled one less.
LEMMA PushReply ==
  ASSUME NEW s, StackOK(s), NEW e, CountsOK(s, e), NEW d \in Hosts, NEW r \in Acts,
         r.f = "resolve", r.dst = d, r.pkt = "echo_reply"
  PROVE  CountsOK(<<r>> \o s, [e EXCEPT ![d] = @ + 1])
<1> DEFINE g == [e EXCEPT ![d] = @ + 1]
<1>1. s \in Seq(Acts) /\ DOMAIN e = Hosts
  BY Zenon DEF StackOK, CountsOK
<1>2. DOMAIN g = Hosts /\ g[d] = e[d] + 1 /\ \A h \in Hosts : h # d => g[h] = e[h]
  BY <1>1
<1>3. ASSUME NEW h \in Hosts PROVE g[h] = Count(<<r>> \o s, h)
  <2>1. Count(<<r>> \o s, h) = Count(s, h) + (IF IsReply(r, h) THEN 1 ELSE 0)
    BY <1>1, CountPush, Zenon
  <2>2. Count(s, h) \in Nat /\ e[h] = Count(s, h)
    BY <1>1, CountType, Zenon DEF CountsOK
  <2> HIDE DEF g
  <2>3. CASE h = d
    <3>1. IsReply(r, h)
      BY <2>3, Zenon DEF IsReply
    <3>. QED BY <1>2, <2>1, <2>2, <2>3, <3>1, Zenon
  <2>4. CASE h # d
    <3>1. ~IsReply(r, h)
      BY <2>4, Zenon DEF IsReply
    <3>2. Count(<<r>> \o s, h) = Count(s, h) + 0
      BY <2>1, <3>1, Zenon
    <3>3. Count(<<r>> \o s, h) = Count(s, h)
      BY <2>2, <3>2
    <3>. QED BY <1>2, <2>2, <2>4, <3>3, Zenon
  <2>. QED BY <2>3, <2>4, Zenon
<1> HIDE DEF g
<1>4. CountsOK(<<r>> \o s, g)
  BY <1>2, <1>3, Zenon DEF CountsOK
<1>. QED BY <1>4, Zenon DEF g

\* Popping a reply and settling it takes one off its host's count.
LEMMA PopReply ==
  ASSUME NEW s, StackOK(s), s # <<>>, NEW e, CountsOK(s, e), NEW d \in Hosts,
         Head(s).f = "resolve", Head(s).dst = d, Head(s).pkt = "echo_reply"
  PROVE  CountsOK(Tail(s), [e EXCEPT ![d] = @ - 1])
<1> DEFINE g == [e EXCEPT ![d] = @ - 1]
<1>1. s \in Seq(Acts) /\ DOMAIN e = Hosts
  BY Zenon DEF StackOK, CountsOK
<1>2. DOMAIN g = Hosts /\ g[d] = e[d] - 1 /\ \A h \in Hosts : h # d => g[h] = e[h]
  BY <1>1
<1>3. ASSUME NEW h \in Hosts PROVE g[h] = Count(Tail(s), h)
  <2>1. Count(Tail(s), h) = Count(s, h) - (IF IsReply(Head(s), h) THEN 1 ELSE 0)
    BY <1>1, CountPop, Zenon
  <2>2. Count(s, h) \in Nat /\ e[h] = Count(s, h)
    BY <1>1, CountType, Zenon DEF CountsOK
  <2> HIDE DEF g
  <2>3. CASE h = d
    <3>1. IsReply(Head(s), h)
      BY <2>3, Zenon DEF IsReply
    <3>. QED BY <1>2, <2>1, <2>2, <2>3, <3>1, Zenon
  <2>4. CASE h # d
    <3>1. ~IsReply(Head(s), h)
      BY <2>4, Zenon DEF IsReply
    <3>2. Count(Tail(s), h) = Count(s, h) - 0
      BY <2>1, <3>1, Zenon
    <3>3. Count(Tail(s), h) = Count(s, h)
      BY <2>2, <3>2
    <3>. QED BY <1>2, <2>2, <2>4, <3>3, Zenon
  <2>. QED BY <2>3, <2>4, Zenon
<1> HIDE DEF g
<1>4. CountsOK(Tail(s), g)
  BY <1>2, <1>3, Zenon DEF CountsOK
<1>. QED BY <1>4, Zenon DEF g
-----------------------------------------------------------------------------
(* The steps                                                               *)

\* The depth a level stands at.
LEMMA DepthAt == Depth(0) = 0 /\ Depth(1) = 1 /\ \A n \in Nat : n >= 2 => Depth(n) = 2
BY DEF Depth

\* Pushing an activation that is no reply at the level that fits.
LEMMA PushBoth ==
  ASSUME NEW s, StackOK(s), NEW e, CountsOK(s, e), NEW r \in Acts,
         Level(r) = Depth(Len(s)), \A h : ~IsReply(r, h)
  PROVE  StackOK(<<r>> \o s) /\ CountsOK(<<r>> \o s, e)
<1>1. StackOK(<<r>> \o s)
  BY PushOK, Zenon
<1>2. CountsOK(<<r>> \o s, e)
  BY PushCounts, Zenon
<1>. QED BY <1>1, <1>2, Zenon

\* Popping one that is no reply.
LEMMA PopBoth ==
  ASSUME NEW s, StackOK(s), s # <<>>, NEW e, CountsOK(s, e), Head(s).f # "resolve"
  PROVE  StackOK(Tail(s)) /\ CountsOK(Tail(s), e) /\ Len(Tail(s)) = Len(s) - 1
<1>1. \A h : ~IsReply(Head(s), h)
  BY Zenon DEF IsReply
<1>2. CountsOK(Tail(s), e)
  BY <1>1, PopCounts, Zenon
<1>3. StackOK(Tail(s)) /\ Len(Tail(s)) = Len(s) - 1
  BY PopOK, Zenon
<1>. QED BY <1>2, <1>3, Zenon

\* A sequence of length zero.
LEMMA EmptyIs ==
  ASSUME NEW A, NEW s \in Seq(A), Len(s) = 0
  PROVE  s = <<>>
OBVIOUS

\* What runs tells how deep the stack is: the command alone, a wait of its own
\* above it, anything else deeper.
LEMMA TopIs ==
  ASSUME NEW s, StackOK(s), s # <<>>
  PROVE  /\ Head(s) \in Acts /\ Len(s) \in Nat
         /\ Head(s).f = "cmd" => Len(s) = 1
         /\ Head(s).f \in {"ping", "pause"} => Len(s) = 2
         /\ Head(s).f = "resolve" /\ Head(s).pkt = "echo_request" => Len(s) = 2
         /\ Head(s).f = "poll" => Len(s) >= 3
         /\ Waits(Head(s)) => Len(s) >= 2
         /\ Len(s) = 1 => Head(s).f = "cmd"
<1> DEFINE r == Head(s)
           n == Len(s)
<1>1. r \in Acts /\ n \in Nat /\ n >= 1 /\ Level(r) = Depth(n - 1)
  BY TopDepth, Zenon
<1> HIDE DEF r, n
<1>2. /\ Depth(n - 1) = 0 => n = 1
      /\ Depth(n - 1) = 1 => n = 2
      /\ Depth(n - 1) = 2 => n >= 3
  BY <1>1, DepthIs, Zenon
<1>3. n = 1 => Level(r) = 0
  BY <1>1 DEF Depth
<1>4. r.f = "cmd" => Level(r) = 0
  BY Zenon DEF Level
<1>5. r.f \in {"ping", "pause"} => Level(r) = 1
  BY DEF Level
<1>6. r.f = "resolve" /\ r.pkt = "echo_request" => Level(r) = 1
  BY DEF Level
<1>7. r.f = "poll" => Level(r) = 2
  BY DEF Level
<1>8. r.f # "cmd" => Level(r) \in {1, 2}
  BY DEF Level
<1>9. Level(r) = 0 => r.f = "cmd"
  BY <1>8
<1>10. Waits(r) => r.f # "cmd"
  BY DEF Waits
<1>11. Waits(r) => n >= 2
  BY <1>1, <1>2, <1>8, <1>10
<1>. QED BY <1>1, <1>2, <1>3, <1>4, <1>5, <1>6, <1>7, <1>9, <1>11, Zenon DEF r, n

\* Sending puts frames on the wire.
LEMMA SendAir ==
  ASSUME NetInv, NEW d \in Hosts, NEW pkt, NEW n \in Nat, NEW rest, NEW then, NEW e,
         send(d, pkt, n, rest, then, e)
  PROVE  air' \subseteq Frames
<1>1. next_hop(d) \in Local /\ air \subseteq Frames
  BY HopLocal, Zenon DEF NetInv
<1>2. Asked(next_hop(d)) \subseteq Frames /\ Carried(pkt, d, n) \subseteq Frames
  BY <1>1, WireFrames, Zenon
<1>3. air' = air \cup Carried(pkt, d, n) \/ air' = air \cup Asked(next_hop(d))
  BY Zenon DEF send
<1>. QED BY <1>1, <1>2, <1>3, Zenon

\* The ping command starts on an empty stack.
LEMMA cmd_pingKeeps == NetInv /\ cmd_ping => NetInv'
<1> SUFFICES ASSUME NetInv, cmd_ping PROVE NetInv'
  OBVIOUS
<1> PICK dst \in Hosts : stack' = <<Cmd(dst)>>
  BY Zenon DEF cmd_ping
<1>1. StackOK(<<>>) /\ CountsOK(<<>>, echoes) /\ Len(<<>>) = 0
  BY EmptyOK, Zenon DEF NetInv, cmd_ping
<1>2. Cmd(dst) \in Acts /\ Level(Cmd(dst)) = 0 /\ \A h : ~IsReply(Cmd(dst), h)
  BY OthersAre, Zenon
<1>3. StackOK(<<Cmd(dst)>> \o <<>>) /\ CountsOK(<<Cmd(dst)>> \o <<>>, echoes)
  BY <1>1, <1>2, DepthAt, PushBoth, Zenon
<1>4. <<Cmd(dst)>> \o <<>> = <<Cmd(dst)>>
  OBVIOUS
<1>. QED BY <1>3, <1>4, Zenon DEF NetInv, cmd_ping

\* An echo request goes out or waits for its next hop, above the command.
LEMMA pingKeeps == NetInv /\ ping => NetInv'
<1> SUFFICES ASSUME NetInv, ping PROVE NetInv'
  OBVIOUS
<1> DEFINE r == [Top EXCEPT !.i = @ + 1]
           rest == WithTop(r)
           n == icmp_seq
<1>1. StackOK(stack) /\ stack # <<>> /\ CountsOK(stack, echoes) /\ Top.f = "cmd" /\ n \in Nat
  BY Zenon DEF NetInv, ping, Running
<1>2. Top \in Acts /\ Len(stack) = 1
  BY <1>1, TopIs, Zenon DEF Top
<1>3. Top \in Cmds
  BY <1>1, <1>2, ActCases, Zenon
<1>4. r \in Cmds /\ r.f = Top.f /\ Top.f # "resolve" /\ Top.dst \in Hosts
  BY <1>1, <1>3 DEF Cmds
<1>5. r \in Acts /\ Same(r, Top)
  BY <1>4, Zenon DEF Acts, Same
<1>6. send(Top.dst, "echo_request", n, rest, <<Ping(n)>>, echoes)
  BY Zenon DEF ping
<1> HIDE DEF r, n
<1>7. StackOK(rest) /\ CountsOK(rest, echoes) /\ Len(rest) = 1
  BY <1>1, <1>2, <1>5, ReplaceCounts, Zenon DEF WithTop, Top
<1> HIDE DEF rest
<1>8. air' \subseteq Frames
  BY <1>1, <1>4, <1>6, SendAir, Zenon
<1>9. StackOK(<<Ping(n)>> \o rest) /\ CountsOK(<<Ping(n)>> \o rest, echoes)
  <2>1. Ping(n) \in Acts /\ Level(Ping(n)) = 1 /\ \A h : ~IsReply(Ping(n), h)
    BY <1>1, WaitIs, Zenon
  <2>. QED BY <1>7, <2>1, DepthAt, PushBoth, Zenon
<1>10. StackOK(<<Resolve(Top.dst, "echo_request", n)>> \o rest)
       /\ CountsOK(<<Resolve(Top.dst, "echo_request", n)>> \o rest, echoes)
  <2> DEFINE w == Resolve(Top.dst, "echo_request", n)
  <2>1. w \in Acts /\ w.pkt = "echo_request" /\ Level(w) = 1
    BY <1>1, <1>4, ResolveIs, Zenon
  <2>2. "echo_request" # "echo_reply"
    OBVIOUS
  <2> HIDE DEF w
  <2>3. \A h : ~IsReply(w, h)
    BY <2>1, <2>2, Zenon DEF IsReply
  <2>4. StackOK(<<w>> \o rest) /\ CountsOK(<<w>> \o rest, echoes)
    BY <1>7, <2>1, <2>3, DepthAt, PushBoth, Zenon
  <2>. QED BY <2>4, Zenon DEF w
<1>11. StackOK(stack') /\ CountsOK(stack', echoes')
  <2>1. "echo_request" # "echo_reply"
    OBVIOUS
  <2>2. Settled(echoes, "echo_request", Top.dst) = echoes
    BY <2>1, Zenon DEF Settled
  <2>. QED BY <1>6, <1>9, <1>10, <2>2, Zenon DEF send
<1>12. icmp_seq' \in Nat
  BY <1>1 DEF ping, n
<1>. QED BY <1>8, <1>11, <1>12, Zenon DEF NetInv, ping

\* The command ends with nothing outstanding.
LEMMA cmd_doneKeeps == NetInv /\ cmd_done => NetInv'
<1> SUFFICES ASSUME NetInv, cmd_done PROVE NetInv'
  OBVIOUS
<1>1. StackOK(stack) /\ stack # <<>> /\ CountsOK(stack, echoes) /\ Top.f = "cmd"
  BY Zenon DEF NetInv, cmd_done, Running
<1>2. "cmd" # "resolve"
  OBVIOUS
<1>3. Len(stack) = 1 /\ StackOK(Tail(stack)) /\ CountsOK(Tail(stack), echoes)
      /\ Len(Tail(stack)) = Len(stack) - 1
  BY <1>1, <1>2, TopIs, PopBoth, Zenon DEF Top
<1>4. Tail(stack) = <<>>
  <2>1. Tail(stack) \in Seq(Acts) /\ Len(Tail(stack)) = 0
    BY <1>3 DEF StackOK
  <2>. QED BY <2>1, EmptyIs, Zenon
<1>. QED BY <1>3, <1>4, Zenon DEF NetInv, cmd_done
\* A poll takes the device's frames over, above the loop that polls.
LEMMA pollKeeps == NetInv /\ poll => NetInv'
<1> SUFFICES ASSUME NetInv, poll PROVE NetInv'
  OBVIOUS
<1> DEFINE r == [Top EXCEPT !.pc = "check"]
           rest == WithTop(r)
           p == [f |-> "poll"]
<1>1. StackOK(stack) /\ stack # <<>> /\ CountsOK(stack, echoes) /\ Waits(Top)
  BY Zenon DEF NetInv, poll
<1>2. Top \in Acts /\ Len(stack) >= 2 /\ Len(stack) \in Nat
  BY <1>1, TopIs, Zenon DEF Top
<1>3. r \in Acts /\ Same(r, Top)
  BY <1>1, <1>2, WaitUpdate, Zenon
<1>4. stack' = <<p>> \o rest
  BY Zenon DEF poll
<1> HIDE DEF r
<1>5. StackOK(rest) /\ CountsOK(rest, echoes) /\ Len(rest) = Len(stack)
  BY <1>1, <1>2, <1>3, ReplaceCounts, Zenon DEF WithTop, Top
<1> HIDE DEF rest
<1>6. p \in Acts /\ Level(p) = 2 /\ \A h : ~IsReply(p, h)
  <2>1. PICK d : d \in Hosts
    BY NetworkAssumption, Zenon DEF Hosts
  <2>. QED BY <2>1, OthersAre, Zenon
<1> HIDE DEF p
<1>7. StackOK(<<p>> \o rest) /\ CountsOK(<<p>> \o rest, echoes)
  BY <1>2, <1>5, <1>6, DepthAt, PushBoth, Zenon
<1>8. rxq' \in Seq(Frames) /\ ring' \in Seq(Frames)
  <2>1. rxq \in Seq(Frames) /\ ring \in Seq(Frames) /\ RX_QUEUE_CAPACITY \in Nat
    BY NetworkAssumption, Zenon DEF NetInv
  <2> DEFINE q == rxq \o ring
  <2>2. q \in Seq(Frames) /\ Len(q) \in Nat
    BY <2>1
  <2> HIDE DEF q
  <2>3. Kept(q) \in Seq(Frames)
    BY <2>1, <2>2 DEF Kept
  <2>4. <<>> \in Seq(Frames)
    OBVIOUS
  <2>. QED BY <2>3, <2>4, Zenon DEF poll, q
<1>. QED BY <1>4, <1>7, <1>8, Zenon DEF NetInv, poll

\* A poll that has seen every frame returns.
LEMMA poll_endKeeps == NetInv /\ poll_end => NetInv'
<1> SUFFICES ASSUME NetInv, poll_end PROVE NetInv'
  OBVIOUS
<1>1. StackOK(stack) /\ stack # <<>> /\ CountsOK(stack, echoes) /\ Top.f = "poll"
  BY Zenon DEF NetInv, poll_end, Running
<1>2. "poll" # "resolve"
  OBVIOUS
<1>3. StackOK(Tail(stack)) /\ CountsOK(Tail(stack), echoes)
  BY <1>1, <1>2, PopBoth, Zenon DEF Top
<1>. QED BY <1>3, Zenon DEF NetInv, poll_end

\* An echo request taken in: its answer leaves at once, and the count is as it
\* was, or waits on the stack, and the count is one more.
LEMMA RequestKeeps ==
  ASSUME NEW s, StackOK(s), Len(s) >= 3, NEW e, CountsOK(s, e), NEW d \in Hosts
  PROVE  /\ CountsOK(s, Settled([e EXCEPT ![d] = @ + 1], "echo_reply", d))
         /\ StackOK(<<Resolve(d, "echo_reply", 0)>> \o s)
         /\ CountsOK(<<Resolve(d, "echo_reply", 0)>> \o s, [e EXCEPT ![d] = @ + 1])
<1> DEFINE w == Resolve(d, "echo_reply", 0)
           g == [e EXCEPT ![d] = @ + 1]
<1>1. w \in Acts /\ w.f = "resolve" /\ w.dst = d /\ w.pkt = "echo_reply" /\ Level(w) = 2
  <2>1. "echo_reply" # "echo_request" /\ 0 \in Nat
    OBVIOUS
  <2>. QED BY <2>1, ResolveIs, Zenon
<1>2. s \in Seq(Acts) /\ Len(s) \in Nat /\ Len(s) >= 2
  BY DEF StackOK
<1>3. CountsOK(s, Settled(g, "echo_reply", d))
  <2>1. DOMAIN e = Hosts /\ e[d] = Count(s, d) /\ Count(s, d) \in Nat
    BY <1>2, CountType, Zenon DEF CountsOK
  <2> DEFINE k == [g EXCEPT ![d] = @ - 1]
  <2>2. DOMAIN k = Hosts /\ k[d] = e[d] /\ \A h \in Hosts : h # d => k[h] = e[h]
    BY <2>1
  <2> HIDE DEF k
  <2>3. CountsOK(s, k)
    BY <2>2, Zenon DEF CountsOK
  <2>. QED BY <2>3, Zenon DEF k, Settled
<1> HIDE DEF w
<1>4. StackOK(<<w>> \o s)
  BY <1>1, <1>2, DepthAt, PushOK, Zenon
<1>5. CountsOK(<<w>> \o s, g)
  BY <1>1, PushReply, Zenon
<1>. QED BY <1>3, <1>4, <1>5, Zenon DEF w

\* A frame: the cache learns its sender, or an echo request is counted and
\* answered.
LEMMA process_frameKeeps == NetInv /\ process_frame => NetInv'
<1> SUFFICES ASSUME NetInv, process_frame PROVE NetInv'
  OBVIOUS
<1> DEFINE f == Head(rxq)
<1>1. StackOK(stack) /\ stack # <<>> /\ CountsOK(stack, echoes) /\ Top.f = "poll" /\ rxq # <<>>
      /\ rxq \in Seq(Frames) /\ CacheOK(cache, learned) /\ DOMAIN learned = Local
      /\ air \subseteq Frames
  BY Zenon DEF NetInv, process_frame, Running
<1>2. f \in Frames /\ rxq' \in Seq(Frames)
  <2>1. Head(rxq) \in Frames /\ Tail(rxq) \in Seq(Frames)
    BY <1>1, TailIs
  <2>. QED BY <2>1, Zenon DEF process_frame
<1>3. /\ f.kind \in {"arp_request", "arp_reply"} => f.src \in Local
      /\ f.kind = "echo_request" => f.src \in Hosts
  BY <1>2, FrameIs, Zenon
<1>4. UNCHANGED <<icmp_seq, ring>>
  BY DEF process_frame
<1>5. \/ f.kind \in {"arp_request", "arp_reply"} /\ process_arp(f)
      \/ process_icmp(f)
      \/ UNCHANGED <<stack, cache, ping_reply, air, learned, echoes>>
  BY Zenon DEF process_frame
<1> HIDE DEF f
<1>6. CASE f.kind \in {"arp_request", "arp_reply"} /\ process_arp(f)
  <2>1. cache' = insert(cache, f.src, f.mac) /\ learned' = [learned EXCEPT ![f.src] = f.mac]
    BY <1>6, Zenon DEF process_arp
  <2>2. CacheOK(cache', learned')
    BY <1>1, <1>3, <1>6, <2>1, InsertKeeps, Zenon
  <2>3. DOMAIN learned' = Local
    BY <1>1, <2>1
  <2>4. UNCHANGED <<stack, air, echoes>>
    BY <1>6 DEF process_arp
  <2>. QED BY <1>1, <1>2, <1>4, <2>2, <2>3, <2>4, Zenon DEF NetInv
<1>7. CASE process_icmp(f)
  <2>1. UNCHANGED <<cache, learned>>
    BY <1>7, Zenon DEF process_icmp
  <2>2. CASE UNCHANGED <<stack, air, echoes>>
    BY <1>1, <1>2, <1>4, <2>1, <2>2, Zenon DEF NetInv
  <2>3. CASE f.kind = "echo_request" /\ send(f.src, "echo_reply", 0, stack, <<>>, [echoes EXCEPT ![f.src] = @ + 1])
    <3>1. f.src \in Hosts /\ Len(stack) >= 3 /\ 0 \in Nat
      <4>1. 0 \in Nat
        OBVIOUS
      <4>. QED BY <1>1, <1>3, <2>3, <4>1, TopIs, Zenon DEF Top
    <3>2. air' \subseteq Frames
      BY <2>3, <3>1, SendAir, Zenon
    <3>3. /\ CountsOK(stack, Settled([echoes EXCEPT ![f.src] = @ + 1], "echo_reply", f.src))
          /\ StackOK(<<Resolve(f.src, "echo_reply", 0)>> \o stack)
          /\ CountsOK(<<Resolve(f.src, "echo_reply", 0)>> \o stack, [echoes EXCEPT ![f.src] = @ + 1])
      BY <1>1, <3>1, RequestKeeps, Zenon
    <3>4. <<>> \o stack = stack
      BY <1>1 DEF StackOK
    <3>5. StackOK(stack') /\ CountsOK(stack', echoes')
      BY <1>1, <2>3, <3>3, <3>4, Zenon DEF send
    <3>. QED BY <1>1, <1>2, <1>4, <2>1, <3>2, <3>5, Zenon DEF NetInv
  <2>. QED BY <1>7, <2>2, <2>3, Zenon DEF process_icmp
<1>8. CASE UNCHANGED <<stack, cache, ping_reply, air, learned, echoes>>
  BY <1>1, <1>2, <1>4, <1>8, Zenon DEF NetInv
<1>. QED BY <1>5, <1>6, <1>7, <1>8, Zenon
\* The end of a resolution, sent or given up: the ping it was for starts to
\* wait, the reply it was for counts no more.
LEMMA AfterKeeps ==
  ASSUME NetInv, Running("resolve")
  PROVE  StackOK(After) /\ CountsOK(After, Settled(echoes, Top.pkt, Top.dst))
<1>1. StackOK(stack) /\ stack # <<>> /\ CountsOK(stack, echoes) /\ Top.f = "resolve"
  BY Zenon DEF NetInv, Running
<1>2. Top \in Acts /\ Len(stack) \in Nat
  BY <1>1, TopIs, Zenon DEF Top
<1>3. Top \in Resolves
  BY <1>1, <1>2, ActCases, Zenon
<1>4. Top.dst \in Hosts /\ Top.seq \in Nat /\ Top.pkt \in {"echo_request", "echo_reply"}
  BY <1>3 DEF Resolves
<1>5. StackOK(Tail(stack)) /\ Len(Tail(stack)) = Len(stack) - 1
  BY <1>1, PopOK, Zenon
<1>6. CASE Top.pkt = "echo_request"
  <2>1. Top.pkt # "echo_reply"
    BY <1>6
  <2>2. \A h : ~IsReply(Head(stack), h)
    BY <2>1, Zenon DEF IsReply, Top
  <2>3. CountsOK(Tail(stack), echoes)
    BY <1>1, <2>2, PopCounts, Zenon
  <2>4. Len(Tail(stack)) = 1
    <3>1. Len(stack) = 2
      BY <1>1, <1>6, TopIs, Zenon DEF Top
    <3>. QED BY <1>5, <3>1
  <2>5. Ping(Top.seq) \in Acts /\ Level(Ping(Top.seq)) = 1 /\ \A h : ~IsReply(Ping(Top.seq), h)
    BY <1>4, WaitIs, Zenon
  <2>6. StackOK(<<Ping(Top.seq)>> \o Tail(stack)) /\ CountsOK(<<Ping(Top.seq)>> \o Tail(stack), echoes)
    BY <1>5, <2>3, <2>4, <2>5, DepthAt, PushBoth, Zenon
  <2>. QED BY <1>6, <2>1, <2>6, Zenon DEF After, Settled
<1>7. CASE Top.pkt = "echo_reply"
  <2>1. Top.pkt # "echo_request"
    BY <1>7
  <2>2. CountsOK(Tail(stack), [echoes EXCEPT ![Top.dst] = @ - 1])
    BY <1>1, <1>4, <1>7, PopReply, Zenon DEF Top
  <2>. QED BY <1>5, <1>7, <2>1, <2>2, Zenon DEF After, Settled
<1>. QED BY <1>4, <1>6, <1>7, Zenon

\* Back to polling.
LEMMA PollAgain ==
  ASSUME NetInv, stack # <<>>, Waits(Top)
  PROVE  StackOK(WithTop([Top EXCEPT !.pc = "poll"])) /\ CountsOK(WithTop([Top EXCEPT !.pc = "poll"]), echoes)
<1> DEFINE r == [Top EXCEPT !.pc = "poll"]
<1>1. StackOK(stack) /\ CountsOK(stack, echoes)
  BY Zenon DEF NetInv
<1>2. Top \in Acts
  BY <1>1, TopIs, Zenon DEF Top
<1>3. r \in Acts /\ Same(r, Top)
  BY <1>2, WaitUpdate, Zenon
<1> HIDE DEF r
<1>4. StackOK(WithTop(r)) /\ CountsOK(WithTop(r), echoes)
  BY <1>1, <1>3, ReplaceCounts, Zenon DEF WithTop, Top
<1>. QED BY <1>4, Zenon DEF r

\* The next attempt.
LEMMA RetryIs ==
  ASSUME NEW r \in Resolves
  PROVE  LET x == [r EXCEPT !.pc = "poll", !.attempt = @ + 1, !.ms = 0]
         IN  x \in Resolves /\ Same(x, r)
<1> DEFINE a == [r EXCEPT !.pc = "poll"]
           b == [a EXCEPT !.attempt = @ + 1]
           c == [b EXCEPT !.ms = 0]
<1>1. a \in Resolves /\ Same(a, r)
  BY DEF Resolves, Same
<1> HIDE DEF a
<1>2. b \in Resolves /\ Same(b, a)
  BY <1>1 DEF Resolves, Same
<1> HIDE DEF b
<1>3. c \in Resolves /\ Same(c, b)
  BY <1>2 DEF Resolves, Same
<1>4. c = [r EXCEPT !.pc = "poll", !.attempt = @ + 1, !.ms = 0]
  BY DEF a, b
<1>. QED BY <1>1, <1>2, <1>3, <1>4 DEF Same

\* A resolution finds its host, waits, asks again or gives up.
LEMMA resolveKeeps == NetInv /\ resolve => NetInv'
<1> SUFFICES ASSUME NetInv, resolve PROVE NetInv'
  OBVIOUS
<1>1. StackOK(stack) /\ stack # <<>> /\ CountsOK(stack, echoes) /\ Top.f = "resolve" /\ air \subseteq Frames
      /\ Running("resolve")
  BY Zenon DEF NetInv, resolve, Running
<1>2. Top \in Acts
  BY <1>1, TopIs, Zenon DEF Top
<1>3. Top \in Resolves
  BY <1>1, <1>2, ActCases, Zenon
<1>4. Top.dst \in Hosts /\ Top.seq \in Nat /\ Top.ip \in Local /\ Waits(Top)
  BY <1>1, <1>3 DEF Resolves, Waits
<1>5. Asked(Top.ip) \subseteq Frames /\ Carried(Top.pkt, Top.dst, Top.seq) \subseteq Frames
  BY <1>4, WireFrames, Zenon
<1>6. StackOK(After) /\ CountsOK(After, Settled(echoes, Top.pkt, Top.dst))
  BY <1>1, AfterKeeps, Zenon
<1>7. CASE resolve_found
  <2>1. air' \subseteq Frames
    BY <1>1, <1>5, <1>7, Zenon DEF resolve_found
  <2>. QED BY <1>6, <1>7, <2>1, Zenon DEF NetInv, resolve, resolve_found
<1>8. CASE resolve_wait
  BY <1>1, <1>4, <1>8, PollAgain, Zenon DEF NetInv, resolve, resolve_wait
<1>9. CASE resolve_retry
  <2>1. air' \subseteq Frames
    BY <1>1, <1>5, <1>9, Zenon DEF resolve_retry
  <2> DEFINE r == [Top EXCEPT !.pc = "poll", !.attempt = @ + 1, !.ms = 0]
  <2>2. r \in Resolves /\ Same(r, Top)
    BY <1>3, RetryIs, Zenon
  <2>3. r \in Acts /\ Same(r, Top)
    BY <2>2, Zenon DEF Acts
  <2>4. stack' = WithTop(r) /\ echoes' = echoes
    BY <1>9, Zenon DEF resolve_retry
  <2> HIDE DEF r
  <2>5. StackOK(WithTop(r)) /\ CountsOK(WithTop(r), echoes)
    BY <1>1, <2>3, ReplaceCounts, Zenon DEF WithTop, Top
  <2>. QED BY <2>1, <2>4, <2>5, Zenon DEF NetInv, resolve
<1>10. CASE resolve_fail
  BY <1>6, <1>10, Zenon DEF NetInv, resolve, resolve_fail
<1>. QED BY <1>7, <1>8, <1>9, <1>10, Zenon DEF resolve

\* The command pauses or goes on.
LEMMA PingedKeeps ==
  ASSUME NetInv, Running("ping")
  PROVE  StackOK(Pinged) /\ CountsOK(Pinged, echoes)
<1> DEFINE t == Tail(stack)
<1>1. StackOK(stack) /\ stack # <<>> /\ CountsOK(stack, echoes) /\ Top.f = "ping"
  BY Zenon DEF NetInv, Running
<1>2. Top.f # "resolve"
  BY <1>1
<1>3. Len(stack) = 2
  BY <1>1, TopIs, Zenon DEF Top
<1>4. StackOK(t) /\ CountsOK(t, echoes) /\ Len(t) = 1
  <2>1. StackOK(t) /\ CountsOK(t, echoes) /\ Len(t) = Len(stack) - 1
    BY <1>1, <1>2, PopBoth, Zenon DEF Top
  <2>. QED BY <1>3, <2>1
<1>5. Pinged = (IF Head(t).i < PINGS THEN <<Pause>> ELSE <<>>) \o t
  BY Zenon DEF Pinged
<1> HIDE DEF t
<1>6. <<>> \o t = t
  BY <1>4 DEF StackOK
<1>7. StackOK(<<Pause>> \o t) /\ CountsOK(<<Pause>> \o t, echoes)
  <2>1. Pause \in Acts /\ Level(Pause) = 1 /\ \A h : ~IsReply(Pause, h)
    BY WaitIs, Zenon
  <2>. QED BY <1>4, <2>1, DepthAt, PushBoth, Zenon
<1>. QED BY <1>4, <1>5, <1>6, <1>7, Zenon

\* A ping ends with or without a reply, or polls again.
LEMMA ping_checkKeeps == NetInv /\ ping_check => NetInv'
<1> SUFFICES ASSUME NetInv, ping_check PROVE NetInv'
  OBVIOUS
<1>1. Running("ping") /\ stack # <<>> /\ Top.f = "ping"
  BY Zenon DEF ping_check, Running
<1>2. Waits(Top) /\ 0 \in Nat /\ 1 \in Nat
  BY <1>1 DEF Waits
<1>3. StackOK(Pinged) /\ CountsOK(Pinged, echoes)
  BY <1>1, PingedKeeps, Zenon
<1>4. StackOK(stack') /\ CountsOK(stack', echoes)
  BY <1>1, <1>2, <1>3, PollAgain, Zenon DEF ping_check
<1>. QED BY <1>4, Zenon DEF NetInv, ping_check

\* The pause between two pings ends, or polls again.
LEMMA pause_checkKeeps == NetInv /\ pause_check => NetInv'
<1> SUFFICES ASSUME NetInv, pause_check PROVE NetInv'
  OBVIOUS
<1>1. stack # <<>> /\ Top.f = "pause" /\ StackOK(stack) /\ CountsOK(stack, echoes)
  BY Zenon DEF NetInv, pause_check, Running
<1>2. Waits(Top) /\ Top.f # "resolve"
  BY <1>1 DEF Waits
<1>3. StackOK(Tail(stack)) /\ CountsOK(Tail(stack), echoes)
  BY <1>1, <1>2, PopBoth, Zenon DEF Top
<1>4. StackOK(stack') /\ CountsOK(stack', echoes)
  BY <1>1, <1>2, <1>3, PollAgain, Zenon DEF pause_check
<1>. QED BY <1>4, Zenon DEF NetInv, pause_check

\* The clock changes no activation but in its clock.
LEMMA TickKeeps == NetInv /\ Tick => NetInv'
<1> SUFFICES ASSUME NetInv, Tick PROVE NetInv'
  OBVIOUS
<1> DEFINE s == stack
           p == [k \in DOMAIN s |-> IF Waits(s[k]) /\ s[k].ms <= TICKS
                                    THEN [s[k] EXCEPT !.ms = @ + 1] ELSE s[k]]
<1>1. StackOK(s) /\ CountsOK(s, echoes) /\ stack' = p
  BY Zenon DEF NetInv, Tick
<1>2. s \in Seq(Acts) /\ Len(s) \in Nat /\ DOMAIN s = 1..Len(s)
      /\ \A k \in 1..Len(s) : Level(s[k]) = Depth(Len(s) - k)
  BY <1>1 DEF StackOK
<1> HIDE DEF s
<1>3. ASSUME NEW k \in 1..Len(s) PROVE p[k] \in Acts /\ Same(p[k], s[k])
  <2>1. s[k] \in Acts
    BY <1>2
  <2>2. Same(s[k], s[k])
    BY Zenon DEF Same
  <2>3. p[k] = IF Waits(s[k]) /\ s[k].ms <= TICKS THEN [s[k] EXCEPT !.ms = @ + 1] ELSE s[k]
    BY <1>2, Zenon
  <2>4. "poll" \in {"poll", "check"}
    OBVIOUS
  <2> DEFINE r == s[k]
             x == p[k]
  <2>5. r \in Acts /\ Same(r, r) /\ x = IF Waits(r) /\ r.ms <= TICKS THEN [r EXCEPT !.ms = @ + 1] ELSE r
    BY <2>1, <2>2, <2>3, Zenon
  <2> HIDE DEF r, x
  <2>6. Waits(r) => [r EXCEPT !.ms = @ + 1] \in Acts /\ Same([r EXCEPT !.ms = @ + 1], r)
    BY <2>4, <2>5, WaitUpdate, Zenon
  <2>7. x \in Acts /\ Same(x, r)
    BY <2>5, <2>6, Zenon
  <2>. QED BY <2>7, Zenon DEF r, x
<1>4. DOMAIN p = DOMAIN s
  BY Zenon
<1>5. \A k \in 1..Len(s) : Level(p[k]) = Level(s[k]) /\ \A h : IsReply(p[k], h) <=> IsReply(s[k], h)
  BY <1>3, SameIs, Zenon
<1>6. p \in Seq(Acts) /\ Len(p) = Len(s)
  <2>1. p \in [1..Len(s) -> Acts]
    BY <1>2, <1>3, Zenon
  <2> HIDE DEF p
  <2>. QED BY <1>2, <2>1
<1> HIDE DEF p
<1>7. StackOK(p)
  BY <1>2, <1>5, <1>6, Zenon DEF StackOK
<1>8. \A h : Count(p, h) = Count(s, h)
  BY <1>2, <1>4, <1>5, CountSame, Zenon
<1>9. CountsOK(p, echoes)
  BY <1>1, <1>8, Zenon DEF CountsOK
<1>. QED BY <1>1, <1>7, <1>9, Zenon DEF NetInv, Tick

\* A frame reaches the device's ring.
LEMMA ArrivesKeeps ==
  ASSUME NetInv, NEW f \in Frames, Arrives(f), air' \subseteq air
  PROVE  NetInv'
<1>1. ring \in Seq(Frames) /\ ring' = Append(ring, f) /\ air \subseteq Frames
  BY Zenon DEF NetInv, Arrives
<1>2. ring' \in Seq(Frames)
  BY <1>1
<1>3. air' \subseteq Frames
  BY <1>1, Zenon
<1>. QED BY <1>2, <1>3, Zenon DEF NetInv, Arrives

\* The wire delivers what it carries, or what nobody asked for.
LEMMA DeliverKeeps == NetInv /\ (Deliver \/ Unbidden) => NetInv'
<1> SUFFICES ASSUME NetInv, Deliver \/ Unbidden PROVE NetInv'
  OBVIOUS
<1>1. air \subseteq Frames
  BY Zenon DEF NetInv
<1>2. CASE Deliver
  <2> PICK f \in air : Arrives(f) /\ air' = air \ {f}
    BY <1>2, Zenon DEF Deliver
  <2>1. air' \subseteq air /\ f \in Frames
    BY <1>1, Zenon
  <2>. QED BY <2>1, ArrivesKeeps, Zenon
<1>3. CASE Unbidden
  <2> PICK f \in Unasked \cup air : Arrives(f)
    BY <1>3, Zenon DEF Unbidden
  <2>1. air' \subseteq air
    BY <1>3, Zenon DEF Unbidden
  <2>2. f \in Frames
    BY <1>1 DEF Frames
  <2>. QED BY <2>1, <2>2, ArrivesKeeps, Zenon
<1>. QED BY <1>2, <1>3, Zenon

-----------------------------------------------------------------------------
(* The theorem                                                             *)

\* The invariant holds when the machine has booted.
LEMMA InitInv == Init => NetInv
<1> SUFFICES ASSUME Init PROVE NetInv
  OBVIOUS
<1>1. StackOK(stack) /\ CountsOK(stack, echoes)
  <2>1. echoes = [h \in Hosts |-> 0] /\ stack = <<>>
    BY Zenon DEF Init
  <2>2. DOMAIN echoes = Hosts /\ \A h \in Hosts : echoes[h] = 0
    BY <2>1, Zenon
  <2>. QED BY <2>1, <2>2, EmptyOK, Zenon DEF CountsOK
<1>2. DOMAIN learned = Local /\ \A h \in Local : learned[h] = None
  BY Zenon DEF Init
<1>3. CacheOK(cache, learned)
  <2>1. cache = [i \in Places |-> Invalid]
    BY Zenon DEF Init, Places
  <2>2. cache \in [Places -> Entries(learned) \cup {Invalid}]
    BY <2>1, Zenon
  <2>3. \A i \in Places : ~cache[i].valid
    <3>1. ~Invalid.valid
      BY DEF Invalid
    <3>. QED BY <2>1, <3>1, Zenon
  <2>. QED BY <1>2, <2>2, <2>3, Zenon DEF CacheOK
<1>4. icmp_seq \in Nat /\ rxq \in Seq(Frames) /\ ring \in Seq(Frames) /\ air \subseteq Frames
  BY DEF Init
<1>. QED BY <1>1, <1>2, <1>3, <1>4, Zenon DEF NetInv

\* Every step keeps it.
LEMMA NextInv == NetInv /\ [Next]_vars => NetInv'
<1> SUFFICES ASSUME NetInv, [Next]_vars PROVE NetInv'
  OBVIOUS
<1>1. CASE UNCHANGED vars
  BY <1>1, Zenon DEF NetInv, vars
<1>2. CASE Step
  BY <1>2, pingKeeps, cmd_doneKeeps, pollKeeps, poll_endKeeps, process_frameKeeps, resolveKeeps,
     ping_checkKeeps, pause_checkKeeps, Zenon DEF Step
<1>. QED BY <1>1, <1>2, cmd_pingKeeps, TickKeeps, DeliverKeeps, Zenon DEF Next

\* The cache answers truly, and what is outstanding waits on the stack.
LEMMA InvGives == NetInv => LatestMapping /\ EchoesAnsweredOnce
<1> SUFFICES ASSUME NetInv PROVE LatestMapping /\ EchoesAnsweredOnce
  OBVIOUS
<1>1. LatestMapping
  BY LookupIs, Zenon DEF NetInv, LatestMapping
<1>2. EchoesAnsweredOnce
  <2>1. \A h \in Hosts : echoes[h] = Count(stack, h)
    BY Zenon DEF NetInv, CountsOK
  <2>. QED BY <2>1 DEF EchoesAnsweredOnce, Count, Replies, IsReply
<1>. QED BY <1>1, <1>2, Zenon

\* Steps other than a check of a wait end with neither outcome.
LEMMA StepGives == NetInv /\ Next => AnswerBeatsTimeoutStep
<1> SUFFICES ASSUME NetInv, Next PROVE AnswerBeatsTimeoutStep
  OBVIOUS
<1>1. CASE outcome' \notin {"gave_up", "timeout"}
  BY <1>1 DEF AnswerBeatsTimeoutStep
<1>2. CASE resolve
  <2>1. CASE outcome' # "gave_up"
    <3>1. outcome' # "timeout"
      BY <1>2 DEF resolve, resolve_found, resolve_wait, resolve_retry, resolve_fail
    <3>. QED BY <2>1, <3>1, Zenon DEF AnswerBeatsTimeoutStep
  <2>2. CASE outcome' = "gave_up"
    <3>1. outcome' # "timeout"
      BY <2>2
    <3>2. resolve_fail
      BY <1>2, <2>2 DEF resolve, resolve_found, resolve_wait, resolve_retry
    <3>3. lookup(cache, Top.ip) = None /\ Running("resolve")
      BY <1>2, <3>2, Zenon DEF resolve, resolve_fail, GivesUp
    <3>4. Top.ip \in Local
      <4>1. stack # <<>> /\ Top.f = "resolve" /\ StackOK(stack)
        BY <3>3, Zenon DEF Running, NetInv
      <4>2. Top \in Acts
        BY <4>1, TopIs, Zenon DEF Top
      <4>3. Top \in Resolves
        BY <4>1, <4>2, ActCases, Zenon
      <4>. QED BY <4>3 DEF Resolves
    <3>5. CacheOK(cache, learned) /\ DOMAIN cache = Places
      <4>1. CacheOK(cache, learned)
        BY Zenon DEF NetInv
      <4>. QED BY <4>1, Zenon DEF CacheOK
    <3>6. \/ learned[Top.ip] = None \/ \A i \in Places : cache[i] # Invalid
      <4>1. CASE \E i \in Places : cache[i].valid /\ cache[i].ip = Top.ip
        BY <3>3, <3>4, <3>5, <4>1, LookupIs, Zenon
      <4>2. CASE ~\E i \in Places : cache[i].valid /\ cache[i].ip = Top.ip
        BY <3>4, <3>5, <4>2, Zenon DEF CacheOK
      <4>. QED BY <4>1, <4>2, Zenon
    <3>. QED BY <3>1, <3>5, <3>6, Zenon DEF AnswerBeatsTimeoutStep, Top
  <2>. QED BY <2>1, <2>2, Zenon
<1>3. CASE ping_check
  <2>1. outcome' # "gave_up"
    BY <1>3 DEF ping_check
  <2>2. outcome' = "timeout" => ping_reply = NoReply
    BY <1>3 DEF ping_check
  <2>. QED BY <2>1, <2>2, Zenon DEF AnswerBeatsTimeoutStep
<1>4. outcome' \notin {"gave_up", "timeout"} \/ resolve \/ ping_check
  <2>1. "none" \notin {"gave_up", "timeout"}
    OBVIOUS
  <2>2. outcome' = "none" \/ resolve \/ ping_check
    BY Zenon DEF Next, Step, cmd_ping, ping, cmd_done, poll, poll_end, process_frame, pause_check,
       Tick, Deliver, Unbidden, Arrives
  <2>. QED BY <2>1, <2>2, Zenon
<1>. QED BY <1>1, <1>2, <1>3, <1>4, Zenon

\* The network stack is faithful: the cache answers with what a host announced
\* last, echo requests are answered or given up exactly once at whatever depth
\* of nested resolutions, and no wait ends without an answer that is there.
THEOREM NetworkIsFaithful == Spec => NetworkFaithful
<1>1. Init => NetInv
  BY InitInv
<1>2. NetInv /\ [Next]_vars => NetInv'
  BY NextInv
<1>3. NetInv => LatestMapping /\ EchoesAnsweredOnce
  BY InvGives
<1>4. NetInv /\ [Next]_vars => [AnswerBeatsTimeoutStep]_vars
  BY StepGives
<1>. QED BY <1>1, <1>2, <1>3, <1>4, PTL DEF Spec, NetworkFaithful
=============================================================================
