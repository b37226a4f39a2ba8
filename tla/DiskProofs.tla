----------------------------- MODULE DiskProofs ------------------------------
(***************************************************************************)
(* The block driver of module VirtioBlk: what it promises holds for any    *)
(* number of tasks, any disk and any queue.                                *)
(***************************************************************************)
EXTENDS VirtioBlk, WellFoundedInduction, TLAPS

-----------------------------------------------------------------------------
(* Functions defined by recursion                                          *)

\* Among natural numbers there is a least one.
LEMMA LeastNat ==
  ASSUME NEW T \in SUBSET Nat, T # {}
  PROVE  \E m \in T : \A n \in T : m <= n
<1>1. PICK m \in T : \A y \in T : ~(<<y, m>> \in OpToRel(<, Nat))
  BY WFMin, NatLessThanWellFounded, Zenon
<1>2. ASSUME NEW n \in T PROVE m <= n
  <2>1. ~(<<n, m>> \in OpToRel(<, Nat))
    BY <1>1, Zenon
  <2>2. n \in Nat /\ m \in Nat
    OBVIOUS
  <2>. QED BY <2>1, <2>2 DEF OpToRel
<1>. QED BY <1>2

\* w[1], ..., w[n] are a, f[a], f[f[a]] and so on.
Iterates(w, f, a, n) == \A k \in 1..n : w[k] = IF k = 1 THEN a ELSE f[w[k - 1]]

\* A function can be applied any number of times.
LEMMA IteratesExist ==
  ASSUME NEW S, NEW f \in [S -> S], NEW a \in S, NEW n \in Nat
  PROVE  \E w \in [1..n -> S] : Iterates(w, f, a, n)
<1> DEFINE Has(m) == \E w \in [1..m -> S] : Iterates(w, f, a, m)
           T == {m \in Nat : ~Has(m)}
<1>1. SUFFICES ASSUME T # {} PROVE FALSE
  BY Zenon
<1>2. PICK m \in T : \A j \in T : m <= j
  BY <1>1, LeastNat, Zenon
<1>3. m \in Nat /\ ~Has(m)
  BY Zenon
<1>4. m # 0
  <2>1. Has(0)
    <3>1. [k \in 1..0 |-> a] \in [1..0 -> S]
      OBVIOUS
    <3>2. Iterates([k \in 1..0 |-> a], f, a, 0)
      BY DEF Iterates
    <3>. QED BY <3>1, <3>2, Zenon
  <2>. QED BY <1>3, <2>1, Zenon
<1>5. Has(m - 1)
  <2>1. m - 1 \in Nat /\ ~(m <= m - 1)
    BY <1>3, <1>4
  <2>. QED BY <1>2, <2>1, Zenon
<1>6. PICK w \in [1..(m - 1) -> S] : Iterates(w, f, a, m - 1)
  BY <1>5, Zenon
<1> DEFINE v == [k \in 1..m |-> IF k < m THEN w[k] ELSE IF m = 1 THEN a ELSE f[w[m - 1]]]
<1>7. v \in [1..m -> S]
  BY <1>3, <1>4
<1>8. Iterates(v, f, a, m)
  <2>1. SUFFICES ASSUME NEW k \in 1..m PROVE v[k] = IF k = 1 THEN a ELSE f[v[k - 1]]
    BY Zenon DEF Iterates
  <2>2. CASE k < m
    <3>1. k \in 1..(m - 1) /\ v[k] = w[k]
      BY <1>3, <2>2
    <3>2. w[k] = IF k = 1 THEN a ELSE f[w[k - 1]]
      BY <1>6, <3>1, Zenon DEF Iterates
    <3>3. k # 1 => v[k - 1] = w[k - 1]
      BY <1>3, <2>2
    <3>. QED BY <3>1, <3>2, <3>3, Zenon
  <2>3. CASE k = m
    BY <1>3, <1>4, <2>3
  <2>. QED BY <1>3, <2>2, <2>3
<1>. QED BY <1>3, <1>7, <1>8, Zenon

-----------------------------------------------------------------------------
(* The queue                                                               *)

\* What a queue holds, field by field.
LEMMA QueueFields ==
  ASSUME NEW n \in Nat \ {0}, NEW A, NEW q \in Queues(n, A)
  PROVE  /\ q.size = n /\ Slots(q) = 0..(n - 1)
         /\ q.desc \in [0..(n - 1) -> [addr : A, flags : SUBSET {"NEXT", "WRITE"}, next : 0..(n - 1)]]
         /\ q.free_head \in 0..(n - 1) /\ q.num_free \in 0..n
         /\ q.avail \in [0..(n - 1) -> 0..(n - 1)]
         /\ q.used \in [0..(n - 1) -> [id : 0..(n - 1), len : Nat]]
         /\ q.last_used_idx \in 0..(WRAP - 1) /\ q.avail_idx \in 0..(WRAP - 1)
         /\ q.used_idx \in 0..(WRAP - 1) /\ q.seen \in 0..(WRAP - 1)
         /\ q.busy \in SUBSET (0..(n - 1))
BY Zenon DEF Queues, Slots

\* What the free list does not depend on.
Rings(q) == <<q.size, q.avail, q.avail_idx, q.used, q.used_idx, q.last_used_idx, q.seen, q.busy>>

\* Descriptors point into the table.
LEMMA DescFields ==
  ASSUME NEW n \in Nat \ {0}, NEW A, NEW q \in Queues(n, A), NEW i \in 0..(n - 1)
  PROVE  q.desc[i].next \in 0..(n - 1)
<1>1. q.desc \in [0..(n - 1) -> [addr : A, flags : SUBSET {"NEXT", "WRITE"}, next : 0..(n - 1)]]
  BY QueueFields, Zenon
<1>2. q.desc[i] \in [addr : A, flags : SUBSET {"NEXT", "WRITE"}, next : 0..(n - 1)]
  BY <1>1, Zenon
<1>. QED BY <1>2

\* How a list shows that F is free.
LEMMA FreeListBy ==
  ASSUME NEW n \in Nat \ {0}, NEW A, NEW q \in Queues(n, A), NEW F,
         NEW m \in Nat, q.num_free = m, NEW s \in [1..m -> 0..(n - 1)],
         \A j, k \in 1..m : s[j] = s[k] => j = k,
         m > 0 => s[1] = q.free_head,
         \A k \in 1..(m - 1) : q.desc[s[k]].next = s[k + 1],
         F = {s[k] : k \in 1..m}
  PROVE  FreeList(q, F)
<1>1. s \in [1..q.num_free -> Slots(q)]
  BY QueueFields
<1>2. /\ \A j, k \in 1..q.num_free : s[j] = s[k] => j = k
      /\ q.num_free > 0 => s[1] = q.free_head
      /\ \A k \in 1..(q.num_free - 1) : q.desc[s[k]].next = s[k + 1]
      /\ F = {s[k] : k \in 1..q.num_free}
  OBVIOUS
<1>. QED BY <1>1, <1>2, Zenon DEF FreeList

\* The free list is one of desc, free_head and num_free.
LEMMA FreeListSame ==
  ASSUME NEW n \in Nat \ {0}, NEW A, NEW q \in Queues(n, A), NEW r \in Queues(n, A), NEW F,
         FreeList(q, F), r.free_head = q.free_head, r.num_free = q.num_free,
         \A i \in F : r.desc[i].next = q.desc[i].next
  PROVE  FreeList(r, F)
<1>1. Slots(q) = Slots(r)
  BY QueueFields, Zenon
<1>2. PICK s \in [1..q.num_free -> Slots(q)] :
         /\ \A j, k \in 1..q.num_free : s[j] = s[k] => j = k
         /\ q.num_free > 0 => s[1] = q.free_head
         /\ \A k \in 1..(q.num_free - 1) : q.desc[s[k]].next = s[k + 1]
         /\ F = {s[k] : k \in 1..q.num_free}
  BY Zenon DEF FreeList
<1>3. \A k \in 1..(q.num_free - 1) : s[k] \in F
  <2>1. q.num_free \in Nat
    BY QueueFields
  <2>. QED BY <1>2, <2>1
<1>4. \A k \in 1..(q.num_free - 1) : r.desc[s[k]].next = s[k + 1]
  BY <1>2, <1>3, Zenon
<1>5. s \in [1..r.num_free -> Slots(r)]
  BY <1>1
<1>6. /\ \A j, k \in 1..r.num_free : s[j] = s[k] => j = k
      /\ r.num_free > 0 => s[1] = r.free_head
      /\ \A k \in 1..(r.num_free - 1) : r.desc[s[k]].next = s[k + 1]
      /\ F = {s[k] : k \in 1..r.num_free}
  <2>1. r.num_free = q.num_free /\ r.free_head = q.free_head
    OBVIOUS
  <2>. QED BY <1>2, <1>4, <2>1
<1>. QED BY <1>5, <1>6, Zenon DEF FreeList

\* What alloc_desc returns was free, and is so no longer.
LEMMA AllocDesc ==
  ASSUME NEW n \in Nat \ {0}, NEW A, NEW q \in Queues(n, A), NEW F, FreeList(q, F), q.num_free > 0
  PROVE  /\ q.free_head \in F
         /\ alloc_desc(q) \in Queues(n, A) /\ alloc_desc(q).desc = q.desc
         /\ alloc_desc(q).num_free = q.num_free - 1
         /\ alloc_desc(q).free_head = q.desc[q.free_head].next
         /\ FreeList(alloc_desc(q), F \ {q.free_head})
         /\ Rings(alloc_desc(q)) = Rings(q)
<1>1. alloc_desc(q) \in Queues(n, A)
  <2>1. q.desc[q.free_head].next \in 0..(n - 1)
    BY QueueFields, DescFields, Zenon
  <2>2. q.num_free - 1 \in 0..n
    <3>1. q.num_free \in 0..n
      BY QueueFields, Zenon
    <3>. QED BY <3>1
  <2>. QED BY <2>1, <2>2, Zenon DEF Queues, alloc_desc
<1>2. /\ alloc_desc(q).num_free = q.num_free - 1 /\ alloc_desc(q).desc = q.desc
      /\ alloc_desc(q).free_head = q.desc[q.free_head].next
  BY DEF Queues, alloc_desc
<1>3. PICK s \in [1..q.num_free -> Slots(q)] :
         /\ \A j, k \in 1..q.num_free : s[j] = s[k] => j = k
         /\ q.num_free > 0 => s[1] = q.free_head
         /\ \A k \in 1..(q.num_free - 1) : q.desc[s[k]].next = s[k + 1]
         /\ F = {s[k] : k \in 1..q.num_free}
  BY Zenon DEF FreeList
<1> DEFINE m == q.num_free
           t == [k \in 1..(m - 1) |-> s[k + 1]]
<1>4. m \in Nat /\ m > 0
  BY QueueFields
<1>5. s[1] = q.free_head /\ 1 \in 1..m
  BY <1>3, <1>4
<1>6. t \in [1..(m - 1) -> Slots(q)] /\ \A k \in 1..(m - 1) : t[k] = s[k + 1]
  BY <1>4
<1>7. \A j, k \in 1..(m - 1) : t[j] = t[k] => j = k
  <2>1. SUFFICES ASSUME NEW j \in 1..(m - 1), NEW k \in 1..(m - 1), t[j] = t[k] PROVE j = k
    BY Zenon
  <2>2. j + 1 \in 1..m /\ k + 1 \in 1..m
    BY <1>4
  <2>3. j + 1 = k + 1
    BY <1>3, <1>6, <2>1, <2>2, Zenon
  <2>. QED BY <2>3
<1>8. m - 1 > 0 => t[1] = q.desc[q.free_head].next
  BY <1>3, <1>4, <1>5
<1>9. \A k \in 1..(m - 2) : q.desc[t[k]].next = t[k + 1]
  <2>1. SUFFICES ASSUME NEW k \in 1..(m - 2) PROVE q.desc[t[k]].next = t[k + 1]
    BY Zenon
  <2>2. k \in 1..(m - 1) /\ k + 1 \in 1..(m - 1) /\ (k + 1) + 1 = k + 2
    BY <1>4
  <2>3. t[k] = s[k + 1] /\ t[k + 1] = s[(k + 1) + 1]
    BY <1>6, <2>2, Zenon
  <2>. QED BY <1>3, <2>2, <2>3, Zenon
<1>10. F \ {q.free_head} = {t[k] : k \in 1..(m - 1)}
  <2>1. ASSUME NEW i \in F, i # q.free_head PROVE i \in {t[k] : k \in 1..(m - 1)}
    <3>1. PICK k \in 1..m : i = s[k]
      BY <1>3, <2>1, Zenon
    <3>2. k # 1
      BY <1>5, <2>1, <3>1, Zenon
    <3>3. k - 1 \in 1..(m - 1) /\ (k - 1) + 1 = k
      BY <1>4, <3>2
    <3>4. t[k - 1] = i
      BY <1>6, <3>1, <3>3, Zenon
    <3>. QED BY <3>3, <3>4, Zenon
  <2>2. ASSUME NEW k \in 1..(m - 1) PROVE t[k] \in F /\ t[k] # q.free_head
    <3>1. k + 1 \in 1..m /\ k + 1 # 1
      BY <1>4
    <3>. QED BY <1>3, <1>5, <1>6, <3>1, Zenon
  <2>. QED BY <2>1, <2>2, Zenon
<1>11. Slots(q) = 0..(n - 1)
  BY QueueFields, Zenon
<1>12. FreeList(alloc_desc(q), F \ {q.free_head})
  <2> HIDE DEF t
  <2>1. m - 1 = alloc_desc(q).num_free /\ (m - 1) - 1 = m - 2 /\ m - 1 \in Nat
    BY <1>2, <1>4
  <2>2. t \in [1..(m - 1) -> 0..(n - 1)]
    BY <1>6, <1>11, Zenon
  <2>3. m - 1 > 0 => t[1] = alloc_desc(q).free_head
    BY <1>2, <1>8, Zenon
  <2>4. \A k \in 1..((m - 1) - 1) : alloc_desc(q).desc[t[k]].next = t[k + 1]
    BY <1>2, <1>9, <2>1, Zenon
  <2>. QED BY <1>1, <1>7, <1>10, <2>1, <2>2, <2>3, <2>4, FreeListBy, Zenon
<1>13. q.free_head \in F
  BY <1>3, <1>5, Zenon
<1>14. Rings(alloc_desc(q)) = Rings(q)
  BY DEF Queues, alloc_desc, Rings
<1>. QED BY <1>1, <1>2, <1>12, <1>13, <1>14, Zenon

\* free_desc leaves the rings.
LEMMA FreeDescFields ==
  ASSUME NEW n \in Nat \ {0}, NEW A, NEW q \in Queues(n, A), NEW i \in 0..(n - 1)
  PROVE  Rings(free_desc(q, i)) = Rings(q) /\ free_desc(q, i).num_free = q.num_free + 1
BY DEF Queues, free_desc, Rings

\* free_desc writes one descriptor.
LEMMA FreeDescOthers ==
  ASSUME NEW n \in Nat \ {0}, NEW A, NEW q \in Queues(n, A), NEW i \in 0..(n - 1),
         NEW j \in 0..(n - 1), j # i
  PROVE  free_desc(q, i).desc[j] = q.desc[j]
BY DEF Queues, free_desc

\* free_desc puts one more on the free list, in front.
LEMMA FreeDesc ==
  ASSUME NEW n \in Nat \ {0}, NEW A, NEW q \in Queues(n, A), NEW F, FreeList(q, F),
         NEW i \in 0..(n - 1), i \notin F, q.num_free < n
  PROVE  /\ free_desc(q, i) \in Queues(n, A)
         /\ FreeList(free_desc(q, i), F \cup {i})
<1> DEFINE r == free_desc(q, i)
<1>0. q.free_head \in 0..(n - 1) /\ q.num_free + 1 \in 0..n
  <2>1. q.num_free \in 0..n /\ q.free_head \in 0..(n - 1)
    BY QueueFields, Zenon
  <2>. QED BY <2>1
<1>1. r \in Queues(n, A)
  <2> DEFINE D == [addr : A, flags : SUBSET {"NEXT", "WRITE"}, next : 0..(n - 1)]
             d == [q.desc[i] EXCEPT !.next = q.free_head, !.flags = {}]
             dd == [q.desc EXCEPT ![i] = d]
  <2>1. q.desc \in [0..(n - 1) -> D]
    BY QueueFields, Zenon
  <2>2. d \in D
    <3>1. q.desc[i] \in D
      BY <2>1, Zenon
    <3>. QED BY <1>0, <3>1, Zenon
  <2>3. dd \in [0..(n - 1) -> D]
    <3> HIDE DEF d, D
    <3>. QED BY <2>1, <2>2
  <2>4. r = [q EXCEPT !.desc = dd, !.free_head = i, !.num_free = @ + 1]
    BY DEF free_desc
  <2> HIDE DEF dd, r
  <2>. QED BY <1>0, <2>3, <2>4, Zenon DEF Queues
<1>2. /\ r.num_free = q.num_free + 1 /\ r.free_head = i
      /\ \A j \in 0..(n - 1) : j # i => r.desc[j] = q.desc[j]
      /\ r.desc[i].next = q.free_head
  BY DEF Queues, free_desc
<1> HIDE DEF r
<1>3. PICK s \in [1..q.num_free -> Slots(q)] :
         /\ \A j, k \in 1..q.num_free : s[j] = s[k] => j = k
         /\ q.num_free > 0 => s[1] = q.free_head
         /\ \A k \in 1..(q.num_free - 1) : q.desc[s[k]].next = s[k + 1]
         /\ F = {s[k] : k \in 1..q.num_free}
  BY Zenon DEF FreeList
<1> DEFINE m == q.num_free
           t == [k \in 1..(m + 1) |-> IF k = 1 THEN i ELSE s[k - 1]]
<1>4. m \in Nat /\ Slots(q) = 0..(n - 1) /\ Slots(r) = Slots(q)
  <2>1. m \in Nat /\ Slots(q) = 0..(n - 1)
    BY QueueFields
  <2>2. Slots(r) = 0..(n - 1)
    BY <1>1, QueueFields, Zenon
  <2>. QED BY <2>1, <2>2
<1>5. t \in [1..(m + 1) -> Slots(q)] /\ t[1] = i /\ \A k \in 2..(m + 1) : t[k] = s[k - 1]
  BY <1>4
<1>6. \A k \in 2..(m + 1) : k - 1 \in 1..m /\ t[k] \in F /\ t[k] # i /\ t[k] \in 0..(n - 1)
  <2>1. SUFFICES ASSUME NEW k \in 2..(m + 1)
                 PROVE  k - 1 \in 1..m /\ t[k] \in F /\ t[k] # i /\ t[k] \in 0..(n - 1)
    BY Zenon
  <2>2. k - 1 \in 1..m
    BY <1>4
  <2>3. t[k] \in F
    <3>1. t[k] = s[k - 1]
      BY <1>5, Zenon
    <3>2. s[k - 1] \in {s[j] : j \in 1..q.num_free}
      BY <2>2, Zenon
    <3>. QED BY <1>3, <3>1, <3>2, Zenon
  <2>4. t[k] \in 0..(n - 1)
    BY <1>4, <1>5, <2>2
  <2>. QED BY <2>2, <2>3, <2>4, Zenon
<1>7. \A j, k \in 1..(m + 1) : t[j] = t[k] => j = k
  <2>1. SUFFICES ASSUME NEW j \in 1..(m + 1), NEW k \in 1..(m + 1), t[j] = t[k] PROVE j = k
    BY Zenon
  <2>2. CASE j = 1 \/ k = 1
    <3>1. j # 1 => j \in 2..(m + 1)
      BY <1>4
    <3>2. k # 1 => k \in 2..(m + 1)
      BY <1>4
    <3>. QED BY <1>5, <1>6, <2>1, <2>2, <3>1, <3>2, Zenon
  <2>3. CASE j # 1 /\ k # 1
    <3>1. j \in 2..(m + 1) /\ k \in 2..(m + 1)
      BY <1>4, <2>3
    <3>2. j - 1 = k - 1
      BY <1>3, <1>5, <1>6, <2>1, <3>1, Zenon
    <3>. QED BY <3>2
  <2>. QED BY <2>2, <2>3, Zenon
<1>8. \A k \in 1..m : r.desc[t[k]].next = t[k + 1]
  <2>1. SUFFICES ASSUME NEW k \in 1..m PROVE r.desc[t[k]].next = t[k + 1]
    BY Zenon
  <2>2. k + 1 \in 2..(m + 1) /\ (k + 1) - 1 = k
    BY <1>4
  <2>3. t[k + 1] = s[k]
    BY <1>5, <2>2, Zenon
  <2>4. CASE k = 1
    <3>1. m > 0
      BY <1>4
    <3>. QED BY <1>2, <1>3, <1>5, <2>3, <2>4, <3>1, Zenon
  <2>5. CASE k # 1
    <3>1. k \in 2..(m + 1) /\ k - 1 \in 1..(m - 1) /\ (k - 1) + 1 = k
      BY <1>4, <2>5
    <3>2. t[k] = s[k - 1] /\ q.desc[s[k - 1]].next = s[k]
      BY <1>3, <1>5, <3>1, Zenon
    <3>3. r.desc[t[k]] = q.desc[t[k]]
      BY <1>2, <1>6, <3>1, Zenon
    <3>. QED BY <2>3, <3>2, <3>3, Zenon
  <2>. QED BY <2>4, <2>5, Zenon
<1>9. F \cup {i} = {t[k] : k \in 1..(m + 1)}
  <2>1. ASSUME NEW j \in F PROVE j \in {t[k] : k \in 1..(m + 1)}
    <3>1. PICK k \in 1..m : j = s[k]
      BY <1>3, <2>1, Zenon
    <3>2. k + 1 \in 2..(m + 1) /\ k + 1 \in 1..(m + 1) /\ (k + 1) - 1 = k
      BY <1>4
    <3>3. t[k + 1] = j
      BY <1>5, <3>1, <3>2, Zenon
    <3>. QED BY <3>2, <3>3, Zenon
  <2>2. 1 \in 1..(m + 1) /\ \A k \in 1..(m + 1) : k = 1 \/ k \in 2..(m + 1)
    BY <1>4
  <2>3. i \in {t[k] : k \in 1..(m + 1)}
    BY <1>5, <2>2, Zenon
  <2>4. ASSUME NEW k \in 1..(m + 1) PROVE t[k] \in F \cup {i}
    BY <1>5, <1>6, <2>2, Zenon
  <2> HIDE DEF t
  <2>. QED BY <2>1, <2>3, <2>4, Zenon
<1>10. FreeList(r, F \cup {i})
  <2> HIDE DEF t
  <2>1. m + 1 = r.num_free /\ (m + 1) - 1 = m /\ m + 1 \in Nat
    BY <1>2, <1>4
  <2>2. t \in [1..(m + 1) -> 0..(n - 1)]
    BY <1>4, <1>5, Zenon
  <2>3. m + 1 > 0 => t[1] = r.free_head
    BY <1>2, <1>5, Zenon
  <2>4. \A k \in 1..((m + 1) - 1) : r.desc[t[k]].next = t[k + 1]
    BY <1>8, <2>1, Zenon
  <2>. QED BY <1>1, <1>7, <1>9, <2>1, <2>2, <2>3, <2>4, FreeListBy, Zenon
<1>. QED BY <1>1, <1>10, Zenon DEF r

\* Writing a descriptor leaves the others.
LEMMA DescribeOthers ==
  ASSUME NEW n \in Nat \ {0}, NEW A, NEW q \in Queues(n, A), NEW i \in 0..(n - 1),
         NEW addr, NEW flags, NEW next, NEW j \in 0..(n - 1), j # i
  PROVE  Described(q, i, addr, flags, next).desc[j] = q.desc[j]
BY DEF Queues, Described

\* A descriptor that is not free may be written.
LEMMA DescribeOne ==
  ASSUME NEW n \in Nat \ {0}, NEW A, NEW q \in Queues(n, A), NEW F, FreeList(q, F),
         NEW i \in 0..(n - 1), i \notin F,
         NEW addr \in A, NEW flags \in SUBSET {"NEXT", "WRITE"}, NEW next \in 0..(n - 1)
  PROVE  /\ Described(q, i, addr, flags, next) \in Queues(n, A)
         /\ Described(q, i, addr, flags, next).desc[i] = [addr |-> addr, flags |-> flags, next |-> next]
         /\ Described(q, i, addr, flags, next).num_free = q.num_free
         /\ Rings(Described(q, i, addr, flags, next)) = Rings(q)
         /\ FreeList(Described(q, i, addr, flags, next), F)
<1> DEFINE r == Described(q, i, addr, flags, next)
           D == [addr : A, flags : SUBSET {"NEXT", "WRITE"}, next : 0..(n - 1)]
           d == [addr |-> addr, flags |-> flags, next |-> next]
           dd == [q.desc EXCEPT ![i] = d]
<1>1. q.desc \in [0..(n - 1) -> D]
  BY QueueFields, Zenon
<1>2. d \in D
  OBVIOUS
<1>3. r = [q EXCEPT !.desc = dd]
  BY DEF Described
<1>4. dd \in [0..(n - 1) -> D] /\ dd[i] = d /\ \A j \in 0..(n - 1) : j # i => dd[j] = q.desc[j]
  <2> HIDE DEF d, D
  <2>. QED BY <1>1, <1>2
<1> HIDE DEF dd, r
<1>5. r \in Queues(n, A)
  BY <1>3, <1>4, Zenon DEF Queues
<1>6. r.desc = dd /\ r.num_free = q.num_free /\ r.free_head = q.free_head /\ Rings(r) = Rings(q)
  BY <1>3 DEF Queues, Rings
<1>7. \A j \in F : j \in 0..(n - 1)
  <2>1. Slots(q) = 0..(n - 1)
    BY QueueFields, Zenon
  <2>2. PICK s \in [1..q.num_free -> Slots(q)] : F = {s[k] : k \in 1..q.num_free}
    BY Zenon DEF FreeList
  <2>. QED BY <2>1, <2>2, Zenon
<1>8. FreeList(r, F)
  <2>1. \A j \in F : r.desc[j].next = q.desc[j].next
    BY <1>4, <1>6, <1>7, Zenon
  <2>. QED BY <1>5, <1>6, <2>1, FreeListSame
<1>. QED BY <1>4, <1>5, <1>6, <1>8, Zenon DEF r

\* The descriptors of a request.
Three(q, h) == {h, q.desc[h].next, q.desc[q.desc[h].next].next}

\* A chain that is built has taken three free descriptors.
LEMMA BuildChain ==
  ASSUME NEW n \in Nat \ {0}, NEW q \in Queues(n, Cells), NEW F, FreeList(q, F), q.num_free >= 3,
         NEW op \in {"IN", "OUT"}
  PROVE  LET r == ChainBuilt(q, op) IN
         /\ r \in Queues(n, Cells) /\ Rings(r) = Rings(q)
         /\ r.num_free = q.num_free - 3
         /\ q.free_head \in 0..(n - 1)
         /\ Linked(r, q.free_head)
         /\ Three(r, q.free_head) \subseteq F
         /\ FreeList(r, F \ Three(r, q.free_head))
         /\ DataAt(r, q.free_head) = IF op = "IN" THEN "c512" ELSE "c256"
<1> DEFINE d0 == q.free_head
           d1 == q.desc[d0].next
           d2 == q.desc[d1].next
           a1 == alloc_desc(q)
           a2 == alloc_desc(a1)
           a3 == alloc_desc(a2)
           at == IF op = "IN" THEN "c512" ELSE "c256"
           fl == IF op = "IN" THEN {"NEXT", "WRITE"} ELSE {"NEXT"}
           fh == {"NEXT"}
           fs == {"WRITE"}
           b0 == Described(a3, d0, "header", fh, d1)
           b1 == Described(b0, d1, at, fl, d2)
           b2 == Described(b1, d2, "status", fs, 0)
           G == F \ Three(b2, d0)
<1>1. ChainBuilt(q, op) = b2
  BY Zenon DEF ChainBuilt, Allocated
<1>2. /\ d0 \in F /\ a1 \in Queues(n, Cells) /\ a1.desc = q.desc /\ a1.num_free = q.num_free - 1
      /\ a1.free_head = d1 /\ FreeList(a1, F \ {d0}) /\ Rings(a1) = Rings(q)
  <2>1. q.num_free > 0
    BY QueueFields
  <2>. QED BY <2>1, AllocDesc, Zenon
<1> HIDE DEF a1
<1>3. /\ d1 \in F \ {d0} /\ a2 \in Queues(n, Cells) /\ a2.desc = q.desc /\ a2.num_free = a1.num_free - 1
      /\ a2.free_head = d2 /\ FreeList(a2, (F \ {d0}) \ {d1}) /\ Rings(a2) = Rings(q)
  <2>1. a1.num_free > 0
    BY <1>2, QueueFields
  <2> DEFINE E == F \ {d0}
  <2>2. a1 \in Queues(n, Cells) /\ FreeList(a1, E)
    BY <1>2, Zenon
  <2> HIDE DEF E
  <2>3. /\ a1.free_head \in E /\ a2 \in Queues(n, Cells) /\ a2.desc = a1.desc
        /\ a2.num_free = a1.num_free - 1 /\ a2.free_head = a1.desc[a1.free_head].next
        /\ FreeList(a2, E \ {a1.free_head}) /\ Rings(a2) = Rings(a1)
    BY <2>1, <2>2, AllocDesc, Zenon
  <2> HIDE DEF a2
  <2>. QED BY <1>2, <2>3, Zenon DEF E
<1> HIDE DEF a2
<1>4. /\ d2 \in (F \ {d0}) \ {d1} /\ a3 \in Queues(n, Cells) /\ a3.desc = q.desc
      /\ a3.num_free = a2.num_free - 1
      /\ FreeList(a3, ((F \ {d0}) \ {d1}) \ {d2}) /\ Rings(a3) = Rings(q)
  <2> DEFINE E3 == (F \ {d0}) \ {d1}
  <2>1. q.num_free \in Nat
    BY QueueFields
  <2>2. a2.num_free > 0
    BY <1>2, <1>3, <2>1
  <2>3. FreeList(a2, E3) /\ a2 \in Queues(n, Cells)
    BY <1>3, Zenon
  <2> HIDE DEF E3
  <2>4. /\ a2.free_head \in E3 /\ a3 \in Queues(n, Cells) /\ a3.desc = a2.desc
        /\ a3.num_free = a2.num_free - 1
        /\ FreeList(a3, E3 \ {a2.free_head}) /\ Rings(a3) = Rings(a2)
    BY <2>2, <2>3, AllocDesc, Zenon
  <2>. QED BY <1>3, <2>4, Zenon DEF E3
<1> HIDE DEF a3
<1>5. d0 \in 0..(n - 1) /\ d1 \in 0..(n - 1) /\ d2 \in 0..(n - 1) /\ 0 \in 0..(n - 1)
  <2>1. d0 \in 0..(n - 1)
    BY QueueFields, Zenon
  <2>2. d1 \in 0..(n - 1)
    BY <2>1, DescFields, Zenon
  <2>3. d2 \in 0..(n - 1)
    BY <2>2, DescFields, Zenon
  <2>. QED BY <2>1, <2>2, <2>3
<1>6. d0 # d1 /\ d0 # d2 /\ d1 # d2
  BY <1>3, <1>4, Zenon
<1> DEFINE H == ((F \ {d0}) \ {d1}) \ {d2}
<1>7. d0 \notin H /\ d1 \notin H /\ d2 \notin H
  BY Zenon
<1>8. /\ "header" \in Cells /\ "status" \in Cells /\ at \in Cells
      /\ fh \in SUBSET {"NEXT", "WRITE"} /\ fs \in SUBSET {"NEXT", "WRITE"}
      /\ fl \in SUBSET {"NEXT", "WRITE"} /\ "NEXT" \in fl /\ "NEXT" \in fh /\ "NEXT" \notin fs
  BY DEF Cells
<1> HIDE DEF at, fl, fh, fs, H, d0, d1, d2
<1>9. /\ b0 \in Queues(n, Cells) /\ b0.desc[d0] = [addr |-> "header", flags |-> fh, next |-> d1]
      /\ b0.num_free = a3.num_free /\ Rings(b0) = Rings(q) /\ FreeList(b0, H)
  <2>1. FreeList(a3, H)
    BY <1>4, Zenon DEF H
  <2>2. /\ b0 \in Queues(n, Cells) /\ b0.desc[d0] = [addr |-> "header", flags |-> fh, next |-> d1]
        /\ b0.num_free = a3.num_free /\ Rings(b0) = Rings(a3) /\ FreeList(b0, H)
    BY <1>4, <1>5, <1>7, <1>8, <2>1, DescribeOne
  <2>. QED BY <1>4, <2>2, Zenon
<1> HIDE DEF b0
<1>10. /\ b1 \in Queues(n, Cells) /\ b1.desc[d1] = [addr |-> at, flags |-> fl, next |-> d2]
       /\ b1.num_free = a3.num_free /\ Rings(b1) = Rings(q) /\ FreeList(b1, H)
  BY <1>5, <1>7, <1>8, <1>9, DescribeOne
<1> HIDE DEF b1
<1>11. /\ b2 \in Queues(n, Cells) /\ b2.desc[d2] = [addr |-> "status", flags |-> fs, next |-> 0]
       /\ b2.num_free = a3.num_free /\ Rings(b2) = Rings(q) /\ FreeList(b2, H)
  <2>1. PICK z \in 0..(n - 1) : z = 0
    BY <1>5, Zenon
  <2> DEFINE b3 == Described(b1, d2, "status", fs, z)
  <2>2. /\ b3 \in Queues(n, Cells) /\ b3.desc[d2] = [addr |-> "status", flags |-> fs, next |-> z]
        /\ b3.num_free = b1.num_free /\ Rings(b3) = Rings(b1) /\ FreeList(b3, H)
    BY <1>5, <1>7, <1>8, <1>10, DescribeOne
  <2>3. b3 = b2
    BY <2>1, Zenon
  <2>. QED BY <1>10, <2>1, <2>2, <2>3, Zenon
<1> HIDE DEF b2
<1>12. /\ b2.desc[d0] = [addr |-> "header", flags |-> fh, next |-> d1]
       /\ b2.desc[d1] = [addr |-> at, flags |-> fl, next |-> d2]
  <2>1. b1.desc[d0] = b0.desc[d0]
    BY <1>5, <1>6, <1>9, DescribeOthers DEF b1
  <2>2. b2.desc[d0] = b1.desc[d0] /\ b2.desc[d1] = b1.desc[d1]
    BY <1>5, <1>6, <1>10, DescribeOthers DEF b2
  <2>. QED BY <1>9, <1>10, <2>1, <2>2, Zenon
<1>13. /\ b2.desc[d0].next = d1 /\ b2.desc[d0].flags = fh
       /\ b2.desc[d1].next = d2 /\ b2.desc[d1].flags = fl /\ b2.desc[d1].addr = at
       /\ b2.desc[d2].flags = fs
  BY <1>11, <1>12
<1>14. Linked(b2, d0)
  <2>1. HasNext(b2, d0) /\ HasNext(b2, d1) /\ ~HasNext(b2, d2)
    BY <1>8, <1>13 DEF HasNext
  <2>. QED BY <1>6, <1>13, <2>1, Zenon DEF Linked
<1>15. Three(b2, d0) = {d0, d1, d2}
  BY <1>13, Zenon DEF Three
<1>16. Three(b2, d0) \subseteq F
  BY <1>2, <1>3, <1>4, <1>15, Zenon
<1>17. FreeList(b2, F \ Three(b2, d0))
  <2>1. H = F \ {d0, d1, d2}
    BY Zenon DEF H
  <2>. QED BY <1>11, <1>15, <2>1, Zenon
<1>18. DataAt(b2, d0) = at
  BY <1>13, Zenon DEF DataAt
<1>19. b2.num_free = q.num_free - 3
  <2>1. q.num_free \in Nat
    BY QueueFields
  <2>. QED BY <1>2, <1>3, <1>4, <1>11, <2>1
<1>. QED BY <1>1, <1>5, <1>11, <1>14, <1>16, <1>17, <1>18, <1>19, Zenon DEF d0, at

\* What a request with too few descriptors takes it gives back.
LEMMA BackOut ==
  ASSUME NEW n \in Nat \ {0}, NEW q \in Queues(n, Cells), NEW F, FreeList(q, F), q.num_free < 3
  PROVE  /\ Backed(q) \in Queues(n, Cells) /\ Rings(Backed(q)) = Rings(q)
         /\ FreeList(Backed(q), F)
<1> DEFINE d0 == q.free_head
           d1 == q.desc[d0].next
           a1 == alloc_desc(q)
           a2 == alloc_desc(a1)
           f1 == free_desc(a1, d0)
           f2 == free_desc(a2, d0)
           f3 == free_desc(f2, d1)
<1>0. q.num_free \in 0..n /\ d0 \in 0..(n - 1)
  BY QueueFields, Zenon
<1>1. CASE q.num_free = 0
  BY <1>1 DEF Backed
<1>2. ASSUME q.num_free > 0
      PROVE  /\ d0 \in F /\ a1 \in Queues(n, Cells) /\ a1.desc = q.desc /\ a1.num_free = q.num_free - 1
             /\ a1.free_head = d1 /\ FreeList(a1, F \ {d0}) /\ Rings(a1) = Rings(q)
  BY <1>2, AllocDesc, Zenon
<1>3. CASE q.num_free = 1
  <2>1. Backed(q) = f1
    BY <1>3 DEF Backed
  <2>2. a1.num_free < n /\ q.num_free > 0
    BY <1>0, <1>2, <1>3
  <2> HIDE DEF a1
  <2>3. f1 \in Queues(n, Cells) /\ FreeList(f1, (F \ {d0}) \cup {d0}) /\ Rings(f1) = Rings(a1)
    <3>1. d0 \notin F \ {d0}
      BY Zenon
    <3>2. f1 \in Queues(n, Cells) /\ FreeList(f1, (F \ {d0}) \cup {d0})
      BY <1>0, <1>2, <2>2, <3>1, FreeDesc, Zenon
    <3>3. Rings(f1) = Rings(a1)
      BY <1>0, <1>2, <2>2, FreeDescFields
    <3>. QED BY <3>2, <3>3, Zenon
  <2>4. (F \ {d0}) \cup {d0} = F
    BY <1>2, <2>2, Zenon
  <2>. QED BY <1>2, <2>1, <2>2, <2>3, <2>4, Zenon
<1>4. CASE q.num_free = 2
  <2>1. Backed(q) = f3
    BY <1>4 DEF Backed
  <2>2. q.num_free > 0 /\ a1.num_free > 0 /\ a1.num_free - 1 < n /\ (a1.num_free - 1) + 1 < n
    BY <1>0, <1>2, <1>4
  <2> HIDE DEF a1
  <2>3. /\ d1 \in F \ {d0} /\ a2 \in Queues(n, Cells) /\ a2.num_free = a1.num_free - 1
        /\ FreeList(a2, (F \ {d0}) \ {d1}) /\ Rings(a2) = Rings(a1)
    BY <1>2, <2>2, AllocDesc, Zenon
  <2> HIDE DEF a2
  <2>4. /\ f2 \in Queues(n, Cells) /\ FreeList(f2, ((F \ {d0}) \ {d1}) \cup {d0})
        /\ Rings(f2) = Rings(a1) /\ f2.num_free = a2.num_free + 1
    <3> DEFINE G == (F \ {d0}) \ {d1}
    <3>1. d0 \notin G /\ FreeList(a2, G) /\ a2.num_free < n
      BY <2>2, <2>3
    <3> HIDE DEF G, d0
    <3>2. f2 \in Queues(n, Cells) /\ FreeList(f2, G \cup {d0})
      BY <1>0, <2>3, <3>1, FreeDesc
    <3>3. Rings(f2) = Rings(a2) /\ f2.num_free = a2.num_free + 1
      BY <1>0, <2>3, FreeDescFields
    <3>. QED BY <2>3, <3>2, <3>3, Zenon DEF G
  <2> HIDE DEF f2
  <2>5. /\ f3 \in Queues(n, Cells) /\ FreeList(f3, (((F \ {d0}) \ {d1}) \cup {d0}) \cup {d1})
        /\ Rings(f3) = Rings(a1)
    <3>1. d1 \notin ((F \ {d0}) \ {d1}) \cup {d0}
      BY <2>3, Zenon
    <3>2. d1 \in 0..(n - 1)
      BY <1>0, DescFields, Zenon
    <3> DEFINE G == ((F \ {d0}) \ {d1}) \cup {d0}
    <3>3. f2 \in Queues(n, Cells) /\ FreeList(f2, G) /\ d1 \notin G /\ f2.num_free < n
      BY <2>2, <2>3, <2>4, <3>1
    <3> HIDE DEF G, d1
    <3>4. f3 \in Queues(n, Cells) /\ FreeList(f3, G \cup {d1})
      BY <3>2, <3>3, FreeDesc
    <3>5. Rings(f3) = Rings(f2)
      BY <2>4, <3>2, FreeDescFields
    <3>. QED BY <2>4, <3>4, <3>5, Zenon DEF G
  <2>6. (((F \ {d0}) \ {d1}) \cup {d0}) \cup {d1} = F
    BY <1>2, <2>2, <2>3, Zenon
  <2>. QED BY <1>2, <2>1, <2>2, <2>5, <2>6, Zenon
<1>. QED BY <1>0, <1>1, <1>3, <1>4

\* Walking along next.
LEMMA WalkIs ==
  ASSUME NEW n \in Nat \ {0}, NEW A, NEW q \in Queues(n, A), NEW h \in 0..(n - 1)
  PROVE  \A k \in 1..n : Walk(q, h)[k] = IF k = 1 THEN h ELSE q.desc[Walk(q, h)[k - 1]].next
<1> DEFINE f == [i \in 0..(n - 1) |-> q.desc[i].next]
           Along(w) == w = [k \in 1..q.size |-> IF k = 1 THEN h ELSE q.desc[w[k - 1]].next]
<1>1. f \in [0..(n - 1) -> 0..(n - 1)]
  BY DescFields, Zenon
<1>2. q.size = n
  BY QueueFields, Zenon
<1>3. PICK w \in [1..n -> 0..(n - 1)] : Iterates(w, f, h, n)
  <2> HIDE DEF f
  <2>. QED BY <1>1, IteratesExist, Zenon
<1>4. Along(w)
  <2>1. ASSUME NEW k \in 1..n PROVE w[k] = IF k = 1 THEN h ELSE q.desc[w[k - 1]].next
    <3>1. w[k] = IF k = 1 THEN h ELSE f[w[k - 1]]
      BY <1>3, Zenon DEF Iterates
    <3>2. k # 1 => w[k - 1] \in 0..(n - 1)
      BY <1>3
    <3>. QED BY <3>1, <3>2, Zenon
  <2>2. w = [k \in 1..n |-> w[k]]
    BY <1>3, Zenon
  <2>. QED BY <1>2, <2>1, <2>2, Zenon
<1>5. Walk(q, h) = CHOOSE v : Along(v)
  BY Zenon DEF Walk
<1>6. Along(Walk(q, h))
  <2> HIDE DEF Along
  <2>. QED BY <1>4, <1>5, Zenon
<1>7. \A k \in 1..q.size : Walk(q, h)[k] = IF k = 1 THEN h ELSE q.desc[Walk(q, h)[k - 1]].next
  <2>1. PICK v : v = Walk(q, h)
    OBVIOUS
  <2>2. v = [k \in 1..q.size |-> IF k = 1 THEN h ELSE q.desc[v[k - 1]].next]
    BY <1>6, <2>1, Zenon
  <2>3. \A k \in 1..q.size : v[k] = IF k = 1 THEN h ELSE q.desc[v[k - 1]].next
    BY <2>2, Zenon
  <2>. QED BY <2>1, <2>3, Zenon
<1>. QED BY <1>2, <1>7, Zenon

\* The chain of a request has three descriptors, and free_chain frees them.
LEMMA LinkedChain ==
  ASSUME NEW n \in Nat \ {0}, NEW A, NEW q \in Queues(n, A), NEW h \in 0..(n - 1), Linked(q, h)
  PROVE  /\ Chain(q, h) = Three(q, h)
         /\ free_chain(q, h) = free_desc(free_desc(free_desc(q, h), q.desc[h].next),
                                         q.desc[q.desc[h].next].next)
<1> DEFINE d1 == q.desc[h].next
           d2 == q.desc[d1].next
           W == Walk(q, h)
           Ends(m) == ~HasNext(q, W[m]) /\ \A k \in 1..(m - 1) : HasNext(q, W[k])
<1>1. d1 \in 0..(n - 1) /\ d2 \in 0..(n - 1) /\ q.size = n
  <2>1. d1 \in 0..(n - 1)
    BY DescFields, Zenon
  <2>2. d2 \in 0..(n - 1)
    BY <2>1, DescFields, Zenon
  <2>. QED BY <2>1, <2>2, QueueFields, Zenon
<1>2. h # d1 /\ h # d2 /\ d1 # d2 /\ HasNext(q, h) /\ HasNext(q, d1) /\ ~HasNext(q, d2)
  BY Zenon DEF Linked
<1>3. n >= 3
  <2> HIDE DEF d1, d2
  <2>. QED BY <1>1, <1>2
<1>4. W[1] = h /\ W[2] = d1 /\ W[3] = d2
  <2>1. 1 \in 1..n /\ 2 \in 1..n /\ 3 \in 1..n /\ 2 # 1 /\ 3 # 1 /\ 2 - 1 = 1 /\ 3 - 1 = 2
    BY <1>3
  <2>2. \A k \in 1..n : W[k] = IF k = 1 THEN h ELSE q.desc[W[k - 1]].next
    BY WalkIs
  <2> HIDE DEF W
  <2>3. W[1] = h
    BY <2>1, <2>2
  <2>4. W[2] = q.desc[W[2 - 1]].next
    BY <2>1, <2>2
  <2>5. W[3] = q.desc[W[3 - 1]].next
    BY <2>1, <2>2
  <2>. QED BY <2>1, <2>3, <2>4, <2>5, Zenon
<1> HIDE DEF W, d1, d2
<1>5. Ends(3)
  <2>1. \A k \in 1..(3 - 1) : k = 1 \/ k = 2
    OBVIOUS
  <2>. QED BY <1>2, <1>4, <2>1, Zenon
<1>6. \A m \in 1..q.size : Ends(m) => m = 3
  <2>1. SUFFICES ASSUME NEW m \in 1..q.size, Ends(m), m # 3 PROVE FALSE
    BY Zenon
  <2>2. m = 1 \/ m = 2 \/ 3 \in 1..(m - 1)
    BY <1>1, <2>1
  <2>. QED BY <1>2, <1>4, <2>1, <2>2, Zenon
<1>7. ChainLength(q, h) = 3
  <2>1. ChainLength(q, h) = CHOOSE m \in 1..q.size : Ends(m)
    BY Zenon DEF ChainLength, W
  <2>2. 3 \in 1..q.size
    BY <1>1, <1>3
  <2> HIDE DEF Ends
  <2>3. \E m \in 1..q.size : Ends(m)
    BY <1>5, <2>2, Zenon
  <2>4. ChainLength(q, h) \in 1..q.size /\ Ends(ChainLength(q, h))
    BY <2>1, <2>3, Zenon
  <2>. QED BY <1>6, <2>4, Zenon
<1>8. Chain(q, h) = Three(q, h)
  <2>1. Chain(q, h) = {W[k] : k \in 1..3}
    BY <1>7, Zenon DEF Chain, W
  <2>2. {W[k] : k \in 1..3} = {W[1], W[2], W[3]}
    OBVIOUS
  <2>3. Three(q, h) = {h, d1, d2}
    BY Zenon DEF Three, d1, d2
  <2>. QED BY <1>4, <2>1, <2>2, <2>3, Zenon
<1>9. free_chain(q, h) = free_desc(free_desc(free_desc(q, h), d1), d2)
  <2> DEFINE Freeing(v) == v = [k \in 0..3 |-> IF k = 0 THEN q ELSE free_desc(v[k - 1], W[k])]
             q1 == free_desc(q, h)
             q2 == free_desc(q1, d1)
             q3 == free_desc(q2, d2)
             u == [k \in 0..3 |-> IF k = 0 THEN q ELSE IF k = 1 THEN q1 ELSE IF k = 2 THEN q2 ELSE q3]
  <2>1. free_chain(q, h) = (CHOOSE v : Freeing(v))[3]
    BY <1>7, Zenon DEF free_chain, W
  <2>2. u[0] = q /\ u[1] = q1 /\ u[2] = q2 /\ u[3] = q3 /\ u = [k \in 0..3 |-> u[k]]
    <3> HIDE DEF q1, q2, q3
    <3>. QED OBVIOUS
  <2> HIDE DEF u
  <2>3. Freeing(u)
    <3>1. ASSUME NEW k \in 0..3 PROVE u[k] = IF k = 0 THEN q ELSE free_desc(u[k - 1], W[k])
      <4>1. k = 0 \/ (k = 1 /\ k - 1 = 0) \/ (k = 2 /\ k - 1 = 1) \/ (k = 3 /\ k - 1 = 2)
        OBVIOUS
      <4>2. CASE k = 0
        BY <2>2, <4>2, Zenon
      <4>3. CASE k = 1 /\ k - 1 = 0
        <5>1. k # 0
          BY <4>3
        <5>. QED BY <1>4, <2>2, <4>3, <5>1, Zenon
      <4>4. CASE k = 2 /\ k - 1 = 1
        <5>1. k # 0
          BY <4>4
        <5>. QED BY <1>4, <2>2, <4>4, <5>1, Zenon
      <4>5. CASE k = 3 /\ k - 1 = 2
        <5>1. k # 0
          BY <4>5
        <5>. QED BY <1>4, <2>2, <4>5, <5>1, Zenon
      <4>. QED BY <4>1, <4>2, <4>3, <4>4, <4>5, Zenon
    <3>2. u = [k \in 0..3 |-> IF k = 0 THEN q ELSE free_desc(u[k - 1], W[k])]
      BY <2>2, <3>1, Zenon
    <3>. QED BY <3>2, Zenon
  <2>4. PICK v : v = CHOOSE x : Freeing(x)
    OBVIOUS
  <2>5. Freeing(v)
    <3> HIDE DEF Freeing
    <3>. QED BY <2>3, <2>4, Zenon
  <2>6. \A k \in 0..3 : v[k] = IF k = 0 THEN q ELSE free_desc(v[k - 1], W[k])
    BY <2>5, Zenon
  <2>7. 0 \in 0..3 /\ 1 \in 0..3 /\ 2 \in 0..3 /\ 3 \in 0..3 /\ 1 # 0 /\ 2 # 0 /\ 3 # 0
        /\ 1 - 1 = 0 /\ 2 - 1 = 1 /\ 3 - 1 = 2
    OBVIOUS
  <2>8. v[0] = q
    BY <2>6, <2>7, Zenon
  <2>9. v[1] = q1
    <3>1. v[1] = free_desc(v[1 - 1], W[1])
      BY <2>6, <2>7, Zenon
    <3>. QED BY <1>4, <2>7, <2>8, <3>1, Zenon
  <2>10. v[2] = q2
    <3>1. v[2] = free_desc(v[2 - 1], W[2])
      BY <2>6, <2>7, Zenon
    <3>. QED BY <1>4, <2>7, <2>9, <3>1, Zenon
  <2>11. v[3] = q3
    <3>1. v[3] = free_desc(v[3 - 1], W[3])
      BY <2>6, <2>7, Zenon
    <3>. QED BY <1>4, <2>7, <2>10, <3>1, Zenon
  <2>. QED BY <2>1, <2>4, <2>11, Zenon
<1>. QED BY <1>8, <1>9, Zenon DEF d1, d2

\* free_chain gives the three back.
LEMMA FreeChain ==
  ASSUME NEW n \in Nat \ {0}, NEW A, NEW q \in Queues(n, A), NEW h \in 0..(n - 1), Linked(q, h),
         NEW F, FreeList(q, F), Three(q, h) \cap F = {}, q.num_free + 3 <= n
  PROVE  /\ free_chain(q, h) \in Queues(n, A) /\ Rings(free_chain(q, h)) = Rings(q)
         /\ FreeList(free_chain(q, h), F \cup Three(q, h))
<1> DEFINE d1 == q.desc[h].next
           d2 == q.desc[d1].next
           q1 == free_desc(q, h)
           q2 == free_desc(q1, d1)
           q3 == free_desc(q2, d2)
           F1 == F \cup {h}
           F2 == F1 \cup {d1}
<1>1. d1 \in 0..(n - 1) /\ d2 \in 0..(n - 1) /\ q.num_free \in Nat
  <2>1. d1 \in 0..(n - 1)
    BY DescFields, Zenon
  <2>2. d2 \in 0..(n - 1)
    BY <2>1, DescFields, Zenon
  <2>3. q.num_free \in 0..n
    BY QueueFields, Zenon
  <2>. QED BY <2>1, <2>2, <2>3
<1>2. h # d1 /\ h # d2 /\ d1 # d2
  BY Zenon DEF Linked
<1>3. h \notin F /\ d1 \notin F /\ d2 \notin F
  BY Zenon DEF Three
<1>4. free_chain(q, h) = q3
  BY LinkedChain, Zenon
<1>5. F \cup Three(q, h) = F2 \cup {d2}
  BY Zenon DEF Three
<1> HIDE DEF d1, d2
<1>6. q1 \in Queues(n, A) /\ FreeList(q1, F1)
  <2>1. q.num_free < n
    BY <1>1
  <2>. QED BY <1>3, <2>1, FreeDesc
<1>7. Rings(q1) = Rings(q) /\ q1.num_free = q.num_free + 1
  BY FreeDescFields
<1>8. d1 \notin F1
  BY <1>2, <1>3, Zenon
<1> HIDE DEF q1, F1
<1>9. q2 \in Queues(n, A) /\ FreeList(q2, F2)
  <2>1. q1.num_free < n
    BY <1>1, <1>7
  <2>. QED BY <1>1, <1>6, <1>8, <2>1, FreeDesc
<1>10. Rings(q2) = Rings(q1) /\ q2.num_free = q1.num_free + 1
  BY <1>1, <1>6, FreeDescFields
<1>11. d2 \notin F2
  BY <1>2, <1>3, Zenon DEF F1
<1> HIDE DEF q2, F2
<1>12. q3 \in Queues(n, A) /\ FreeList(q3, F2 \cup {d2})
  <2>1. q2.num_free < n
    BY <1>1, <1>7, <1>10
  <2>. QED BY <1>1, <1>9, <1>11, <2>1, FreeDesc
<1>13. Rings(q3) = Rings(q2)
  BY <1>1, <1>9, FreeDescFields
<1> HIDE DEF q3
<1>. QED BY <1>4, <1>5, <1>7, <1>10, <1>12, <1>13, Zenon

-----------------------------------------------------------------------------
(* The rings                                                               *)

\* What the rings do not depend on.
Table(q) == <<q.size, q.desc, q.free_head, q.num_free>>

\* An index step, and the slot an index names.
LEMMA IndexStep ==
  ASSUME NEW a \in 0..(WRAP - 1), NEW n \in Nat \ {0}
  PROVE  /\ (a + 1) % WRAP \in 0..(WRAP - 1) /\ (a + 1) % WRAP # a
         /\ a % n \in 0..(n - 1)
<1>1. WRAP \in Nat \ {0} /\ a \in Nat /\ a + 1 < 2 * WRAP /\ WRAP > 1 /\ a < WRAP
  BY WrapAssumption
<1>2. (a + 1) % WRAP = IF a + 1 < WRAP THEN a + 1 ELSE (a + 1) - WRAP
  BY <1>1
<1>3. a % n \in 0..(n - 1)
  BY <1>1
<1>. QED BY <1>1, <1>2, <1>3

\* How far one index is ahead of another.
LEMMA Ahead ==
  ASSUME NEW a \in 0..(WRAP - 1), NEW b \in 0..(WRAP - 1)
  PROVE  /\ (a - b + WRAP) % WRAP = IF b <= a THEN a - b ELSE (a - b) + WRAP
         /\ b = (a + 1) % WRAP => (b - a + WRAP) % WRAP = 1
<1>1. WRAP \in Nat \ {0} /\ WRAP > 1 /\ a \in Nat /\ b \in Nat /\ a < WRAP /\ b < WRAP
  BY WrapAssumption
<1>2. \A x \in Nat : x < 2 * WRAP => x % WRAP = IF x < WRAP THEN x ELSE x - WRAP
  BY <1>1
<1>3. a - b + WRAP \in Nat /\ a - b + WRAP < 2 * WRAP /\ b - a + WRAP \in Nat /\ b - a + WRAP < 2 * WRAP
      /\ a + 1 \in Nat /\ a + 1 < 2 * WRAP
  BY <1>1
<1>4. (a - b + WRAP) % WRAP = IF a - b + WRAP < WRAP THEN a - b + WRAP ELSE (a - b + WRAP) - WRAP
  BY <1>2, <1>3, Zenon
<1>5. (b - a + WRAP) % WRAP = IF b - a + WRAP < WRAP THEN b - a + WRAP ELSE (b - a + WRAP) - WRAP
  BY <1>2, <1>3, Zenon
<1>6. (a + 1) % WRAP = IF a + 1 < WRAP THEN a + 1 ELSE (a + 1) - WRAP
  BY <1>2, <1>3, Zenon
<1>7. (a - b + WRAP) % WRAP = IF b <= a THEN a - b ELSE (a - b) + WRAP
  BY <1>1, <1>4
<1>8. ASSUME b = (a + 1) % WRAP PROVE (b - a + WRAP) % WRAP = 1
  <2>1. b = IF a + 1 < WRAP THEN a + 1 ELSE (a + 1) - WRAP
    BY <1>6, <1>8, Zenon
  <2>2. CASE a + 1 < WRAP
    <3>1. b = a + 1
      BY <2>1, <2>2, Zenon
    <3>2. ~(b - a + WRAP < WRAP) /\ (b - a + WRAP) - WRAP = 1
      BY <1>1, <3>1
    <3>. QED BY <1>5, <3>2, Zenon
  <2>3. CASE ~(a + 1 < WRAP)
    <3>1. b = (a + 1) - WRAP
      BY <2>1, <2>3, Zenon
    <3>2. b - a + WRAP < WRAP /\ b - a + WRAP = 1
      BY <1>1, <3>1
    <3>. QED BY <1>5, <3>2, Zenon
  <2>. QED BY <2>2, <2>3, Zenon
<1>. QED BY <1>7, <1>8, Zenon

\* Between an index and its successor there is one.
LEMMA Between ==
  ASSUME NEW a \in 0..(WRAP - 1), NEW b \in 0..(WRAP - 1), NEW j \in 0..(WRAP - 1),
         (j - a + WRAP) % WRAP < (b - a + WRAP) % WRAP
  PROVE  a # b /\ (b = (a + 1) % WRAP => j = a)
<1>1. WRAP \in Nat /\ WRAP > 1 /\ a \in Nat /\ b \in Nat /\ j \in Nat
  BY WrapAssumption
<1>2. (j - a + WRAP) % WRAP = IF a <= j THEN j - a ELSE (j - a) + WRAP
  BY Ahead
<1>3. (b - a + WRAP) % WRAP = IF a <= b THEN b - a ELSE (b - a) + WRAP
  BY Ahead
<1>4. b = (a + 1) % WRAP => (b - a + WRAP) % WRAP = 1
  BY Ahead
<1> DEFINE x == (j - a + WRAP) % WRAP
           y == (b - a + WRAP) % WRAP
<1>5. x < y /\ x = (IF a <= j THEN j - a ELSE (j - a) + WRAP)
      /\ y = (IF a <= b THEN b - a ELSE (b - a) + WRAP)
  BY <1>2, <1>3, Zenon
<1>6. b = (a + 1) % WRAP => y = 1
  BY <1>4, Zenon
<1> HIDE DEF x, y
<1>7. a # b
  BY <1>1, <1>5
<1>8. y = 1 => j = a
  BY <1>1, <1>5
<1>. QED BY <1>6, <1>7, <1>8, Zenon

\* With no request out the device has nothing.
LEMMA QuietRings ==
  ASSUME NEW n \in Nat \ {0}, NEW A, NEW q \in Queues(n, A), Quiet(q)
  PROVE  q.busy \cup Waiting(q) \cup Unread(q) = {}
<1>1. q.seen \in 0..(WRAP - 1) /\ q.avail_idx \in 0..(WRAP - 1)
      /\ q.last_used_idx \in 0..(WRAP - 1) /\ q.used_idx \in 0..(WRAP - 1)
  BY QueueFields, Zenon
<1>2. q.seen = q.avail_idx /\ q.last_used_idx = q.used_idx /\ q.busy = {}
  BY Zenon DEF Quiet
<1>3. Waiting(q) = {}
  <2>1. SUFFICES ASSUME NEW j \in 0..(WRAP - 1),
                        (j - q.seen + WRAP) % WRAP < (q.avail_idx - q.seen + WRAP) % WRAP
                 PROVE  FALSE
    BY Zenon DEF Waiting
  <2>. QED BY <1>1, <1>2, <2>1, Between, Zenon
<1>4. Unread(q) = {}
  <2>1. SUFFICES ASSUME NEW j \in 0..(WRAP - 1),
                        (j - q.last_used_idx + WRAP) % WRAP < (q.used_idx - q.last_used_idx + WRAP) % WRAP
                 PROVE  FALSE
    BY Zenon DEF Unread
  <2>. QED BY <1>1, <1>2, <2>1, Between, Zenon
<1>. QED BY <1>2, <1>3, <1>4, Zenon

\* With one out it has that one.
LEMMA OneInRings ==
  ASSUME NEW n \in Nat \ {0}, NEW A, NEW q \in Queues(n, A), NEW h,
         Submitted(q, h) \/ Taking(q, h) \/ Answered(q, h)
  PROVE  q.busy \cup Waiting(q) \cup Unread(q) \subseteq {h} /\ h \in 0..(n - 1)
<1>1. q.seen \in 0..(WRAP - 1) /\ q.avail_idx \in 0..(WRAP - 1)
      /\ q.last_used_idx \in 0..(WRAP - 1) /\ q.used_idx \in 0..(WRAP - 1)
      /\ q.size = n
  BY QueueFields, Zenon
<1>2. q.busy \subseteq {h}
  BY Zenon DEF Submitted, Taking, Answered
<1>3. Waiting(q) \subseteq {h}
  <2>1. SUFFICES ASSUME NEW j \in 0..(WRAP - 1),
                        (j - q.seen + WRAP) % WRAP < (q.avail_idx - q.seen + WRAP) % WRAP
                 PROVE  q.avail[j % q.size] = h
    BY Zenon DEF Waiting
  <2>2. q.seen # q.avail_idx /\ (q.avail_idx = (q.seen + 1) % WRAP => j = q.seen)
    BY <1>1, <2>1, Between, Zenon
  <2>. QED BY <2>2, Zenon DEF Submitted, Taking, Answered
<1>4. Unread(q) \subseteq {h}
  <2>1. SUFFICES ASSUME NEW j \in 0..(WRAP - 1),
                        (j - q.last_used_idx + WRAP) % WRAP < (q.used_idx - q.last_used_idx + WRAP) % WRAP
                 PROVE  q.used[j % q.size].id = h
    BY Zenon DEF Unread
  <2>2. q.last_used_idx # q.used_idx /\ (q.used_idx = (q.last_used_idx + 1) % WRAP => j = q.last_used_idx)
    BY <1>1, <2>1, Between, Zenon
  <2>. QED BY <2>2, Zenon DEF Submitted, Taking, Answered
<1>5. h \in 0..(n - 1)
  <2>1. CASE Submitted(q, h)
    <3>1. q.seen % n \in 0..(n - 1)
      BY <1>1, IndexStep, Zenon
    <3>2. q.avail \in [0..(n - 1) -> 0..(n - 1)]
      BY QueueFields, Zenon
    <3>. QED BY <1>1, <2>1, <3>1, <3>2, Zenon DEF Submitted
  <2>2. CASE Taking(q, h)
    <3>1. q.busy \in SUBSET (0..(n - 1))
      BY QueueFields, Zenon
    <3>. QED BY <2>2, <3>1, Zenon DEF Taking
  <2>3. CASE Answered(q, h)
    <3>1. q.last_used_idx % n \in 0..(n - 1)
      BY <1>1, IndexStep, Zenon
    <3>2. q.used \in [0..(n - 1) -> [id : 0..(n - 1), len : Nat]]
      BY QueueFields, Zenon
    <3>3. q.used[q.last_used_idx % n] \in [id : 0..(n - 1), len : Nat]
      BY <3>1, <3>2, Zenon
    <3>4. q.used[q.last_used_idx % n].id \in 0..(n - 1)
      BY <3>3
    <3>. QED BY <1>1, <2>3, <3>4, Zenon DEF Answered
  <2>. QED BY <2>1, <2>2, <2>3, Zenon
<1>. QED BY <1>2, <1>3, <1>4, <1>5, Zenon

\* submit, first half.
LEMMA RingWrittenIs ==
  ASSUME NEW n \in Nat \ {0}, NEW A, NEW q \in Queues(n, A), NEW h \in 0..(n - 1), Quiet(q)
  PROVE  LET r == RingWritten(q, h) IN
         /\ r \in Queues(n, A) /\ Table(r) = Table(q) /\ Quiet(r)
         /\ r.avail[r.avail_idx % r.size] = h
<1> DEFINE i == q.avail_idx % n
           v == [q.avail EXCEPT ![i] = h]
           r == [q EXCEPT !.avail = v]
<1>1. q.size = n /\ q.avail_idx \in 0..(WRAP - 1) /\ q.avail \in [0..(n - 1) -> 0..(n - 1)]
  BY QueueFields, Zenon
<1>2. i \in 0..(n - 1)
  BY <1>1, IndexStep, Zenon
<1>3. RingWritten(q, h) = r
  BY <1>1 DEF RingWritten
<1> HIDE DEF i
<1>4. v \in [0..(n - 1) -> 0..(n - 1)] /\ v[i] = h
  BY <1>1, <1>2
<1> HIDE DEF v
<1>5. r \in Queues(n, A) /\ Table(r) = Table(q)
  BY <1>4, Zenon DEF Queues, Table
<1>6. r.avail = v /\ r.avail_idx = q.avail_idx /\ r.size = n /\ r.seen = q.seen /\ r.busy = q.busy
      /\ r.last_used_idx = q.last_used_idx /\ r.used_idx = q.used_idx
  BY DEF Queues
<1> HIDE DEF r
<1>. QED BY <1>3, <1>4, <1>5, <1>6, Zenon DEF i, Quiet

\* submit, second half.
LEMMA PublishedIs ==
  ASSUME NEW n \in Nat \ {0}, NEW A, NEW q \in Queues(n, A), NEW h, Quiet(q),
         q.avail[q.avail_idx % q.size] = h
  PROVE  LET r == Published(q) IN
         r \in Queues(n, A) /\ Table(r) = Table(q) /\ Submitted(r, h)
<1> DEFINE x == (q.avail_idx + 1) % WRAP
           r == [q EXCEPT !.avail_idx = x]
<1>1. q.avail_idx \in 0..(WRAP - 1)
  BY QueueFields, Zenon
<1>2. x \in 0..(WRAP - 1)
  BY <1>1, IndexStep, Zenon
<1>3. Published(q) = r
  BY DEF Published
<1> HIDE DEF x
<1>4. r \in Queues(n, A) /\ Table(r) = Table(q)
  BY <1>2, Zenon DEF Queues, Table
<1>5. r.avail = q.avail /\ r.avail_idx = x /\ r.size = q.size /\ r.seen = q.seen /\ r.busy = q.busy
      /\ r.last_used_idx = q.last_used_idx /\ r.used_idx = q.used_idx
  BY DEF Queues
<1> HIDE DEF r
<1>. QED BY <1>3, <1>4, <1>5, Zenon DEF x, Quiet, Submitted

\* The device takes what was submitted.
LEMMA TakenIs ==
  ASSUME NEW n \in Nat \ {0}, NEW A, NEW q \in Queues(n, A), NEW h, Submitted(q, h)
  PROVE  LET r == Taken(q) IN
         r \in Queues(n, A) /\ Table(r) = Table(q) /\ Taking(r, h)
<1> DEFINE x == (q.seen + 1) % WRAP
           b == q.busy \cup {q.avail[q.seen % q.size]}
           r == [q EXCEPT !.seen = x, !.busy = b]
<1>1. q.seen \in 0..(WRAP - 1) /\ h \in 0..(n - 1)
  BY QueueFields, OneInRings, Zenon
<1>2. x \in 0..(WRAP - 1)
  BY <1>1, IndexStep, Zenon
<1>3. b = {h}
  BY Zenon DEF Submitted
<1>4. Taken(q) = r
  BY DEF Taken
<1> HIDE DEF x, b
<1>5. r \in Queues(n, A) /\ Table(r) = Table(q)
  <2>1. b \in SUBSET (0..(n - 1))
    BY <1>1, <1>3, Zenon
  <2>. QED BY <1>2, <2>1, Zenon DEF Queues, Table
<1>6. r.avail_idx = q.avail_idx /\ r.size = q.size /\ r.seen = x /\ r.busy = b
      /\ r.last_used_idx = q.last_used_idx /\ r.used_idx = q.used_idx
  BY DEF Queues
<1> HIDE DEF r
<1>. QED BY <1>3, <1>4, <1>5, <1>6, Zenon DEF x, Submitted, Taking

\* The device answers what it took.
LEMMA UsedIs ==
  ASSUME NEW n \in Nat \ {0}, NEW A, NEW q \in Queues(n, A), NEW h, Taking(q, h)
  PROVE  LET r == Used(q, h, 1) IN
         r \in Queues(n, A) /\ Table(r) = Table(q) /\ Answered(r, h)
<1> DEFINE x == (q.used_idx + 1) % WRAP
           i == q.used_idx % q.size
           e == [id |-> h, len |-> 1]
           u == [q.used EXCEPT ![i] = e]
           b == q.busy \ {h}
           r == [q EXCEPT !.busy = b, !.used = u, !.used_idx = x]
<1>1. q.used_idx \in 0..(WRAP - 1) /\ h \in 0..(n - 1) /\ q.size = n
      /\ q.used \in [0..(n - 1) -> [id : 0..(n - 1), len : Nat]]
  BY QueueFields, OneInRings, Zenon
<1>2. x \in 0..(WRAP - 1) /\ i \in 0..(n - 1)
  BY <1>1, IndexStep, Zenon
<1>3. b = {}
  BY Zenon DEF Taking
<1>4. Used(q, h, 1) = r
  BY DEF Used
<1> HIDE DEF x, b, i
<1>5. u \in [0..(n - 1) -> [id : 0..(n - 1), len : Nat]] /\ u[i].id = h
  <2>1. e \in [id : 0..(n - 1), len : Nat] /\ e.id = h
    BY <1>1
  <2> HIDE DEF e
  <2>. QED BY <1>1, <1>2, <2>1, Zenon
<1> HIDE DEF u
<1>6. r \in Queues(n, A) /\ Table(r) = Table(q)
  BY <1>2, <1>3, <1>5, Zenon DEF Queues, Table
<1>7. r.avail_idx = q.avail_idx /\ r.size = q.size /\ r.seen = q.seen /\ r.busy = b
      /\ r.last_used_idx = q.last_used_idx /\ r.used_idx = x /\ r.used = u
  BY DEF Queues
<1> HIDE DEF r
<1>. QED BY <1>3, <1>4, <1>5, <1>6, <1>7, Zenon DEF x, i, Taking, Answered

\* The driver takes the answer.
LEMMA PollUsedIs ==
  ASSUME NEW n \in Nat \ {0}, NEW A, NEW q \in Queues(n, A), NEW h, Answered(q, h)
  PROVE  LET r == poll_used(q) IN
         r \in Queues(n, A) /\ Table(r) = Table(q) /\ Quiet(r)
<1> DEFINE x == (q.last_used_idx + 1) % WRAP
           r == [q EXCEPT !.last_used_idx = x]
<1>1. q.last_used_idx \in 0..(WRAP - 1)
  BY QueueFields, Zenon
<1>2. x \in 0..(WRAP - 1)
  BY <1>1, IndexStep, Zenon
<1>3. poll_used(q) = r
  BY DEF poll_used
<1> HIDE DEF x
<1>4. r \in Queues(n, A) /\ Table(r) = Table(q)
  BY <1>2, Zenon DEF Queues, Table
<1>5. r.avail_idx = q.avail_idx /\ r.seen = q.seen /\ r.busy = q.busy
      /\ r.last_used_idx = x /\ r.used_idx = q.used_idx
  BY DEF Queues
<1> HIDE DEF r
<1>. QED BY <1>3, <1>4, <1>5, Zenon DEF x, Quiet, Answered

\* The rings change nothing about the table.
LEMMA TableSame ==
  ASSUME NEW n \in Nat \ {0}, NEW A, NEW q \in Queues(n, A), NEW r \in Queues(n, A),
         Table(r) = Table(q), NEW h
  PROVE  /\ r.num_free = q.num_free /\ r.size = q.size
         /\ DataAt(r, h) = DataAt(q, h) /\ (Linked(r, h) <=> Linked(q, h)) /\ Three(r, h) = Three(q, h)
<1>1. r.desc = q.desc /\ r.num_free = q.num_free /\ r.size = q.size
  BY DEF Table
<1>2. DataAt(r, h) = DataAt(q, h)
  BY <1>1, Zenon DEF DataAt
<1>3. Three(r, h) = Three(q, h)
  BY <1>1, Zenon DEF Three
<1>4. (Linked(r, h) <=> Linked(q, h))
  BY <1>1, Zenon DEF Linked, HasNext
<1>. QED BY <1>1, <1>2, <1>3, <1>4, Zenon

\* The free list is a matter of the descriptor table, not of the rings.
LEMMA TableFree ==
  ASSUME NEW n \in Nat \ {0}, NEW A, NEW q \in Queues(n, A), NEW r \in Queues(n, A),
         Table(r) = Table(q), NEW F, FreeList(q, F)
  PROVE  FreeList(r, F)
<1>1. r.desc = q.desc /\ r.num_free = q.num_free /\ r.free_head = q.free_head
  BY DEF Table
<1>. QED BY <1>1, FreeListSame, Zenon

\* The table changes nothing about the rings.
LEMMA RingsSame ==
  ASSUME NEW q, NEW r, Rings(r) = Rings(q), Quiet(q)
  PROVE  Quiet(r)
<1>1. r.avail_idx = q.avail_idx /\ r.seen = q.seen /\ r.busy = q.busy
      /\ r.last_used_idx = q.last_used_idx /\ r.used_idx = q.used_idx
  BY DEF Rings
<1>. QED BY <1>1, Zenon DEF Quiet

-----------------------------------------------------------------------------
(* The invariant, task by task: at most one request is out, and then the   *)
(* rings and the page are in one of the states it passes through.          *)

Active == {"publish", "wait"}
Pages == [type : {"IN", "OUT"}, sector : Nat, status : {0, 1, 255},
          c256 : Halves, c512 : Halves, c768 : Halves]
Disks == [0..(CAPACITY - 1) -> Halves \X Halves]

\* A call, with the disk and the lock as given.
CallOK(r) == r = Idle \/ \E c \in 1..MAX_COUNT : r \in Calls(c)
LoopOK(r) ==
    /\ r.pc = "lock" => r.i = 0
    /\ r.pc \in {"request", "publish", "wait", "done"} =>
           /\ r.lba + r.count <= CAPACITY
           /\ r.i + (IF r.pc = "done" THEN 0 ELSE 1) <= r.count
           /\ r.pc = "done" => r.i = r.count
ExactOK(r, d) == r.pc \in {"request", "publish", "wait", "done"} =>
                     \A k \in 0..(r.i - 1) : r.buf[k] = d[r.lba + k]
TaskOK(t, r, d, l) == CallOK(r) /\ (r.pc \in Holding <=> l = t) /\ LoopOK(r) /\ ExactOK(r, d)

\* The request of a call.
DescribesAs(r, q, p) ==
    /\ Linked(q, r.d0) /\ q.num_free + 3 <= q.size
    /\ p.type = r.op /\ p.sector = r.lba + r.i
    /\ IF r.op = "IN" THEN DataAt(q, r.d0) = "c512"
       ELSE DataAt(q, r.d0) = "c256" /\ <<p.c256, p.c512>> = r.buf[r.i]
FulfilledAs(r, p, d) == d[p.sector] = IF r.op = "IN" THEN <<p.c512, p.c768>> ELSE r.buf[r.i]
OutOK(r, q, p, d) ==
    /\ DescribesAs(r, q, p)
    /\ \/ r.pc = "publish" /\ Quiet(q) /\ q.avail[q.avail_idx % q.size] = r.d0
       \/ r.pc = "wait" /\ \/ Submitted(q, r.d0) \/ Taking(q, r.d0)
                           \/ Answered(q, r.d0) /\ (p.status = 0 => FulfilledAs(r, p, d))

NoneOut(n, q, c) == /\ \A t \in Tasks : c[t].pc \notin Active
                    /\ Quiet(q) /\ FreeList(q, 0..(n - 1))
OneOut(n, q, p, d, c, t) ==
    /\ c[t].pc \in Active /\ \A u \in Tasks : u # t => c[u].pc \notin Active
    /\ OutOK(c[t], q, p, d) /\ c[t].d0 \in 0..(n - 1)
    /\ FreeList(q, (0..(n - 1)) \ Three(q, c[t].d0))

TasksOK(c, d, l) == \A t \in Tasks : TaskOK(t, c[t], d, l)
Sound(n, q, p, d, l, c, m) ==
    /\ q \in Queues(n, Cells) /\ p \in Pages /\ d \in Disks
    /\ l \in Tasks \cup {"free"} /\ m \in 0..CALLS /\ DOMAIN c = Tasks
    /\ TasksOK(c, d, l)
    /\ NoneOut(n, q, c) \/ \E t \in Tasks : OneOut(n, q, p, d, c, t)

DiskInv == \E n \in QueueSizes : Sound(n, vq, page, disk, lock, call, calls)

\* It says all that DiskSound does.
LEMMA DiskInvSound == DiskInv => DiskSound
<1>1. SUFFICES ASSUME DiskInv PROVE DiskSound
  BY Zenon
<1>2. PICK n \in QueueSizes : Sound(n, vq, page, disk, lock, call, calls)
  BY <1>1, Zenon DEF DiskInv
<1>3. n \in Nat \ {0}
  BY BlkAssumption, Zenon
<1>4. vq \in Queues(n, Cells) /\ TasksOK(call, disk, lock)
  BY <1>2, Zenon DEF Sound
<1>5. vq.size = n /\ Slots(vq) = 0..(n - 1)
  BY <1>3, <1>4, QueueFields, Zenon
<1>6. BlkTypeOK
  <2>1. page \in Pages /\ disk \in Disks /\ lock \in Tasks \cup {"free"} /\ calls \in 0..CALLS
        /\ DOMAIN call = Tasks
    BY <1>2, Zenon DEF Sound
  <2>2. \A t \in Tasks : CallOK(call[t])
    BY <1>4, Zenon DEF TasksOK, TaskOK
  <2>. QED BY <1>4, <2>1, <2>2, Zenon DEF BlkTypeOK, Pages, Disks, CallOK
<1>7. HolderInv
  <2>1. SUFFICES ASSUME NEW t \in Tasks
        PROVE  /\ call[t].pc \in Holding <=> lock = t
               /\ LoopOK(call[t])
    BY Zenon DEF HolderInv, LoopOK
  <2>. QED BY <1>4, Zenon DEF TasksOK, TaskOK
<1>8. TransferExact
  <2>1. SUFFICES ASSUME NEW t \in Tasks PROVE ExactOK(call[t], disk)
    BY Zenon DEF TransferExact, ExactOK
  <2>. QED BY <1>4, Zenon DEF TasksOK, TaskOK
<1>9. CASE NoneOut(n, vq, call)
  <2>1. \A t \in Tasks : call[t].pc \notin {"publish", "wait"}
    BY <1>9, Zenon DEF NoneOut, Active
  <2>2. Quiet(vq) /\ FreeList(vq, 0..(n - 1))
    BY <1>9, Zenon DEF NoneOut
  <2>3. RequestInv
    BY <2>1, <2>2, Zenon DEF RequestInv
  <2>4. Out = {}
    BY <2>1, Zenon DEF Out
  <2>5. Slots(vq) \ UNION {Chain(vq, h) : h \in Out} = 0..(n - 1)
    BY <1>5, <2>4, Zenon
  <2>6. vq.busy \cup Waiting(vq) \cup Unread(vq) = {}
    BY <1>3, <1>4, <2>2, QuietRings, Zenon
  <2>7. DescriptorsKept
    BY <2>2, <2>4, <2>5, <2>6, Zenon DEF DescriptorsKept
  <2>. QED BY <1>6, <1>7, <1>8, <2>3, <2>7, Zenon DEF DiskSound
<1>10. ASSUME NEW t \in Tasks, OneOut(n, vq, page, disk, call, t) PROVE DiskSound
  <2> DEFINE h == call[t].d0
  <2>1. \A u \in Tasks : call[u].pc \in {"publish", "wait"} <=> u = t
    BY <1>10, Zenon DEF OneOut, Active
  <2>2. OutOK(call[t], vq, page, disk) /\ h \in 0..(n - 1)
        /\ FreeList(vq, (0..(n - 1)) \ Three(vq, h))
    BY <1>10, Zenon DEF OneOut
  <2>3. RequestInv
    <3>1. Describes(t)
      BY <2>2, Zenon DEF OutOK, DescribesAs, Describes
    <3>2. call[t].pc = "publish" => Quiet(vq) /\ vq.avail[vq.avail_idx % vq.size] = h
      BY <2>2 DEF OutOK
    <3>3. call[t].pc = "wait" => \/ Submitted(vq, h) \/ Taking(vq, h)
                                 \/ Answered(vq, h) /\ (page.status = 0 => Fulfilled(t))
      <4>1. FulfilledAs(call[t], page, disk) = Fulfilled(t)
        BY Zenon DEF FulfilledAs, Fulfilled
      <4>2. "wait" # "publish"
        OBVIOUS
      <4>. QED BY <2>2, <4>1, <4>2, Zenon DEF OutOK
    <3>. QED BY <2>1, <3>1, <3>2, <3>3, Zenon DEF RequestInv
  <2>4. Out = {h}
    BY <2>1, Zenon DEF Out
  <2>5. Chain(vq, h) = Three(vq, h)
    <3>1. Linked(vq, h)
      BY <2>2, Zenon DEF OutOK, DescribesAs
    <3>. QED BY <1>3, <1>4, <2>2, <3>1, LinkedChain, Zenon
  <2>6. Slots(vq) \ UNION {Chain(vq, x) : x \in Out} = (0..(n - 1)) \ Three(vq, h)
    BY <1>5, <2>4, <2>5, Zenon
  <2>7. vq.busy \cup Waiting(vq) \cup Unread(vq) \subseteq {h}
    <3>1. CASE Quiet(vq)
      BY <1>3, <1>4, <3>1, QuietRings, Zenon
    <3>2. CASE Submitted(vq, h) \/ Taking(vq, h) \/ Answered(vq, h)
      <4> HIDE DEF h
      <4>. QED BY <1>3, <1>4, <3>2, OneInRings
    <3>. QED BY <2>2, <3>1, <3>2, Zenon DEF OutOK
  <2>8. DescriptorsKept
    BY <2>2, <2>4, <2>6, <2>7, Zenon DEF DescriptorsKept
  <2>. QED BY <1>6, <1>7, <1>8, <2>3, <2>8, Zenon DEF DiskSound
<1>. QED BY <1>2, <1>9, <1>10, Zenon DEF Sound

\* A new queue: every descriptor is free, in order.
LEMMA NewIs ==
  ASSUME NEW n \in Nat \ {0}
  PROVE  new(n) \in Queues(n, Cells) /\ Quiet(new(n)) /\ FreeList(new(n), 0..(n - 1))
<1> DEFINE q == new(n)
           dd == [i \in 0..(n - 1) |-> [addr |-> "none", flags |-> {},
                                        next |-> IF i + 1 < n THEN i + 1 ELSE 0]]
           s == [k \in 1..n |-> k - 1]
<1>1. dd \in [0..(n - 1) -> [addr : Cells, flags : SUBSET {"NEXT", "WRITE"}, next : 0..(n - 1)]]
  <2>1. ASSUME NEW i \in 0..(n - 1)
        PROVE  [addr |-> "none", flags |-> {}, next |-> IF i + 1 < n THEN i + 1 ELSE 0]
                 \in [addr : Cells, flags : SUBSET {"NEXT", "WRITE"}, next : 0..(n - 1)]
    <3>1. (IF i + 1 < n THEN i + 1 ELSE 0) \in 0..(n - 1)
      OBVIOUS
    <3>2. "none" \in Cells /\ {} \in SUBSET {"NEXT", "WRITE"}
      BY DEF Cells
    <3>. QED BY <3>1, <3>2, Zenon
  <2>. QED BY <2>1, Zenon
<1>2. q.desc = dd /\ q.free_head = 0 /\ q.num_free = n
  BY DEF new
<1>3. q \in Queues(n, Cells)
  <2> HIDE DEF dd
  <2>1. 0 \in 0..(n - 1) /\ n \in 0..n /\ 0 \in 0..(WRAP - 1) /\ 0 \in Nat
    BY WrapAssumption
  <2>2. [i \in 0..(n - 1) |-> 0] \in [0..(n - 1) -> 0..(n - 1)]
    BY <2>1, Zenon
  <2>3. [i \in 0..(n - 1) |-> [id |-> 0, len |-> 0]] \in [0..(n - 1) -> [id : 0..(n - 1), len : Nat]]
    BY <2>1, Zenon
  <2>4. q = [size |-> n, desc |-> dd, free_head |-> 0, num_free |-> n, last_used_idx |-> 0,
             avail |-> [i \in 0..(n - 1) |-> 0], avail_idx |-> 0,
             used |-> [i \in 0..(n - 1) |-> [id |-> 0, len |-> 0]], used_idx |-> 0,
             seen |-> 0, busy |-> {}]
    BY Zenon DEF new, dd
  <2>5. n \in {n} /\ {} \in SUBSET (0..(n - 1))
    BY Zenon
  <2> HIDE DEF q
  <2>. QED BY <1>1, <2>1, <2>2, <2>3, <2>4, <2>5, Zenon DEF Queues
<1>4. Quiet(q)
  BY DEF Quiet, new
<1> HIDE DEF q
<1>5. FreeList(q, 0..(n - 1))
  <2>1. s \in [1..n -> 0..(n - 1)] /\ \A k \in 1..n : s[k] = k - 1
    OBVIOUS
  <2> HIDE DEF s
  <2>2. \A j, k \in 1..n : s[j] = s[k] => j = k
    BY <2>1
  <2>3. n > 0 => s[1] = q.free_head
    BY <1>2, <2>1
  <2>4. \A k \in 1..(n - 1) : q.desc[s[k]].next = s[k + 1]
    <3>1. SUFFICES ASSUME NEW k \in 1..(n - 1) PROVE dd[k - 1].next = k
      <4>1. ASSUME NEW k \in 1..(n - 1) PROVE k \in 1..n /\ k + 1 \in 1..n /\ (k + 1) - 1 = k
        OBVIOUS
      <4>2. \A k \in 1..(n - 1) : s[k] = k - 1 /\ s[k + 1] = k
        BY <2>1, <4>1
      <4> HIDE DEF dd
      <4>. QED BY <1>2, <4>2, Zenon
    <3>2. k - 1 \in 0..(n - 1) /\ (k - 1) + 1 < n /\ (k - 1) + 1 = k
      OBVIOUS
    <3>. QED BY <3>2
  <2>5. 0..(n - 1) = {s[k] : k \in 1..n}
    <3>1. ASSUME NEW i \in 0..(n - 1) PROVE i + 1 \in 1..n /\ s[i + 1] = i
      <4>1. i + 1 \in 1..n /\ (i + 1) - 1 = i
        OBVIOUS
      <4>. QED BY <2>1, <4>1
    <3>2. 0..(n - 1) \subseteq {s[k] : k \in 1..n}
      BY <3>1, Zenon
    <3>3. {s[k] : k \in 1..n} \subseteq 0..(n - 1)
      BY <2>1, Zenon
    <3>. QED BY <3>2, <3>3, Zenon
  <2>6. q.num_free = n /\ Slots(q) = 0..(n - 1)
    <3>1. Slots(q) = 0..(n - 1)
      BY <1>3, QueueFields
    <3>. QED BY <1>2, <3>1, Zenon
  <2>7. /\ \A j, k \in 1..q.num_free : s[j] = s[k] => j = k
        /\ q.num_free > 0 => s[1] = q.free_head
        /\ \A k \in 1..(q.num_free - 1) : q.desc[s[k]].next = s[k + 1]
        /\ 0..(n - 1) = {s[k] : k \in 1..q.num_free}
        /\ s \in [1..q.num_free -> Slots(q)]
    BY <2>1, <2>2, <2>3, <2>4, <2>5, <2>6, Zenon
  <2>. QED BY <2>7, Zenon DEF FreeList
<1>. QED BY <1>3, <1>4, <1>5, Zenon DEF q

\* The fields of a call, and what remains of it when it goes on.
Pcs == {"lock", "request", "publish", "wait", "done", "failed"}

\* The fields of a call that is under way.
LEMMA CallFields ==
  ASSUME NEW k \in 1..MAX_COUNT, NEW r \in Calls(k)
  PROVE  /\ r.pc \in Pcs /\ r.op \in {"IN", "OUT"} /\ r.lba \in 0..(CAPACITY - 1)
         /\ r.count = k /\ r.i \in 0..k /\ r.d0 \in Nat
         /\ r.buf \in [0..(k - 1) -> Halves \X Halves]
BY DEF Calls, Pcs

\* A call that only moves on keeps its other fields.
LEMMA PcSet ==
  ASSUME NEW k \in 1..MAX_COUNT, NEW r \in Calls(k), NEW p \in Pcs
  PROVE  LET x == [r EXCEPT !.pc = p] IN
         /\ x \in Calls(k) /\ x.pc = p /\ x.op = r.op /\ x.lba = r.lba
         /\ x.count = r.count /\ x.i = r.i /\ x.d0 = r.d0 /\ x.buf = r.buf
BY DEF Calls, Pcs

\* A task's call replaced: it is the new one,
LEMMA CallUpdate ==
  ASSUME NEW c, DOMAIN c = Tasks, NEW t \in Tasks, NEW r
  PROVE  DOMAIN [c EXCEPT ![t] = r] = Tasks /\ [c EXCEPT ![t] = r][t] = r
OBVIOUS

\* and the calls of the others are what they were.
LEMMA CallOthers ==
  ASSUME NEW c, DOMAIN c = Tasks, NEW t \in Tasks, NEW r, NEW u \in Tasks, u # t
  PROVE  [c EXCEPT ![t] = r][u] = c[u]
OBVIOUS

\* A task that is not idle is in a call.
LEMMA InCall ==
  ASSUME NEW r, CallOK(r), r.pc # "idle"
  PROVE  \E k \in 1..MAX_COUNT : r \in Calls(k)
<1>1. r # Idle
  BY DEF Idle
<1>. QED BY <1>1, Zenon DEF CallOK

\* Only one task holds the lock.
LEMMA OneHolder ==
  ASSUME NEW c, NEW d, NEW l, TasksOK(c, d, l), NEW t \in Tasks, c[t].pc \in Holding
  PROVE  l = t /\ \A u \in Tasks : u # t => c[u].pc \notin Holding
BY Zenon DEF TasksOK, TaskOK

\* A step of a task with no request out, before and after, touches no request.
LEMMA InactiveStep ==
  ASSUME NEW n, NEW q, NEW p, NEW d, NEW c, DOMAIN c = Tasks, NEW t \in Tasks, NEW r,
         c[t].pc \notin Active, r.pc \notin Active,
         NoneOut(n, q, c) \/ \E u \in Tasks : OneOut(n, q, p, d, c, u)
  PROVE  LET e == [c EXCEPT ![t] = r] IN
         NoneOut(n, q, e) \/ \E u \in Tasks : OneOut(n, q, p, d, e, u)
<1> DEFINE e == [c EXCEPT ![t] = r]
<1>1. e[t] = r
  BY CallUpdate
<1>2. \A u \in Tasks : u # t => e[u] = c[u]
  BY CallOthers
<1> HIDE DEF e
<1>3. CASE NoneOut(n, q, c)
  BY <1>1, <1>2, <1>3, Zenon DEF NoneOut
<1>4. ASSUME NEW u \in Tasks, OneOut(n, q, p, d, c, u) PROVE OneOut(n, q, p, d, e, u)
  <2>1. u # t
    BY <1>4, Zenon DEF OneOut
  <2>2. e[u] = c[u]
    BY <1>2, <2>1, Zenon
  <2>. QED BY <1>1, <1>2, <1>4, <2>2, Zenon DEF OneOut
<1>. QED BY <1>3, <1>4, Zenon DEF e

\* The tasks stay in order when one of them moves in order.
LEMMA TasksStep ==
  ASSUME NEW c, DOMAIN c = Tasks, NEW t \in Tasks, NEW r, NEW d, NEW l,
         \A u \in Tasks : u # t => TaskOK(u, c[u], d, l), TaskOK(t, r, d, l)
  PROVE  TasksOK([c EXCEPT ![t] = r], d, l)
<1> DEFINE e == [c EXCEPT ![t] = r]
<1>1. e[t] = r
  BY CallUpdate
<1>2. \A u \in Tasks : u # t => e[u] = c[u]
  BY CallOthers
<1> HIDE DEF e
<1>. QED BY <1>1, <1>2, Zenon DEF TasksOK, e

\* What a step without a request has to show.
LEMMA QuietStep ==
  ASSUME NEW n \in QueueSizes, Sound(n, vq, page, disk, lock, call, calls),
         UNCHANGED <<vq, page, disk>>, NEW t \in Tasks, NEW r, call' = [call EXCEPT ![t] = r],
         call[t].pc \notin Active, r.pc \notin Active,
         lock' \in Tasks \cup {"free"}, calls' \in 0..CALLS,
         \A u \in Tasks : u # t => TaskOK(u, call[u], disk, lock'), TaskOK(t, r, disk, lock')
  PROVE  DiskInv'
<1>1. vq' = vq /\ page' = page /\ disk' = disk
  BY Zenon
<1>2. vq \in Queues(n, Cells) /\ page \in Pages /\ disk \in Disks /\ DOMAIN call = Tasks
      /\ (NoneOut(n, vq, call) \/ \E u \in Tasks : OneOut(n, vq, page, disk, call, u))
  BY Zenon DEF Sound
<1>3. DOMAIN call' = Tasks
  BY <1>2, CallUpdate
<1>4. TasksOK(call', disk, lock')
  BY <1>2, TasksStep, Zenon
<1>5. NoneOut(n, vq, call') \/ \E u \in Tasks : OneOut(n, vq, page, disk, call', u)
  BY <1>2, InactiveStep, Zenon
<1>6. Sound(n, vq', page', disk', lock', call', calls')
  BY <1>1, <1>2, <1>3, <1>4, <1>5, Zenon DEF Sound
<1>. QED BY <1>6, Zenon DEF DiskInv

-----------------------------------------------------------------------------
(* The steps                                                               *)

\* At first nothing is out and nobody calls.
LEMMA DiskInit == BlkInit => DiskInv
<1>1. SUFFICES ASSUME BlkInit PROVE DiskInv
  BY Zenon
<1>2. PICK n \in QueueSizes : vq = new(n)
  BY <1>1, Zenon DEF BlkInit
<1>3. n \in Nat \ {0}
  BY BlkAssumption, Zenon
<1>4. vq \in Queues(n, Cells) /\ Quiet(vq) /\ FreeList(vq, 0..(n - 1))
  BY <1>2, <1>3, NewIs, Zenon
<1>5. 0 \in Halves
  BY BlkAssumption DEF Halves
<1>6. page \in Pages
  BY <1>1, <1>5 DEF BlkInit, Pages
<1>7. disk \in Disks
  BY <1>1, <1>5, Zenon DEF BlkInit, Disks
<1>8. lock = "free" /\ calls \in 0..CALLS /\ DOMAIN call = Tasks
  BY <1>1, BlkAssumption DEF BlkInit
<1>9. \A t \in Tasks : call[t] = Idle
  BY <1>1, Zenon DEF BlkInit
<1>10. Idle.pc = "idle"
  BY DEF Idle
<1>11. TasksOK(call, disk, lock)
  <2>1. SUFFICES ASSUME NEW t \in Tasks PROVE TaskOK(t, Idle, disk, lock)
    BY <1>9, Zenon DEF TasksOK
  <2>2. CallOK(Idle)
    BY Zenon DEF CallOK
  <2>3. lock # t
    BY <1>8, BlkAssumption, Zenon
  <2>4. Idle.pc \notin Holding /\ LoopOK(Idle) /\ ExactOK(Idle, disk)
    BY <1>10 DEF Holding, LoopOK, ExactOK
  <2>. QED BY <2>2, <2>3, <2>4, Zenon DEF TaskOK
<1>12. NoneOut(n, vq, call)
  <2>1. "idle" \notin Active
    BY DEF Active
  <2>. QED BY <1>4, <1>9, <1>10, <2>1, Zenon DEF NoneOut
<1>13. Sound(n, vq, page, disk, lock, call, calls)
  BY <1>4, <1>6, <1>7, <1>8, <1>11, <1>12, Zenon DEF Sound
<1>. QED BY <1>13, Zenon DEF DiskInv

\* A call begins at its first sector, with a buffer of its own.
LEMMA CallStep ==
  ASSUME NEW n \in QueueSizes, Sound(n, vq, page, disk, lock, call, calls), NEW t \in Tasks, Call(t)
  PROVE  DiskInv'
<1>1. PICK op \in {"IN", "OUT"}, lba \in 0..(CAPACITY - 1), k \in 1..MAX_COUNT, v \in Values \ {0} :
         call' = [call EXCEPT ![t] =
             [pc |-> "lock", op |-> op, lba |-> lba, count |-> k, i |-> 0, d0 |-> 0,
              buf |-> [j \in 0..(k - 1) |-> IF op = "IN" THEN <<0, 0>> ELSE <<v, j>>]]]
  BY Zenon DEF Call
<1> DEFINE b == [j \in 0..(k - 1) |-> IF op = "IN" THEN <<0, 0>> ELSE <<v, j>>]
           r == [pc |-> "lock", op |-> op, lba |-> lba, count |-> k, i |-> 0, d0 |-> 0, buf |-> b]
<1>2. call[t].pc = "idle" /\ calls < CALLS /\ calls' = calls + 1 /\ UNCHANGED <<vq, page, disk, lock>>
  BY Zenon DEF Call
<1>3. TasksOK(call, disk, lock) /\ lock \in Tasks \cup {"free"} /\ calls \in 0..CALLS
  BY Zenon DEF Sound
<1>4. b \in [0..(k - 1) -> Halves \X Halves]
  <2>1. 0 \in Halves /\ v \in Halves
    BY BlkAssumption DEF Halves
  <2>2. \A j \in 0..(k - 1) : j \in Halves
    BY BlkAssumption DEF Halves
  <2>. QED BY <2>1, <2>2
<1> HIDE DEF b
<1>5. r \in Calls(k) /\ r.pc = "lock" /\ r.i = 0
  BY <1>4, BlkAssumption DEF Calls
<1>6. call' = [call EXCEPT ![t] = r]
  BY <1>1, Zenon DEF b
<1> HIDE DEF r
<1>7. TaskOK(t, r, disk, lock)
  <2>1. CallOK(r)
    BY <1>5, Zenon DEF CallOK
  <2>2. lock # t
    <3>1. "idle" \notin Holding
      BY DEF Holding
    <3>. QED BY <1>2, <1>3, <3>1, Zenon DEF TasksOK, TaskOK
  <2>3. r.pc \notin Holding /\ LoopOK(r) /\ ExactOK(r, disk)
    BY <1>5 DEF Holding, LoopOK, ExactOK
  <2>. QED BY <2>1, <2>2, <2>3, Zenon DEF TaskOK
<1>8. \A u \in Tasks : u # t => TaskOK(u, call[u], disk, lock)
  BY <1>3, Zenon DEF TasksOK
<1>9. call[t].pc \notin Active /\ r.pc \notin Active
  BY <1>2, <1>5 DEF Active
<1>10. calls' \in 0..CALLS /\ lock' = lock
  BY <1>2, <1>3, BlkAssumption
<1>. QED BY <1>2, <1>3, <1>6, <1>7, <1>8, <1>9, <1>10, QuietStep, Zenon

\* Goto, as an update of the task's call.
LEMMA GotoIs ==
  ASSUME DOMAIN call = Tasks, NEW t \in Tasks, NEW p, Goto(t, p)
  PROVE  call' = [call EXCEPT ![t] = [call[t] EXCEPT !.pc = p]]
BY DEF Goto

\* The lock is free, so nobody is past it.
LEMMA LockedStep ==
  ASSUME NEW n \in QueueSizes, Sound(n, vq, page, disk, lock, call, calls), NEW t \in Tasks, Locked(t)
  PROVE  DiskInv'
<1> DEFINE p == IF call[t].lba + call[t].count > CAPACITY THEN "failed" ELSE "request"
           r == [call[t] EXCEPT !.pc = p]
<1>1. call[t].pc = "lock" /\ lock = "free" /\ lock' = t /\ UNCHANGED <<vq, page, disk, calls>>
  BY Zenon DEF Locked
<1>2. TasksOK(call, disk, lock) /\ calls \in 0..CALLS /\ DOMAIN call = Tasks
  BY Zenon DEF Sound
<1>3. call' = [call EXCEPT ![t] = r]
  <2>1. Goto(t, p)
    BY Zenon DEF Locked
  <2> HIDE DEF p
  <2>. QED BY <1>2, <2>1, GotoIs
<1>4. call[t].pc # "idle" /\ CallOK(call[t]) /\ LoopOK(call[t])
  BY <1>1, <1>2 DEF TasksOK, TaskOK
<1>5. PICK k \in 1..MAX_COUNT : call[t] \in Calls(k)
  BY <1>4, InCall, Zenon
<1>6. call[t].i = 0 /\ call[t].count = k /\ call[t].lba \in Nat /\ k \in Nat /\ k >= 1
  <2>1. call[t].count = k /\ call[t].lba \in 0..(CAPACITY - 1)
    BY <1>5, CallFields, Zenon
  <2>2. call[t].i = 0
    BY <1>1, <1>4, Zenon DEF LoopOK
  <2>. QED BY <2>1, <2>2, BlkAssumption
<1>7. p \in Pcs /\ p \in {"request", "failed"}
  BY DEF Pcs
<1>8. p = "request" => call[t].lba + call[t].count <= CAPACITY
  BY <1>6, BlkAssumption
<1> HIDE DEF p
<1>9. r \in Calls(k) /\ r.pc = p /\ r.lba = call[t].lba /\ r.count = k /\ r.i = 0
  BY <1>5, <1>6, <1>7, PcSet
<1> HIDE DEF r
<1>10. TaskOK(t, r, disk, lock')
  <2>1. CallOK(r)
    BY <1>9, Zenon DEF CallOK
  <2>2. r.pc \in Holding
    BY <1>7, <1>9 DEF Holding
  <2>3. LoopOK(r)
    <3>1. r.pc = "failed" \/ (r.pc = "request" /\ r.lba + r.count <= CAPACITY)
      BY <1>6, <1>7, <1>8, <1>9, Zenon
    <3>. QED BY <1>6, <1>9, <3>1 DEF LoopOK
  <2>4. ExactOK(r, disk)
    BY <1>9 DEF ExactOK
  <2>. QED BY <1>1, <2>1, <2>2, <2>3, <2>4, Zenon DEF TaskOK
<1>11. ASSUME NEW u \in Tasks, u # t PROVE TaskOK(u, call[u], disk, lock')
  <2>1. lock # u /\ lock' # u
    BY <1>1, <1>11, BlkAssumption, Zenon
  <2>. QED BY <1>2, <2>1, Zenon DEF TasksOK, TaskOK
<1>12. call[t].pc \notin Active /\ r.pc \notin Active
  BY <1>1, <1>7, <1>9 DEF Active
<1>13. calls' \in 0..CALLS /\ lock' \in Tasks \cup {"free"}
  BY <1>1, <1>2, Zenon
<1>. QED BY <1>1, <1>3, <1>10, <1>11, <1>12, <1>13, QuietStep, Zenon

\* The holder leaves, and nobody is past the lock.
LEMMA ReturnStep ==
  ASSUME NEW n \in QueueSizes, Sound(n, vq, page, disk, lock, call, calls), NEW t \in Tasks, Return(t)
  PROVE  DiskInv'
<1>1. call[t].pc \in {"done", "failed"} /\ call' = [call EXCEPT ![t] = Idle] /\ lock' = "free"
      /\ UNCHANGED <<vq, page, disk, calls>>
  BY Zenon DEF Return
<1>2. TasksOK(call, disk, lock) /\ calls \in 0..CALLS
  BY Zenon DEF Sound
<1>3. Idle.pc = "idle"
  BY DEF Idle
<1>4. TaskOK(t, Idle, disk, lock')
  <2>1. CallOK(Idle) /\ lock' # t
    BY <1>1, BlkAssumption, Zenon DEF CallOK
  <2>2. Idle.pc \notin Holding /\ LoopOK(Idle) /\ ExactOK(Idle, disk)
    BY <1>3 DEF Holding, LoopOK, ExactOK
  <2>. QED BY <2>1, <2>2, Zenon DEF TaskOK
<1>5. ASSUME NEW u \in Tasks, u # t PROVE TaskOK(u, call[u], disk, lock')
  <2>1. call[t].pc \in Holding
    BY <1>1 DEF Holding
  <2>2. lock = t
    BY <1>2, <2>1, OneHolder, Zenon
  <2>3. lock # u /\ lock' # u
    BY <1>1, <1>5, <2>2, BlkAssumption, Zenon
  <2>. QED BY <1>2, <2>3, Zenon DEF TasksOK, TaskOK
<1>6. call[t].pc \notin Active /\ Idle.pc \notin Active
  BY <1>1, <1>3 DEF Active
<1>. QED BY <1>1, <1>2, <1>4, <1>5, <1>6, QuietStep, Zenon

\* A holder with no request out: none is.
LEMMA NobodyOut ==
  ASSUME NEW n, Sound(n, vq, page, disk, lock, call, calls), NEW t \in Tasks,
         call[t].pc \in Holding, call[t].pc \notin Active
  PROVE  NoneOut(n, vq, call)
<1>1. Active \subseteq Holding
  BY DEF Active, Holding
<1>2. \A u \in Tasks : call[u].pc \notin Active
  BY <1>1, OneHolder, Zenon DEF Sound
<1>. QED BY <1>2, Zenon DEF Sound, OneOut

\* A holder with a request out: it is the one.
LEMMA Mine ==
  ASSUME NEW n, Sound(n, vq, page, disk, lock, call, calls), NEW t \in Tasks, call[t].pc \in Active
  PROVE  OneOut(n, vq, page, disk, call, t)
<1>1. PICK u \in Tasks : OneOut(n, vq, page, disk, call, u)
  BY Zenon DEF Sound, NoneOut
<1>2. u = t
  BY <1>1, Zenon DEF OneOut
<1>. QED BY <1>1, <1>2, Zenon

\* The page of a request.
LEMMA StagedIs ==
  ASSUME NEW k \in 1..MAX_COUNT, NEW r \in Calls(k), r.i < k, NEW p \in Pages
  PROVE  LET x == Staged(p, r) IN
         /\ x \in Pages /\ x.type = r.op /\ x.sector = r.lba + r.i
         /\ r.op = "OUT" => <<x.c256, x.c512>> = r.buf[r.i]
<1>1. r.op \in {"IN", "OUT"} /\ r.lba \in Nat /\ r.i \in 0..(k - 1)
      /\ r.buf \in [0..(k - 1) -> Halves \X Halves]
  <2>1. r.op \in {"IN", "OUT"} /\ r.lba \in 0..(CAPACITY - 1) /\ r.i \in 0..k
        /\ r.buf \in [0..(k - 1) -> Halves \X Halves]
    BY CallFields, Zenon
  <2>. QED BY <2>1
<1>2. r.buf[r.i] \in Halves \X Halves
  BY <1>1, Zenon
<1>3. PICK a \in Halves, b \in Halves : r.buf[r.i] = <<a, b>>
  BY <1>2
<1>4. r.buf[r.i][1] = a /\ r.buf[r.i][2] = b
  BY <1>3
<1> DEFINE sec == r.lba + r.i
           h == [p EXCEPT !.type = r.op, !.sector = sec, !.status = 255]
           w == [h EXCEPT !.c256 = a, !.c512 = b]
<1>5. sec \in Nat
  BY <1>1
<1>6. Staged(p, r) = IF r.op = "OUT" THEN w ELSE h
  BY <1>4, Zenon DEF Staged
<1> HIDE DEF sec
<1>7. h \in Pages /\ h.type = r.op /\ h.sector = sec
  <2>1. h \in Pages
    BY <1>1, <1>5, Zenon DEF Pages
  <2>2. h.type = r.op /\ h.sector = sec
    BY Zenon DEF Pages
  <2>. QED BY <2>1, <2>2, Zenon
<1> HIDE DEF h
<1>8. w \in Pages /\ w.type = h.type /\ w.sector = h.sector /\ w.c256 = a /\ w.c512 = b
  BY <1>7, Zenon DEF Pages
<1> HIDE DEF w
<1>9. CASE r.op = "OUT"
  BY <1>3, <1>6, <1>7, <1>8, <1>9, Zenon DEF sec
<1>10. CASE r.op # "OUT"
  BY <1>6, <1>7, <1>10, Zenon DEF sec
<1>. QED BY <1>9, <1>10, Zenon

\* A call that only moves on within a sector stays in order.
LEMMA TaskMoves ==
  ASSUME NEW t, NEW c, NEW d, NEW l, TaskOK(t, c, d, l), c.pc \in {"request", "publish", "wait"},
         NEW r, CallOK(r), r.pc \in {"request", "publish", "wait", "failed"},
         r.lba = c.lba, r.count = c.count, r.i = c.i, r.buf = c.buf
  PROVE  TaskOK(t, r, d, l)
<1>1. r.pc \in Holding /\ l = t
  BY DEF TaskOK, Holding
<1>2. LoopOK(r)
  <2>1. LoopOK(c)
    BY Zenon DEF TaskOK
  <2>. QED BY <2>1 DEF LoopOK
<1>3. ExactOK(r, d)
  <2>1. ExactOK(c, d)
    BY Zenon DEF TaskOK
  <2>2. \A k \in 0..(c.i - 1) : c.buf[k] = d[c.lba + k]
    BY <2>1, Zenon DEF ExactOK
  <2>. QED BY <2>2, Zenon DEF ExactOK
<1>. QED BY <1>1, <1>2, <1>3, Zenon DEF TaskOK

\* A request is put into the page and the chain, or given up before the
\* device sees anything of it.
LEMMA RequestStep ==
  ASSUME NEW n \in QueueSizes, Sound(n, vq, page, disk, lock, call, calls), NEW t \in Tasks, Request(t)
  PROVE  DiskInv'
<1> DEFINE c == call[t]
<1>1. c.pc = "request" /\ page' = Staged(page, c) /\ UNCHANGED <<disk, lock, calls>>
  BY Zenon DEF Request
<1>2. n \in Nat \ {0} /\ vq \in Queues(n, Cells) /\ page \in Pages /\ disk \in Disks
      /\ lock \in Tasks \cup {"free"} /\ calls \in 0..CALLS /\ DOMAIN call = Tasks
      /\ TasksOK(call, disk, lock)
  BY BlkAssumption, Zenon DEF Sound
<1>3. c.pc \in Holding /\ c.pc \notin Active /\ c.pc # "idle"
  BY <1>1 DEF Holding, Active
<1>4. NoneOut(n, vq, call)
  BY <1>3, NobodyOut, Zenon
<1>5. Quiet(vq) /\ FreeList(vq, 0..(n - 1)) /\ \A u \in Tasks : call[u].pc \notin Active
  BY <1>4, Zenon DEF NoneOut
<1>6. TaskOK(t, c, disk, lock)
  BY <1>2, Zenon DEF TasksOK
<1>7. PICK k \in 1..MAX_COUNT : c \in Calls(k)
  BY <1>3, <1>6, InCall, Zenon DEF TaskOK
<1>8. c.count = k /\ c.i \in 0..k /\ c.op \in {"IN", "OUT"} /\ c.i < k
  <2>1. c.count = k /\ c.i \in 0..k /\ c.op \in {"IN", "OUT"}
    BY <1>7, CallFields, Zenon
  <2>2. c.i + 1 <= c.count
    <3>1. LoopOK(c)
      BY <1>6, Zenon DEF TaskOK
    <3> HIDE DEF c
    <3>. QED BY <1>1, <3>1 DEF LoopOK
  <2> HIDE DEF c
  <2>. QED BY <2>1, <2>2
<1>9. page' \in Pages /\ page'.type = c.op /\ page'.sector = c.lba + c.i
      /\ (c.op = "OUT" => <<page'.c256, page'.c512>> = c.buf[c.i])
  <2> HIDE DEF c
  <2>. QED BY <1>1, <1>2, <1>7, <1>8, StagedIs
<1>10. vq.num_free \in 0..n /\ vq.size = n
  BY <1>2, QueueFields, Zenon
<1>11. CASE vq.num_free < 3
  <2> DEFINE r == [c EXCEPT !.pc = "failed"]
  <2>1. vq' = Backed(vq) /\ Goto(t, "failed")
    BY <1>11, Zenon DEF Request
  <2>2. call' = [call EXCEPT ![t] = r]
    BY <1>2, <2>1, GotoIs
  <2>3. r \in Calls(k) /\ r.pc = "failed" /\ r.lba = c.lba /\ r.count = c.count /\ r.i = c.i
        /\ r.buf = c.buf
    <3>1. "failed" \in Pcs
      BY DEF Pcs
    <3> HIDE DEF c
    <3>. QED BY <1>7, <3>1, PcSet
  <2> HIDE DEF r
  <2>4. CallOK(r)
    BY <2>3, Zenon DEF CallOK
  <2>5. TaskOK(t, r, disk, lock)
    <3>1. c.pc \in {"request", "publish", "wait"} /\ r.pc \in {"request", "publish", "wait", "failed"}
      BY <1>1, <2>3, Zenon
    <3> HIDE DEF c
    <3>. QED BY <1>6, <2>3, <2>4, <3>1, TaskMoves, Zenon
  <2>6. TasksOK(call', disk, lock)
    <3>1. \A u \in Tasks : u # t => TaskOK(u, call[u], disk, lock)
      BY <1>2, Zenon DEF TasksOK
    <3>. QED BY <1>2, <2>2, <2>5, <3>1, TasksStep, Zenon
  <2>7. vq' \in Queues(n, Cells) /\ Rings(vq') = Rings(vq) /\ FreeList(vq', 0..(n - 1))
    BY <1>2, <1>5, <1>11, <2>1, BackOut
  <2>8. Quiet(vq')
    BY <1>5, <2>7, RingsSame, Zenon
  <2>9. DOMAIN call' = Tasks /\ call'[t] = r /\ \A u \in Tasks : u # t => call'[u] = call[u]
    BY <1>2, <2>2, CallUpdate, CallOthers
  <2>10. NoneOut(n, vq', call')
    <3>1. r.pc \notin Active
      BY <2>3 DEF Active
    <3>. QED BY <1>5, <2>7, <2>8, <2>9, <3>1, Zenon DEF NoneOut
  <2>11. Sound(n, vq', page', disk', lock', call', calls')
    BY <1>1, <1>2, <1>9, <2>6, <2>7, <2>9, <2>10, Zenon DEF Sound
  <2>. QED BY <2>11, Zenon DEF DiskInv
<1>12. CASE ~(vq.num_free < 3)
  <2> DEFINE h == vq.free_head
             r == [c EXCEPT !.pc = "publish", !.d0 = h]
             q == ChainBuilt(vq, c.op)
  <2>1. vq' = RingWritten(q, h) /\ call' = [call EXCEPT ![t].pc = "publish", ![t].d0 = h]
    BY <1>12, Zenon DEF Request
  <2>2. vq.num_free >= 3
    BY <1>10, <1>12
  <2>3. q \in Queues(n, Cells) /\ Rings(q) = Rings(vq) /\ q.num_free = vq.num_free - 3
        /\ h \in 0..(n - 1) /\ Linked(q, h) /\ FreeList(q, (0..(n - 1)) \ Three(q, h))
        /\ DataAt(q, h) = IF c.op = "IN" THEN "c512" ELSE "c256"
    <3> HIDE DEF c
    <3>. QED BY <1>2, <1>5, <1>8, <2>2, BuildChain, Zenon
  <2>4. Quiet(q)
    BY <1>5, <2>3, RingsSame, Zenon
  <2> HIDE DEF q
  <2>5. vq' \in Queues(n, Cells) /\ Table(vq') = Table(q) /\ Quiet(vq')
        /\ vq'.avail[vq'.avail_idx % vq'.size] = h
    <3> HIDE DEF h
    <3>. QED BY <1>2, <2>1, <2>3, <2>4, RingWrittenIs
  <2>6. vq'.num_free = q.num_free /\ vq'.size = q.size /\ DataAt(vq', h) = DataAt(q, h)
        /\ (Linked(vq', h) <=> Linked(q, h)) /\ Three(vq', h) = Three(q, h)
    <3> HIDE DEF h
    <3>. QED BY <1>2, <2>3, <2>5, TableSame
  <2>7. FreeList(vq', (0..(n - 1)) \ Three(vq', h))
    <3>1. FreeList(vq', (0..(n - 1)) \ Three(q, h))
      <4> HIDE DEF h
      <4>. QED BY <1>2, <2>3, <2>5, TableFree
    <3>. QED BY <2>6, <3>1, Zenon
  <2>8. call' = [call EXCEPT ![t] = r]
    BY <1>2, <2>1, Zenon
  <2>9. r \in Calls(k) /\ r.pc = "publish" /\ r.lba = c.lba /\ r.count = c.count /\ r.i = c.i
        /\ r.buf = c.buf /\ r.op = c.op /\ r.d0 = h
    <3>1. h \in Nat
      BY <2>3
    <3> HIDE DEF c, h
    <3>. QED BY <1>7, <3>1, Zenon DEF Calls
  <2> HIDE DEF r
  <2>10. CallOK(r)
    BY <2>9, Zenon DEF CallOK
  <2>11. TaskOK(t, r, disk, lock)
    <3>1. c.pc \in {"request", "publish", "wait"} /\ r.pc \in {"request", "publish", "wait", "failed"}
      BY <1>1, <2>9, Zenon
    <3> HIDE DEF c
    <3>. QED BY <1>6, <2>9, <2>10, <3>1, TaskMoves, Zenon
  <2>12. TasksOK(call', disk, lock)
    <3>1. \A u \in Tasks : u # t => TaskOK(u, call[u], disk, lock)
      BY <1>2, Zenon DEF TasksOK
    <3>. QED BY <1>2, <2>8, <2>11, <3>1, TasksStep, Zenon
  <2>13. DOMAIN call' = Tasks /\ call'[t] = r /\ \A u \in Tasks : u # t => call'[u] = call[u]
    BY <1>2, <2>8, CallUpdate, CallOthers
  <2>14. OutOK(r, vq', page', disk)
    <3>1. vq'.num_free + 3 <= vq'.size
      <4>1. q.size = n
        BY <1>2, <2>3, QueueFields, Zenon
      <4>. QED BY <1>10, <2>3, <2>6, <4>1
    <3>2. IF r.op = "IN" THEN DataAt(vq', h) = "c512"
          ELSE DataAt(vq', h) = "c256" /\ <<page'.c256, page'.c512>> = r.buf[r.i]
      BY <1>8, <1>9, <2>3, <2>6, <2>9, Zenon
    <3>3. DescribesAs(r, vq', page')
      BY <1>9, <2>3, <2>6, <2>9, <3>1, <3>2, Zenon DEF DescribesAs
    <3>. QED BY <2>5, <2>9, <3>3, Zenon DEF OutOK
  <2>15. OneOut(n, vq', page', disk, call', t)
    <3>1. "publish" \in Active
      BY DEF Active
    <3>. QED BY <1>5, <2>3, <2>7, <2>9, <2>13, <2>14, <3>1, Zenon DEF OneOut
  <2>16. Sound(n, vq', page', disk', lock', call', calls')
    BY <1>1, <1>2, <1>9, <2>5, <2>12, <2>13, <2>15, Zenon DEF Sound
  <2>. QED BY <2>16, Zenon DEF DiskInv
<1>. QED BY <1>11, <1>12, Zenon

\* What the steps of the device and Publish leave of a request.
LEMMA SameRequest ==
  ASSUME NEW n \in Nat \ {0}, NEW q \in Queues(n, Cells), NEW s \in Queues(n, Cells), Table(s) = Table(q),
         NEW r, NEW c, r.op = c.op, r.lba = c.lba, r.i = c.i, r.d0 = c.d0, r.buf = c.buf,
         NEW p, NEW x, x.type = p.type, x.sector = p.sector,
         r.op # "IN" => x.c256 = p.c256 /\ x.c512 = p.c512, DescribesAs(c, q, p)
  PROVE  DescribesAs(r, s, x)
<1> DEFINE h == c.d0
<1>1. s.num_free = q.num_free /\ s.size = q.size /\ DataAt(s, h) = DataAt(q, h)
      /\ (Linked(s, h) <=> Linked(q, h))
  <2> HIDE DEF h
  <2>. QED BY TableSame
<1>2. s.num_free + 3 <= s.size /\ Linked(s, h)
  BY <1>1, Zenon DEF DescribesAs
<1>3. x.type = r.op /\ x.sector = r.lba + r.i
  BY Zenon DEF DescribesAs
<1>4. IF r.op = "IN" THEN DataAt(s, h) = "c512"
      ELSE DataAt(s, h) = "c256" /\ <<x.c256, x.c512>> = r.buf[r.i]
  BY <1>1, Zenon DEF DescribesAs
<1>. QED BY <1>2, <1>3, <1>4, Zenon DEF DescribesAs

\* The free list beside the chain that is out depends on the table only.
LEMMA SameFree ==
  ASSUME NEW n \in Nat \ {0}, NEW q \in Queues(n, Cells), NEW s \in Queues(n, Cells), Table(s) = Table(q),
         NEW h, FreeList(q, (0..(n - 1)) \ Three(q, h))
  PROVE  FreeList(s, (0..(n - 1)) \ Three(s, h))
<1> DEFINE F == (0..(n - 1)) \ Three(q, h)
<1>1. Three(s, h) = Three(q, h)
  BY TableSame
<1>2. FreeList(s, F)
  <2> HIDE DEF F
  <2>1. FreeList(q, F)
    BY Zenon DEF F
  <2>. QED BY <2>1, TableFree
<1>. QED BY <1>1, <1>2, Zenon

\* The device may look at the request.
LEMMA PublishStep ==
  ASSUME NEW n \in QueueSizes, Sound(n, vq, page, disk, lock, call, calls), NEW t \in Tasks, Publish(t)
  PROVE  DiskInv'
<1> DEFINE c == call[t]
           h == c.d0
           r == [c EXCEPT !.pc = "wait"]
<1>1. c.pc = "publish" /\ vq' = Published(vq) /\ Goto(t, "wait") /\ UNCHANGED <<page, disk, lock, calls>>
  BY Zenon DEF Publish
<1>2. n \in Nat \ {0} /\ vq \in Queues(n, Cells) /\ page \in Pages /\ disk \in Disks
      /\ lock \in Tasks \cup {"free"} /\ calls \in 0..CALLS /\ DOMAIN call = Tasks
      /\ TasksOK(call, disk, lock)
  BY BlkAssumption, Zenon DEF Sound
<1>3. c.pc \in Active /\ c.pc # "idle"
  BY <1>1 DEF Active
<1>4. OneOut(n, vq, page, disk, call, t)
  BY <1>3, Mine, Zenon
<1>5. OutOK(c, vq, page, disk) /\ h \in 0..(n - 1) /\ FreeList(vq, (0..(n - 1)) \ Three(vq, h))
      /\ \A u \in Tasks : u # t => call[u].pc \notin Active
  BY <1>4, Zenon DEF OneOut
<1>6. DescribesAs(c, vq, page) /\ Quiet(vq) /\ vq.avail[vq.avail_idx % vq.size] = h
  <2>1. c.pc # "wait"
    BY <1>1
  <2>. QED BY <1>5, <2>1, Zenon DEF OutOK
<1>7. TaskOK(t, c, disk, lock)
  BY <1>2, Zenon DEF TasksOK
<1>8. PICK k \in 1..MAX_COUNT : c \in Calls(k)
  BY <1>3, <1>7, InCall, Zenon DEF TaskOK
<1>9. call' = [call EXCEPT ![t] = r]
  BY <1>1, <1>2, GotoIs
<1>10. r \in Calls(k) /\ r.pc = "wait" /\ r.lba = c.lba /\ r.count = c.count /\ r.i = c.i
       /\ r.buf = c.buf /\ r.op = c.op /\ r.d0 = h
  <2>1. "wait" \in Pcs
    BY DEF Pcs
  <2> HIDE DEF c
  <2>. QED BY <1>8, <2>1, PcSet
<1> HIDE DEF r
<1>11. TaskOK(t, r, disk, lock)
  <2>1. c.pc \in {"request", "publish", "wait"} /\ r.pc \in {"request", "publish", "wait", "failed"}
    BY <1>1, <1>10, Zenon
  <2>2. CallOK(r)
    BY <1>10, Zenon DEF CallOK
  <2> HIDE DEF c
  <2>. QED BY <1>7, <1>10, <2>1, <2>2, TaskMoves, Zenon
<1>12. TasksOK(call', disk, lock)
  <2>1. \A u \in Tasks : u # t => TaskOK(u, call[u], disk, lock)
    BY <1>2, Zenon DEF TasksOK
  <2>. QED BY <1>2, <1>9, <1>11, <2>1, TasksStep, Zenon
<1>13. DOMAIN call' = Tasks /\ call'[t] = r /\ \A u \in Tasks : u # t => call'[u] = call[u]
  BY <1>2, <1>9, CallUpdate, CallOthers
<1>14. vq' \in Queues(n, Cells) /\ Table(vq') = Table(vq) /\ Submitted(vq', h)
  <2> HIDE DEF h
  <2>. QED BY <1>1, <1>2, <1>6, PublishedIs
<1>15. DescribesAs(r, vq', page)
  <2> HIDE DEF c
  <2>. QED BY <1>2, <1>6, <1>10, <1>14, SameRequest DEF h
<1>16. FreeList(vq', (0..(n - 1)) \ Three(vq', h))
  <2> HIDE DEF h
  <2>. QED BY <1>2, <1>5, <1>14, SameFree, Zenon
<1>17. OneOut(n, vq', page, disk, call', t)
  <2>1. "wait" \in Active
    BY DEF Active
  <2>2. OutOK(r, vq', page, disk)
    BY <1>10, <1>14, <1>15, Zenon DEF OutOK
  <2>. QED BY <1>5, <1>10, <1>13, <1>16, <2>1, <2>2, Zenon DEF OneOut
<1>18. Sound(n, vq', page', disk', lock', call', calls')
  BY <1>1, <1>2, <1>12, <1>13, <1>14, <1>17, Zenon DEF Sound
<1>. QED BY <1>18, Zenon DEF DiskInv

\* The descriptors come back, and the sector is transferred or the call fails.
LEMMA FinishStep ==
  ASSUME NEW n \in QueueSizes, Sound(n, vq, page, disk, lock, call, calls), NEW t \in Tasks, Finish(t)
  PROVE  DiskInv'
<1> DEFINE c == call[t]
           h == c.d0
           q == poll_used(vq)
<1>1. c.pc = "wait" /\ HasUsed(vq) /\ vq' = free_chain(q, h) /\ UNCHANGED <<page, disk, lock, calls>>
  BY Zenon DEF Finish
<1>2. n \in Nat \ {0} /\ vq \in Queues(n, Cells) /\ page \in Pages /\ disk \in Disks
      /\ lock \in Tasks \cup {"free"} /\ calls \in 0..CALLS /\ DOMAIN call = Tasks
      /\ TasksOK(call, disk, lock)
  BY BlkAssumption, Zenon DEF Sound
<1>3. c.pc \in Active /\ c.pc # "idle"
  BY <1>1 DEF Active
<1>4. OneOut(n, vq, page, disk, call, t)
  BY <1>3, Mine, Zenon
<1>5. OutOK(c, vq, page, disk) /\ h \in 0..(n - 1) /\ FreeList(vq, (0..(n - 1)) \ Three(vq, h))
      /\ \A u \in Tasks : u # t => call[u].pc \notin Active
  BY <1>4, Zenon DEF OneOut
<1>6. DescribesAs(c, vq, page) /\ Answered(vq, h) /\ (page.status = 0 => FulfilledAs(c, page, disk))
  <2>1. c.pc # "publish"
    BY <1>1
  <2>2. ~Submitted(vq, h) /\ ~Taking(vq, h)
    BY <1>1, Zenon DEF HasUsed, Submitted, Taking
  <2>. QED BY <1>5, <2>1, <2>2, Zenon DEF OutOK
<1>7. TaskOK(t, c, disk, lock)
  BY <1>2, Zenon DEF TasksOK
<1>8. PICK k \in 1..MAX_COUNT : c \in Calls(k)
  BY <1>3, <1>7, InCall, Zenon DEF TaskOK
<1>9. q \in Queues(n, Cells) /\ Table(q) = Table(vq) /\ Quiet(q)
  <2> HIDE DEF h
  <2>. QED BY <1>2, <1>6, PollUsedIs
<1> HIDE DEF q
<1>10. Linked(q, h) /\ q.num_free + 3 <= n /\ FreeList(q, (0..(n - 1)) \ Three(q, h))
       /\ Three(q, h) \subseteq 0..(n - 1)
  <2>1. q.num_free = vq.num_free /\ (Linked(q, h) <=> Linked(vq, h))
    <3> HIDE DEF h
    <3>. QED BY <1>2, <1>9, TableSame
  <2>2. vq.size = n
    BY <1>2, QueueFields, Zenon
  <2>3. Linked(vq, h) /\ vq.num_free + 3 <= vq.size
    BY <1>6, Zenon DEF DescribesAs
  <2>4. FreeList(q, (0..(n - 1)) \ Three(q, h))
    <3> HIDE DEF h
    <3>. QED BY <1>2, <1>5, <1>9, SameFree
  <2>5. q.desc[h].next \in 0..(n - 1)
    BY <1>2, <1>5, <1>9, DescFields, Zenon
  <2>6. q.desc[q.desc[h].next].next \in 0..(n - 1)
    BY <1>2, <1>9, <2>5, DescFields, Zenon
  <2>. QED BY <1>5, <2>1, <2>2, <2>3, <2>4, <2>5, <2>6, Zenon DEF Three
<1>11. vq' \in Queues(n, Cells) /\ Quiet(vq') /\ FreeList(vq', 0..(n - 1))
  <2> DEFINE F == (0..(n - 1)) \ Three(q, h)
  <2>1. Three(q, h) \cap F = {} /\ F \cup Three(q, h) = 0..(n - 1)
    BY <1>10, Zenon
  <2>2. FreeList(q, F)
    BY <1>10, Zenon
  <2> HIDE DEF F, h
  <2>3. vq' \in Queues(n, Cells) /\ Rings(vq') = Rings(q) /\ FreeList(vq', F \cup Three(q, h))
    BY <1>1, <1>2, <1>5, <1>9, <1>10, <2>1, <2>2, FreeChain, Zenon
  <2>4. Quiet(vq')
    BY <1>9, <2>3, RingsSame, Zenon
  <2>. QED BY <2>1, <2>3, <2>4, Zenon
<1>12. ASSUME NEW r, call' = [call EXCEPT ![t] = r], TaskOK(t, r, disk, lock), r.pc \notin Active
       PROVE  DiskInv'
  <2>1. TasksOK(call', disk, lock)
    <3>1. \A u \in Tasks : u # t => TaskOK(u, call[u], disk, lock)
      BY <1>2, Zenon DEF TasksOK
    <3>. QED BY <1>2, <1>12, <3>1, TasksStep, Zenon
  <2>2. DOMAIN call' = Tasks /\ call'[t] = r /\ \A u \in Tasks : u # t => call'[u] = call[u]
    BY <1>2, <1>12, CallUpdate, CallOthers
  <2>3. NoneOut(n, vq', call')
    BY <1>5, <1>11, <1>12, <2>2, Zenon DEF NoneOut
  <2>4. Sound(n, vq', page', disk', lock', call', calls')
    BY <1>1, <1>2, <1>11, <2>1, <2>2, <2>3, Zenon DEF Sound
  <2>. QED BY <2>4, Zenon DEF DiskInv
<1>13. CASE page.status # 0
  <2> DEFINE r == [c EXCEPT !.pc = "failed"]
  <2>1. Goto(t, "failed")
    BY <1>13, Zenon DEF Finish
  <2>2. call' = [call EXCEPT ![t] = r]
    BY <1>2, <2>1, GotoIs
  <2>3. r \in Calls(k) /\ r.pc = "failed" /\ r.lba = c.lba /\ r.count = c.count /\ r.i = c.i
        /\ r.buf = c.buf
    <3>1. "failed" \in Pcs
      BY DEF Pcs
    <3> HIDE DEF c
    <3>. QED BY <1>8, <3>1, PcSet
  <2> HIDE DEF r
  <2>4. TaskOK(t, r, disk, lock)
    <3>1. c.pc \in {"request", "publish", "wait"} /\ r.pc \in {"request", "publish", "wait", "failed"}
      BY <1>1, <2>3, Zenon
    <3>2. CallOK(r)
      BY <2>3, Zenon DEF CallOK
    <3> HIDE DEF c
    <3>. QED BY <1>7, <2>3, <3>1, <3>2, TaskMoves, Zenon
  <2>5. r.pc \notin Active
    BY <2>3 DEF Active
  <2>. QED BY <1>12, <2>2, <2>4, <2>5, Zenon
<1>14. CASE page.status = 0
  <2> DEFINE v == IF c.op = "IN" THEN <<page.c512, page.c768>> ELSE c.buf[c.i]
             b == [c.buf EXCEPT ![c.i] = v]
             p == IF c.i + 1 < c.count THEN "request" ELSE "done"
             r == [c EXCEPT !.buf = b, !.i = c.i + 1, !.pc = p]
  <2>1. call' = [call EXCEPT
              ![t].buf[call[t].i] = IF call[t].op = "IN" THEN <<page.c512, page.c768>> ELSE @,
              ![t].i = @ + 1,
              ![t].pc = IF call[t].i + 1 < call[t].count THEN "request" ELSE "done"]
    BY <1>14, Zenon DEF Finish
  <2>2. call' = [call EXCEPT ![t] = r]
    BY <1>2, <1>8, <2>1 DEF Calls
  <2>3. c.op \in {"IN", "OUT"} /\ c.count = k /\ c.i \in 0..k /\ c.lba \in Nat /\ k \in Nat
        /\ c.buf \in [0..(k - 1) -> Halves \X Halves]
    <3>1. c.op \in {"IN", "OUT"} /\ c.count = k /\ c.i \in 0..k /\ c.lba \in 0..(CAPACITY - 1)
          /\ c.buf \in [0..(k - 1) -> Halves \X Halves]
      BY <1>8, CallFields, Zenon
    <3>. QED BY <3>1
  <2>4. LoopOK(c) /\ ExactOK(c, disk)
    BY <1>7, Zenon DEF TaskOK
  <2>5. c.i + 1 <= c.count /\ c.lba + c.count <= CAPACITY
    <3> HIDE DEF c
    <3>. QED BY <1>1, <2>4 DEF LoopOK
  <2>6. \A j \in 0..(c.i - 1) : c.buf[j] = disk[c.lba + j]
    <3> HIDE DEF c
    <3>. QED BY <1>1, <2>4 DEF ExactOK
  <2>7. v = disk[c.lba + c.i]
    BY <1>6, <1>14, Zenon DEF FulfilledAs, DescribesAs
  <2>8. v \in Halves \X Halves
    <3>1. c.lba + c.i \in 0..(CAPACITY - 1)
      <4> HIDE DEF c
      <4>1. c.i \in Nat /\ c.lba \in Nat /\ c.count \in Nat /\ CAPACITY \in Nat
        BY <2>3, BlkAssumption
      <4> DEFINE a == c.i
                 e == c.lba
                 g == c.count
      <4>2. a \in Nat /\ e \in Nat /\ g \in Nat /\ a + 1 <= g /\ e + g <= CAPACITY
        BY <2>5, <4>1, Zenon
      <4> HIDE DEF a, e, g
      <4>3. e + a \in 0..(CAPACITY - 1)
        BY <4>1, <4>2
      <4>. QED BY <4>3, Zenon DEF a, e
    <3>. QED BY <1>2, <2>7, <3>1, Zenon DEF Disks
  <2> HIDE DEF v, c
  <2>9. c.i \in 0..(k - 1) /\ c.i + 1 \in 0..k
    BY <2>3, <2>5
  <2>10. b \in [0..(k - 1) -> Halves \X Halves] /\ b[c.i] = v
    BY <2>3, <2>8, <2>9
  <2>11. \A j \in 0..(c.i - 1) : b[j] = c.buf[j]
    BY <2>3, <2>9
  <2> HIDE DEF b
  <2>12. p \in Pcs /\ (p = "request" \/ p = "done")
         /\ (p = "request" => c.i + 1 < c.count) /\ (p = "done" => c.i + 1 = c.count)
    <3>1. ~(c.i + 1 < c.count) => c.i + 1 = c.count
      BY <2>3, <2>5
    <3>. QED BY <3>1 DEF Pcs
  <2> HIDE DEF p
  <2>13. r \in Calls(k) /\ r.pc = p /\ r.lba = c.lba /\ r.count = k /\ r.i = c.i + 1 /\ r.buf = b
    BY <1>8, <2>3, <2>9, <2>10, <2>12, Zenon DEF Calls, Pcs
  <2> HIDE DEF r
  <2>14. TaskOK(t, r, disk, lock)
    <3>1. CallOK(r)
      BY <2>13, Zenon DEF CallOK
    <3>2. lock = t
      BY <1>1, <1>7 DEF TaskOK, Holding
    <3>3. r.pc \in Holding
      BY <2>12, <2>13 DEF Holding
    <3>4. LoopOK(r)
      BY <2>3, <2>5, <2>12, <2>13 DEF LoopOK
    <3>5. ExactOK(r, disk)
      <4>1. SUFFICES ASSUME NEW j \in 0..(r.i - 1) PROVE b[j] = disk[c.lba + j]
        BY <2>13, Zenon DEF ExactOK
      <4>2. j = c.i \/ j \in 0..(c.i - 1)
        BY <2>3, <2>13, <4>1
      <4>. QED BY <2>6, <2>7, <2>10, <2>11, <4>2, Zenon
    <3>. QED BY <3>1, <3>2, <3>3, <3>4, <3>5, Zenon DEF TaskOK
  <2>15. r.pc \notin Active
    BY <2>12, <2>13 DEF Active
  <2>. QED BY <1>12, <2>2, <2>14, <2>15, Zenon
<1>. QED BY <1>13, <1>14, Zenon

\* The device takes the request of the one that waits.
LEMMA DeviceTakesStep ==
  ASSUME NEW n \in QueueSizes, Sound(n, vq, page, disk, lock, call, calls), DeviceTakes
  PROVE  DiskInv'
<1>1. CanTake(vq) /\ vq' = Taken(vq) /\ page' = page /\ disk' = disk /\ lock' = lock /\ call' = call
      /\ calls' = calls
  BY Zenon DEF DeviceTakes
<1>2. n \in Nat \ {0} /\ vq \in Queues(n, Cells)
  BY BlkAssumption, Zenon DEF Sound
<1>3. ~Quiet(vq)
  BY <1>1, Zenon DEF CanTake, Quiet
<1>4. PICK t \in Tasks : OneOut(n, vq, page, disk, call, t)
  BY <1>3, Zenon DEF Sound, NoneOut
<1> DEFINE c == call[t]
           h == c.d0
<1>5. OutOK(c, vq, page, disk) /\ FreeList(vq, (0..(n - 1)) \ Three(vq, h))
  BY <1>4, Zenon DEF OneOut
<1>6. DescribesAs(c, vq, page) /\ c.pc = "wait" /\ Submitted(vq, h)
  BY <1>1, <1>3, <1>5, Zenon DEF OutOK, CanTake, Taking, Answered
<1>7. vq' \in Queues(n, Cells) /\ Table(vq') = Table(vq) /\ Taking(vq', h)
  <2> HIDE DEF h
  <2>. QED BY <1>1, <1>2, <1>6, TakenIs
<1>8. DescribesAs(c, vq', page)
  <2> HIDE DEF c
  <2>. QED BY <1>2, <1>6, <1>7, SameRequest
<1>9. FreeList(vq', (0..(n - 1)) \ Three(vq', h))
  <2> HIDE DEF h
  <2>. QED BY <1>2, <1>5, <1>7, SameFree
<1>10. OneOut(n, vq', page, disk, call, t)
  <2>1. OutOK(c, vq', page, disk)
    BY <1>6, <1>7, <1>8, Zenon DEF OutOK
  <2>. QED BY <1>4, <1>9, <2>1, Zenon DEF OneOut
<1>11. Sound(n, vq', page', disk', lock', call', calls')
  BY <1>1, <1>7, <1>10, Zenon DEF Sound
<1>. QED BY <1>11, Zenon DEF DiskInv

\* What the device does to the page and the disk for the request of c: the
\* page still describes it, success means it is done, and the sectors before
\* it are left alone.
LEMMA Answer ==
  ASSUME NEW n \in Nat \ {0}, vq \in Queues(n, Cells), page \in Pages, disk \in Disks,
         NEW k \in 1..MAX_COUNT, NEW c \in Calls(k), c.i + 1 <= c.count, c.lba + c.count <= CAPACITY,
         DescribesAs(c, vq, page), NEW ok \in BOOLEAN,
         DeviceReads(c.d0, ok) \/ DeviceWrites(c.d0, ok)
  PROVE  /\ page' \in Pages /\ disk' \in Disks
         /\ page'.type = page.type /\ page'.sector = page.sector
         /\ c.op # "IN" => page'.c256 = page.c256 /\ page'.c512 = page.c512
         /\ page'.status = 0 => FulfilledAs(c, page', disk')
         /\ \A j \in 0..(c.i - 1) : disk'[c.lba + j] = disk[c.lba + j]
<1> DEFINE a == page.sector
<1>1. c.op \in {"IN", "OUT"} /\ c.count \in Nat /\ c.i \in Nat /\ c.lba \in Nat
      /\ c.buf \in [0..(k - 1) -> Halves \X Halves] /\ c.count = k
  <2>1. c.op \in {"IN", "OUT"} /\ c.count = k /\ c.i \in 0..k /\ c.lba \in 0..(CAPACITY - 1)
        /\ c.buf \in [0..(k - 1) -> Halves \X Halves]
    BY CallFields, Zenon
  <2>. QED BY <2>1
<1>2. page.type = c.op /\ a = c.lba + c.i
  BY Zenon DEF DescribesAs
<1>3. a \in 0..(CAPACITY - 1) /\ \A j \in 0..(c.i - 1) : c.lba + j # a
  <2> DEFINE x == c.i
             y == c.lba
             z == c.count
  <2>1. x \in Nat /\ y \in Nat /\ z \in Nat /\ x + 1 <= z /\ y + z <= CAPACITY /\ a = y + x
    BY <1>1, <1>2, Zenon
  <2> HIDE DEF x, y, z, a
  <2>2. a \in 0..(CAPACITY - 1) /\ \A j \in 0..(x - 1) : y + j # a
    BY <2>1, BlkAssumption
  <2>. QED BY <2>2, Zenon DEF x, y
<1>4. disk[a] \in Halves \X Halves
  BY <1>3, Zenon DEF Disks
<1>5. PICK u \in Halves, w \in Halves : disk[a] = <<u, w>>
  BY <1>4
<1>6. disk[a][1] = u /\ disk[a][2] = w
  BY <1>5
<1>7. CASE DeviceReads(c.d0, ok)
  <2> DEFINE x == [page EXCEPT !.status = 0, !.c512 = u, !.c768 = w]
             y == [page EXCEPT !.status = 1]
  <2>1. page' = (IF ok THEN x ELSE y) /\ disk' = disk /\ c.op = "IN"
    BY <1>2, <1>6, <1>7, Zenon DEF DeviceReads
  <2>2. x \in Pages /\ x.type = page.type /\ x.sector = a /\ x.c512 = u /\ x.c768 = w
    BY Zenon DEF Pages
  <2>3. y \in Pages /\ y.type = page.type /\ y.sector = a /\ y.status # 0
    BY DEF Pages
  <2> HIDE DEF x, y
  <2>4. CASE ok
    <3>1. page' = x
      BY <2>1, <2>4, Zenon
    <3>2. FulfilledAs(c, page', disk')
      BY <1>5, <2>1, <2>2, <3>1, Zenon DEF FulfilledAs
    <3>. QED BY <2>1, <2>2, <3>1, <3>2, Zenon
  <2>5. CASE ~ok
    <3>1. page' = y
      BY <2>1, <2>5, Zenon
    <3>. QED BY <2>1, <2>3, <3>1, Zenon
  <2>. QED BY <2>4, <2>5, Zenon
<1>8. CASE DeviceWrites(c.d0, ok)
  <2> DEFINE z == IF ok THEN 0 ELSE 1
             v == c.buf[c.i]
             e == [disk EXCEPT ![a] = v]
  <2>1. page' = [page EXCEPT !.status = z] /\ c.op = "OUT" /\ c.op # "IN"
        /\ (disk' = [disk EXCEPT ![a] = Stored(vq, c.d0)] \/ (~ok /\ disk' = disk))
    BY <1>2, <1>8 DEF DeviceWrites
  <2>2. page' \in Pages /\ page'.type = page.type /\ page'.sector = a /\ page'.c256 = page.c256
        /\ page'.c512 = page.c512 /\ page'.status = z
    BY <2>1 DEF Pages
  <2>3. Stored(vq, c.d0) = v
    BY <2>1, Zenon DEF Stored, DescribesAs
  <2>4. v \in Halves \X Halves
    <3>1. c.i \in 0..(k - 1)
      BY <1>1
    <3>. QED BY <1>1, <3>1, Zenon
  <2> HIDE DEF v
  <2>5. e \in Disks /\ e[a] = v
    BY <1>3, <2>4 DEF Disks
  <2>6. \A j \in 0..(c.i - 1) : e[c.lba + j] = disk[c.lba + j]
    <3>1. DOMAIN disk = 0..(CAPACITY - 1)
      BY Zenon DEF Disks
    <3>2. ASSUME NEW j \in 0..(c.i - 1) PROVE c.lba + j \in 0..(CAPACITY - 1)
      <4> DEFINE x == c.i
                 y == c.lba
                 g == c.count
      <4>1. x \in Nat /\ y \in Nat /\ g \in Nat /\ x + 1 <= g /\ y + g <= CAPACITY /\ j \in 0..(x - 1)
        BY <1>1, <3>2, Zenon
      <4> HIDE DEF x, y, g
      <4>2. y + j \in 0..(CAPACITY - 1)
        BY <4>1, BlkAssumption
      <4>. QED BY <4>2, Zenon DEF y
    <3> HIDE DEF a
    <3>. QED BY <1>3, <3>1, <3>2
  <2> HIDE DEF e
  <2>7. CASE disk' = e
    <3>1. FulfilledAs(c, page', disk')
      BY <2>1, <2>2, <2>5, <2>7, Zenon DEF FulfilledAs, v
    <3>. QED BY <2>2, <2>5, <2>6, <2>7, <3>1, Zenon
  <2>8. CASE ~ok /\ disk' = disk
    <3>1. page'.status # 0
      BY <2>2, <2>8
    <3>. QED BY <2>2, <2>8, <3>1, Zenon
  <2>. QED BY <2>1, <2>3, <2>7, <2>8, Zenon DEF e
<1>. QED BY <1>7, <1>8, Zenon

\* The device answers the one that waits.
LEMMA DeviceAnswersStep ==
  ASSUME NEW n \in QueueSizes, Sound(n, vq, page, disk, lock, call, calls), DeviceAnswers
  PROVE  DiskInv'
<1>1. PICK head \in vq.busy, ok \in BOOLEAN :
         /\ DeviceReads(head, ok) \/ DeviceWrites(head, ok)
         /\ vq' = Used(vq, head, 1) /\ UNCHANGED <<lock, call, calls>>
  BY Zenon DEF DeviceAnswers
<1>2. n \in Nat \ {0} /\ vq \in Queues(n, Cells) /\ page \in Pages /\ disk \in Disks
      /\ lock \in Tasks \cup {"free"} /\ calls \in 0..CALLS /\ DOMAIN call = Tasks
      /\ TasksOK(call, disk, lock)
  BY BlkAssumption, Zenon DEF Sound
<1>3. ~Quiet(vq)
  BY <1>1, Zenon DEF Quiet
<1>4. PICK t \in Tasks : OneOut(n, vq, page, disk, call, t)
  BY <1>3, Zenon DEF Sound, NoneOut
<1> DEFINE c == call[t]
           h == c.d0
<1>5. OutOK(c, vq, page, disk) /\ FreeList(vq, (0..(n - 1)) \ Three(vq, h)) /\ c.pc \in Active
  BY <1>4, Zenon DEF OneOut
<1>6. DescribesAs(c, vq, page) /\ c.pc = "wait" /\ Taking(vq, h) /\ head = h
  <2>1. ~Submitted(vq, h) /\ ~Answered(vq, h)
    BY <1>1, Zenon DEF Submitted, Answered
  <2>2. DescribesAs(c, vq, page) /\ c.pc = "wait" /\ Taking(vq, h)
    BY <1>3, <1>5, <2>1, Zenon DEF OutOK
  <2>. QED BY <1>1, <2>2, Zenon DEF Taking
<1>7. vq' \in Queues(n, Cells) /\ Table(vq') = Table(vq) /\ Answered(vq', h)
  <2> HIDE DEF h
  <2>. QED BY <1>1, <1>2, <1>6, UsedIs
<1>8. TaskOK(t, c, disk, lock)
  BY <1>2, Zenon DEF TasksOK
<1>9. PICK k \in 1..MAX_COUNT : c \in Calls(k)
  <2>1. c.pc # "idle"
    BY <1>6
  <2>. QED BY <1>8, <2>1, InCall, Zenon DEF TaskOK
<1>10. c.i + 1 <= c.count /\ c.lba + c.count <= CAPACITY
  <2>1. LoopOK(c)
    BY <1>8, Zenon DEF TaskOK
  <2> HIDE DEF c
  <2>. QED BY <1>6, <2>1 DEF LoopOK
<1>11. DeviceReads(h, ok) \/ DeviceWrites(h, ok)
  BY <1>1, <1>6, Zenon
<1>12. /\ page' \in Pages /\ disk' \in Disks
       /\ page'.type = page.type /\ page'.sector = page.sector
       /\ c.op # "IN" => page'.c256 = page.c256 /\ page'.c512 = page.c512
       /\ page'.status = 0 => FulfilledAs(c, page', disk')
       /\ \A j \in 0..(c.i - 1) : disk'[c.lba + j] = disk[c.lba + j]
  <2> HIDE DEF c
  <2>. QED BY <1>2, <1>6, <1>9, <1>10, <1>11, Answer, Zenon DEF h
<1>13. DescribesAs(c, vq', page')
  <2> HIDE DEF c
  <2>. QED BY <1>2, <1>6, <1>7, <1>12, SameRequest, Zenon
<1>14. FreeList(vq', (0..(n - 1)) \ Three(vq', h))
  <2> HIDE DEF h
  <2>. QED BY <1>2, <1>5, <1>7, SameFree, Zenon
<1>15. OneOut(n, vq', page', disk', call, t)
  <2>1. OutOK(c, vq', page', disk')
    BY <1>6, <1>7, <1>12, <1>13, Zenon DEF OutOK
  <2>. QED BY <1>4, <1>14, <2>1, Zenon DEF OneOut
<1>16. TasksOK(call, disk', lock)
  <2>1. ASSUME NEW u \in Tasks PROVE ExactOK(call[u], disk')
    <3>1. CASE u = t
      <4>1. ExactOK(c, disk)
        BY <1>8, Zenon DEF TaskOK
      <4>2. ASSUME NEW j \in 0..(c.i - 1) PROVE c.buf[j] = disk'[c.lba + j]
        <5>1. c.buf[j] = disk[c.lba + j]
          BY <1>6, <4>1, Zenon DEF ExactOK
        <5>. QED BY <1>12, <5>1, Zenon
      <4>. QED BY <3>1, <4>2, Zenon DEF ExactOK
    <3>2. CASE u # t
      <4>1. c.pc \in Holding
        BY <1>6, Zenon DEF Holding
      <4>2. call[u].pc \notin Holding
        BY <1>2, <3>2, <4>1, OneHolder, Zenon
      <4>. QED BY <4>2, Zenon DEF ExactOK, Holding
    <3>. QED BY <3>1, <3>2, Zenon
  <2>. QED BY <1>2, <2>1, Zenon DEF TasksOK, TaskOK
<1>17. Sound(n, vq', page', disk', lock', call', calls')
  <2>1. lock' = lock /\ call' = call /\ calls' = calls
    BY <1>1, Zenon
  <2>. QED BY <1>2, <1>7, <1>12, <1>15, <1>16, <2>1, Zenon DEF Sound
<1>. QED BY <1>17, Zenon DEF DiskInv

\* Every step keeps it.
LEMMA DiskStep == DiskInv /\ [BlkNext]_blkVars => DiskInv'
<1>1. SUFFICES ASSUME DiskInv, [BlkNext]_blkVars PROVE DiskInv'
  BY Zenon
<1>2. PICK n \in QueueSizes : Sound(n, vq, page, disk, lock, call, calls)
  BY <1>1, Zenon DEF DiskInv
<1>3. CASE UNCHANGED blkVars
  <2>1. vq' = vq /\ page' = page /\ disk' = disk /\ lock' = lock /\ call' = call /\ calls' = calls
    BY <1>3, Zenon DEF blkVars
  <2>2. Sound(n, vq', page', disk', lock', call', calls')
    BY <1>2, <2>1, Zenon
  <2>. QED BY <2>2, Zenon DEF DiskInv
<1>4. ASSUME NEW t \in Tasks, Call(t) \/ TaskStep(t) PROVE DiskInv'
  BY <1>2, <1>4, CallStep, LockedStep, RequestStep, PublishStep, FinishStep, ReturnStep, Zenon
     DEF TaskStep
<1>5. CASE DeviceTakes
  BY <1>2, <1>5, DeviceTakesStep, Zenon
<1>6. CASE DeviceAnswers
  BY <1>2, <1>6, DeviceAnswersStep, Zenon
<1>. QED BY <1>1, <1>3, <1>4, <1>5, <1>6, Zenon DEF BlkNext

\* The block driver keeps its promises for any number of tasks, any disk,
\* any transfer length and any queue size: every sector of a finished part of
\* a transfer agrees with the disk, an answer is the answer to the request
\* that is out, and no descriptor is lost, freed twice or given to the device
\* beside the one chain of the lock's holder.
THEOREM DiskIsSound == BlkSpec => []DiskSound
<1>1. BlkInit => DiskInv
  BY DiskInit
<1>2. DiskInv /\ [BlkNext]_blkVars => DiskInv'
  BY DiskStep
<1>3. DiskInv => DiskSound
  BY DiskInvSound
<1>. QED BY <1>1, <1>2, <1>3, PTL DEF BlkSpec
=============================================================================
