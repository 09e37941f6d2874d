--------------------------- MODULE Semaphore_proofs ---------------------------
(***************************************************************************)
(* What the semaphore's operators do to its units and to its waiters, for  *)
(* every number of units and every set of waiters.                         *)
(***************************************************************************)
EXTENDS Semaphore, SequenceTheorems, FiniteSetTheorems, TLAPS

\* A new semaphore holds its n units free and nobody waits (asyncio.Semaphore).
LEMMA NewSemaphoreUnits ==
  ASSUME NEW W, NEW n \in Nat
  PROVE  /\ SemaphoreOK(NewSemaphore(n), W)
         /\ Units(NewSemaphore(n)) = n
         /\ Waiting(NewSemaphore(n)) = {}
<1>1. Len(<<>>) = 0 /\ <<>> \in Seq(W)
  BY EmptySeq
<1>2. {<<>>[i] : i \in 1 .. 0} = {}
  OBVIOUS
<1>3. IsFiniteSet({}) /\ Cardinality({}) = 0
  BY FS_EmptySet
<1> QED
  BY <1>1, <1>2, <1>3
  DEF SemaphoreOK, NewSemaphore, Units, Waiting, Queued

\* acquire() on a semaphore that is not locked takes one free unit.
LEMMA TakeUnits ==
  ASSUME NEW W, NEW s, SemaphoreOK(s, W), ~Locked(s)
  PROVE  /\ SemaphoreOK(Take(s), W)
         /\ Units(Take(s)) = Units(s) - 1
         /\ Waiting(Take(s)) = Waiting(s)
<1>1. Cardinality(s.granted) \in Nat
  BY FS_CardinalityType DEF SemaphoreOK
<1>2. s.free \in Nat /\ s.free # 0
  BY DEF SemaphoreOK, Locked
<1>3. /\ Take(s).free = s.free - 1
      /\ Take(s).queue = s.queue
      /\ Take(s).granted = s.granted
      /\ Take(s) \in [free : Nat, queue : Seq(W), granted : SUBSET W]
  BY <1>2 DEF SemaphoreOK, Take
<1> QED
  BY <1>1, <1>2, <1>3 DEF SemaphoreOK, Units, Waiting, Queued

\* acquire() on a locked semaphore adds its caller to the waiters.
LEMMA EnqueueUnits ==
  ASSUME NEW W, NEW s, SemaphoreOK(s, W), NEW w \in W, w \notin Waiting(s)
  PROVE  /\ SemaphoreOK(Enqueue(s, w), W)
         /\ Units(Enqueue(s, w)) = Units(s)
         /\ Waiting(Enqueue(s, w)) = Waiting(s) \cup {w}
         /\ Queued(Enqueue(s, w)) = Queued(s) \cup {w}
<1> DEFINE q == s.queue
           r == Append(q, w)
<1>1. q \in Seq(W) /\ Len(q) \in Nat
  BY LenProperties DEF SemaphoreOK
<1>2. /\ r \in Seq(W)
      /\ Len(r) = Len(q) + 1
      /\ \A i \in 1 .. Len(q) : r[i] = q[i]
      /\ r[Len(q) + 1] = w
  BY <1>1, AppendProperties
<1>3. /\ Enqueue(s, w) \in [free : Nat, queue : Seq(W), granted : SUBSET W]
      /\ Enqueue(s, w).free = s.free
      /\ Enqueue(s, w).queue = r
      /\ Enqueue(s, w).granted = s.granted
  BY <1>2 DEF SemaphoreOK, Enqueue
<1> HIDE DEF r
<1>4. {r[i] : i \in 1 .. Len(r)} = {q[i] : i \in 1 .. Len(q)} \cup {w}
  <2>1. 1 .. Len(r) = (1 .. Len(q)) \cup {Len(q) + 1}
    BY <1>1, <1>2
  <2> QED
    BY <1>1, <1>2, <2>1
<1>5. \A i \in 1 .. Len(q) : q[i] # w
  BY DEF Waiting, Queued
<1>6. \A i, j \in 1 .. Len(r) : r[i] = r[j] => i = j
  <2>1. \A i \in 1 .. Len(r) : i \in 1 .. Len(q) \/ i = Len(q) + 1
    BY <1>1, <1>2
  <2>2. \A i, j \in 1 .. Len(q) : q[i] = q[j] => i = j
    BY DEF SemaphoreOK
  <2> QED
    BY <1>2, <1>5, <2>1, <2>2
<1>7. Queued(Enqueue(s, w)) = Queued(s) \cup {w}
  BY <1>3, <1>4 DEF Queued
<1>8. /\ Waiting(Enqueue(s, w)) = Waiting(s) \cup {w}
      /\ Units(Enqueue(s, w)) = Units(s)
  BY <1>3, <1>7 DEF Waiting, Units
<1>9. SemaphoreOK(Enqueue(s, w), W)
  BY <1>3, <1>6, <1>7 DEF SemaphoreOK, Waiting
<1> QED
  BY <1>7, <1>8, <1>9

WakeOldest(s, n) ==
  [free    |-> s.free - n,
   queue   |-> SubSeq(s.queue, n + 1, Len(s.queue)),
   granted |-> s.granted \cup {s.queue[i] : i \in 1 .. n}]

\* Waking the n oldest waiters moves n units from the free ones to theirs.
LEMMA WakeUnits ==
  ASSUME NEW W, NEW s, SemaphoreOK(s, W),
         NEW n \in Nat, n <= s.free, n <= Len(s.queue),
         NEW r, r = WakeOldest(s, n)
  PROVE  /\ SemaphoreOK(r, W)
         /\ Units(r) = Units(s)
         /\ Waiting(r) = Waiting(s)
         /\ Queued(r) \subseteq Queued(s)
<1> DEFINE q == s.queue
           woken == {q[i] : i \in 1 .. n}
           rest == SubSeq(q, n + 1, Len(q))
<1>1. /\ q \in Seq(W) /\ Len(q) \in Nat /\ s.free \in Nat
      /\ \A i \in 1 .. Len(q) : q[i] \in W
      /\ s.granted \subseteq W
  BY LenProperties, ElementOfSeq DEF SemaphoreOK
<1>2. /\ rest \in Seq(W)
      /\ Len(rest) = Len(q) - n
      /\ \A i \in 1 .. Len(q) - n : rest[i] = q[n + i]
  <2>1. \A i \in n + 1 .. Len(q) : q[i] \in W
    BY <1>1
  <2>2. n + 1 \in Int /\ Len(q) \in Int
    BY <1>1
  <2> HIDE DEF q
  <2>3. /\ rest \in Seq(W)
        /\ Len(rest) = IF n + 1 <= Len(q) THEN Len(q) - (n + 1) + 1 ELSE 0
        /\ \A i \in 1 .. Len(q) - (n + 1) + 1 : rest[i] = q[n + 1 + i - 1]
    BY <2>1, <2>2, SubSeqProperties
  <2>4. Len(rest) = Len(q) - n
    BY <1>1, <2>3 DEF q
  <2>5. \A i \in 1 .. Len(q) - n : rest[i] = q[n + i]
    BY <1>1, <2>3 DEF q
  <2> QED
    BY <2>3, <2>4, <2>5
<1>3. \A i, j \in 1 .. Len(q) : q[i] = q[j] => i = j
  BY DEF SemaphoreOK
<1> HIDE DEF rest
<1>4. {rest[i] : i \in 1 .. Len(rest)} = {q[i] : i \in n + 1 .. Len(q)}
  <2>1. \A i \in 1 .. Len(q) - n : n + i \in n + 1 .. Len(q)
    BY <1>1
  <2>2. \A i \in n + 1 .. Len(q) : i - n \in 1 .. Len(q) - n /\ n + (i - n) = i
    BY <1>1
  <2>3. ASSUME NEW i \in 1 .. Len(rest)
        PROVE  rest[i] \in {q[k] : k \in n + 1 .. Len(q)}
    BY <1>2, <2>1
  <2>4. ASSUME NEW i \in n + 1 .. Len(q)
        PROVE  q[i] \in {rest[k] : k \in 1 .. Len(rest)}
    <3>1. rest[i - n] = q[i] /\ i - n \in 1 .. Len(rest)
      BY <1>2, <2>2
    <3> QED
      BY <3>1
  <2> QED
    BY <2>3, <2>4
<1>5. \A i, j \in 1 .. Len(rest) : rest[i] = rest[j] => i = j
  <2>1. \A i \in 1 .. Len(q) - n : n + i \in 1 .. Len(q)
    BY <1>1
  <2> QED
    BY <1>1, <1>2, <1>3, <2>1
<1>6. IsFiniteSet(woken) /\ Cardinality(woken) = n
  <2> DEFINE f == [i \in 1 .. n |-> q[i]]
  <2>1. IsFiniteSet(1 .. n) /\ Cardinality(1 .. n) = n
    <3>1. IsFiniteSet(1 .. n) /\ Cardinality(1 .. n) = IF 1 > n THEN 0 ELSE n - 1 + 1
      BY FS_Interval
    <3> QED
      BY <3>1
  <2>2. \A i \in 1 .. n : i \in 1 .. Len(q)
    BY <1>1
  <2>3. f \in Bijection(1 .. n, woken)
    BY <1>3, <2>2 DEF Bijection, Injection, Surjection, IsInjective
  <2>4. ExistsBijection(1 .. n, woken)
    BY <2>3 DEF ExistsBijection
  <2> QED
    BY <2>1, <2>4, FS_Bijection
<1>7. Queued(s) = woken \cup {q[i] : i \in n + 1 .. Len(q)}
  <2>1. 1 .. Len(q) = (1 .. n) \cup (n + 1 .. Len(q))
    BY <1>1
  <2> QED
    BY <2>1 DEF Queued
<1>8. woken \cap {q[i] : i \in n + 1 .. Len(q)} = {}
  <2>1. \A i \in 1 .. n, j \in n + 1 .. Len(q) :
          i \in 1 .. Len(q) /\ j \in 1 .. Len(q) /\ i # j
    BY <1>1
  <2> QED
    BY <1>3, <2>1
<1>9. /\ r.free = s.free - n /\ r.queue = rest
      /\ r.granted = s.granted \cup woken
  BY DEF rest, WakeOldest
<1>10. Queued(r) = {q[i] : i \in n + 1 .. Len(q)}
  BY <1>4, <1>9 DEF Queued
<1> HIDE DEF woken, q
<1>11. /\ IsFiniteSet(s.granted) /\ Queued(s) \cap s.granted = {}
       /\ Cardinality(s.granted) \in Nat
  BY FS_CardinalityType DEF SemaphoreOK
<1>12. /\ IsFiniteSet(r.granted)
       /\ Cardinality(r.granted) = Cardinality(s.granted) + n
  <2>1. s.granted \cap woken = {}
    BY <1>7, <1>11
  <2>2. /\ IsFiniteSet(s.granted \cup woken)
        /\ Cardinality(s.granted \cup woken)
             = Cardinality(s.granted) + Cardinality(woken)
                 - Cardinality(s.granted \cap woken)
    BY <1>6, <1>11, FS_Union
  <2>3. Cardinality(s.granted \cap woken) = 0
    BY <2>1, FS_EmptySet
  <2>4. Cardinality(s.granted \cup woken) = Cardinality(s.granted) + n
    BY <1>6, <1>11, <2>2, <2>3
  <2> QED
    BY <1>9, <2>2, <2>4
<1>13. Units(r) = Units(s)
  BY <1>1, <1>9, <1>11, <1>12 DEF Units
<1>14. Waiting(r) = Waiting(s) /\ Queued(r) \subseteq Queued(s)
  BY <1>7, <1>9, <1>10 DEF Waiting
<1>15. r \in [free : Nat, queue : Seq(W), granted : SUBSET W]
  <2>1. woken \subseteq W
    BY <1>1, <1>7 DEF Queued, q
  <2>2. s.free - n \in Nat
    BY <1>1
  <2> QED
    BY <1>1, <1>2, <2>1, <2>2 DEF rest, woken, q, WakeOldest
<1>16. Queued(r) \cap r.granted = {}
  BY <1>7, <1>8, <1>9, <1>10, <1>11
<1>17. \A i, j \in 1 .. Len(r.queue) : r.queue[i] = r.queue[j] => i = j
  BY ONLY <1>5, <1>9
<1>18. SemaphoreOK(r, W)
  BY ONLY <1>12, <1>15, <1>16, <1>17 DEF SemaphoreOK
<1> QED
  BY <1>13, <1>14, <1>18

\* The loop at the end of acquire() loses no unit and no waiter.
LEMMA WakeAllUnits ==
  ASSUME NEW W, NEW s, SemaphoreOK(s, W)
  PROVE  /\ SemaphoreOK(WakeAll(s), W)
         /\ Units(WakeAll(s)) = Units(s)
         /\ Waiting(WakeAll(s)) = Waiting(s)
         /\ Queued(WakeAll(s)) \subseteq Queued(s)
<1> DEFINE n == IF s.free < Len(s.queue) THEN s.free ELSE Len(s.queue)
<1>1. s.free \in Nat /\ Len(s.queue) \in Nat
  BY LenProperties DEF SemaphoreOK
<1>2. n \in Nat /\ n <= s.free /\ n <= Len(s.queue)
  BY <1>1
<1>3. WakeAll(s) = WakeOldest(s, n)
  BY DEF WakeAll, WakeOldest
<1> HIDE DEF n
<1> QED
  BY <1>2, <1>3, WakeUnits

\* release() hands one more unit to the oldest waiter, or keeps it free.
LEMMA ReleaseUnits ==
  ASSUME NEW W, NEW s, SemaphoreOK(s, W)
  PROVE  /\ SemaphoreOK(Release(s), W)
         /\ Units(Release(s)) = Units(s) + 1
         /\ Waiting(Release(s)) = Waiting(s)
         /\ Queued(Release(s)) \subseteq Queued(s)
<1> DEFINE r == [s EXCEPT !.free = @ + 1]
<1>1. Cardinality(s.granted) \in Nat /\ s.free \in Nat
  BY FS_CardinalityType DEF SemaphoreOK
<1>2. /\ r \in [free : Nat, queue : Seq(W), granted : SUBSET W]
      /\ r.free = s.free + 1 /\ r.queue = s.queue /\ r.granted = s.granted
  BY <1>1 DEF SemaphoreOK
<1>3. Release(s) = WakeNext(r)
  BY DEF Release
<1> HIDE DEF r
<1>4. Queued(r) = Queued(s) /\ Waiting(r) = Waiting(s)
  BY <1>2 DEF Queued, Waiting
<1>5. SemaphoreOK(r, W)
  BY <1>2, <1>4 DEF SemaphoreOK
<1>6. Units(r) = Units(s) + 1
  BY <1>1, <1>2 DEF Units
<1>7. CASE r.queue = <<>>
  BY <1>3, <1>4, <1>5, <1>6, <1>7 DEF WakeNext
<1>8. CASE r.queue # <<>>
  <2>1. /\ r.queue \in Seq(W) /\ Len(r.queue) \in Nat /\ Len(r.queue) # 0
        /\ Tail(r.queue) = SubSeq(r.queue, 2, Len(r.queue))
        /\ Head(r.queue) = r.queue[1]
    BY <1>2, <1>8, LenProperties, EmptySeq, TailIsSubSeq
  <2>2. {Head(r.queue)} = {r.queue[i] : i \in 1 .. 1}
    BY <2>1
  <2>3. Tail(r.queue) = SubSeq(r.queue, 1 + 1, Len(r.queue))
    <3>1. 1 + 1 = 2
      OBVIOUS
    <3> QED
      BY <2>1, <3>1
  <2> DEFINE t == WakeNext(r)
  <2>4. t = WakeOldest(r, 1)
    BY ONLY <1>8, <2>2, <2>3 DEF WakeNext, WakeOldest
  <2>5. 1 \in Nat /\ 1 <= r.free /\ 1 <= Len(r.queue)
    BY <1>1, <1>2, <2>1
  <2> HIDE DEF t
  <2>6. /\ SemaphoreOK(t, W) /\ Units(t) = Units(r)
        /\ Waiting(t) = Waiting(r) /\ Queued(t) \subseteq Queued(r)
    BY <1>5, <2>4, <2>5, WakeUnits
  <2> QED
    BY <1>3, <1>4, <1>6, <2>6 DEF t
<1> QED
  BY <1>7, <1>8

\* A granted waiter that runs takes its unit out of the semaphore.
LEMMA ResumeUnits ==
  ASSUME NEW W, NEW s, SemaphoreOK(s, W), NEW w \in s.granted
  PROVE  /\ SemaphoreOK(Resume(s, w), W)
         /\ Units(Resume(s, w)) = Units(s) - 1
         /\ Waiting(Resume(s, w)) = Waiting(s) \ {w}
         /\ Queued(Resume(s, w)) \subseteq Queued(s)
<1> DEFINE r == [s EXCEPT !.granted = @ \ {w}]
<1>1. /\ r \in [free : Nat, queue : Seq(W), granted : SUBSET W]
      /\ r.free = s.free /\ r.queue = s.queue /\ r.granted = s.granted \ {w}
  BY DEF SemaphoreOK
<1>2. Resume(s, w) = WakeAll(r)
  BY DEF Resume
<1> HIDE DEF r
<1>3. /\ IsFiniteSet(r.granted) /\ Cardinality(s.granted) \in Nat
      /\ Cardinality(r.granted) = Cardinality(s.granted) - 1
  BY <1>1, FS_RemoveElement, FS_CardinalityType DEF SemaphoreOK
<1>4. Queued(r) = Queued(s) /\ Queued(s) \cap s.granted = {}
  BY <1>1 DEF Queued, SemaphoreOK
<1>5. SemaphoreOK(r, W)
  BY <1>1, <1>3, <1>4 DEF SemaphoreOK
<1>6. Waiting(r) = Waiting(s) \ {w}
  BY <1>1, <1>4 DEF Waiting
<1>7. s.free \in Nat
  BY DEF SemaphoreOK
<1>8. Units(r) = Units(s) - 1
  BY <1>1, <1>3, <1>7 DEF Units
<1> QED
  BY <1>2, <1>4, <1>5, <1>6, <1>8, WakeAllUnits

\* A cancelled waiter leaves, and the unit it may have been granted stays.
LEMMA AbandonUnits ==
  ASSUME NEW W, NEW s, SemaphoreOK(s, W), NEW w, w \notin Queued(s)
  PROVE  /\ SemaphoreOK(Abandon(s, w), W)
         /\ Units(Abandon(s, w)) = Units(s)
         /\ Waiting(Abandon(s, w)) = Waiting(s) \ {w}
         /\ Queued(Abandon(s, w)) \subseteq Queued(s)
<1> DEFINE r == [free    |-> IF w \in s.granted THEN s.free + 1 ELSE s.free,
                 queue   |-> s.queue,
                 granted |-> s.granted \ {w}]
<1>1. s.free \in Nat /\ Cardinality(s.granted) \in Nat
  BY FS_CardinalityType DEF SemaphoreOK
<1>2. /\ r \in [free : Nat, queue : Seq(W), granted : SUBSET W]
      /\ r.free = IF w \in s.granted THEN s.free + 1 ELSE s.free
      /\ r.queue = s.queue /\ r.granted = s.granted \ {w}
  BY <1>1 DEF SemaphoreOK
<1>3. Abandon(s, w) = WakeAll(r)
  BY DEF Abandon
<1> HIDE DEF r
<1>4. /\ IsFiniteSet(r.granted)
      /\ Cardinality(r.granted) = IF w \in s.granted THEN Cardinality(s.granted) - 1
                                                    ELSE Cardinality(s.granted)
  BY <1>2, FS_RemoveElement DEF SemaphoreOK
<1>5. Queued(r) = Queued(s) /\ Queued(s) \cap s.granted = {}
  BY <1>2 DEF Queued, SemaphoreOK
<1>6. SemaphoreOK(r, W)
  BY <1>2, <1>4, <1>5 DEF SemaphoreOK
<1>7. Waiting(r) = Waiting(s) \ {w}
  BY <1>2, <1>5 DEF Waiting
<1>8. Units(r) = Units(s)
  BY <1>1, <1>2, <1>4 DEF Units
<1> QED
  BY <1>3, <1>5, <1>6, <1>7, <1>8, WakeAllUnits

\* Cancelling a queued waiter's future takes it out of the queue, units apart.
LEMMA CancelWaiterUnits ==
  ASSUME NEW W, NEW s, SemaphoreOK(s, W), NEW w
  PROVE  /\ SemaphoreOK(CancelWaiter(s, w), W)
         /\ Units(CancelWaiter(s, w)) = Units(s)
         /\ CancelWaiter(s, w).granted = s.granted
         /\ Queued(CancelWaiter(s, w)) = Queued(s) \ {w}
<1> DEFINE q == s.queue
           k == Place(q, w)
           left == SubSeq(q, 1, k - 1)
           right == SubSeq(q, k + 1, Len(q))
           r == left \o right
<1>1. CASE ~ \E i \in 1 .. Len(q) : q[i] = w
  BY <1>1 DEF CancelWaiter, Queued
<1>2. CASE \E i \in 1 .. Len(q) : q[i] = w
  <2>1. /\ q \in Seq(W) /\ Len(q) \in Nat /\ \A i \in 1 .. Len(q) : q[i] \in W
        /\ \A i, j \in 1 .. Len(q) : q[i] = q[j] => i = j
    BY LenProperties, ElementOfSeq DEF SemaphoreOK
  <2>2. k \in 1 .. Len(q) /\ q[k] = w
    BY <1>2 DEF Place
  <2>3. CancelWaiter(s, w) = [s EXCEPT !.queue = r]
    BY <1>2 DEF CancelWaiter
  <2> HIDE DEF k, q
  <2>4. /\ left \in Seq(W)
        /\ Len(left) = k - 1
        /\ \A i \in 1 .. k - 1 : left[i] = q[i]
    <3>1. 1 \in Int /\ k - 1 \in Int /\ \A i \in 1 .. k - 1 : q[i] \in W
      BY <2>1, <2>2
    <3>2. /\ left \in Seq(W)
          /\ Len(left) = IF 1 <= k - 1 THEN k - 1 - 1 + 1 ELSE 0
          /\ \A i \in 1 .. k - 1 - 1 + 1 : left[i] = q[1 + i - 1]
      BY <3>1, SubSeqProperties
    <3>3. Len(left) = k - 1
      BY <2>1, <2>2, <3>2
    <3>4. \A i \in 1 .. k - 1 : left[i] = q[i]
      BY <2>1, <2>2, <3>2
    <3> QED
      BY <3>2, <3>3, <3>4
  <2>5. /\ right \in Seq(W)
        /\ Len(right) = Len(q) - k
        /\ \A i \in 1 .. Len(q) - k : right[i] = q[k + i]
    <3>1. k + 1 \in Int /\ Len(q) \in Int /\ \A i \in k + 1 .. Len(q) : q[i] \in W
      BY <2>1, <2>2
    <3>2. /\ right \in Seq(W)
          /\ Len(right) = IF k + 1 <= Len(q) THEN Len(q) - (k + 1) + 1 ELSE 0
          /\ \A i \in 1 .. Len(q) - (k + 1) + 1 : right[i] = q[k + 1 + i - 1]
      BY <3>1, SubSeqProperties
    <3>3. Len(right) = Len(q) - k
      BY <2>1, <2>2, <3>2
    <3>4. \A i \in 1 .. Len(q) - k : right[i] = q[k + i]
      BY <2>1, <2>2, <3>2
    <3> QED
      BY <3>2, <3>3, <3>4
  <2> HIDE DEF left, right
  <2>6. /\ r \in Seq(W)
        /\ Len(r) = Len(left) + Len(right)
        /\ \A i \in 1 .. Len(left) + Len(right) :
              r[i] = IF i <= Len(left) THEN left[i] ELSE right[i - Len(left)]
    BY <2>4, <2>5, ConcatProperties
  <2> HIDE DEF r
  <2>7. /\ Len(r) = Len(q) - 1
        /\ \A i \in 1 .. Len(q) - 1 : r[i] = IF i < k THEN q[i] ELSE q[i + 1]
    <3>1. Len(r) = Len(q) - 1
      BY <2>1, <2>2, <2>4, <2>5, <2>6
    <3>2. ASSUME NEW i \in 1 .. Len(q) - 1, i < k
          PROVE  r[i] = q[i]
      <4>1. i \in 1 .. Len(left) + Len(right) /\ i <= Len(left) /\ i \in 1 .. k - 1
        BY <2>1, <2>2, <2>4, <2>5, <3>2
      <4>2. r[i] = left[i]
        BY <2>6, <4>1
      <4> QED
        BY <2>4, <4>1, <4>2
    <3>3. ASSUME NEW i \in 1 .. Len(q) - 1, ~(i < k)
          PROVE  r[i] = q[i + 1]
      <4>1. r[i] = right[i - Len(left)]
        <5>1. i \in 1 .. Len(left) + Len(right) /\ ~(i <= Len(left))
          BY <2>1, <2>2, <2>4, <2>5, <3>3
        <5> QED
          BY <2>6, <5>1
      <4>2. i - Len(left) \in 1 .. Len(q) - k /\ k + (i - Len(left)) = i + 1
        BY <2>1, <2>2, <2>4, <3>3
      <4> QED
        BY <2>5, <4>1, <4>2
    <3> QED
      BY <3>1, <3>2, <3>3
  <2>8. \A i, j \in 1 .. Len(r) : r[i] = r[j] => i = j
    BY <2>1, <2>2, <2>7
  <2>9. {r[i] : i \in 1 .. Len(r)} = {q[i] : i \in 1 .. Len(q)} \ {w}
    <3>1. ASSUME NEW i \in 1 .. Len(r)
          PROVE  r[i] \in {q[j] : j \in 1 .. Len(q)} \ {w}
      BY <2>1, <2>2, <2>7
    <3>2. ASSUME NEW i \in 1 .. Len(q), q[i] # w
          PROVE  q[i] \in {r[j] : j \in 1 .. Len(r)}
      <4>1. CASE i < k
        BY <2>1, <2>2, <2>7, <4>1
      <4>2. CASE i > k
        <5>1. i - 1 \in 1 .. Len(r) /\ r[i - 1] = q[i]
          BY <2>1, <2>2, <2>7, <4>2
        <5> QED
          BY <5>1
      <4> QED
        BY <2>2, <3>2, <4>1, <4>2
    <3> QED
      BY <3>1, <3>2
  <2> DEFINE c == CancelWaiter(s, w)
  <2>10. /\ c \in [free : Nat, queue : Seq(W), granted : SUBSET W]
         /\ c.free = s.free /\ c.queue = r /\ c.granted = s.granted
    BY <2>3, <2>6 DEF SemaphoreOK
  <2> HIDE DEF c
  <2>11. Queued(c) = Queued(s) \ {w}
    BY <2>9, <2>10 DEF Queued, q
  <2>12. SemaphoreOK(c, W)
    BY <2>8, <2>10, <2>11 DEF SemaphoreOK
  <2>13. Units(c) = Units(s)
    BY <2>10 DEF Units
  <2> QED
    BY <2>10, <2>11, <2>12, <2>13 DEF c
<1> QED
  BY <1>1, <1>2

\* Waking everyone a unit is there for leaves no free unit with a waiter.
LEMMA WakeAllPrompt ==
  ASSUME NEW W, NEW s, SemaphoreOK(s, W)
  PROVE  Prompt(WakeAll(s))
<1> DEFINE n == IF s.free < Len(s.queue) THEN s.free ELSE Len(s.queue)
           t == WakeAll(s)
<1>1. s.free \in Nat /\ Len(s.queue) \in Nat
  BY LenProperties DEF SemaphoreOK
<1>2. t.free = s.free - n /\ t.queue = SubSeq(s.queue, n + 1, Len(s.queue))
  BY DEF WakeAll
<1> SUFFICES Prompt(t)
  OBVIOUS
<1> HIDE DEF t
<1>3. CASE s.free < Len(s.queue)
  BY <1>1, <1>2, <1>3 DEF Prompt
<1>4. CASE ~(s.free < Len(s.queue))
  <2>1. t.queue = SubSeq(s.queue, Len(s.queue) + 1, Len(s.queue))
    BY <1>2, <1>4
  <2>2. /\ Len(s.queue) + 1 \in Int /\ Len(s.queue) \in Int
        /\ Len(s.queue) < Len(s.queue) + 1
    BY <1>1
  <2>3. t.queue = <<>>
    BY <2>1, <2>2, SubSeqEmpty
  <2> QED
    BY <2>3 DEF Prompt
<1> QED
  BY <1>3, <1>4

\* Every way the semaphore is used keeps it prompt (asyncio.Semaphore).
LEMMA PromptPreserved ==
  ASSUME NEW W, NEW s, SemaphoreOK(s, W), Prompt(s), NEW w
  PROVE  /\ ~Locked(s) => Prompt(Take(s))
         /\ Locked(s) => Prompt(Enqueue(s, w))
         /\ Prompt(Release(s))
         /\ w \in s.granted => Prompt(Resume(s, w))
         /\ w \notin Queued(s) => Prompt(Abandon(s, w))
         /\ Prompt(CancelWaiter(s, w))
<1>1. /\ s.free \in Nat /\ s \in [free : Nat, queue : Seq(W), granted : SUBSET W]
      /\ s.queue \in Seq(W)
  BY DEF SemaphoreOK
<1>2. ASSUME ~Locked(s) PROVE Prompt(Take(s))
  BY <1>1, <1>2 DEF Take, Locked, Prompt
<1>3. ASSUME Locked(s) PROVE Prompt(Enqueue(s, w))
  BY <1>1, <1>3 DEF Enqueue, Locked, Prompt
<1>4. Prompt(Release(s))
  <2> DEFINE r == [s EXCEPT !.free = @ + 1]
  <2>1. r.free = s.free + 1 /\ r.queue = s.queue /\ r.granted = s.granted
    BY <1>1
  <2>2. Release(s) = WakeNext(r)
    BY DEF Release
  <2> HIDE DEF r
  <2>3. CASE r.queue = <<>>
    BY <2>2, <2>3 DEF WakeNext, Prompt
  <2>4. CASE r.queue # <<>>
    <3>1. WakeNext(r).granted = r.granted \cup {Head(r.queue)}
      BY <2>4 DEF WakeNext
    <3> QED
      BY <2>2, <3>1 DEF Prompt
  <2> QED
    BY <2>3, <2>4
<1>5. ASSUME w \in s.granted PROVE Prompt(Resume(s, w))
  <2> DEFINE r == [s EXCEPT !.granted = @ \ {w}]
  <2>1. /\ r \in [free : Nat, queue : Seq(W), granted : SUBSET W]
        /\ r.queue = s.queue /\ r.granted = s.granted \ {w}
    BY <1>1
  <2>2. Resume(s, w) = WakeAll(r)
    BY DEF Resume
  <2> HIDE DEF r
  <2>3. IsFiniteSet(s.granted) /\ Queued(s) \cap s.granted = {}
    BY DEF SemaphoreOK
  <2>4. IsFiniteSet(r.granted)
    <3>1. IsFiniteSet(s.granted \ {w})
      BY <2>3, FS_Difference
    <3> QED
      BY <2>1, <3>1
  <2>5. Queued(r) = Queued(s)
    BY <2>1 DEF Queued
  <2>6. SemaphoreOK(r, W)
    BY <2>1, <2>3, <2>4, <2>5 DEF SemaphoreOK
  <2> QED
    BY <2>2, <2>6, WakeAllPrompt
<1>6. ASSUME w \notin Queued(s) PROVE Prompt(Abandon(s, w))
  <2> DEFINE r == [free    |-> IF w \in s.granted THEN s.free + 1 ELSE s.free,
                   queue   |-> s.queue,
                   granted |-> s.granted \ {w}]
  <2>1. /\ r \in [free : Nat, queue : Seq(W), granted : SUBSET W]
        /\ r.queue = s.queue /\ r.granted = s.granted \ {w}
    BY <1>1
  <2>2. Abandon(s, w) = WakeAll(r)
    BY DEF Abandon
  <2> HIDE DEF r
  <2>3. IsFiniteSet(s.granted) /\ Queued(s) \cap s.granted = {}
    BY DEF SemaphoreOK
  <2>4. IsFiniteSet(r.granted)
    <3>1. IsFiniteSet(s.granted \ {w})
      BY <2>3, FS_Difference
    <3> QED
      BY <2>1, <3>1
  <2>5. Queued(r) = Queued(s)
    BY <2>1 DEF Queued
  <2>6. SemaphoreOK(r, W)
    BY <2>1, <2>3, <2>4, <2>5 DEF SemaphoreOK
  <2> QED
    BY <2>2, <2>6, WakeAllPrompt
<1>7. Prompt(CancelWaiter(s, w))
  <2> DEFINE c == CancelWaiter(s, w)
  <2>1. CASE ~ \E i \in 1 .. Len(s.queue) : s.queue[i] = w
    BY <2>1 DEF CancelWaiter
  <2>2. CASE \E i \in 1 .. Len(s.queue) : s.queue[i] = w
    <3>1. s.queue # <<>>
      BY <2>2, EmptySeq
    <3>2. c.free = s.free /\ c.granted = s.granted
      BY <1>1, <2>2 DEF CancelWaiter
    <3> QED
      BY <3>1, <3>2 DEF Prompt
  <2> QED
    BY <2>1, <2>2
<1> QED
  BY <1>2, <1>3, <1>4, <1>5, <1>6, <1>7
=============================================================================
