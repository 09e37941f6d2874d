------------------------------ MODULE Semaphore ------------------------------
(***************************************************************************)
(* asyncio.Semaphore (CPython 3.12 and later), the FIFO counting lock that *)
(* bounds how many workers execute at once.  It is library code: these are *)
(* pure operators over a record, one per way the worker supervisor uses it.*)
(*                                                                         *)
(*   free     the counter _value                                           *)
(*   queue    the waiters whose future is still pending, oldest first      *)
(*   granted  the waiters whose future has its result but whose task has   *)
(*            not run yet; release() already took their unit off `free`    *)
(***************************************************************************)
EXTENDS Integers, Sequences, FiniteSets

NewSemaphore(n) == [free |-> n, queue |-> <<>>, granted |-> {}]

\* locked(): a newcomer queues behind every waiter, granted ones included.
Locked(s) == s.free = 0 \/ s.queue # <<>> \/ s.granted # {}

\* acquire() on a semaphore that is not locked.
Take(s) == [s EXCEPT !.free = @ - 1]

\* acquire() on a locked semaphore: the caller becomes the last waiter.
Enqueue(s, w) == [s EXCEPT !.queue = Append(@, w)]

\* _wake_up_next(): hand one unit to the oldest pending waiter.
WakeNext(s) ==
  IF s.queue = <<>> THEN s
  ELSE [free    |-> s.free - 1,
        queue   |-> Tail(s.queue),
        granted |-> s.granted \cup {Head(s.queue)}]

\* The loop in acquire()'s finally: wake as many waiters as there are units.
WakeAll(s) ==
  LET n == IF s.free < Len(s.queue) THEN s.free ELSE Len(s.queue)
  IN [free    |-> s.free - n,
      queue   |-> SubSeq(s.queue, n + 1, Len(s.queue)),
      granted |-> s.granted \cup {s.queue[i] : i \in 1 .. n}]

ReleaseSilently(s) == [s EXCEPT !.free = @ + 1]

Release(s) == WakeNext([s EXCEPT !.free = @ + 1])

\* A granted waiter runs and leaves acquire() with its unit.
Resume(s, w) == WakeAll([s EXCEPT !.granted = @ \ {w}])

\* A cancelled waiter runs: a unit it was granted goes back first.
Abandon(s, w) ==
  WakeAll([free    |-> IF w \in s.granted THEN s.free + 1 ELSE s.free,
           queue   |-> s.queue,
           granted |-> s.granted \ {w}])

Place(q, w) == CHOOSE k \in 1 .. Len(q) : q[k] = w

\* Task.cancel() cancels the pending future of a queued waiter at once.
CancelWaiter(s, w) ==
  LET q == s.queue
      k == Place(q, w)
  IN IF \E i \in 1 .. Len(q) : q[i] = w
     THEN [s EXCEPT !.queue = SubSeq(q, 1, k - 1) \o SubSeq(q, k + 1, Len(q))]
     ELSE s

\* Who waits, and the units that are not in the hands of somebody who runs.
Queued(s) == {s.queue[i] : i \in 1 .. Len(s.queue)}
Waiting(s) == Queued(s) \cup s.granted
Units(s) == s.free + Cardinality(s.granted)

\* No wake-up is lost: a free unit and a queued waiter exist together only
\* while some waiter holds a grant, whose run wakes the others.
Prompt(s) == s.free > 0 /\ s.queue # <<>> => s.granted # {}

\* A semaphore used by members of W, each waiting at most once.
SemaphoreOK(s, W) ==
  /\ s \in [free : Nat, queue : Seq(W), granted : SUBSET W]
  /\ IsFiniteSet(s.granted)
  /\ Queued(s) \cap s.granted = {}
  /\ \A i, j \in 1 .. Len(s.queue) : s.queue[i] = s.queue[j] => i = j
=============================================================================
