----------------------- MODULE WorkerSupervisor_proofs -----------------------
(***************************************************************************)
(* The lease discipline of the worker supervisor, for any number of        *)
(* workers, tools, slots, turns and dispatches: no unit of the semaphore   *)
(* is ever lost or duplicated, exactly the executing workers hold one, no  *)
(* wake-up is lost, and no tool runs while its supervisor has no lease.    *)
(* And what launches a dispatch: nothing once shutdown has begun, and only *)
(* a resume or an interrupting message where the worker was stopped.       *)
(***************************************************************************)
EXTENDS WorkerSupervisor, Semaphore_proofs

\* The units of s and the leases in held make up MAX_EXECUTING.
Pool(s, held) ==
  /\ SemaphoreOK(s, Workers)
  /\ held \subseteq Workers
  /\ Units(s) + Cardinality(held) = MaxExecuting
  /\ Prompt(s)

LeasedPlaces == {"boundary", "model", "tools"}

\* Who waits is in acquire(), and a cancelled waiter has left the queue.
PoolInv ==
  /\ Pool(slots, leases)
  /\ \A w \in Waiting(slots) : pc[w] \in Acquiring
  /\ \A w \in Workers : cancel[w] = "pending" => w \notin Queued(slots)

\* The gate is closed exactly while the supervisor waits without a lease,
\* and then every tool is done, blocked, or waiting at the gate.
GateInv ==
  /\ \A w \in Workers : w \in gated <=> pc[w] \in {"toolwait", "toolacq"}
  /\ \A w \in gated : \A t \in Tools : tool[w][t] # "exec"

IInv == TypeOK /\ PoolInv /\ LeaseIsExecuting /\ GateInv

\* Sets of workers are finite.
LEMMA WorkerSets ==
  ASSUME NEW S \in SUBSET Workers, NEW w \in Workers
  PROVE  /\ IsFiniteSet(S) /\ Cardinality(S) \in Nat
         /\ w \notin S => Cardinality(S \cup {w}) = Cardinality(S) + 1
         /\ w \in S => Cardinality(S \ {w}) = Cardinality(S) - 1
<1>1. IsFiniteSet(S)
  BY SupervisorAssumption, FS_Subset
<1> QED
  BY <1>1, FS_CardinalityType, FS_AddElement, FS_RemoveElement

\* acquire() on a free semaphore turns a unit into a lease.
LEMMA PoolTake ==
  ASSUME NEW s, NEW held, Pool(s, held), ~Locked(s),
         NEW w \in Workers, w \notin held
  PROVE  /\ Pool(Take(s), held \cup {w})
         /\ Waiting(Take(s)) = Waiting(s)
         /\ Queued(Take(s)) = Queued(s)
<1>1. /\ SemaphoreOK(s, Workers) /\ held \in SUBSET Workers /\ Prompt(s)
      /\ Units(s) + Cardinality(held) = MaxExecuting
  BY DEF Pool
<1>2. /\ SemaphoreOK(Take(s), Workers) /\ Units(Take(s)) = Units(s) - 1
      /\ Waiting(Take(s)) = Waiting(s)
  BY <1>1, TakeUnits
<1>3. Prompt(Take(s))
  BY <1>1, PromptPreserved
<1>4. /\ Cardinality(held) \in Nat /\ Cardinality(held \cup {w}) = Cardinality(held) + 1
      /\ Units(s) \in Int /\ MaxExecuting \in Nat
  <2>1. s.free \in Nat /\ Cardinality(s.granted) \in Nat
    BY <1>1, FS_CardinalityType DEF SemaphoreOK
  <2> QED
    BY <1>1, <2>1, WorkerSets, SupervisorAssumption DEF Units
<1>5. Units(Take(s)) + Cardinality(held \cup {w}) = MaxExecuting
  BY <1>1, <1>2, <1>4
<1>6. Queued(Take(s)) = Queued(s)
  BY <1>1 DEF Take, Queued, SemaphoreOK
<1> QED
  BY <1>1, <1>2, <1>3, <1>5, <1>6 DEF Pool

\* Queueing changes nobody's units.
LEMMA PoolEnqueue ==
  ASSUME NEW s, NEW held, Pool(s, held), Locked(s),
         NEW w \in Workers, w \notin Waiting(s)
  PROVE  /\ Pool(Enqueue(s, w), held)
         /\ Waiting(Enqueue(s, w)) = Waiting(s) \cup {w}
         /\ Queued(Enqueue(s, w)) = Queued(s) \cup {w}
BY EnqueueUnits, PromptPreserved DEF Pool

\* A granted waiter turns the unit it was granted into a lease.
LEMMA PoolResume ==
  ASSUME NEW s, NEW held, Pool(s, held), NEW w \in Workers,
         w \in s.granted, w \notin held
  PROVE  /\ Pool(Resume(s, w), held \cup {w})
         /\ Waiting(Resume(s, w)) = Waiting(s) \ {w}
         /\ Queued(Resume(s, w)) \subseteq Queued(s)
<1>1. /\ SemaphoreOK(s, Workers) /\ held \in SUBSET Workers /\ Prompt(s)
      /\ Units(s) + Cardinality(held) = MaxExecuting
  BY DEF Pool
<1>2. /\ SemaphoreOK(Resume(s, w), Workers)
      /\ Units(Resume(s, w)) = Units(s) - 1
      /\ Waiting(Resume(s, w)) = Waiting(s) \ {w}
      /\ Queued(Resume(s, w)) \subseteq Queued(s)
  BY <1>1, ResumeUnits
<1>3. Prompt(Resume(s, w))
  BY <1>1, PromptPreserved
<1>4. /\ Cardinality(held) \in Nat /\ Cardinality(held \cup {w}) = Cardinality(held) + 1
      /\ Units(s) \in Int /\ MaxExecuting \in Nat
  <2>1. s.free \in Nat /\ Cardinality(s.granted) \in Nat
    BY <1>1, FS_CardinalityType DEF SemaphoreOK
  <2> QED
    BY <1>1, <2>1, WorkerSets, SupervisorAssumption DEF Units
<1>5. Units(Resume(s, w)) + Cardinality(held \cup {w}) = MaxExecuting
  BY <1>1, <1>2, <1>4
<1> QED
  BY <1>1, <1>2, <1>3, <1>5 DEF Pool

\* A lease that is returned becomes a unit again.
LEMMA PoolRelease ==
  ASSUME NEW s, NEW held, Pool(s, held), NEW w \in Workers, w \in held
  PROVE  /\ Pool(Release(s), held \ {w})
         /\ Waiting(Release(s)) = Waiting(s)
         /\ Queued(Release(s)) \subseteq Queued(s)
<1>1. /\ SemaphoreOK(s, Workers) /\ held \in SUBSET Workers /\ Prompt(s)
      /\ Units(s) + Cardinality(held) = MaxExecuting
  BY DEF Pool
<1>2. /\ SemaphoreOK(Release(s), Workers)
      /\ Units(Release(s)) = Units(s) + 1
      /\ Waiting(Release(s)) = Waiting(s)
      /\ Queued(Release(s)) \subseteq Queued(s)
  BY <1>1, ReleaseUnits
<1>3. Prompt(Release(s))
  BY <1>1, PromptPreserved
<1>4. /\ Cardinality(held) \in Nat /\ Cardinality(held \ {w}) = Cardinality(held) - 1
      /\ Units(s) \in Int /\ MaxExecuting \in Nat
  <2>1. s.free \in Nat /\ Cardinality(s.granted) \in Nat
    BY <1>1, FS_CardinalityType DEF SemaphoreOK
  <2> QED
    BY <1>1, <2>1, WorkerSets, SupervisorAssumption DEF Units
<1>5. Units(Release(s)) + Cardinality(held \ {w}) = MaxExecuting
  BY <1>1, <1>2, <1>4
<1> QED
  BY <1>1, <1>2, <1>3, <1>5 DEF Pool

\* The finally clause of _execute returns the lease there is, if any.
LEMMA PoolReturned ==
  ASSUME NEW s, NEW held, Pool(s, held), NEW w \in Workers
  PROVE  /\ Pool(Returned(w, s, held), held \ {w})
         /\ Waiting(Returned(w, s, held)) = Waiting(s)
         /\ Queued(Returned(w, s, held)) \subseteq Queued(s)
<1>1. CASE w \in held
  BY <1>1, PoolRelease DEF Returned
<1>2. CASE w \notin held
  <2>1. held \ {w} = held
    BY <1>2
  <2> QED
    BY <1>2, <2>1 DEF Returned
<1> QED
  BY <1>1, <1>2

\* A cancelled waiter takes its place in the queue, and nothing else, away.
LEMMA PoolUnqueued ==
  ASSUME IInv, NEW w \in Workers, cancel[w] = "pending"
  PROVE  /\ Pool(Unqueued(w), leases)
         /\ Waiting(Unqueued(w)) = Waiting(slots) \ {w}
         /\ Queued(Unqueued(w)) \subseteq Queued(slots)
<1>1. /\ SemaphoreOK(slots, Workers) /\ Prompt(slots) /\ w \notin Queued(slots)
      /\ leases \subseteq Workers /\ Units(slots) + Cardinality(leases) = MaxExecuting
  BY DEF IInv, PoolInv, Pool
<1>2. CASE pc[w] \in Acquiring
  <2>1. /\ SemaphoreOK(Abandon(slots, w), Workers)
        /\ Units(Abandon(slots, w)) = Units(slots)
        /\ Waiting(Abandon(slots, w)) = Waiting(slots) \ {w}
        /\ Queued(Abandon(slots, w)) \subseteq Queued(slots)
    BY <1>1, AbandonUnits
  <2>2. Prompt(Abandon(slots, w))
    BY <1>1, PromptPreserved
  <2> QED
    BY <1>1, <1>2, <2>1, <2>2 DEF Unqueued, Pool
<1>3. CASE pc[w] \notin Acquiring
  <2>1. w \notin Waiting(slots)
    BY <1>3 DEF IInv, PoolInv
  <2> QED
    BY <1>1, <1>3, <2>1 DEF Unqueued, Pool
<1> QED
  BY <1>2, <1>3

\* What a step that concerns w alone leaves of the pool, and where it puts w.
Moves(w) ==
  /\ Pool(slots', leases')
  /\ \A v \in Waiting(slots') : v \in Waiting(slots) \/ v = w
  /\ w \in Waiting(slots') => pc'[w] \in Acquiring
  /\ \A v \in Queued(slots') : v \in Queued(slots) \/ v = w
  /\ cancel'[w] = "pending" => w \notin Queued(slots')
  /\ \A v \in Workers \ {w} :
       pc'[v] = pc[v] /\ cancel'[v] = cancel[v] /\ (v \in leases' <=> v \in leases)
  /\ pc'[w] \in LeasedPlaces => w \in leases'
  /\ w \in leases' => pc'[w] \in LeasedPlaces \cup {"unwind"}

\* Such a step keeps the pool and the leases as they should be.
LEMMA MovesPreserve ==
  ASSUME IInv, NEW w \in Workers, Moves(w)
  PROVE  PoolInv' /\ LeaseIsExecuting'
<1>1. \A v \in Waiting(slots') : pc'[v] \in Acquiring
  <2>1. Waiting(slots') \subseteq Workers
    <3>1. SemaphoreOK(slots', Workers)
      BY DEF Moves, Pool
    <3>2. \A i \in 1 .. Len(slots'.queue) : slots'.queue[i] \in Workers
      BY <3>1, ElementOfSeq DEF SemaphoreOK
    <3> QED
      BY <3>1, <3>2 DEF SemaphoreOK, Waiting, Queued
  <2> QED
    BY <2>1 DEF Moves, IInv, PoolInv
<1>2. \A v \in Workers : cancel'[v] = "pending" => v \notin Queued(slots')
  BY DEF Moves, IInv, PoolInv
<1>3. LeaseIsExecuting'
  BY DEF Moves, IInv, LeaseIsExecuting, LeasedPlaces
<1> QED
  BY <1>1, <1>2, <1>3 DEF PoolInv, Moves

\* A pool that is left alone, or that somebody's place in it was taken from.
Beside(w, s, held) ==
  /\ Pool(s, held)
  /\ w \notin Waiting(s)
  /\ Waiting(s) \subseteq Waiting(slots)
  /\ Queued(s) \subseteq Queued(slots)
  /\ \A v \in Workers \ {w} : v \in held <=> v \in leases

\* Whoever is not in acquire() is beside the pool.
LEMMA BesideNow ==
  ASSUME IInv, NEW w \in Workers, pc[w] \notin Acquiring
  PROVE  Beside(w, slots, leases)
BY DEF Beside, IInv, PoolInv

\* The end of a dispatch returns its lease, if it has one.
LEMMA ConcludeMoves ==
  ASSUME IInv, NEW w \in Workers, NEW final, NEW s, NEW held,
         Beside(w, s, held), Conclude(w, final, s, held)
  PROVE  Moves(w) /\ pc'[w] \in {"end", "notify", "finished"}
<1>1. /\ Pool(Returned(w, s, held), held \ {w})
      /\ Waiting(Returned(w, s, held)) = Waiting(s)
      /\ Queued(Returned(w, s, held)) \subseteq Queued(s)
  BY PoolReturned DEF Beside
<1>2. /\ pc \in [Workers -> Places]
      /\ cancel \in [Workers -> {"no", "pending", "raised"}]
  BY DEF IInv, TypeOK
<1>3. slots' = Returned(w, s, held) /\ leases' = held \ {w}
  BY DEF Conclude
<1>4. /\ pc'[w] \in {"end", "notify", "finished"}
      /\ \A v \in Workers \ {w} : pc'[v] = pc[v] /\ cancel'[v] = cancel[v]
  BY <1>2 DEF Conclude
<1>5. Queued(Returned(w, s, held)) \subseteq Waiting(Returned(w, s, held))
  BY DEF Waiting
<1> QED
  BY <1>1, <1>3, <1>4, <1>5 DEF Moves, Beside, LeasedPlaces

\* boundary(completing=True) keeps, returns or lends the lease.
LEMMA SettleMoves ==
  ASSUME IInv, NEW w \in Workers, NEW s, NEW held, w \in held,
         Beside(w, s, held), Settle(w, s, held)
  PROVE  /\ Moves(w)
         /\ pc'[w] \in {"end", "notify", "finished", "boundary", "finalwait"}
<1>1. CASE Conclude(w, "failed", s, held) \/ Conclude(w, "completed", s, held)
  BY <1>1, ConcludeMoves
<1>2. CASE /\ pc' = [pc EXCEPT ![w] = "boundary"]
           /\ slots' = s /\ leases' = held /\ UNCHANGED cancel
  <2>1. /\ pc'[w] = "boundary"
        /\ \A v \in Workers \ {w} : pc'[v] = pc[v] /\ cancel'[v] = cancel[v]
    BY <1>2 DEF IInv, TypeOK
  <2>2. Queued(s) \subseteq Waiting(s)
    BY DEF Waiting
  <2> QED
    BY <1>2, <2>1, <2>2 DEF Moves, Beside, LeasedPlaces
<1>3. CASE /\ pc' = [pc EXCEPT ![w] = "finalwait"]
           /\ slots' = Release(s) /\ leases' = held \ {w} /\ UNCHANGED cancel
  <2>1. /\ pc'[w] = "finalwait"
        /\ \A v \in Workers \ {w} : pc'[v] = pc[v] /\ cancel'[v] = cancel[v]
    BY <1>3 DEF IInv, TypeOK
  <2>2. /\ Pool(Release(s), held \ {w}) /\ Waiting(Release(s)) = Waiting(s)
        /\ Queued(Release(s)) \subseteq Queued(s)
        /\ Queued(Release(s)) \subseteq Waiting(Release(s))
    BY PoolRelease DEF Beside, Waiting
  <2> QED
    BY <1>3, <2>1, <2>2 DEF Moves, Beside, LeasedPlaces
<1> QED
  BY <1>1, <1>2, <1>3 DEF Settle

\* Whatever a worker does with the lease it has just got.
LEMMA LeasedMoves ==
  ASSUME IInv, NEW w \in Workers, NEW s,
         Beside(w, s, leases \cup {w}), Leased(w, s)
  PROVE  Moves(w)
<1>1. CASE \E place \in {"boundary", "tools"} :
             /\ pc' = [pc EXCEPT ![w] = place]
             /\ leases' = leases \cup {w} /\ slots' = s /\ UNCHANGED cancel
  <2>1. /\ pc'[w] \in {"boundary", "tools"}
        /\ \A v \in Workers \ {w} : pc'[v] = pc[v] /\ cancel'[v] = cancel[v]
    BY <1>1 DEF IInv, TypeOK
  <2>2. Queued(s) \subseteq Waiting(s)
    BY DEF Waiting
  <2> QED
    BY <1>1, <2>1, <2>2 DEF Moves, Beside, LeasedPlaces
<1>2. CASE Settle(w, s, leases \cup {w})
  BY <1>2, SettleMoves
<1> QED
  BY <1>1, <1>2 DEF Leased

\* acquire(), whether it returns at once or queues.
LEMMA AcquireMoves ==
  ASSUME IInv, NEW w \in Workers, pc[w] \in {"start", "toolwait", "finalwait"},
         cancel[w] # "pending", Acquire(w)
  PROVE  Moves(w)
<1>1. /\ Pool(slots, leases) /\ w \notin leases /\ w \notin Waiting(slots)
      /\ Queued(slots) \subseteq Waiting(slots)
  BY DEF IInv, PoolInv, LeaseIsExecuting, Acquiring, Waiting
<1>2. CASE ~Locked(slots) /\ Leased(w, Take(slots))
  <2>1. Beside(w, Take(slots), leases \cup {w})
    BY <1>1, <1>2, PoolTake DEF Beside
  <2> QED
    BY <1>2, <2>1, LeasedMoves
<1>3. CASE /\ Locked(slots) /\ slots' = Enqueue(slots, w)
           /\ pc' = [pc EXCEPT ![w] = CASE @ = "start"     -> "acquire"
                                        [] @ = "toolwait"  -> "toolacq"
                                        [] @ = "finalwait" -> "finalacq"]
           /\ UNCHANGED <<cancel, leases>>
  <2>1. /\ pc'[w] \in Acquiring
        /\ \A v \in Workers \ {w} : pc'[v] = pc[v]
    BY <1>3 DEF IInv, TypeOK, Acquiring
  <2>2. /\ Pool(Enqueue(slots, w), leases)
        /\ Waiting(Enqueue(slots, w)) = Waiting(slots) \cup {w}
        /\ Queued(Enqueue(slots, w)) = Queued(slots) \cup {w}
    BY <1>1, <1>3, PoolEnqueue
  <2> QED
    BY <1>1, <1>3, <2>1, <2>2 DEF Moves, LeasedPlaces, Acquiring
<1> QED
  BY <1>2, <1>3 DEF Acquire

\* A step that touches neither slots nor leases moves w from one place
\* without a lease to another, or from one with a lease to another.
LEMMA QuietMoves ==
  ASSUME IInv, NEW w \in Workers, UNCHANGED <<slots, leases>>,
         pc' = [pc EXCEPT ![w] = pc'[w]],
         cancel' = [cancel EXCEPT ![w] = cancel'[w]],
         cancel'[w] = "pending" => cancel[w] = "pending",
         pc'[w] \notin LeasedPlaces \cup {"unwind"} => w \notin leases,
         pc'[w] \in LeasedPlaces => pc[w] \in LeasedPlaces,
         pc[w] \in Acquiring => pc'[w] = pc[w]
  PROVE  Moves(w)
<1>1. /\ pc \in [Workers -> Places]
      /\ cancel \in [Workers -> {"no", "pending", "raised"}]
  BY DEF IInv, TypeOK
<1>2. \A v \in Workers \ {w} : pc'[v] = pc[v] /\ cancel'[v] = cancel[v]
  BY <1>1
<1> QED
  BY <1>2 DEF Moves, IInv, PoolInv, LeaseIsExecuting, LeasedPlaces

\* A step that touches neither the pool nor a task.
LEMMA UnmovedMoves ==
  ASSUME IInv, NEW w \in Workers, UNCHANGED <<slots, leases, pc, cancel>>
  PROVE  Moves(w)
BY DEF Moves, IInv, PoolInv, LeaseIsExecuting, LeasedPlaces

\* A new dispatch starts without a lease.
LEMMA LaunchMoves ==
  ASSUME IInv, NEW w \in Workers, pc[w] \in {"idle", "finished"},
         LaunchDispatch(w), UNCHANGED <<slots, leases>>
  PROVE  Moves(w)
<1>1. /\ pc' = [pc EXCEPT ![w] = "start"] /\ pc'[w] = "start"
      /\ cancel' = [cancel EXCEPT ![w] = "no"] /\ cancel'[w] = "no"
  BY DEF LaunchDispatch, IInv, TypeOK
<1>2. w \notin leases
  BY DEF IInv, LeaseIsExecuting
<1> QED
  BY <1>1, <1>2, QuietMoves DEF LeasedPlaces, Acquiring

\* start, send, resume, stop, interrupt.
LEMMA CallersMove ==
  ASSUME IInv, NEW w \in Workers, Callers(w)
  PROVE  Moves(w)
<1>1. CASE Start(w)
  BY <1>1, LaunchMoves DEF Start, MayLaunch, TaskDone
<1>2. CASE Send(w)
  <2>1. CASE Wakes(w)
    BY <1>2, <2>1, LaunchMoves DEF Send, Wakes, TaskDone
  <2>2. CASE ~Wakes(w)
    BY <1>2, <2>2, UnmovedMoves DEF Send
  <2> QED
    BY <2>1, <2>2
<1>3. CASE ResumeWorker(w)
  BY <1>3, LaunchMoves DEF ResumeWorker, MayLaunch, TaskDone
<1>4. CASE Stop(w)
  BY <1>4, UnmovedMoves DEF Stop, BeginStop
<1>5. CASE Interrupt(w)
  <2>1. CASE BeginStop(w, TRUE)
    BY <2>1, UnmovedMoves DEF BeginStop
  <2>2. CASE TaskDone(w) /\ LaunchDispatch(w) /\ UNCHANGED <<slots, leases>>
    BY <2>2, LaunchMoves DEF TaskDone
  <2> QED
    BY <1>5, <2>1, <2>2 DEF Interrupt
<1>6. CASE RootReads(w)
  BY <1>6, UnmovedMoves DEF RootReads
<1> QED
  BY <1>1, <1>2, <1>3, <1>4, <1>5, <1>6 DEF Callers

\* What the runner does with an answer of the model.
LEMMA ModelStepMoves ==
  ASSUME IInv, NEW w \in Workers, ModelStep(w)
  PROVE  Moves(w)
<1>1. pc[w] = "model" /\ w \in leases /\ Beside(w, slots, leases)
  <2>1. pc[w] = "model"
    BY DEF ModelStep, ModelFails, Continue, Answer, CallTools
  <2> QED
    BY <2>1, BesideNow DEF IInv, LeaseIsExecuting, Acquiring
<1>2. CASE ModelFails(w)
  BY <1>1, <1>2, ConcludeMoves DEF ModelFails
<1>3. CASE Continue(w)
  <2>1. pc' = [pc EXCEPT ![w] = "boundary"] /\ pc'[w] = "boundary"
    BY <1>3 DEF Continue, IInv, TypeOK
  <2>2. cancel' = [cancel EXCEPT ![w] = cancel'[w]] /\ cancel' = cancel
    BY <1>3 DEF Continue, IInv, TypeOK
  <2> QED
    BY <1>1, <1>3, <2>1, <2>2, QuietMoves DEF Continue, LeasedPlaces, Acquiring
<1>4. CASE Answer(w)
  <2>1. CASE Settle(w, slots, leases)
    BY <1>1, <2>1, SettleMoves
  <2>2. CASE \E final \in Terminal : Conclude(w, final, slots, leases)
    BY <1>1, <2>2, ConcludeMoves
  <2> QED
    BY <1>4, <2>1, <2>2 DEF Answer, Terminal
<1>5. CASE CallTools(w)
  <2>1. pc' = [pc EXCEPT ![w] = "tools"] /\ pc'[w] = "tools"
    BY <1>5 DEF CallTools, IInv, TypeOK
  <2>2. cancel' = [cancel EXCEPT ![w] = cancel'[w]] /\ cancel' = cancel
    BY <1>5 DEF CallTools, IInv, TypeOK
  <2> QED
    BY <1>1, <1>5, <2>1, <2>2, QuietMoves DEF CallTools, LeasedPlaces, Acquiring
<1> QED
  BY <1>2, <1>3, <1>4, <1>5 DEF ModelStep

\* Every step of a dispatch's task.
LEMMA TaskStepMoves ==
  ASSUME IInv, NEW w \in Workers, TaskStep(w)
  PROVE  Moves(w)
<1> USE DEF LeasedPlaces
<1>t. /\ pc \in [Workers -> Places]
      /\ cancel \in [Workers -> {"no", "pending", "raised"}]
  BY DEF IInv, TypeOK
<1>1. CASE StartHookReturns(w)
  <2>1. pc[w] = "start"
    BY <1>1 DEF StartHookReturns
  <2>2. CASE cancel[w] # "pending" /\ Acquire(w)
    BY <2>1, <2>2, AcquireMoves
  <2>3. CASE Conclude(w, "stopped", slots, leases)
    BY <2>1, <2>3, BesideNow, ConcludeMoves DEF Acquiring
  <2> QED
    BY <1>1, <2>2, <2>3 DEF StartHookReturns
<1>2. CASE Granted(w)
  <2>1. /\ Pool(slots, leases) /\ w \in slots.granted /\ w \notin leases
        /\ Leased(w, Resume(slots, w))
    BY <1>2 DEF Granted, IInv, PoolInv, LeaseIsExecuting, Acquiring
  <2>2. Beside(w, Resume(slots, w), leases \cup {w})
    BY <2>1, PoolResume DEF Beside
  <2> QED
    BY <2>1, <2>2, LeasedMoves
<1>3. CASE Boundary(w)
  <2>1. pc[w] = "boundary" /\ w \in leases
    BY <1>3 DEF Boundary, IInv, LeaseIsExecuting
  <2>2. CASE Conclude(w, "failed", slots, leases)
    BY <2>1, <2>2, BesideNow, ConcludeMoves DEF Acquiring
  <2>3. CASE /\ pc' = [pc EXCEPT ![w] = "model"]
             /\ UNCHANGED <<slots, leases, cancel>>
    <3>1. pc'[w] = "model" /\ cancel' = [cancel EXCEPT ![w] = cancel'[w]]
      BY <1>t, <2>3
    <3> QED
      BY <2>1, <2>3, <3>1, QuietMoves DEF Acquiring
  <2> QED
    BY <1>3, <2>2, <2>3 DEF Boundary
<1>4. CASE ModelStep(w)
  BY <1>4, ModelStepMoves
<1>5. CASE FinalWake(w)
  BY <1>5, AcquireMoves DEF FinalWake
<1>6. CASE SuspendTools(w)
  <2>1. /\ pc[w] = "tools" /\ w \in leases /\ Pool(slots, leases)
        /\ w \notin Waiting(slots)
    BY <1>6 DEF SuspendTools, IInv, PoolInv, LeaseIsExecuting, Acquiring
  <2>2. /\ Pool(Release(slots), leases \ {w})
        /\ Waiting(Release(slots)) = Waiting(slots)
        /\ Queued(Release(slots)) \subseteq Queued(slots)
        /\ Queued(Release(slots)) \subseteq Waiting(Release(slots))
    BY <2>1, PoolRelease DEF Waiting
  <2>3. /\ slots' = Release(slots) /\ leases' = leases \ {w} /\ pc'[w] = "toolwait"
        /\ \A v \in Workers \ {w} : pc'[v] = pc[v] /\ cancel'[v] = cancel[v]
    BY <1>6, <1>t DEF SuspendTools
  <2> QED
    BY <2>1, <2>2, <2>3 DEF Moves
<1>7. CASE ToolsWake(w)
  BY <1>7, AcquireMoves DEF ToolsWake
<1>8. CASE BatchDone(w)
  <2>1. /\ pc' = [pc EXCEPT ![w] = "boundary"] /\ pc'[w] = "boundary"
        /\ cancel' = [cancel EXCEPT ![w] = cancel'[w]] /\ cancel' = cancel
    BY <1>8, <1>t DEF BatchDone
  <2> QED
    BY <1>8, <2>1, QuietMoves DEF BatchDone, Acquiring
<1>9. CASE Cancelled(w)
  <2>1. cancel[w] = "pending" /\ Conclude(w, "stopped", Unqueued(w), leases)
    BY <1>9 DEF Cancelled
  <2>2. Beside(w, Unqueued(w), leases)
    BY <2>1, PoolUnqueued DEF Beside
  <2> QED
    BY <2>1, <2>2, ConcludeMoves
<1>10. CASE CancelledInBatch(w)
  <2>1. /\ cancel[w] = "pending" /\ slots' = Unqueued(w) /\ UNCHANGED leases
        /\ pc'[w] = "unwind" /\ cancel'[w] = "raised"
        /\ \A v \in Workers \ {w} : pc'[v] = pc[v] /\ cancel'[v] = cancel[v]
    BY <1>10, <1>t DEF CancelledInBatch
  <2> QED
    BY <2>1, PoolUnqueued DEF Moves
<1>11. CASE Unwound(w)
  BY <1>11, BesideNow, ConcludeMoves DEF Unwound, Acquiring
<1>12. CASE EndHookReturns(w) \/ Notified(w)
  <2>1. /\ pc[w] \in {"end", "notify"} /\ UNCHANGED <<slots, leases>>
        /\ pc' = [pc EXCEPT ![w] = pc'[w]] /\ pc'[w] \in {"notify", "finished"}
        /\ cancel' = [cancel EXCEPT ![w] = cancel'[w]]
        /\ cancel'[w] = "pending" => cancel[w] = "pending"
    BY <1>12, <1>t DEF EndHookReturns, Notified
  <2>2. w \notin leases
    BY <2>1 DEF IInv, LeaseIsExecuting
  <2> QED
    BY <2>1, <2>2, QuietMoves DEF Acquiring
<1>13. CASE Finished(w)
  <2>1. pc[w] = "finished" /\ UNCHANGED <<slots, leases>> /\ w \notin leases
    BY <1>13 DEF Finished, IInv, LeaseIsExecuting
  <2>2. CASE LaunchDispatch(w)
    BY <2>1, <2>2, LaunchMoves
  <2>3. CASE pc' = [pc EXCEPT ![w] = "idle"] /\ UNCHANGED cancel
    <3>1. pc'[w] = "idle" /\ cancel' = [cancel EXCEPT ![w] = cancel'[w]]
      BY <1>t, <2>3
    <3> QED
      BY <2>1, <2>3, <3>1, QuietMoves DEF Acquiring
  <2> QED
    BY <1>13, <2>2, <2>3 DEF Finished
<1> QED
  BY <1>1, <1>2, <1>3, <1>4, <1>5, <1>6, <1>7, <1>8, <1>9, <1>10, <1>11, <1>12,
     <1>13 DEF TaskStep

\* Cancellation by stop(), and its return.
LEMMA StopStepMoves ==
  ASSUME IInv, NEW w \in Workers, StopStep(w)
  PROVE  Moves(w)
<1>1. CASE StopReturns(w)
  <2>1. CASE MayLaunch(w) /\ LaunchDispatch(w)
    BY <1>1, <2>1, LaunchMoves DEF StopReturns, MayLaunch, TaskDone
  <2>2. CASE UNCHANGED <<pc, cancel>>
    BY <1>1, <2>2, UnmovedMoves DEF StopReturns
  <2> QED
    BY <1>1, <2>1, <2>2 DEF StopReturns
<1>2. CASE StopCancels(w)
  <2>1. CASE UNCHANGED <<cancel, slots>>
    BY <1>2, <2>1, UnmovedMoves DEF StopCancels
  <2>2. CASE /\ cancel' = [cancel EXCEPT ![w] = "pending"]
             /\ slots' = CancelWaiter(slots, w)
    <3>1. Pool(slots, leases)
      BY DEF IInv, PoolInv
    <3>2. /\ SemaphoreOK(CancelWaiter(slots, w), Workers)
          /\ Units(CancelWaiter(slots, w)) = Units(slots)
          /\ CancelWaiter(slots, w).granted = slots.granted
          /\ Queued(CancelWaiter(slots, w)) = Queued(slots) \ {w}
          /\ Prompt(CancelWaiter(slots, w))
      BY <3>1, CancelWaiterUnits, PromptPreserved DEF Pool
    <3>3. Waiting(CancelWaiter(slots, w)) \subseteq Waiting(slots)
      BY <3>2 DEF Waiting
    <3>4. Pool(slots', leases)
      BY <2>2, <3>1, <3>2 DEF Pool
    <3>5. \A v \in Workers \ {w} : cancel'[v] = cancel[v]
      BY <2>2 DEF IInv, TypeOK
    <3> QED
      BY <1>2, <2>2, <3>2, <3>3, <3>4, <3>5
      DEF Moves, StopCancels, IInv, PoolInv, LeaseIsExecuting, LeasedPlaces
  <2> QED
    BY <1>2, <2>1, <2>2 DEF StopCancels
<1> QED
  BY <1>1, <1>2 DEF StopStep

\* Every step of the supervisor keeps the pool whole (all of Next).
LEMMA PoolPreserved ==
  ASSUME IInv, [Next]_vars
  PROVE  PoolInv' /\ LeaseIsExecuting'
<1>1. ASSUME NEW w \in Workers,
             Callers(w) \/ TaskStep(w) \/ StopStep(w) \/ ShutdownStops(w)
      PROVE  Moves(w)
  <2>1. CASE ShutdownStops(w)
    BY <2>1, UnmovedMoves DEF ShutdownStops, BeginStop
  <2> QED
    BY <1>1, <2>1, CallersMove, TaskStepMoves, StopStepMoves
<1>2. CASE UNCHANGED <<slots, leases, pc, cancel>>
  BY <1>2 DEF IInv, PoolInv, Pool, SemaphoreOK, Units, Waiting, Queued, Prompt,
              LeaseIsExecuting
<1>3. CASE \E w \in Workers, t \in Tools : ToolTaskStep(w, t)
  <2>1. UNCHANGED <<slots, leases, pc, cancel>>
    BY <1>3 DEF ToolTaskStep, ToolBlocks, ToolUnblocks, ToolPasses, ToolFinishes,
                ToolStep
  <2> QED
    BY <1>2, <2>1
<1>4. CASE BeginShutdown \/ EndShutdown \/ Terminated \/ UNCHANGED vars
  <2>1. UNCHANGED <<slots, leases, pc, cancel>>
    BY <1>4 DEF BeginShutdown, EndShutdown, Terminated, vars
  <2> QED
    BY <1>2, <2>1
<1> QED
  BY <1>1, <1>3, <1>4, MovesPreserve DEF Next

\* A step that concerns w alone need only mind the gate of w.
LEMMA GateOf ==
  ASSUME IInv, NEW w \in Workers, gated' \subseteq Workers,
         \A v \in Workers \ {w} :
           pc'[v] = pc[v] /\ tool'[v] = tool[v] /\ (v \in gated' <=> v \in gated),
         w \in gated' <=> pc'[w] \in {"toolwait", "toolacq"},
         w \in gated' => \A t \in Tools : tool'[w][t] # "exec"
  PROVE  GateInv'
<1>1. GateInv
  BY DEF IInv
<1> QED
  BY <1>1 DEF GateInv

\* Steps that leave the gates and the tools alone keep w out of await_tools.
LEMMA GateStays ==
  ASSUME IInv, NEW w \in Workers, UNCHANGED <<gated, tool>>,
         pc' = [pc EXCEPT ![w] = pc'[w]],
         pc[w] \in {"toolwait", "toolacq"} <=> pc'[w] \in {"toolwait", "toolacq"}
  PROVE  GateInv'
<1>1. gated \subseteq Workers /\ pc \in [Workers -> Places] /\ GateInv
  BY DEF IInv, TypeOK
<1>2. \A v \in Workers \ {w} : pc'[v] = pc[v]
  BY <1>1
<1> QED
  BY <1>1, <1>2, GateOf DEF GateInv

\* A dispatch that ends has no closed gate.
LEMMA ConcludeKeepsGate ==
  ASSUME IInv, NEW w \in Workers, NEW final, NEW s, NEW held,
         pc[w] \notin {"toolwait", "toolacq"}, Conclude(w, final, s, held),
         UNCHANGED <<gated, tool>>
  PROVE  GateInv'
<1>1. pc' = [pc EXCEPT ![w] = pc'[w]] /\ pc'[w] \in {"end", "notify", "finished"}
  BY DEF Conclude, IInv, TypeOK
<1> QED
  BY <1>1, GateStays

\* boundary(completing=True) leaves the gates alone.
LEMMA SettleKeepsGate ==
  ASSUME IInv, NEW w \in Workers, NEW s, NEW held,
         pc[w] \notin {"toolwait", "toolacq"}, Settle(w, s, held),
         UNCHANGED <<gated, tool>>
  PROVE  GateInv'
<1>1. CASE \E place \in {"boundary", "finalwait"} : pc' = [pc EXCEPT ![w] = place]
  <2>1. pc' = [pc EXCEPT ![w] = pc'[w]] /\ pc'[w] \in {"boundary", "finalwait"}
    BY <1>1 DEF IInv, TypeOK
  <2> QED
    BY <2>1, GateStays
<1> QED
  BY <1>1, ConcludeKeepsGate DEF Settle

\* A gate opens once its supervisor has a lease.
LEMMA LeasedKeepsGate ==
  ASSUME IInv, NEW w \in Workers, NEW s, Leased(w, s)
  PROVE  GateInv'
<1>1. CASE /\ pc[w] \in {"start", "acquire"} /\ pc' = [pc EXCEPT ![w] = "boundary"]
           /\ UNCHANGED <<gated, tool>>
  <2>1. pc' = [pc EXCEPT ![w] = pc'[w]] /\ pc'[w] = "boundary"
    BY <1>1 DEF IInv, TypeOK
  <2> QED
    BY <1>1, <2>1, GateStays
<1>2. CASE /\ pc[w] \in {"toolwait", "toolacq"} /\ pc' = [pc EXCEPT ![w] = "tools"]
           /\ gated' = gated \ {w} /\ UNCHANGED tool
  <2>1. gated \subseteq Workers /\ pc \in [Workers -> Places]
    BY DEF IInv, TypeOK
  <2>2. pc'[w] = "tools" /\ \A v \in Workers \ {w} : pc'[v] = pc[v]
    BY <1>2, <2>1
  <2> QED
    BY <1>2, <2>1, <2>2, GateOf
<1>3. CASE /\ pc[w] \in {"finalwait", "finalacq"}
           /\ Settle(w, s, leases \cup {w}) /\ UNCHANGED <<gated, tool>>
  BY <1>3, SettleKeepsGate
<1> QED
  BY <1>1, <1>2, <1>3 DEF Leased

\* A gate stays closed while its supervisor queues for a lease.
LEMMA AcquireKeepsGate ==
  ASSUME IInv, NEW w \in Workers, pc[w] \in {"start", "toolwait", "finalwait"},
         Acquire(w)
  PROVE  GateInv'
<1>1. CASE Leased(w, Take(slots))
  BY <1>1, LeasedKeepsGate
<1>2. CASE /\ pc' = [pc EXCEPT ![w] = CASE @ = "start"     -> "acquire"
                                        [] @ = "toolwait"  -> "toolacq"
                                        [] @ = "finalwait" -> "finalacq"]
           /\ UNCHANGED batch
  <2>1. /\ pc' = [pc EXCEPT ![w] = pc'[w]]
        /\ pc'[w] = "toolacq" <=> pc[w] = "toolwait"
        /\ pc'[w] \in {"acquire", "toolacq", "finalacq"}
    BY <1>2 DEF IInv, TypeOK
  <2> QED
    BY <1>2, <2>1, GateStays DEF batch
<1> QED
  BY <1>1, <1>2 DEF Acquire

\* Every step of a dispatch's task keeps the gate invariant.
LEMMA TaskStepKeepsGate ==
  ASSUME IInv, NEW w \in Workers, TaskStep(w)
  PROVE  GateInv'
<1> USE DEF batch
<1>1. CASE StartHookReturns(w)
  BY <1>1, AcquireKeepsGate, ConcludeKeepsGate DEF StartHookReturns
<1>2. CASE Granted(w)
  BY <1>2, LeasedKeepsGate DEF Granted
<1>3. CASE Boundary(w)
  <2>1. CASE pc' = [pc EXCEPT ![w] = "model"]
    <3>1. pc' = [pc EXCEPT ![w] = pc'[w]] /\ pc'[w] = "model"
      BY <2>1 DEF IInv, TypeOK
    <3> QED
      BY <1>3, <3>1, GateStays DEF Boundary
  <2> QED
    BY <1>3, <2>1, ConcludeKeepsGate DEF Boundary
<1>4. CASE ModelFails(w)
  BY <1>4, ConcludeKeepsGate DEF ModelFails
<1>5. CASE Continue(w)
  <2>1. /\ pc[w] \in {"model", "tools"} /\ UNCHANGED <<gated, tool>>
        /\ pc' = [pc EXCEPT ![w] = pc'[w]] /\ pc'[w] = "boundary"
    BY <1>5 DEF Continue, IInv, TypeOK
  <2> QED
    BY <2>1, GateStays
<1>6. CASE Answer(w)
  BY <1>6, SettleKeepsGate, ConcludeKeepsGate DEF Answer
<1>7. CASE CallTools(w)
  <2>1. pc[w] = "model" /\ w \notin gated /\ gated \subseteq Workers
    BY <1>7 DEF CallTools, IInv, TypeOK, GateInv
  <2>2. /\ UNCHANGED gated
        /\ \A v \in Workers \ {w} : tool'[v] = tool[v] /\ pc'[v] = pc[v]
        /\ pc'[w] = "tools"
    BY <1>7 DEF CallTools, IInv, TypeOK
  <2> QED
    BY <2>1, <2>2, GateOf
<1>8. CASE FinalWake(w)
  BY <1>8, AcquireKeepsGate DEF FinalWake
<1>9. CASE SuspendTools(w)
  <2>1. gated \subseteq Workers /\ \A t \in Tools : tool[w][t] # "exec"
    BY <1>9 DEF SuspendTools, Pending, Blocked, IInv, TypeOK
  <2>2. /\ gated' = gated \cup {w} /\ UNCHANGED tool /\ pc'[w] = "toolwait"
        /\ \A v \in Workers \ {w} : pc'[v] = pc[v]
    BY <1>9 DEF SuspendTools, IInv, TypeOK
  <2> QED
    BY <2>1, <2>2, GateOf
<1>10. CASE ToolsWake(w)
  BY <1>10, AcquireKeepsGate DEF ToolsWake
<1>11. CASE BatchDone(w)
  <2>1. /\ pc[w] \in {"model", "tools"} /\ UNCHANGED <<gated, tool>>
        /\ pc' = [pc EXCEPT ![w] = pc'[w]] /\ pc'[w] = "boundary"
    BY <1>11 DEF BatchDone, IInv, TypeOK
  <2> QED
    BY <2>1, GateStays
<1>12. CASE Cancelled(w)
  BY <1>12, ConcludeKeepsGate DEF Cancelled, Waits
<1>13. CASE CancelledInBatch(w)
  <2>1. gated \subseteq Workers /\ gated' = gated \ {w} /\ UNCHANGED tool
    BY <1>13 DEF CancelledInBatch, IInv, TypeOK
  <2>2. pc'[w] = "unwind" /\ \A v \in Workers \ {w} : pc'[v] = pc[v]
    BY <1>13 DEF CancelledInBatch, IInv, TypeOK
  <2> QED
    BY <2>1, <2>2, GateOf
<1>14. CASE Unwound(w)
  <2>1. pc[w] = "unwind" /\ UNCHANGED gated /\ gated \subseteq Workers /\ w \notin gated
    BY <1>14 DEF Unwound, IInv, TypeOK, GateInv
  <2>2. /\ pc'[w] \in {"end", "notify", "finished"}
        /\ \A v \in Workers \ {w} : tool'[v] = tool[v] /\ pc'[v] = pc[v]
    BY <1>14 DEF Unwound, Conclude, IInv, TypeOK
  <2> QED
    BY <2>1, <2>2, GateOf
<1>15. CASE EndHookReturns(w) \/ Notified(w)
  <2>1. /\ pc[w] \in {"end", "notify"} /\ UNCHANGED <<gated, tool>>
        /\ pc' = [pc EXCEPT ![w] = pc'[w]] /\ pc'[w] \in {"notify", "finished"}
    BY <1>15 DEF EndHookReturns, Notified, IInv, TypeOK
  <2> QED
    BY <2>1, GateStays
<1>16. CASE Finished(w)
  <2>1. /\ pc[w] = "finished" /\ UNCHANGED <<gated, tool>>
        /\ pc' = [pc EXCEPT ![w] = pc'[w]] /\ pc'[w] \in {"start", "idle"}
    BY <1>16 DEF Finished, LaunchDispatch, IInv, TypeOK
  <2> QED
    BY <2>1, GateStays
<1> QED
  BY <1>1, <1>2, <1>3, <1>4, <1>5, <1>6, <1>7, <1>8, <1>9, <1>10, <1>11, <1>12,
     <1>13, <1>14, <1>15, <1>16 DEF TaskStep, ModelStep

\* Every step of a tool task keeps the gate invariant.
LEMMA ToolStepKeepsGate ==
  ASSUME IInv, NEW w \in Workers, NEW t \in Tools, ToolTaskStep(w, t)
  PROVE  GateInv'
<1>1. ASSUME NEW from, NEW to, NEW of, ToolStep(w, t, from, to, of),
             to = "exec" => w \notin gated
      PROVE  GateInv'
  <2>1. /\ UNCHANGED <<gated, pc>>
        /\ \A v \in Workers, u \in Tools :
              tool'[v][u] = IF v = w /\ u = t THEN to ELSE tool[v][u]
    BY <1>1 DEF ToolStep, IInv, TypeOK
  <2>2. \A v \in gated : v \in Workers
    BY DEF IInv, TypeOK
  <2>3. GateInv
    BY DEF IInv
  <2> QED
    BY <1>1, <2>1, <2>2, <2>3 DEF GateInv
<1>2. CASE ToolBlocks(w, t)
  BY <1>1, <1>2 DEF ToolBlocks
<1>3. CASE ToolUnblocks(w, t)
  BY <1>1, <1>3 DEF ToolUnblocks
<1>4. CASE ToolPasses(w, t)
  BY <1>1, <1>4 DEF ToolPasses
<1>5. CASE ToolFinishes(w, t)
  BY <1>1, <1>5 DEF ToolFinishes
<1> QED
  BY <1>2, <1>3, <1>4, <1>5 DEF ToolTaskStep

\* Every step keeps the gate invariant.
LEMMA GatePreserved ==
  ASSUME IInv, [Next]_vars
  PROVE  GateInv'
<1>1. CASE UNCHANGED <<gated, tool, pc>>
  BY <1>1 DEF IInv, GateInv
<1>2. ASSUME NEW w \in Workers, pc[w] \in {"idle", "finished"}, LaunchDispatch(w),
             UNCHANGED <<gated, tool>>
      PROVE  GateInv'
  <2>1. pc' = [pc EXCEPT ![w] = pc'[w]] /\ pc'[w] = "start"
    BY <1>2 DEF LaunchDispatch, IInv, TypeOK
  <2> QED
    BY <1>2, <2>1, GateStays
<1>3. ASSUME NEW w \in Workers, Callers(w) \/ StopStep(w) \/ ShutdownStops(w)
      PROVE  GateInv'
  <2> USE DEF batch
  <2>1. CASE Start(w)
    BY <1>2, <2>1 DEF Start, MayLaunch, TaskDone
  <2>2. CASE Send(w)
    BY <1>1, <1>2, <2>2 DEF Send, Wakes, TaskDone
  <2>3. CASE ResumeWorker(w)
    BY <1>2, <2>3 DEF ResumeWorker, MayLaunch, TaskDone
  <2>4. CASE Stop(w) \/ ShutdownStops(w) \/ StopCancels(w) \/ RootReads(w)
    BY <1>1, <2>4 DEF Stop, ShutdownStops, StopCancels, BeginStop, RootReads
  <2>6. CASE Interrupt(w)
    BY <1>1, <1>2, <2>6 DEF Interrupt, BeginStop, TaskDone
  <2>5. CASE StopReturns(w)
    BY <1>1, <1>2, <2>5 DEF StopReturns, MayLaunch, TaskDone
  <2> QED
    BY <1>3, <2>1, <2>2, <2>3, <2>4, <2>5, <2>6 DEF Callers, StopStep
<1>4. CASE BeginShutdown \/ EndShutdown \/ Terminated \/ UNCHANGED vars
  BY <1>1, <1>4 DEF BeginShutdown, EndShutdown, Terminated, vars, batch
<1> QED
  BY <1>3, <1>4, TaskStepKeepsGate, ToolStepKeepsGate DEF Next

\* The part of the type invariant that is not about the semaphore.
TypeRest ==
  /\ state \in [Workers -> Settled \cup {"queued", "running", "waiting"}]
  /\ pc \in [Workers -> Places]
  /\ turns \in [Workers -> Nat]
  /\ dispatches \in [Workers -> Nat]
  /\ cancel \in [Workers -> {"no", "pending", "raised"}]
  /\ tool \in [Workers -> [Tools -> {"exec", "blocked", "gated", "done"}]]
  /\ target \in [Workers -> [Tools -> Workers]]
  /\ gated \subseteq Workers
  /\ mail \in [Workers -> BOOLEAN]
  /\ news \in [Workers -> BOOLEAN]
  /\ noted \subseteq Workers
  /\ stopping \in [Workers -> [phase : StopPhase, finalizing : BOOLEAN,
                               interrupt : BOOLEAN]]
  /\ shutdown \in {"no", "closing", "down"}

\* Type correctness of a launch.
LEMMA LaunchTypes ==
  ASSUME TypeRest, NEW w \in Workers, LaunchDispatch(w)
  PROVE  /\ (state \in [Workers -> Settled \cup {"queued", "running", "waiting"}])'
         /\ (pc \in [Workers -> Places])'
         /\ (turns \in [Workers -> Nat])'
         /\ (dispatches \in [Workers -> Nat])'
         /\ (cancel \in [Workers -> {"no", "pending", "raised"}])'
         /\ (noted \subseteq Workers)'
BY DEF TypeRest, LaunchDispatch, Places

\* A note for the parent.
LEMMA TellParentTypes ==
  ASSUME TypeRest, NEW w \in Workers, TellParent(w)
  PROVE  (news \in [Workers -> BOOLEAN])'
BY Zenon DEF TypeRest, TellParent

\* Type correctness of an outlived stop().
LEMMA StopOutlivedTypes ==
  ASSUME TypeRest, NEW w \in Workers, StopOutlived(w)
  PROVE  (stopping \in [Workers -> [phase : StopPhase, finalizing : BOOLEAN,
                                   interrupt : BOOLEAN]])'
BY DEF TypeRest, StopOutlived, StopPhase

\* Type correctness of the end of a dispatch.
LEMMA ConcludeTypes ==
  ASSUME TypeRest, NEW w \in Workers, NEW final \in Terminal \cup {state[w]},
         NEW s, NEW held, Conclude(w, final, s, held)
  PROVE  /\ (state \in [Workers -> Settled \cup {"queued", "running", "waiting"}])'
         /\ (pc \in [Workers -> Places])'
         /\ (cancel \in [Workers -> {"no", "pending", "raised"}])'
         /\ (noted \subseteq Workers)'
         /\ (news \in [Workers -> BOOLEAN])'
<1>1. /\ (state \in [Workers -> Settled \cup {"queued", "running", "waiting"}])'
      /\ (cancel \in [Workers -> {"no", "pending", "raised"}])'
  BY DEF TypeRest, Conclude, Settled
<1>2. (pc \in [Workers -> Places])'
  BY DEF TypeRest, Conclude, Places
<1>3. (noted \subseteq Workers)' /\ (news \in [Workers -> BOOLEAN])'
  <2>1. CASE UNCHANGED <<noted, news>>
    BY <2>1 DEF TypeRest
  <2>2. CASE RecordNote(w)
    BY <2>2, TellParentTypes DEF TypeRest, RecordNote
  <2> QED
    BY <2>1, <2>2 DEF Conclude
<1> QED
  BY <1>1, <1>2, <1>3

\* Type correctness of boundary(completing=True).
LEMMA SettleTypes ==
  ASSUME TypeRest, NEW w \in Workers, NEW s, NEW held, Settle(w, s, held)
  PROVE  /\ (state \in [Workers -> Settled \cup {"queued", "running", "waiting"}])'
         /\ (pc \in [Workers -> Places])'
         /\ (cancel \in [Workers -> {"no", "pending", "raised"}])'
         /\ (noted \subseteq Workers)'
         /\ (mail \in [Workers -> BOOLEAN])'
         /\ (news \in [Workers -> BOOLEAN])'
<1>1. CASE /\ Conclude(w, "failed", s, held) \/ Conclude(w, "completed", s, held)
           /\ UNCHANGED mail
  BY <1>1, ConcludeTypes DEF Terminal, TypeRest
<1>2. CASE /\ mail' = [mail EXCEPT ![w] = FALSE]
           /\ news' = [news EXCEPT ![w] = FALSE]
           /\ state' = [state EXCEPT ![w] = "running"]
           /\ pc' = [pc EXCEPT ![w] = "boundary"]
           /\ UNCHANGED <<cancel, noted>>
  BY <1>2 DEF TypeRest, Places
<1>3. CASE /\ state' = [state EXCEPT ![w] = "waiting"]
           /\ pc' = [pc EXCEPT ![w] = "finalwait"]
           /\ UNCHANGED <<mail, news, cancel, noted>>
  BY <1>3 DEF TypeRest, Places
<1> QED
  BY <1>1, <1>2, <1>3 DEF Settle

\* Type correctness of getting a lease.
LEMMA LeasedTypes ==
  ASSUME TypeRest, NEW w \in Workers, NEW s, Leased(w, s)
  PROVE  TypeRest'
<1>1. /\ UNCHANGED <<turns, dispatches, tool, target, control>>
      /\ gated' \subseteq gated
  BY DEF Leased
<1>2. CASE /\ \E place \in {"boundary", "tools"} : pc' = [pc EXCEPT ![w] = place]
           /\ state' = [state EXCEPT ![w] = "running"]
           /\ UNCHANGED <<inputs, cancel, noted>>
  BY <1>1, <1>2 DEF TypeRest, Places, inputs, control
<1>3. CASE Settle(w, s, leases \cup {w})
  BY <1>1, <1>3, SettleTypes DEF TypeRest, control
<1> QED
  BY <1>2, <1>3 DEF Leased

\* Type correctness of acquire().
LEMMA AcquireTypes ==
  ASSUME TypeRest, NEW w \in Workers, pc[w] \in {"start", "toolwait", "finalwait"},
         Acquire(w)
  PROVE  TypeRest'
<1>1. CASE Leased(w, Take(slots))
  BY <1>1, LeasedTypes
<1>2. CASE /\ pc' = [pc EXCEPT ![w] = CASE @ = "start"     -> "acquire"
                                        [] @ = "toolwait"  -> "toolacq"
                                        [] @ = "finalwait" -> "finalacq"]
           /\ UNCHANGED <<state, turns, dispatches, cancel, leases, batch, inputs,
                          noted, control>>
  BY <1>2 DEF TypeRest, Places, batch, inputs, control
<1> QED
  BY <1>1, <1>2 DEF Acquire

\* Type correctness of the steps of a dispatch's task.
LEMMA TaskStepTypes ==
  ASSUME TypeRest, NEW w \in Workers, TaskStep(w)
  PROVE  TypeRest'
<1> USE DEF batch, inputs, control
<1>1. CASE StartHookReturns(w)
  BY <1>1, AcquireTypes, ConcludeTypes DEF StartHookReturns, Terminal, TypeRest
<1>2. CASE Granted(w)
  BY <1>2, LeasedTypes DEF Granted
<1>3. CASE Boundary(w)
  <2>1. CASE /\ pc' = [pc EXCEPT ![w] = "model"]
             /\ mail' = [mail EXCEPT ![w] = FALSE]
             /\ news' = [news EXCEPT ![w] = FALSE]
             /\ UNCHANGED <<state, cancel, noted>>
    BY <1>3, <2>1 DEF Boundary, TypeRest, Places
  <2>2. CASE Conclude(w, "failed", slots, leases) /\ UNCHANGED mail
    BY <1>3, <2>2, ConcludeTypes DEF Boundary, Terminal, TypeRest
  <2> QED
    BY <1>3, <2>1, <2>2 DEF Boundary
<1>4. CASE ModelFails(w)
  BY <1>4, ConcludeTypes DEF ModelFails, Terminal, TypeRest
<1>5. CASE Continue(w)
  BY <1>5 DEF Continue, TypeRest, Places
<1>6. CASE Answer(w)
  <2>1. (turns \in [Workers -> Nat])'
    BY <1>6 DEF Answer, TypeRest
  <2>2. UNCHANGED <<dispatches, batch, control>>
    BY <1>6 DEF Answer
  <2>3. CASE Settle(w, slots, leases)
    BY <2>1, <2>2, <2>3, SettleTypes DEF TypeRest
  <2>4. CASE /\ \E final \in {"failed", "completed"} : Conclude(w, final, slots, leases)
             /\ UNCHANGED mail
    BY <2>1, <2>2, <2>4, ConcludeTypes DEF Terminal, TypeRest
  <2> QED
    BY <1>6, <2>3, <2>4 DEF Answer
<1>7. CASE CallTools(w)
  <2>1. /\ (turns \in [Workers -> Nat])' /\ (pc \in [Workers -> Places])'
        /\ UNCHANGED <<state, dispatches, cancel, gated, inputs, noted, control>>
    BY <1>7 DEF CallTools, TypeRest, Places
  <2>2. PICK calls \in (SUBSET Tools) \ {{}} :
          \E of \in [calls -> Children(w) \cup {w}] :
            /\ tool' = [tool EXCEPT ![w] =
                          [t \in Tools |-> IF t \in calls THEN "exec" ELSE "done"]]
            /\ target' = [target EXCEPT ![w] =
                            [t \in Tools |-> IF t \in calls THEN of[t] ELSE w]]
    BY <1>7 DEF CallTools
  <2>3. PICK of \in [calls -> Children(w) \cup {w}] :
            /\ tool' = [tool EXCEPT ![w] =
                          [t \in Tools |-> IF t \in calls THEN "exec" ELSE "done"]]
            /\ target' = [target EXCEPT ![w] =
                            [t \in Tools |-> IF t \in calls THEN of[t] ELSE w]]
    BY <2>2
  <2>4. \A t \in calls : of[t] \in Workers
    BY DEF Children
  <2>5. (tool \in [Workers -> [Tools -> {"exec", "blocked", "gated", "done"}]])'
    BY <2>3 DEF TypeRest
  <2>6. (target \in [Workers -> [Tools -> Workers]])'
    BY <2>3, <2>4 DEF TypeRest
  <2> QED
    BY <2>1, <2>5, <2>6 DEF TypeRest
<1>8. CASE FinalWake(w)
  BY <1>8, AcquireTypes DEF FinalWake
<1>9. CASE SuspendTools(w)
  BY <1>9 DEF SuspendTools, TypeRest, Places
<1>10. CASE ToolsWake(w)
  BY <1>10, AcquireTypes DEF ToolsWake
<1>11. CASE BatchDone(w)
  BY <1>11 DEF BatchDone, TypeRest, Places
<1>12. CASE Cancelled(w)
  BY <1>12, ConcludeTypes DEF Cancelled, Terminal, TypeRest
<1>13. CASE CancelledInBatch(w)
  BY <1>13 DEF CancelledInBatch, TypeRest, Places
<1>14. CASE Unwound(w)
  <2>1. /\ (tool \in [Workers -> [Tools -> {"exec", "blocked", "gated", "done"}]])'
        /\ (target \in [Workers -> [Tools -> Workers]])'
        /\ UNCHANGED <<turns, dispatches, gated, mail, control>>
    BY <1>14 DEF Unwound, TypeRest
  <2>2. Conclude(w, "stopped", slots, leases)
    BY <1>14 DEF Unwound
  <2> QED
    BY <2>1, <2>2, ConcludeTypes DEF Terminal, TypeRest
<1>15. CASE EndHookReturns(w)
  <2>1. /\ (pc \in [Workers -> Places])'
        /\ (cancel \in [Workers -> {"no", "pending", "raised"}])'
        /\ UNCHANGED <<state, turns, dispatches, batch, mail, control>>
    BY <1>15 DEF EndHookReturns, TypeRest, Places
  <2>2. (noted \subseteq Workers)' /\ (news \in [Workers -> BOOLEAN])'
    <3>1. CASE UNCHANGED <<noted, news>>
      BY <3>1 DEF TypeRest
    <3>2. CASE RecordNote(w)
      BY <3>2, TellParentTypes DEF TypeRest, RecordNote
    <3> QED
      BY <1>15, <3>1, <3>2 DEF EndHookReturns
  <2> QED
    BY <2>1, <2>2 DEF TypeRest
<1>16. CASE Notified(w)
  BY <1>16 DEF Notified, TypeRest, Places
<1>17. CASE Finished(w)
  <2>1. UNCHANGED <<batch, inputs, shutdown>>
    BY <1>17 DEF Finished
  <2>2. CASE LaunchDispatch(w) /\ StopOutlived(w)
    BY <2>1, <2>2, LaunchTypes, StopOutlivedTypes DEF TypeRest
  <2>3. CASE /\ pc' = [pc EXCEPT ![w] = "idle"]
             /\ UNCHANGED <<state, turns, dispatches, cancel, noted, stopping>>
    BY <2>1, <2>3 DEF TypeRest, Places
  <2> QED
    BY <1>17, <2>2, <2>3 DEF Finished
<1> QED
  BY <1>1, <1>2, <1>3, <1>4, <1>5, <1>6, <1>7, <1>8, <1>9, <1>10, <1>11, <1>12,
     <1>13, <1>14, <1>15, <1>16, <1>17 DEF TaskStep, ModelStep

\* Type correctness of the beginning of stop().
LEMMA BeginStopTypes ==
  ASSUME TypeRest, NEW w \in Workers, NEW interrupt \in BOOLEAN,
         BeginStop(w, interrupt), (mail \in [Workers -> BOOLEAN])'
  PROVE  TypeRest'
<1>1. UNCHANGED <<pc, turns, dispatches, cancel, batch, news, noted, shutdown>>
  BY DEF BeginStop
<1>2. (state \in [Workers -> Settled \cup {"queued", "running", "waiting"}])'
  BY DEF BeginStop, TypeRest, Settled, Terminal
<1>3. (stopping \in [Workers -> [phase : StopPhase, finalizing : BOOLEAN,
                                interrupt : BOOLEAN]])'
  <2>1. /\ NotStopping \in [phase : StopPhase, finalizing : BOOLEAN,
                            interrupt : BOOLEAN]
        /\ [phase |-> "yield", finalizing |-> state[w] \in Terminal,
            interrupt |-> interrupt]
             \in [phase : StopPhase, finalizing : BOOLEAN, interrupt : BOOLEAN]
    BY DEF NotStopping, StopPhase
  <2> QED
    BY <2>1 DEF BeginStop, TypeRest
<1> QED
  BY <1>1, <1>2, <1>3 DEF TypeRest, batch

\* Type correctness of the calls on the manager.
LEMMA CallersTypes ==
  ASSUME TypeRest, NEW w \in Workers,
         Callers(w) \/ StopStep(w) \/ ShutdownStops(w)
  PROVE  TypeRest'
<1> USE DEF batch, inputs, control
<1>1. CASE Start(w)
  <2>1. (mail \in [Workers -> BOOLEAN])'
    BY <1>1 DEF Start, TypeRest
  <2>2. LaunchDispatch(w) /\ UNCHANGED <<batch, news, control>>
    BY <1>1 DEF Start
  <2> QED
    BY <2>1, <2>2, LaunchTypes DEF TypeRest
<1>2. CASE Send(w)
  <2>1. /\ (mail \in [Workers -> BOOLEAN])' /\ (news \in [Workers -> BOOLEAN])'
        /\ UNCHANGED <<batch, shutdown>>
    BY <1>2, TellParentTypes DEF Send, TypeRest
  <2>2. CASE LaunchDispatch(w) /\ StopOutlived(w)
    BY <2>1, <2>2, LaunchTypes, StopOutlivedTypes DEF TypeRest
  <2>3. CASE UNCHANGED <<state, pc, turns, dispatches, cancel, noted, stopping>>
    BY <2>1, <2>3 DEF TypeRest
  <2> QED
    BY <1>2, <2>2, <2>3 DEF Send
<1>3. CASE ResumeWorker(w)
  <2>1. (mail \in [Workers -> BOOLEAN])'
    <3>1. PICK text \in BOOLEAN : mail' = [mail EXCEPT ![w] = @ \/ text]
      BY <1>3 DEF ResumeWorker
    <3> QED
      BY <3>1, Zenon DEF TypeRest
  <2>2. /\ LaunchDispatch(w) /\ StopOutlived(w)
        /\ UNCHANGED <<batch, news, shutdown>>
    BY <1>3 DEF ResumeWorker
  <2> QED
    BY <2>1, <2>2, LaunchTypes, StopOutlivedTypes DEF TypeRest
<1>4. CASE Stop(w) \/ ShutdownStops(w)
  BY <1>4, BeginStopTypes DEF Stop, ShutdownStops, TypeRest
<1>5. CASE Interrupt(w)
  <2>1. (mail \in [Workers -> BOOLEAN])'
    BY <1>5 DEF Interrupt, TypeRest
  <2>2. CASE BeginStop(w, TRUE)
    BY <2>1, <2>2, BeginStopTypes
  <2>3. CASE LaunchDispatch(w) /\ StopOutlived(w) /\ UNCHANGED <<batch, news, shutdown>>
    BY <2>1, <2>3, LaunchTypes, StopOutlivedTypes DEF TypeRest
  <2> QED
    BY <1>5, <2>2, <2>3 DEF Interrupt
<1>8. CASE RootReads(w)
  BY <1>8 DEF RootReads, TypeRest
<1>6. CASE StopCancels(w)
  BY <1>6 DEF StopCancels, TypeRest, StopPhase
<1>7. CASE StopReturns(w)
  <2>1. /\ (stopping \in [Workers -> [phase : StopPhase, finalizing : BOOLEAN,
                                     interrupt : BOOLEAN]])'
        /\ UNCHANGED <<batch, inputs, shutdown>>
    BY <1>7 DEF StopReturns, TypeRest, NotStopping, StopPhase
  <2>2. CASE LaunchDispatch(w)
    BY <2>1, <2>2, LaunchTypes DEF TypeRest
  <2>3. CASE UNCHANGED <<state, pc, turns, dispatches, cancel, noted>>
    BY <2>1, <2>3 DEF TypeRest
  <2> QED
    BY <1>7, <2>2, <2>3 DEF StopReturns
<1> QED
  BY <1>1, <1>2, <1>3, <1>4, <1>5, <1>6, <1>7, <1>8 DEF Callers, StopStep

\* Every step keeps the types.
LEMMA TypePreserved ==
  ASSUME IInv, [Next]_vars
  PROVE  TypeOK'
<1>1. TypeRest
  BY DEF IInv, TypeOK, TypeRest
<1>2. TypeRest'
  <2>1. CASE \E w \in Workers, t \in Tools : ToolTaskStep(w, t)
    <3>1. PICK w \in Workers, t \in Tools : ToolTaskStep(w, t)
      BY <2>1
    <3>2. PICK from \in {"exec", "blocked", "gated", "done"},
               to \in {"exec", "blocked", "gated", "done"},
               of \in Workers : ToolStep(w, t, from, to, of)
      BY <1>1, <3>1 DEF ToolTaskStep, ToolBlocks, ToolUnblocks, ToolPasses,
                        ToolFinishes, TypeRest
    <3> QED
      BY <1>1, <3>2 DEF ToolStep, TypeRest, inputs, control
  <2>2. CASE BeginShutdown \/ EndShutdown \/ Terminated \/ UNCHANGED vars
    BY <1>1, <2>2 DEF BeginShutdown, EndShutdown, Terminated, vars, TypeRest, batch,
                      inputs
  <2> QED
    BY <1>1, <2>1, <2>2, TaskStepTypes, CallersTypes DEF Next
<1>3. SemaphoreOK(slots', Workers) /\ leases' \subseteq Workers
  BY PoolPreserved DEF PoolInv, Pool
<1> QED
  BY <1>2, <1>3 DEF TypeOK, TypeRest, SemaphoreOK
-----------------------------------------------------------------------------
(* The theorems. *)

\* The inductive invariant holds initially.
LEMMA IInvInit == Init => IInv
<1> SUFFICES ASSUME Init PROVE IInv
  OBVIOUS
<1>1. TypeOK
  <2>1. /\ NewSemaphore(MaxExecuting)
             \in [free : Nat, queue : Seq(Workers), granted : SUBSET Workers]
        /\ NotStopping \in [phase : StopPhase, finalizing : BOOLEAN,
                            interrupt : BOOLEAN]
    BY SupervisorAssumption, EmptySeq DEF NewSemaphore, NotStopping, StopPhase
  <2> QED
    BY <2>1 DEF Init, TypeOK, Settled, Places
<1>2. PoolInv
  <2>1. MaxExecuting \in Nat
    BY SupervisorAssumption
  <2>2. /\ SemaphoreOK(slots, Workers) /\ Units(slots) = MaxExecuting
        /\ Waiting(slots) = {} /\ leases = {}
    BY <2>1, NewSemaphoreUnits DEF Init
  <2>3. Cardinality({}) = 0
    BY FS_EmptySet
  <2>4. Prompt(slots)
    BY DEF Init, NewSemaphore, Prompt
  <2>5. Queued(slots) = {}
    BY <2>2 DEF Waiting
  <2> QED
    BY <2>1, <2>2, <2>3, <2>4, <2>5 DEF PoolInv, Pool
<1>3. LeaseIsExecuting /\ GateInv
  BY DEF Init, LeaseIsExecuting, GateInv
<1> QED
  BY <1>1, <1>2, <1>3 DEF IInv

\* Every step keeps the inductive invariant.
LEMMA IInvNext == IInv /\ [Next]_vars => IInv'
BY PoolPreserved, GatePreserved, TypePreserved DEF IInv

\* The inductive invariant holds in every reachable state.
LEMMA IInvAlways == Spec => []IInv
BY IInvInit, IInvNext, PTL DEF Spec

\* The variables keep their types (the state of WorkerManager).
THEOREM TypeCorrect == Spec => []TypeOK
<1>1. IInv => TypeOK
  BY DEF IInv
<1> QED
  BY <1>1, IInvAlways, PTL

\* No unit of the executing semaphore is ever lost or made up (_slots, _leases).
THEOREM SlotsConserved == Spec => []SlotConservation
<1>1. IInv => SlotConservation
  BY DEF IInv, PoolInv, Pool, Units, SlotConservation
<1> QED
  BY <1>1, IInvAlways, PTL

\* Exactly the executing workers hold a lease (_execute, suspend).
THEOREM LeasesExact == Spec => []LeaseIsExecuting
<1>1. IInv => LeaseIsExecuting
  BY DEF IInv
<1> QED
  BY <1>1, IInvAlways, PTL

\* No tool executes while its supervisor has no lease (await_tools).
THEOREM ToolsLeased == Spec => []ToolsRunUnderLease
<1>1. IInv => ToolsRunUnderLease
  BY DEF IInv, GateInv, LeaseIsExecuting, ToolsRunUnderLease, InBatch
<1> QED
  BY <1>1, IInvAlways, PTL

\* A free unit and a waiter never meet without a wake-up on its way (_slots).
THEOREM NoLostWakeup == Spec => []NoIdleSlot
<1>1. IInv => NoIdleSlot
  BY DEF IInv, PoolInv, Pool, NoIdleSlot
<1> QED
  BY <1>1, IInvAlways, PTL
-----------------------------------------------------------------------------
(* Launching: every dispatch is launched where _closed has just been read.  *)

\* Only these calls launch, and none of them once shutdown() has begun.
LEMMA CallersLaunchNothing ==
  ASSUME NEW w \in Workers, shutdown # "no",
         Callers(w) \/ StopStep(w) \/ ShutdownStops(w)
  PROVE  dispatches' = dispatches
<1>1. ~Start(w) /\ ~Send(w) /\ ~ResumeWorker(w) /\ ~Interrupt(w)
  BY DEF Start, Send, ResumeWorker, Interrupt, MayLaunch
<1>2. CASE Stop(w) \/ ShutdownStops(w)
  BY <1>2 DEF Stop, ShutdownStops, BeginStop
<1>3. CASE RootReads(w) \/ StopCancels(w)
  BY <1>3 DEF RootReads, StopCancels
<1>4. CASE StopReturns(w)
  BY <1>4 DEF StopReturns, MayLaunch
<1> QED
  BY <1>1, <1>2, <1>3, <1>4 DEF Callers, StopStep

\* No step of a dispatch's task launches once shutdown() has begun.
LEMMA TaskStepLaunchesNothing ==
  ASSUME NEW w \in Workers, shutdown # "no", TaskStep(w)
  PROVE  dispatches' = dispatches
<1>1. CASE Granted(w) \/ StartHookReturns(w) \/ FinalWake(w) \/ ToolsWake(w)
  BY <1>1 DEF Granted, StartHookReturns, FinalWake, ToolsWake, Acquire, Leased
<1>2. CASE Finished(w)
  BY <1>2 DEF Finished
<1>3. CASE Boundary(w) \/ ModelStep(w) \/ SuspendTools(w) \/ BatchDone(w)
  BY <1>3 DEF Boundary, ModelStep, ModelFails, Continue, Answer, CallTools,
              SuspendTools, BatchDone
<1>4. CASE \/ Cancelled(w) \/ CancelledInBatch(w) \/ Unwound(w)
           \/ EndHookReturns(w) \/ Notified(w)
  BY <1>4 DEF Cancelled, CancelledInBatch, Unwound, EndHookReturns, Notified
<1> QED
  BY <1>1, <1>2, <1>3, <1>4 DEF TaskStep

\* Once shutdown() has begun no dispatch is launched: by a caller, by the
\* relaunch in _finished, or by an interrupt that comes to resume.
THEOREM ClosedForGood == Spec => ClosedLaunchesNothing
<1>1. [Next]_vars => (shutdown # "no" => dispatches' = dispatches)
  <2> SUFFICES ASSUME [Next]_vars, shutdown # "no"
               PROVE  dispatches' = dispatches
    OBVIOUS
  <2>1. CASE \E w \in Workers, t \in Tools : ToolTaskStep(w, t)
    BY <2>1 DEF ToolTaskStep, ToolBlocks, ToolUnblocks, ToolPasses, ToolFinishes,
                ToolStep
  <2>2. CASE BeginShutdown \/ EndShutdown \/ Terminated \/ UNCHANGED vars
    BY <2>2 DEF BeginShutdown, EndShutdown, Terminated, vars
  <2> QED
    BY <2>1, <2>2, CallersLaunchNothing, TaskStepLaunchesNothing DEF Next
<1> QED
  BY <1>1, PTL DEF Spec, ClosedLaunchesNothing
\* Whoever launches a dispatch of w is named by the property, or found w
\* completed, or found it new.
LEMMA LaunchedBy ==
  ASSUME TypeOK, Next, NEW w \in Workers, dispatches'[w] # dispatches[w]
  PROVE  \/ Start(w) \/ ResumeWorker(w) \/ Interrupt(w)
         \/ Send(w) /\ Wakes(w)
         \/ Finished(w) /\ state[w] = "completed"
         \/ StopReturns(w) /\ stopping[w].interrupt
<1>1. dispatches \in [Workers -> Nat]
  BY DEF TypeOK
<1>2. \A v \in Workers : LaunchDispatch(v) => v = w
  BY <1>1 DEF LaunchDispatch
<1>3. PICK v \in Workers : Callers(v) \/ TaskStep(v) \/ StopStep(v) \/ ShutdownStops(v)
  <2>1. ~ \E v \in Workers, t \in Tools : ToolTaskStep(v, t)
    BY DEF ToolTaskStep, ToolBlocks, ToolUnblocks, ToolPasses, ToolFinishes, ToolStep
  <2>2. ~ BeginShutdown /\ ~ EndShutdown /\ ~ Terminated
    BY DEF BeginShutdown, EndShutdown, Terminated, vars
  <2> QED
    BY <2>1, <2>2 DEF Next
<1>4. CASE Callers(v)
  <2>1. ~ Stop(v) /\ ~ RootReads(v)
    BY DEF Stop, BeginStop, RootReads
  <2>2. CASE Start(v) \/ ResumeWorker(v)
    BY <1>2, <2>2 DEF Start, ResumeWorker
  <2>3. CASE Send(v)
    BY <1>2, <2>3 DEF Send
  <2>4. CASE Interrupt(v)
    BY <1>2, <2>4 DEF Interrupt, BeginStop
  <2> QED
    BY <1>4, <2>1, <2>2, <2>3, <2>4 DEF Callers
<1>5. CASE TaskStep(v)
  <2>1. Finished(v)
    BY <1>5 DEF TaskStep, ModelStep, Granted, StartHookReturns, FinalWake, ToolsWake,
                Acquire, Leased, Boundary, ModelFails, Continue, Answer, CallTools,
                SuspendTools, BatchDone, Cancelled, CancelledInBatch, Unwound,
                EndHookReturns, Notified
  <2> QED
    BY <1>2, <2>1 DEF Finished
<1>6. CASE StopStep(v) \/ ShutdownStops(v)
  <2>1. ~ StopCancels(v) /\ ~ ShutdownStops(v)
    BY DEF StopCancels, ShutdownStops, BeginStop
  <2> QED
    BY <1>2, <1>6, <2>1 DEF StopStep, StopReturns
<1> QED
  BY <1>3, <1>4, <1>5, <1>6

\* A stopped worker is launched again only by a resume or by the stop that an
\* interrupting send began, never by a plain message or a follow-up.
THEOREM StoppedForGood == Spec => StoppedStaysStopped
<1>1. TypeOK /\ [Next]_vars =>
        \A w \in Workers :
          /\ state[w] = "stopped" /\ TaskDone(w)
          /\ dispatches'[w] # dispatches[w]
          => ResumeWorker(w) \/ Interrupt(w) \/ stopping[w].interrupt
  <2> SUFFICES ASSUME TypeOK, [Next]_vars, NEW w \in Workers,
                      state[w] = "stopped", dispatches'[w] # dispatches[w]
               PROVE  ResumeWorker(w) \/ Interrupt(w) \/ stopping[w].interrupt
    OBVIOUS
  <2>1. Next
    BY DEF vars
  <2>2. ~ Start(w) /\ ~ Wakes(w)
    BY DEF Start, Wakes
  <2> QED
    BY <2>1, <2>2, LaunchedBy
<1> QED
  BY <1>1, TypeCorrect, PTL DEF Spec, StoppedStaysStopped
-----------------------------------------------------------------------------
(* The life of a dispatch: how a worker looks while its dispatch ends, and  *)
(* once it is over.                                                         *)

Ending == {"end", "notify", "finished"}

\* A dispatch that is ending has its final state, one that is over has left no
\* message behind and no tool, and one that succeeded has recorded its note.
Life(w) ==
  /\ pc[w] \in Ending => state[w] \in Terminal
  /\ pc[w] = "idle" => state[w] \in Settled
  /\ pc[w] = "idle" /\ state[w] = "completed" /\ shutdown = "no" => ~mail[w]
  /\ InBatch(w) \/ pc[w] = "unwind" \/ \A t \in Tools : tool[w][t] = "done"
  /\ shutdown = "down" => TaskDone(w)
  /\ ~EndHook => /\ pc[w] # "end"
                 /\ pc[w] \in {"notify", "finished", "idle"} /\ state[w] = "completed"
                      => w \in noted

LifeInv == \A w \in Workers : Life(w)

\* What a step of w leaves to the other workers.
OthersLive(w) ==
  \A v \in Workers \ {w} :
    /\ state'[v] = state[v] /\ pc'[v] = pc[v] /\ mail'[v] = mail[v]
    /\ tool'[v] = tool[v] /\ (v \in noted' <=> v \in noted)

\* Only w is concerned.
LEMMA LifeOf ==
  ASSUME LifeInv, NEW w \in Workers, OthersLive(w), shutdown' = shutdown, Life(w)'
  PROVE  LifeInv'
<1> SUFFICES ASSUME NEW v \in Workers, v # w
             PROVE  Life(v)'
  BY DEF LifeInv
<1> QED
  BY DEF LifeInv, Life, OthersLive, TaskDone, InBatch

\* A dispatch goes on.
LEMMA WorkLives ==
  ASSUME TypeOK, LifeInv, NEW w \in Workers, UNCHANGED <<shutdown, noted>>,
         ~TaskDone(w) \/ shutdown = "no",
         \A v \in Workers \ {w} :
           /\ state'[v] = state[v] /\ pc'[v] = pc[v] /\ mail'[v] = mail[v]
           /\ tool'[v] = tool[v],
         pc'[w] \notin Ending \cup {"idle"},
         \/ pc'[w] \in {"tools", "toolwait", "toolacq", "unwind"}
         \/ \A t \in Tools : tool'[w][t] = "done"
  PROVE  LifeInv'
<1>1. shutdown' # "down"
  BY DEF LifeInv, Life
<1>2. Life(w)'
  BY <1>1 DEF Life, Ending, InBatch
<1> QED
  BY <1>2, LifeOf DEF OthersLive

\* A dispatch ends.
LEMMA ConcludeLives ==
  ASSUME TypeOK, LifeInv, NEW w \in Workers, NEW final \in Terminal, NEW s, NEW held,
         Conclude(w, final, s, held), ~TaskDone(w), UNCHANGED <<shutdown, mail>>,
         \A v \in Workers \ {w} : tool'[v] = tool[v],
         \A t \in Tools : tool'[w][t] = "done"
  PROVE  LifeInv'
<1>1. /\ pc \in [Workers -> Places] /\ noted \subseteq Workers
      /\ state \in [Workers -> Settled \cup {"queued", "running", "waiting"}]
  BY DEF TypeOK
<1>2. state'[w] = final /\ \A v \in Workers \ {w} : state'[v] = state[v]
  BY <1>1 DEF Conclude
<1>3. /\ pc'[w] \in Ending /\ \A v \in Workers \ {w} : pc'[v] = pc[v]
      /\ ~EndHook => pc'[w] # "end" /\ w \in noted'
      /\ \A v \in Workers \ {w} : v \in noted' <=> v \in noted
  BY <1>1 DEF Conclude, RecordNote, Ending
<1>4. shutdown' # "down"
  BY DEF LifeInv, Life
<1>5. Life(w)'
  BY <1>2, <1>3, <1>4 DEF Life, Ending
<1> QED
  BY <1>2, <1>3, <1>5, LifeOf DEF OthersLive

\* Outside of a batch every tool is done.
LEMMA ToolsDone ==
  ASSUME LifeInv, NEW w \in Workers,
         pc[w] \notin {"tools", "toolwait", "toolacq", "unwind"}
  PROVE  \A t \in Tools : tool[w][t] = "done"
BY DEF LifeInv, Life, InBatch

\* boundary(completing=True) goes on, ends or lends.
LEMMA SettleLives ==
  ASSUME TypeOK, LifeInv, NEW w \in Workers, NEW s, NEW held, Settle(w, s, held),
         ~TaskDone(w), pc[w] \notin {"tools", "toolwait", "toolacq", "unwind"},
         UNCHANGED <<shutdown, tool>>
  PROVE  LifeInv'
<1>1. \A t \in Tools : tool[w][t] = "done"
  BY ToolsDone
<1>2. CASE \E final \in {"failed", "completed"} :
             Conclude(w, final, s, held) /\ UNCHANGED mail
  <2>1. PICK final \in {"failed", "completed"} : Conclude(w, final, s, held) /\ UNCHANGED mail
    BY <1>2
  <2> QED
    BY <1>1, <2>1, ConcludeLives DEF Terminal
<1>3. CASE \E place \in {"boundary", "finalwait"}, st \in {"running", "waiting"}, b \in BOOLEAN :
             /\ pc' = [pc EXCEPT ![w] = place] /\ state' = [state EXCEPT ![w] = st]
             /\ UNCHANGED noted
             /\ mail' = [mail EXCEPT ![w] = b]
  <2>1. pc'[w] \in {"boundary", "finalwait"}
    BY <1>3 DEF TypeOK
  <2>2. \A v \in Workers \ {w} :
           state'[v] = state[v] /\ pc'[v] = pc[v] /\ mail'[v] = mail[v]
    BY <1>3 DEF TypeOK
  <2> QED
    BY <1>1, <1>3, <2>1, <2>2, WorkLives DEF Ending
<1>4. mail = [mail EXCEPT ![w] = mail[w]] /\ mail[w] \in BOOLEAN
  BY DEF TypeOK
<1> QED
  BY <1>2, <1>3, <1>4 DEF Settle

\* A dispatch that has just got a lease.
LEMMA LeasedLives ==
  ASSUME TypeOK, LifeInv, NEW w \in Workers, NEW s, Leased(w, s), ~TaskDone(w)
  PROVE  LifeInv'
<1>1. UNCHANGED <<tool, shutdown>>
  BY DEF Leased, control
<1>2. CASE /\ pc[w] \in {"start", "acquire"}
           /\ pc' = [pc EXCEPT ![w] = "boundary"]
           /\ state' = [state EXCEPT ![w] = "running"]
           /\ UNCHANGED <<mail, noted>>
  <2>1. /\ pc'[w] = "boundary"
        /\ \A v \in Workers \ {w} : state'[v] = state[v] /\ pc'[v] = pc[v]
    BY <1>2 DEF TypeOK
  <2>2. \A t \in Tools : tool[w][t] = "done"
    BY <1>2, ToolsDone
  <2> QED
    BY <1>1, <1>2, <2>1, <2>2, WorkLives DEF Ending
<1>3. CASE /\ pc' = [pc EXCEPT ![w] = "tools"]
           /\ state' = [state EXCEPT ![w] = "running"]
           /\ UNCHANGED <<mail, noted>>
  <2>1. /\ pc'[w] = "tools"
        /\ \A v \in Workers \ {w} : state'[v] = state[v] /\ pc'[v] = pc[v]
    BY <1>3 DEF TypeOK
  <2> QED
    BY <1>1, <1>3, <2>1, WorkLives DEF Ending
<1>4. CASE pc[w] \in {"finalwait", "finalacq"} /\ Settle(w, s, leases \cup {w})
  BY <1>1, <1>4, SettleLives
<1> QED
  BY <1>2, <1>3, <1>4 DEF Leased, inputs

\* acquire(), whether it returns at once or queues.
LEMMA AcquireLives ==
  ASSUME TypeOK, LifeInv, NEW w \in Workers, Acquire(w),
         pc[w] \in {"start", "toolwait", "finalwait"}
  PROVE  LifeInv'
<1>1. CASE Leased(w, Take(slots))
  BY <1>1, LeasedLives DEF TaskDone
<1>2. CASE /\ pc' = [pc EXCEPT ![w] = CASE @ = "start"     -> "acquire"
                                        [] @ = "toolwait"  -> "toolacq"
                                        [] @ = "finalwait" -> "finalacq"]
           /\ UNCHANGED <<state, batch, inputs, noted, control>>
  <2>1. /\ pc'[w] \in {"acquire", "toolacq", "finalacq"}
        /\ pc'[w] = "toolacq" \/ pc[w] # "toolwait"
        /\ \A v \in Workers \ {w} : pc'[v] = pc[v]
    BY <1>2 DEF TypeOK
  <2>2. pc'[w] = "toolacq" \/ \A t \in Tools : tool[w][t] = "done"
    BY <2>1, ToolsDone
  <2> QED
    BY <1>2, <2>1, <2>2, WorkLives DEF TaskDone, Ending, batch, inputs, control
<1> QED
  BY <1>1, <1>2 DEF Acquire

\* A new dispatch.
LEMMA LaunchLives ==
  ASSUME TypeOK, LifeInv, NEW w \in Workers, LaunchDispatch(w), TaskDone(w),
         shutdown = "no", UNCHANGED <<shutdown, tool>>,
         \A v \in Workers \ {w} : mail'[v] = mail[v]
  PROVE  LifeInv'
<1>1. /\ pc'[w] = "start"
      /\ \A v \in Workers \ {w} :
           /\ state'[v] = state[v] /\ pc'[v] = pc[v]
           /\ v \in noted' <=> v \in noted
  BY DEF LaunchDispatch, TypeOK
<1>2. \A t \in Tools : tool[w][t] = "done"
  BY ToolsDone DEF TaskDone
<1>3. Life(w)'
  BY <1>1, <1>2 DEF Life, Ending, TaskDone
<1> QED
  BY <1>1, <1>3, LifeOf DEF OthersLive

\* A worker is marked stopped, its dispatch is left where it is.
LEMMA MarkedLives ==
  ASSUME TypeOK, LifeInv, NEW w \in Workers,
         state' = [state EXCEPT ![w] = "stopped"],
         UNCHANGED <<pc, tool, noted, shutdown>>,
         \A v \in Workers \ {w} : mail'[v] = mail[v]
  PROVE  LifeInv'
<1>1. /\ state'[w] = "stopped"
      /\ \A v \in Workers \ {w} : state'[v] = state[v]
  BY DEF TypeOK
<1>2. Life(w)'
  BY <1>1 DEF LifeInv, Life, InBatch, TaskDone, Settled, Terminal
<1> QED
  BY <1>1, <1>2, LifeOf DEF OthersLive

\* The calls on the manager.
LEMMA CallersLive ==
  ASSUME TypeOK, LifeInv, NEW w \in Workers,
         Callers(w) \/ StopStep(w) \/ ShutdownStops(w)
  PROVE  LifeInv'
<1> USE DEF batch, inputs, control
<1>0. mail \in [Workers -> BOOLEAN]
  BY DEF TypeOK
<1>1. CASE Start(w)
  BY <1>0, <1>1, LaunchLives DEF Start, MayLaunch
<1>2. CASE Send(w)
  <2>1. /\ \A v \in Workers \ {w} : mail'[v] = mail[v]
        /\ shutdown = "no" /\ UNCHANGED <<shutdown, tool>>
    BY <1>0, <1>2 DEF Send
  <2>2. CASE Wakes(w) /\ LaunchDispatch(w)
    BY <2>1, <2>2, LaunchLives DEF Wakes
  <2>3. CASE ~Wakes(w) /\ UNCHANGED <<state, pc, noted>>
    <3>1. Life(w)'
      BY <2>1, <2>3 DEF LifeInv, Life, InBatch, TaskDone, Wakes
    <3> QED
      BY <2>1, <2>3, <3>1, LifeOf DEF OthersLive
  <2> QED
    BY <1>2, <2>2, <2>3 DEF Send
<1>3. CASE ResumeWorker(w)
  <2>1. \A v \in Workers \ {w} : mail'[v] = mail[v]
    BY <1>0, <1>3 DEF ResumeWorker
  <2> QED
    BY <1>3, <2>1, LaunchLives DEF ResumeWorker, MayLaunch
<1>4. CASE Stop(w) \/ ShutdownStops(w)
  BY <1>4, MarkedLives DEF Stop, ShutdownStops, BeginStop
<1>5. CASE Interrupt(w)
  <2>1. \A v \in Workers \ {w} : mail'[v] = mail[v]
    BY <1>0, <1>5 DEF Interrupt
  <2>2. CASE BeginStop(w, TRUE)
    BY <2>1, <2>2, MarkedLives DEF BeginStop
  <2>3. CASE TaskDone(w) /\ LaunchDispatch(w) /\ UNCHANGED <<batch, shutdown>>
    BY <1>5, <2>1, <2>3, LaunchLives DEF Interrupt
  <2> QED
    BY <1>5, <2>2, <2>3 DEF Interrupt
<1>6. CASE RootReads(w) \/ StopCancels(w)
  <2>1. UNCHANGED <<state, pc, mail, tool, noted, shutdown>>
    BY <1>6 DEF RootReads, StopCancels
  <2> QED
    BY <2>1 DEF LifeInv, Life, InBatch, TaskDone
<1>7. CASE StopReturns(w)
  <2>1. CASE MayLaunch(w) /\ LaunchDispatch(w)
    BY <1>7, <2>1, LaunchLives DEF StopReturns, MayLaunch
  <2>2. CASE UNCHANGED <<state, pc, noted>>
    BY <1>7, <2>2 DEF StopReturns, LifeInv, Life, InBatch, TaskDone
  <2> QED
    BY <1>7, <2>1, <2>2 DEF StopReturns
<1> QED
  BY <1>1, <1>2, <1>3, <1>4, <1>5, <1>6, <1>7 DEF Callers, StopStep

\* The steps of the dispatch's task.
LEMMA TaskStepLives ==
  ASSUME TypeOK, LifeInv, NEW w \in Workers, TaskStep(w)
  PROVE  LifeInv'
<1> USE DEF batch, inputs, control
<1>0. /\ pc \in [Workers -> Places] /\ mail \in [Workers -> BOOLEAN]
      /\ tool \in [Workers -> [Tools -> {"exec", "blocked", "gated", "done"}]]
      /\ state \in [Workers -> Settled \cup {"queued", "running", "waiting"}]
      /\ noted \subseteq Workers
  BY DEF TypeOK
<1>1. CASE StartHookReturns(w)
  <2>1. pc[w] = "start" /\ \A t \in Tools : tool[w][t] = "done"
    BY <1>1, ToolsDone DEF StartHookReturns
  <2>2. CASE Acquire(w)
    BY <2>1, <2>2, AcquireLives
  <2>3. CASE Conclude(w, "stopped", slots, leases) /\ UNCHANGED <<tool, mail, shutdown>>
    BY <2>1, <2>3, ConcludeLives DEF TaskDone, Terminal
  <2> QED
    BY <1>1, <2>2, <2>3 DEF StartHookReturns
<1>2. CASE Granted(w)
  BY <1>2, LeasedLives DEF Granted, Acquiring, TaskDone
<1>3. CASE Boundary(w)
  <2>1. /\ pc[w] = "boundary" /\ \A t \in Tools : tool[w][t] = "done"
        /\ UNCHANGED <<tool, shutdown>>
    BY <1>3, ToolsDone DEF Boundary
  <2>2. CASE Conclude(w, "failed", slots, leases) /\ UNCHANGED mail
    BY <2>1, <2>2, ConcludeLives DEF TaskDone, Terminal
  <2>3. CASE /\ mail' = [mail EXCEPT ![w] = FALSE]
             /\ pc' = [pc EXCEPT ![w] = "model"] /\ UNCHANGED <<state, noted>>
    <3>1. /\ pc'[w] = "model"
          /\ \A v \in Workers \ {w} : pc'[v] = pc[v] /\ mail'[v] = mail[v]
      BY <1>0, <2>3
    <3> QED
      BY <2>1, <2>3, <3>1, WorkLives DEF TaskDone, Ending
  <2> QED
    BY <1>3, <2>2, <2>3 DEF Boundary
<1>4. CASE ModelFails(w)
  BY <1>4, ToolsDone, ConcludeLives DEF ModelFails, TaskDone, Terminal
<1>5. CASE Continue(w) \/ BatchDone(w)
  <2>1. /\ pc[w] \in {"model", "tools"} /\ pc'[w] = "boundary"
        /\ \A t \in Tools : tool[w][t] = "done"
        /\ \A v \in Workers \ {w} : pc'[v] = pc[v]
        /\ UNCHANGED <<state, mail, tool, noted, shutdown>>
    BY <1>0, <1>5, ToolsDone DEF Continue, BatchDone, Pending
  <2> QED
    BY <2>1, WorkLives DEF TaskDone, Ending
<1>6. CASE Answer(w)
  <2>1. /\ pc[w] = "model" /\ \A t \in Tools : tool[w][t] = "done"
        /\ UNCHANGED <<tool, shutdown>>
    BY <1>6, ToolsDone DEF Answer
  <2>2. CASE Settle(w, slots, leases)
    BY <2>1, <2>2, SettleLives DEF TaskDone
  <2>3. CASE \E final \in {"failed", "completed"} :
               Conclude(w, final, slots, leases) /\ UNCHANGED mail
    <3>1. PICK final \in {"failed", "completed"} :
            Conclude(w, final, slots, leases) /\ UNCHANGED mail
      BY <2>3
    <3> QED
      BY <2>1, <3>1, ConcludeLives DEF TaskDone, Terminal
  <2> QED
    BY <1>6, <2>2, <2>3 DEF Answer
<1>7. CASE CallTools(w) \/ SuspendTools(w) \/ CancelledInBatch(w)
  <2>1. /\ pc[w] \in {"model", "tools", "toolwait", "toolacq"}
        /\ pc'[w] \in {"tools", "toolwait", "unwind"}
        /\ \A v \in Workers \ {w} :
             state'[v] = state[v] /\ pc'[v] = pc[v] /\ tool'[v] = tool[v]
        /\ UNCHANGED <<mail, noted, shutdown>>
    BY <1>0, <1>7 DEF CallTools, SuspendTools, CancelledInBatch, InBatch
  <2> QED
    BY <2>1, WorkLives DEF TaskDone, Ending
<1>8. CASE FinalWake(w) \/ ToolsWake(w)
  BY <1>8, AcquireLives DEF FinalWake, ToolsWake
<1>9. CASE Cancelled(w)
  BY <1>9, ToolsDone, ConcludeLives DEF Cancelled, Waits, TaskDone, Terminal
<1>10. CASE Unwound(w)
  <2>1. /\ pc[w] = "unwind" /\ UNCHANGED <<mail, shutdown>>
        /\ \A v \in Workers \ {w} : tool'[v] = tool[v]
        /\ \A t \in Tools : tool'[w][t] = "done"
        /\ Conclude(w, "stopped", slots, leases)
    BY <1>0, <1>10 DEF Unwound
  <2> QED
    BY <2>1, ConcludeLives DEF TaskDone, Terminal
<1>11. CASE EndHookReturns(w) \/ Notified(w)
  <2>1. /\ pc[w] \in {"end", "notify"} /\ pc'[w] \in {"notify", "finished"}
        /\ \A v \in Workers \ {w} : pc'[v] = pc[v] /\ (v \in noted' <=> v \in noted)
        /\ noted \subseteq noted' /\ UNCHANGED <<state, mail, tool, shutdown>>
    BY <1>0, <1>11 DEF EndHookReturns, Notified, RecordNote
  <2>2. ~EndHook => pc[w] = "notify"
    BY <2>1 DEF LifeInv, Life
  <2>3. Life(w)'
    BY <2>1, <2>2 DEF LifeInv, Life, Ending, InBatch, TaskDone
  <2> QED
    BY <2>1, <2>3, LifeOf DEF OthersLive
<1>12. CASE Finished(w)
  <2>1. pc[w] = "finished" /\ UNCHANGED <<mail, tool, shutdown>>
    BY <1>12 DEF Finished
  <2>2. CASE shutdown = "no" /\ LaunchDispatch(w)
    BY <2>1, <2>2, LaunchLives DEF TaskDone
  <2>3. CASE /\ ~(shutdown = "no" /\ state[w] = "completed" /\ mail[w])
             /\ pc' = [pc EXCEPT ![w] = "idle"] /\ UNCHANGED <<state, noted>>
    <3>1. pc'[w] = "idle" /\ \A v \in Workers \ {w} : pc'[v] = pc[v]
      BY <1>0, <2>3
    <3>2. Life(w)'
      BY <2>1, <2>3, <3>1 DEF LifeInv, Life, Ending, InBatch, TaskDone, Settled
    <3> QED
      BY <2>1, <2>3, <3>1, <3>2, LifeOf DEF OthersLive
  <2> QED
    BY <1>12, <2>2, <2>3 DEF Finished
<1> QED
  BY <1>1, <1>2, <1>3, <1>4, <1>5, <1>6, <1>7, <1>8, <1>9, <1>10, <1>11, <1>12
  DEF TaskStep, ModelStep

\* Every step keeps the life of every dispatch in order.
LEMMA LifePreserved ==
  ASSUME TypeOK, LifeInv, [Next]_vars
  PROVE  LifeInv'
<1>1. CASE \E w \in Workers, t \in Tools : ToolTaskStep(w, t)
  <2>1. PICK w \in Workers, t \in Tools : ToolTaskStep(w, t)
    BY <1>1
  <2>2. /\ InBatch(w) /\ UNCHANGED <<state, pc, mail, noted, shutdown>>
        /\ \A v \in Workers \ {w} : tool'[v] = tool[v]
    BY <2>1 DEF ToolTaskStep, ToolBlocks, ToolUnblocks, ToolPasses, ToolFinishes,
                ToolStep, inputs, control, TypeOK
  <2> QED
    BY <2>2, WorkLives DEF InBatch, TaskDone, Ending
<1>2. CASE BeginShutdown \/ EndShutdown \/ UNCHANGED vars
  <2>1. UNCHANGED <<state, pc, mail, tool, noted>>
    BY <1>2 DEF BeginShutdown, EndShutdown, vars, batch, inputs
  <2>2. /\ shutdown' = "no" => shutdown = "no"
        /\ shutdown' = "down" => shutdown = "down" \/ \A w \in Workers : TaskDone(w)
    BY <1>2 DEF BeginShutdown, EndShutdown, vars
  <2> QED
    BY <2>1, <2>2 DEF LifeInv, Life, InBatch, TaskDone
<1> QED
  BY <1>1, <1>2, CallersLive, TaskStepLives DEF Next, Terminated

LEMMA LifeAlways == Spec => []LifeInv
<1>1. Init => LifeInv
  BY DEF Init, LifeInv, Life, Ending, Settled
<1>2. TypeOK /\ LifeInv /\ [Next]_vars => LifeInv'
  BY LifePreserved
<1> QED
  BY <1>1, <1>2, TypeCorrect, PTL DEF Spec

\* A worker without a dispatch is never recorded as working (Worker.state).
THEOREM NeverLooksBusy == Spec => []IdleIsSettled
<1>1. LifeInv => IdleIsSettled
  BY DEF LifeInv, Life, IdleIsSettled
<1> QED
  BY <1>1, LifeAlways, PTL

\* No message stays in the inbox of a worker that has completed: the dispatch,
\* its done callback or the sender picks it up (_finished, send).
THEOREM MailIsPickedUp == Spec => []NoStrandedMail
<1>1. LifeInv => NoStrandedMail
  BY DEF LifeInv, Life, NoStrandedMail
<1> QED
  BY <1>1, LifeAlways, PTL

\* Without a SubagentEnd handler a dispatch that reports success has recorded its
\* note; with one it may not have (the hook is awaited before the note).
THEOREM SuccessIsNoted == ~EndHook => (Spec => []CompletionNoted)
<1> SUFFICES ASSUME ~EndHook PROVE Spec => []CompletionNoted
  OBVIOUS
<1>1. LifeInv => CompletionNoted
  BY DEF LifeInv, Life, CompletionNoted
<1> QED
  BY <1>1, LifeAlways, PTL

\* With every lease returned and nobody in acquire() every unit is free.
LEMMA QuietPool ==
  ASSUME PoolInv, leases = {}, \A w \in Workers : pc[w] \notin Acquiring
  PROVE  slots = NewSemaphore(MaxExecuting)
<1>1. /\ SemaphoreOK(slots, Workers) /\ Units(slots) + Cardinality(leases) = MaxExecuting
  BY DEF PoolInv, Pool
<1>2. /\ slots \in [free : Nat, queue : Seq(Workers), granted : SUBSET Workers]
      /\ slots.queue \in Seq(Workers) /\ slots.granted \subseteq Workers /\ slots.free \in Nat
  BY <1>1 DEF SemaphoreOK
<1>3. Waiting(slots) = {}
  <2>1. \A i \in 1 .. Len(slots.queue) : slots.queue[i] \in Workers
    BY <1>2, ElementOfSeq
  <2>2. Waiting(slots) \subseteq Workers
    BY <1>2, <2>1 DEF Waiting, Queued
  <2> QED
    BY <2>2 DEF PoolInv
<1>4. slots.granted = {} /\ slots.queue = <<>>
  <2>1. slots.granted = {} /\ Queued(slots) = {}
    BY <1>3 DEF Waiting
  <2>2. Len(slots.queue) \in Nat
    BY <1>2, LenProperties
  <2>3. Len(slots.queue) = 0
    <3>1. CASE Len(slots.queue) # 0
      <4>1. 1 \in 1 .. Len(slots.queue)
        BY <2>2, <3>1
      <4> QED
        BY <2>1, <4>1 DEF Queued
    <3> QED
      BY <3>1
  <2> QED
    BY <1>2, <2>1, <2>3, EmptySeq
<1>5. slots.free = MaxExecuting
  <2>1. Cardinality({}) = 0
    BY FS_EmptySet
  <2> QED
    BY <1>1, <1>2, <1>4, <2>1, SupervisorAssumption DEF Units
<1> QED
  BY <1>2, <1>4, <1>5 DEF NewSemaphore

\* When shutdown() returns every dispatch is over, every tool has ended and every
\* unit is back, so the session locks may be released.
THEOREM ShutdownIsClean == Spec => []DownIsQuiet
<1>1. IInv /\ LifeInv => DownIsQuiet
  <2> SUFFICES ASSUME IInv, LifeInv, shutdown = "down"
               PROVE  /\ \A w \in Workers : TaskDone(w) /\ \A t \in Tools : tool[w][t] = "done"
                      /\ slots = NewSemaphore(MaxExecuting)
    BY DEF DownIsQuiet
  <2>1. \A w \in Workers : TaskDone(w)
    BY DEF LifeInv, Life
  <2>2. leases = {}
    BY <2>1 DEF IInv, TypeOK, LeaseIsExecuting, TaskDone
  <2>3. \A w \in Workers : pc[w] \notin Acquiring
    BY <2>1 DEF TaskDone, Acquiring
  <2>4. slots = NewSemaphore(MaxExecuting)
    BY <2>2, <2>3, QuietPool DEF IInv
  <2> QED
    BY <2>1, <2>4, ToolsDone DEF TaskDone
<1> QED
  BY <1>1, IInvAlways, LifeAlways, PTL
=============================================================================
