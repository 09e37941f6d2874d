------------------------------- MODULE ChatApp --------------------------------
(***************************************************************************)
(* The chat (tui/app.py) and the part of the agent runner that feeds it    *)
(* (agent/runner.py: the queues).  A line the user enters is guarded by a  *)
(* hook, then starts a turn or waits in one of two queues; the run that is *)
(* live takes it between two model calls, while it waits for workers, or   *)
(* when it ends.  Turns, plan loops, chains and direct worker requests are *)
(* asyncio tasks; an action is the code between two of their awaits.       *)
(***************************************************************************)
EXTENDS Integers, Sequences, FiniteSets

CONSTANTS
  Lines,          \* what the user enters
  AskCalls,       \* ask_user calls of one batch
  QueueLimit,     \* QUEUE_LIMIT
  MaxRuns,        \* bound on the tasks that are live at once
  MaxRounds,      \* bound on the model calls of a task
  NoLine          \* a task that answers no line

VARIABLES
  line,           \* where each line is: [at, queue]
  waiting,        \* _steer_queue, _input_queue
  entered,        \* history: the lines that ever entered each queue, in order
  recorded,       \* the user messages of the session file
  tasks,          \* the live tasks, by slot
  turnTask,       \* _turn_task: its slot, 0 when it is done
  loopTask,       \* _loop_task
  workers,        \* workers_active()
  questions,      \* the ask_user calls
  shownAsk,       \* QuestionPrompt._pending
  quit,           \* _quit
  overlapped      \* history: two tasks have driven the runner at once

chatVars == <<line, waiting, entered, recorded, tasks, turnTask, loopTask, workers,
              questions, shownAsk, quit, overlapped>>

TaskSlots == 1 .. MaxRuns
Queues == {"steer", "input"}

\* A task without a line is told from every line.
ASSUME ChatAssumption == NoLine \notin Lines /\ MaxRuns \in Nat

NoTask == [kind |-> "none"]
Nothing == [q \in Queues |-> <<>>]
Task(kind, l) ==
  [kind |-> kind, phase |-> "boot", line |-> l, rounds |-> 0, got |-> Nothing,
   cancelled |-> FALSE]
Live(s) == tasks[s] # NoTask
TurnRunning == turnTask # 0
LoopRunning == loopTask # 0
Busy == TurnRunning \/ LoopRunning \/ workers
FreeSlots == {s \in TaskSlots : ~Live(s)}
Runners(t) == {s \in TaskSlots : t[s].kind \in {"turn", "loop"}}
InPhase(s, phase) == Live(s) /\ tasks[s].phase = phase
LinesOf(q) == {q[i] : i \in DOMAIN q}
-----------------------------------------------------------------------------
ChatInit ==
  /\ line = [l \in Lines |-> [at |-> "none", queue |-> "input"]]
  /\ waiting = Nothing /\ entered = Nothing /\ recorded = <<>>
  /\ tasks = [s \in TaskSlots |-> NoTask]
  /\ turnTask = 0 /\ loopTask = 0
  /\ workers = FALSE
  /\ questions = [a \in AskCalls |-> "none"] /\ shownAsk = {}
  /\ quit = FALSE /\ overlapped = FALSE

\* The tasks become t.
SetTasks(t) ==
  /\ tasks' = t
  /\ overlapped' = (overlapped \/ Cardinality(Runners(t)) > 1)

Put(l, where) == line' = [line EXCEPT ![l].at = where]

\* A task that becomes _turn_task takes the place of whatever was there.
StartTurn(kind, l) ==
  \E s \in FreeSlots :
    /\ \A r \in FreeSlots : s <= r
    /\ SetTasks([tasks EXCEPT ![s] = Task(kind, l)])
    /\ turnTask' = s

\* _enqueue_or_start: wait while a turn runs, else start one.
EnqueueOrStart(l) ==
  LET q == line[l].queue
  IN \/ /\ TurnRunning
        /\ IF Len(waiting[q]) < QueueLimit
           THEN /\ waiting' = [waiting EXCEPT ![q] = Append(@, l)]
                /\ entered' = [entered EXCEPT ![q] = Append(@, l)]
                /\ Put(l, "queued")
           ELSE Put(l, "refused") /\ UNCHANGED <<waiting, entered>>
        /\ UNCHANGED <<tasks, turnTask, overlapped>>
     \/ /\ ~TurnRunning
        /\ StartTurn("turn", l)
        /\ Put(l, "taken")
        /\ UNCHANGED <<waiting, entered>>
-----------------------------------------------------------------------------
(* The lines. *)

\* Enter or Alt-Enter, _submit up to its first await.  A shell line (!!cmd)
\* and a persona (.name) pass by the test for a loop, a mention (@agent) that
\* meets a turn is a prompt.
Enter ==
  /\ ~quit /\ shownAsk = {}
  /\ \E l \in Lines, q \in Queues, route \in {"prompt", "shell", "mention"} :
       /\ line[l].at = "none"
       /\ line' = [line EXCEPT ![l] =
            [at |-> CASE route = "shell" -> "guard"
                      [] LoopRunning -> "refused"
                      [] route = "mention" /\ ~TurnRunning -> "mention"
                      [] OTHER -> "guard",
             queue |-> q]]
  /\ UNCHANGED <<waiting, entered, recorded, tasks, turnTask, loopTask, workers,
                 questions, shownAsk, quit, overlapped>>

\* The hook answers: _guard_prompt.
Guarded ==
  /\ ~quit
  /\ \E l \in Lines :
       /\ line[l].at = "guard"
       /\ \/ /\ Put(l, "refused")
             /\ UNCHANGED <<waiting, entered, tasks, turnTask, overlapped>>
          \/ EnqueueOrStart(l)
  /\ UNCHANGED <<recorded, loopTask, workers, questions, shownAsk, quit>>

\* The worker a mention asked for has started; a task that waits for it takes
\* the place of the turn.
Mentioned ==
  /\ ~quit
  /\ \E l \in Lines :
       /\ line[l].at = "mention"
       /\ \/ Put(l, "refused") /\ UNCHANGED <<tasks, turnTask, workers, overlapped>>
          \/ Put(l, "given") /\ StartTurn("worker", NoLine) /\ workers' = TRUE
  /\ UNCHANGED <<waiting, entered, recorded, loopTask, questions, shownAsk,
                 quit>>

\* The last active worker ends, or a tool of a run starts one; what a worker
\* leaves for the root wakes it (_wake_for_workers).
WorkersChange ==
  /\ \/ /\ workers /\ workers' = FALSE
        /\ \/ UNCHANGED <<tasks, turnTask, overlapped>>
           \/ ~TurnRunning /\ ~quit /\ StartTurn("turn", NoLine)
     \/ /\ ~workers /\ workers' = TRUE
        /\ \E s \in TaskSlots : InPhase(s, "batch")
        /\ UNCHANGED <<tasks, turnTask, overlapped>>
  /\ UNCHANGED <<line, waiting, entered, recorded, loopTask, questions,
                 shownAsk, quit>>
-----------------------------------------------------------------------------
(* Commands. *)

StartLoop ==
  /\ ~quit /\ ~Busy /\ shownAsk = {}
  /\ \E s \in FreeSlots :
       /\ \A r \in FreeSlots : s <= r
       /\ SetTasks([tasks EXCEPT ![s] = Task("loop", NoLine)])
       /\ loopTask' = s
  /\ UNCHANGED <<line, waiting, entered, recorded, turnTask, workers, questions,
                 shownAsk, quit>>

StartChain ==
  /\ ~quit /\ ~Busy /\ shownAsk = {}
  /\ StartTurn("chain", NoLine)
  /\ UNCHANGED <<line, waiting, entered, recorded, loopTask, workers, questions,
                 shownAsk, quit>>
-----------------------------------------------------------------------------
(* A task ends. *)

\* Its slot is free; _turn_task and _loop_task are done if they were it.
Over(s, t) ==
  /\ SetTasks([t EXCEPT ![s] = NoTask])
  /\ turnTask' = IF turnTask = s THEN 0 ELSE turnTask
  /\ loopTask' = IF loopTask = s THEN 0 ELSE loopTask

\* The end of _run_turn: the head of the queues is the next turn, unless this
\* one was cancelled.
FollowUp(s, w) ==
  \/ /\ w = Nothing
     /\ Over(s, tasks) /\ waiting' = w
     /\ UNCHANGED line
  \/ /\ w # Nothing
     /\ LET q == IF w["steer"] # <<>> THEN "steer" ELSE "input"
        IN /\ waiting' = [w EXCEPT ![q] = Tail(@)]
           /\ SetTasks([tasks EXCEPT ![s] = Task("turn", Head(w[q]))])
           /\ Put(Head(w[q]), "taken")
     /\ turnTask' = s
     /\ UNCHANGED loopTask

\* run() has returned to the task in slot s.  A plan loop goes on with its
\* next iteration until its plan is complete.
RunReturns(s) ==
  \/ /\ tasks[s].kind = "turn" /\ ~quit
     /\ FollowUp(s, waiting)
  \/ /\ tasks[s].kind = "loop"
     /\ \/ Over(s, tasks)
        \/ /\ tasks[s].rounds < MaxRounds
           /\ SetTasks([tasks EXCEPT ![s].phase = "model", ![s].rounds = @ + 1,
                                     ![s].got = Nothing])
           /\ UNCHANGED <<turnTask, loopTask>>
     /\ UNCHANGED <<line, waiting>>
  \/ /\ tasks[s].kind \notin {"turn", "loop"} \/ quit
     /\ Over(s, tasks)
     /\ UNCHANGED <<line, waiting>>
-----------------------------------------------------------------------------
(* The runner. *)

\* A task starts to run: a turn records its prompt first.
Begin(s) ==
  /\ InPhase(s, "boot")
  /\ LET l == tasks[s].line
     IN IF l = NoLine THEN UNCHANGED <<line, recorded>>
        ELSE Put(l, "recorded") /\ recorded' = Append(recorded, l)
  /\ SetTasks([tasks EXCEPT ![s].phase = "model"])
  /\ UNCHANGED <<waiting, entered, turnTask, loopTask, workers, questions,
                 shownAsk, quit>>

\* The model answers with tool calls, ask_user calls among them.
Batch(s) ==
  /\ InPhase(s, "model") /\ tasks[s].kind # "worker"
  /\ tasks[s].rounds < MaxRounds
  /\ \A a \in AskCalls : questions[a] = "none"
  /\ \E called \in SUBSET AskCalls :
       questions' = [a \in AskCalls |-> IF a \in called THEN "called" ELSE "none"]
  /\ SetTasks([tasks EXCEPT ![s].phase = "batch"])
  /\ UNCHANGED <<line, waiting, entered, recorded, turnTask, loopTask, workers,
                 shownAsk, quit>>

DrainedLate(got) ==
  waiting["steer"] \o got["steer"] \o waiting["input"] \o got["input"]

\* _drain_queues: the steer queue first; a prefetched line is the head of its
\* queue.
Drained(got) ==
  got["steer"] \o waiting["steer"] \o got["input"] \o waiting["input"]

RecordAll(ls) ==
  /\ recorded' = recorded \o ls
  /\ line' = [l \in Lines |-> IF l \in LinesOf(ls) THEN [line[l] EXCEPT !.at = "recorded"]
                              ELSE line[l]]

\* The batch is complete: what waits is recorded, then the next request.  The
\* runner of a chain has no queues.
BatchEnds(s) ==
  /\ InPhase(s, "batch")
  /\ \A a \in AskCalls : questions[a] \in {"none", "done"}
  /\ questions' = [a \in AskCalls |-> "none"]
  /\ IF tasks[s].kind = "chain" THEN UNCHANGED <<line, waiting, recorded>>
     ELSE RecordAll(Drained(Nothing)) /\ waiting' = Nothing
  /\ SetTasks([tasks EXCEPT ![s].phase = "model", ![s].rounds = @ + 1])
  /\ UNCHANGED <<entered, turnTask, loopTask, workers, shownAsk, quit>>

\* A final answer: _consume_workers(completing) waits, or this was the last
\* call that was allowed.
FinalAnswer(s) ==
  /\ InPhase(s, "model")
  /\ \/ /\ tasks[s].rounds < MaxRounds /\ tasks[s].kind \in {"turn", "loop"}
        /\ SetTasks([tasks EXCEPT ![s].phase = "final"])
        /\ UNCHANGED <<line, waiting, turnTask, loopTask>>
     \/ /\ tasks[s].rounds >= MaxRounds \/ tasks[s].kind = "chain"
        /\ RunReturns(s)
     \/ tasks[s].kind = "worker" /\ ~workers /\ RunReturns(s)
  /\ UNCHANGED <<entered, recorded, workers, questions, shownAsk, quit>>

FetchPeeks(s, q) ==
  /\ InPhase(s, "final")
  /\ tasks[s].got[q] = <<>> /\ waiting[q] # <<>>
  /\ tasks' = [tasks EXCEPT ![s].got[q] = <<Head(waiting[q])>>]
  /\ UNCHANGED <<line, waiting, entered, recorded, turnTask, loopTask, workers, questions,
                 shownAsk, quit, overlapped>>

\* A getter of a queue obtains its head.
Fetch(s, q) ==
  /\ InPhase(s, "final")
  /\ tasks[s].got[q] = <<>> /\ waiting[q] # <<>>
  /\ tasks' = [tasks EXCEPT ![s].got[q] = <<Head(waiting[q])>>]
  /\ waiting' = [waiting EXCEPT ![q] = Tail(@)]
  /\ UNCHANGED <<line, entered, recorded, turnTask, loopTask, workers, questions,
                 shownAsk, quit, overlapped>>

\* boundary returns: no worker is active, or input is ready.  The getters are
\* cancelled and awaited.
BoundaryReturns(s) ==
  /\ InPhase(s, "final")
  /\ ~workers \/ tasks[s].got # Nothing
  /\ SetTasks([tasks EXCEPT ![s].phase = "gather"])
  /\ UNCHANGED <<line, waiting, entered, recorded, turnTask, loopTask, workers, questions,
                 shownAsk, quit>>

\* "Persist every fetched item before yielding": then the next request, or
\* the run is done, or its cancellation goes on.
Gathered(s) ==
  /\ InPhase(s, "gather")
  /\ LET ls == Drained(tasks[s].got)
     IN \/ /\ ls # <<>> \/ tasks[s].cancelled
           /\ RecordAll(ls) /\ waiting' = Nothing
           /\ IF tasks[s].cancelled THEN Over(s, tasks)
              ELSE /\ SetTasks([tasks EXCEPT ![s].phase = "model", ![s].got = Nothing,
                                             ![s].rounds = @ + 1])
                   /\ UNCHANGED <<turnTask, loopTask>>
        \/ ls = <<>> /\ ~tasks[s].cancelled /\ RunReturns(s) /\ UNCHANGED recorded
  /\ UNCHANGED <<entered, workers, questions, shownAsk, quit>>
-----------------------------------------------------------------------------
(* Ctrl-C. *)

\* Where a cancelled task is suspended decides what is left of it: while it
\* waits for workers it still has to gather its getters; in the gather, what
\* they fetched goes with them; a prompt that was not recorded yet is gone.
CancelAt(s) ==
  \/ /\ InPhase(s, "final")
     /\ SetTasks([tasks EXCEPT ![s].phase = "gather", ![s].cancelled = TRUE])
     /\ UNCHANGED <<line, turnTask, loopTask, questions, shownAsk>>
  \/ /\ Live(s) /\ ~InPhase(s, "final")
     /\ Over(s, tasks)
     /\ LET lost == LinesOf(tasks[s].got["steer"]) \cup LinesOf(tasks[s].got["input"])
                    \cup (IF InPhase(s, "boot") THEN {tasks[s].line} \ {NoLine} ELSE {})
        IN line' = [l \in Lines |-> IF l \in lost THEN [line[l] EXCEPT !.at = "cancelled"]
                                    ELSE line[l]]
     /\ IF InPhase(s, "batch")
        THEN questions' = [a \in AskCalls |-> "none"] /\ shownAsk' = {}
        ELSE UNCHANGED <<questions, shownAsk>>

\* cancel_turn, then cancel_action; a question takes the key first.
CtrlC ==
  /\ ~quit /\ shownAsk = {}
  /\ \/ TurnRunning /\ CancelAt(turnTask)
     \/ ~TurnRunning /\ LoopRunning /\ CancelAt(loopTask)
  /\ UNCHANGED <<waiting, entered, recorded, workers, quit>>

\* /loop stop.
StopLoop ==
  /\ ~quit /\ shownAsk = {}
  /\ LoopRunning /\ CancelAt(loopTask)
  /\ UNCHANGED <<waiting, entered, recorded, workers, quit>>

\* request_quit: the turn is cancelled; queued lines go with the process.
Quit ==
  /\ ~quit /\ quit' = TRUE
  /\ IF TurnRunning THEN CancelAt(turnTask)
     ELSE UNCHANGED <<line, tasks, turnTask, loopTask, questions, shownAsk,
                      overlapped>>
  /\ UNCHANGED <<waiting, entered, recorded, workers>>
-----------------------------------------------------------------------------
(* Questions. *)

\* _request_question: the batch of questions that is shown is replaced.
ShowQuestion(a) ==
  /\ questions[a] = "called"
  /\ questions' = [questions EXCEPT ![a] = "open"]
  /\ shownAsk' = {a}
  /\ UNCHANGED <<line, waiting, entered, recorded, tasks, turnTask, loopTask, workers,
                 quit, overlapped>>

\* The last answer, or ESC: the future of the shown batch is set.
AnswerAsk ==
  /\ ~quit
  /\ \E a \in shownAsk : questions' = [questions EXCEPT ![a] = "answered"]
  /\ shownAsk' = {}
  /\ UNCHANGED <<line, waiting, entered, recorded, tasks, turnTask, loopTask, workers,
                 quit, overlapped>>

\* The call resumes and cancels whatever is shown then: a call whose future
\* is cancelled takes its turn down with it.
AskReturns(a) ==
  /\ questions[a] = "answered"
  /\ IF shownAsk = {}
     THEN /\ questions' = [questions EXCEPT ![a] = "done"]
          /\ UNCHANGED <<line, tasks, turnTask, loopTask, shownAsk, overlapped>>
     ELSE \E s \in TaskSlots : InPhase(s, "batch") /\ CancelAt(s)
  /\ UNCHANGED <<waiting, entered, recorded, workers, quit>>

ChatNext ==
  \/ Enter \/ Guarded \/ Mentioned \/ WorkersChange
  \/ StartLoop \/ StartChain \/ CtrlC \/ StopLoop \/ Quit \/ AnswerAsk
  \/ \E s \in TaskSlots :
       \/ Begin(s) \/ Batch(s) \/ BatchEnds(s) \/ FinalAnswer(s)
       \/ \E q \in Queues : Fetch(s, q)
       \/ BoundaryReturns(s) \/ Gathered(s)
  \/ \E a \in AskCalls : ShowQuestion(a) \/ AskReturns(a)

ChatSpec == ChatInit /\ [][ChatNext]_chatVars
-----------------------------------------------------------------------------
(* Properties. *)

Everywhere ==
  waiting["steer"] \o waiting["input"] \o recorded

Held(s) == tasks[s].got["steer"] \o tasks[s].got["input"]
           \o (IF InPhase(s, "boot") /\ tasks[s].line # NoLine
               THEN <<tasks[s].line>> ELSE <<>>)

\* A line is in one place: no prompt is given to the model twice, however its
\* queue was emptied (between two calls, while a final answer waited, at the
\* end of a turn) and whatever was cancelled.
PromptOnce ==
  /\ \A i, j \in 1 .. Len(Everywhere) : Everywhere[i] = Everywhere[j] => i = j
  /\ \A s \in {r \in TaskSlots : Live(r)} :
       /\ LinesOf(Held(s)) \cap LinesOf(Everywhere) = {}
       /\ \A r \in {x \in TaskSlots : Live(x)} \ {s} : LinesOf(Held(s)) \cap LinesOf(Held(r)) = {}

\* The lines of one queue are recorded in the order in which they entered it,
\* as long as no two tasks have ever driven the runner at once.
QueueOrder ==
  ~overlapped =>
    \A q \in Queues :
      \A i, j \in 1 .. Len(entered[q]) :
        i < j => \A m, n \in 1 .. Len(recorded) :
                   recorded[m] = entered[q][i] /\ recorded[n] = entered[q][j] => m < n

\* A call that asks the user is the one whose questions are shown: its future
\* can still be resolved by a key ("At most one pending question batch; resolved
\* by keypress or cancelled", tui/question.py).  Two calls of one batch break it.
QuestionsAnswerable == \A a \in AskCalls : questions[a] = "open" => shownAsk = {a}
=============================================================================
