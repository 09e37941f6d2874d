-------------------------- MODULE WorkerSupervisor --------------------------
(***************************************************************************)
(* The scheduling half of WorkerManager (src/lecode/extras/workers.py): a  *)
(* dispatch of a worker is an asyncio task that runs _execute; at most     *)
(* MaxExecuting dispatches hold a lease at a time; a supervisor that only  *)
(* waits for its descendants gives its lease back, and its tools may not   *)
(* go on until it has one again.  asyncio runs one task at a time, so an   *)
(* action is the code between two suspension points.  Message contents,    *)
(* sessions and usage are abstracted: mail[w] says that the durable inbox  *)
(* of w holds an undelivered message, news[w] that a notification is.      *)
(***************************************************************************)
EXTENDS Semaphore

CONSTANTS
  Workers,        \* the workers of one session
  Root,           \* the parent of the top-level workers
  Parent,         \* the tree: [Workers -> Workers \cup {Root}]
  Delegated,      \* workers of origin "delegated"; the others are human-started
  Tools,          \* the tool calls of one model turn
  MaxExecuting,   \* MAX_EXECUTING
  MaxTurns,       \* config.agent.max_turns
  MaxDispatches,  \* bound: dispatches of one worker
  EndHook         \* whether a SubagentEnd handler is configured

ASSUME SupervisorAssumption ==
  /\ Root \notin Workers
  /\ Parent \in [Workers -> Workers \cup {Root}]
  /\ Delegated \subseteq Workers
  /\ IsFiniteSet(Workers)
  /\ MaxExecuting \in Nat \ {0}
  /\ MaxTurns \in Nat \ {0}
  /\ MaxDispatches \in Nat
  /\ EndHook \in BOOLEAN

VARIABLES
  state,       \* Worker.state
  pc,          \* where the dispatch task is suspended; "idle" without one
  turns,       \* model calls of the running dispatch
  dispatches,  \* dispatches launched so far
  cancel,      \* Task.cancel(): "no", "pending" or "raised" in the task
  slots,       \* _slots
  leases,      \* _leases
  tool,        \* what each tool task of the current batch does
  target,      \* the child a waiting tool waits for
  gated,       \* workers whose _tool_gates event is cleared
  mail, news,  \* undelivered inbox messages and notifications
  noted,       \* workers whose last dispatch recorded its completion note
  stopping,    \* the stop() call on w: its phase, what it saw, who follows
  shutdown     \* "no", "closing" (_closed is set) or "down"

vars == <<state, pc, turns, dispatches, cancel, slots, leases, tool, target,
          gated, mail, news, noted, stopping, shutdown>>

batch == <<tool, target, gated>>
inputs == <<mail, news>>
control == <<stopping, shutdown>>

Children(w) == {c \in Workers : Parent[c] = w}

\* is_active: from _launch until the done callback of the dispatch's task.
Active(w) == pc[w] # "idle"

\* descendants(): delegated ones, reached through delegated ones only.
Descendants(w) ==
  LET kids == Children(w) \cap Delegated
  IN kids \cup UNION {Children(c) \cap Delegated : c \in kids}

ActiveDescendants(w) == {d \in Descendants(w) : Active(d)}

Terminal == {"completed", "failed", "stopped"}
Settled == Terminal \cup {"none"}
Places == {"idle", "start", "acquire", "boundary", "model", "tools", "toolwait",
           "toolacq", "finalwait", "finalacq", "unwind", "end", "notify",
           "finished"}
Acquiring == {"acquire", "toolacq", "finalacq"}

Pending(w) == {t \in Tools : tool[w][t] # "done"}
Blocked(w) == {t \in Tools : tool[w][t] = "blocked"}

\* stop() suspends in sleep(0) ("yield"), then until its task ends ("await");
\* "over" once a new dispatch has replaced that task.
StopPhase == {"no", "yield", "await", "over"}
NotStopping == [phase |-> "no", finalizing |-> FALSE, interrupt |-> FALSE]

\* asyncio.Task.done(): the done callback may still be due.
TaskDone(w) == pc[w] \in {"idle", "finished"}

Init ==
  /\ state = [w \in Workers |-> "none"]
  /\ pc = [w \in Workers |-> "idle"]
  /\ turns = [w \in Workers |-> 0]
  /\ dispatches = [w \in Workers |-> 0]
  /\ cancel = [w \in Workers |-> "no"]
  /\ slots = NewSemaphore(MaxExecuting)
  /\ leases = {}
  /\ tool = [w \in Workers |-> [t \in Tools |-> "done"]]
  /\ target = [w \in Workers |-> [t \in Tools |-> w]]
  /\ gated = {}
  /\ mail = [w \in Workers |-> FALSE]
  /\ news = [w \in Workers |-> FALSE]
  /\ noted = {}
  /\ stopping = [w \in Workers |-> NotStopping]
  /\ shutdown = "no"
-----------------------------------------------------------------------------
(* Dispatching: start, send, resume, and the relaunch in the done callback. *)

LaunchDispatch(w) ==
  /\ state' = [state EXCEPT ![w] = "queued"]
  /\ pc' = [pc EXCEPT ![w] = "start"]
  /\ turns' = [turns EXCEPT ![w] = 0]
  /\ dispatches' = [dispatches EXCEPT ![w] = @ + 1]
  /\ cancel' = [cancel EXCEPT ![w] = "no"]
  /\ noted' = noted \ {w}

MayLaunchWhenClosed(w) == TaskDone(w) /\ dispatches[w] < MaxDispatches

MayLaunch(w) == TaskDone(w) /\ shutdown = "no" /\ dispatches[w] < MaxDispatches

\* A stop() that still holds the previous task finds that task done.
StopOutlived(w) ==
  stopping' = [stopping EXCEPT ![w].phase = IF @ = "no" THEN "no" ELSE "over"]

\* The caller of start: a tool of the parent's turn for a delegated worker, the
\* root conversation or its user for the others.
MayBeStarted(w) ==
  LET p == Parent[w]
  IN p # Root => /\ state[p] # "none"
                 /\ w \in Delegated =>
                      pc[p] = "tools" /\ \E t \in Tools : tool[p][t] = "exec"

\* start: a worker enters the tree with its prompt in its inbox.
Start(w) ==
  /\ state[w] = "none"
  /\ MayBeStarted(w)
  /\ MayLaunch(w)
  /\ LaunchDispatch(w)
  /\ mail' = [mail EXCEPT ![w] = TRUE]
  /\ UNCHANGED <<slots, leases, batch, news, control>>

WakesAnySettled(w) == state[w] \in Terminal /\ TaskDone(w)

\* A message wakes a completed worker whose task is over, and no other.
Wakes(w) == state[w] = "completed" /\ TaskDone(w)

\* A note for the parent of w; the root conversation is not modelled.
TellParent(w) == news' = [p \in Workers |-> news[p] \/ Parent[w] = p]

\* send: the message is queued durably before anything else; the parent is told
\* of a message that a human sent.
Send(w) ==
  /\ state[w] # "none"
  /\ shutdown = "no"
  /\ dispatches[w] < MaxDispatches
  /\ mail' = [mail EXCEPT ![w] = TRUE]
  /\ \/ Wakes(w) /\ LaunchDispatch(w) /\ StopOutlived(w)
     \/ ~Wakes(w) /\ UNCHANGED <<state, pc, turns, dispatches, cancel, noted, stopping>>
  /\ UNCHANGED news \/ TellParent(w)
  /\ UNCHANGED <<slots, leases, batch, shutdown>>

\* resume: explicit, from any settled state, with or without a new message.
ResumeWorker(w) ==
  /\ state[w] # "none"
  /\ MayLaunch(w)
  /\ LaunchDispatch(w)
  /\ StopOutlived(w)
  /\ \E text \in BOOLEAN : mail' = [mail EXCEPT ![w] = @ \/ text]
  /\ UNCHANGED <<slots, leases, batch, news, shutdown>>

FinishedForGood(w) ==
  /\ pc[w] = "finished"
  /\ pc' = [pc EXCEPT ![w] = "idle"]
  /\ UNCHANGED <<state, turns, dispatches, cancel, noted, stopping>>
  /\ UNCHANGED <<slots, leases, batch, inputs, shutdown>>

\* _finished: a message that came too late for the dispatch starts another.
Finished(w) ==
  /\ pc[w] = "finished"
  /\ IF shutdown = "no" /\ state[w] = "completed" /\ mail[w]
     THEN LaunchDispatch(w) /\ StopOutlived(w)
     ELSE /\ pc' = [pc EXCEPT ![w] = "idle"]
          /\ UNCHANGED <<state, turns, dispatches, cancel, noted, stopping>>
  /\ UNCHANGED <<slots, leases, batch, inputs, shutdown>>
-----------------------------------------------------------------------------
(* The end of _execute, shared by every way a dispatch ends. *)

RecordNoteIfHeard(w) ==
  /\ noted' = IF \E p \in Workers : Parent[w] = p /\ Active(p)
              THEN noted \cup {w} ELSE noted
  /\ UNCHANGED news

\* _notification: a delegated result becomes news for the parent.
RecordNote(w) ==
  /\ noted' = noted \cup {w}
  /\ IF w \in Delegated THEN TellParent(w) ELSE UNCHANGED news

\* _recipient: notes for an inactive worker go to the root conversation.
RootReads(w) ==
  /\ news[w] /\ ~Active(w)
  /\ news' = [news EXCEPT ![w] = FALSE]
  /\ UNCHANGED <<state, pc, turns, dispatches, cancel, slots, leases, batch,
                 mail, noted, control>>

ReturnedAlways(w, s, held) == Release(s)

\* The finally clause returns a unit only for a lease that is still held.
Returned(w, s, held) == IF w \in held THEN Release(s) ELSE s

\* The state is final, the finally clause returns the lease if there is one,
\* and the SubagentEnd hook is awaited before the completion note is recorded.
\* s and held are the semaphore and the leases when the clause is entered.
Conclude(w, final, s, held) ==
  /\ state' = [state EXCEPT ![w] = final]
  /\ leases' = held \ {w}
  /\ slots' = Returned(w, s, held)
  /\ cancel' = [cancel EXCEPT ![w] = IF @ = "pending" THEN "raised" ELSE @]
  /\ IF EndHook
     THEN pc' = [pc EXCEPT ![w] = "end"] /\ UNCHANGED <<noted, news>>
     ELSE /\ \E next \in {"notify", "finished"} : pc' = [pc EXCEPT ![w] = next]
          /\ RecordNote(w)

EndHookReturns(w) ==
  /\ pc[w] = "end"
  /\ IF cancel[w] = "pending"
     THEN /\ pc' = [pc EXCEPT ![w] = "finished"]
          /\ cancel' = [cancel EXCEPT ![w] = "raised"]
          /\ UNCHANGED <<noted, news>>
     ELSE /\ \E next \in {"notify", "finished"} : pc' = [pc EXCEPT ![w] = next]
          /\ RecordNote(w)
          /\ UNCHANGED cancel
  /\ UNCHANGED <<state, turns, dispatches, slots, leases, batch, mail, control>>

Notified(w) ==
  /\ pc[w] = "notify"
  /\ pc' = [pc EXCEPT ![w] = "finished"]
  /\ UNCHANGED <<state, turns, dispatches, cancel, slots, leases, batch,
                 inputs, noted, control>>
-----------------------------------------------------------------------------
(* Getting a lease: _slots.acquire() in _execute and at the end of suspend. *)

\* boundary(completing=True) with a lease held, after s units and `held`
\* leases: deliver what is pending, else end, else lease the slot to others.
Settle(w, s, held) ==
  \/ /\ shutdown # "no"
     /\ Conclude(w, "failed", s, held)
     /\ UNCHANGED mail
  \/ /\ shutdown = "no"
     /\ mail[w] \/ news[w]
     /\ mail' = [mail EXCEPT ![w] = FALSE]
     /\ news' = [news EXCEPT ![w] = FALSE]
     /\ state' = [state EXCEPT ![w] = "running"]
     /\ pc' = [pc EXCEPT ![w] = "boundary"]
     /\ slots' = s /\ leases' = held
     /\ UNCHANGED <<cancel, noted>>
  \/ /\ shutdown = "no"
     /\ ~mail[w] /\ ~news[w] /\ ActiveDescendants(w) = {}
     /\ Conclude(w, "completed", s, held)
     /\ UNCHANGED mail
  \/ /\ shutdown = "no"
     /\ ~mail[w] /\ ~news[w] /\ ActiveDescendants(w) # {}
     /\ state' = [state EXCEPT ![w] = "waiting"]
     /\ pc' = [pc EXCEPT ![w] = "finalwait"]
     /\ slots' = Release(s) /\ leases' = held \ {w}
     /\ UNCHANGED <<mail, news, cancel, noted>>

\* What w does with its lease, by the place it asked for it from.
Leased(w, s) ==
  /\ \/ /\ pc[w] \in {"start", "acquire"}
        /\ pc' = [pc EXCEPT ![w] = "boundary"]
        /\ state' = [state EXCEPT ![w] = "running"]
        /\ leases' = leases \cup {w} /\ slots' = s
        /\ UNCHANGED <<gated, inputs, cancel, noted>>
     \/ /\ pc[w] \in {"toolwait", "toolacq"}
        /\ pc' = [pc EXCEPT ![w] = "tools"]
        /\ state' = [state EXCEPT ![w] = "running"]
        /\ gated' = gated \ {w}
        /\ leases' = leases \cup {w} /\ slots' = s
        /\ UNCHANGED <<inputs, cancel, noted>>
     \/ /\ pc[w] \in {"finalwait", "finalacq"}
        /\ Settle(w, s, leases \cup {w})
        /\ UNCHANGED gated
  /\ UNCHANGED <<turns, dispatches, tool, target, control>>

AcquireBeyondCap(w) == Leased(w, Take(slots))

Acquire(w) ==
  \/ /\ ~Locked(slots)
     /\ Leased(w, Take(slots))
  \/ /\ Locked(slots)
     /\ slots' = Enqueue(slots, w)
     /\ pc' = [pc EXCEPT ![w] = CASE @ = "start"     -> "acquire"
                                  [] @ = "toolwait"  -> "toolacq"
                                  [] @ = "finalwait" -> "finalacq"]
     /\ UNCHANGED <<state, turns, dispatches, cancel, leases, batch, inputs,
                    noted, control>>

Granted(w) ==
  /\ pc[w] \in Acquiring
  /\ w \in slots.granted
  /\ cancel[w] # "pending"
  /\ Leased(w, Resume(slots, w))

\* The shielded SubagentStart hook ends: a stop that came meanwhile wins.
StartHookReturns(w) ==
  /\ pc[w] = "start"
  /\ \/ /\ cancel[w] # "pending" /\ state[w] # "stopped"
        /\ Acquire(w)
     \/ /\ cancel[w] = "pending" \/ state[w] = "stopped"
        /\ Conclude(w, "stopped", slots, leases)
        /\ UNCHANGED <<turns, dispatches, batch, mail, control>>

FinalWakeUnleased(w) ==
  /\ pc[w] = "finalwait"
  /\ ActiveDescendants(w) = {} \/ mail[w] \/ news[w]
  /\ pc' = [pc EXCEPT ![w] = "boundary"]
  /\ UNCHANGED <<state, turns, dispatches, cancel, slots, leases, batch, inputs,
                 noted, control>>

\* Nothing is left to wait for, or there is something to deliver.
FinalWake(w) ==
  /\ pc[w] = "finalwait"
  /\ cancel[w] # "pending"
  /\ ActiveDescendants(w) = {} \/ mail[w] \/ news[w]
  /\ Acquire(w)
-----------------------------------------------------------------------------
(* The runner loop, as far as the supervisor can tell. *)

\* Between turns: the turn limit, then the inbox.
Boundary(w) ==
  /\ pc[w] = "boundary"
  /\ cancel[w] # "pending"
  /\ \/ /\ turns[w] >= MaxTurns \/ shutdown # "no"
        /\ Conclude(w, "failed", slots, leases)
        /\ UNCHANGED mail
     \/ /\ turns[w] < MaxTurns /\ shutdown = "no"
        /\ mail' = [mail EXCEPT ![w] = FALSE]
        /\ news' = [news EXCEPT ![w] = FALSE]
        /\ pc' = [pc EXCEPT ![w] = "model"]
        /\ UNCHANGED <<state, slots, leases, cancel, noted>>
  /\ UNCHANGED <<turns, dispatches, batch, control>>

\* The provider call fails, or the workspace guard of a resumed worker does.
ModelFails(w) ==
  /\ pc[w] = "model"
  /\ cancel[w] # "pending"
  /\ Conclude(w, "failed", slots, leases)
  /\ UNCHANGED <<turns, dispatches, batch, mail, control>>

\* An empty or truncated answer: the loop goes on without tools.
Continue(w) ==
  /\ pc[w] = "model"
  /\ cancel[w] # "pending"
  /\ turns' = [turns EXCEPT ![w] = @ + 1]
  /\ pc' = [pc EXCEPT ![w] = "boundary"]
  /\ UNCHANGED <<state, dispatches, cancel, slots, leases, batch, inputs,
                 noted, control>>

\* A final text.  On the last turn unfinished business fails the dispatch.
Answer(w) ==
  /\ pc[w] = "model"
  /\ cancel[w] # "pending"
  /\ turns' = [turns EXCEPT ![w] = @ + 1]
  /\ \/ /\ turns'[w] < MaxTurns
        /\ Settle(w, slots, leases)
     \/ /\ turns'[w] >= MaxTurns
        /\ Conclude(w, IF ActiveDescendants(w) # {} \/ mail[w] \/ news[w]
                       THEN "failed" ELSE "completed", slots, leases)
        /\ UNCHANGED mail
  /\ UNCHANGED <<dispatches, batch, control>>

\* _run_tools: every call of the turn becomes a task.  A tool whose target is
\* a child will wait for it; one whose target is w itself is ordinary work.
CallTools(w) ==
  /\ pc[w] = "model"
  /\ cancel[w] # "pending"
  /\ turns' = [turns EXCEPT ![w] = @ + 1]
  /\ pc' = [pc EXCEPT ![w] = "tools"]
  /\ \E calls \in (SUBSET Tools) \ {{}} :
     \E of \in [calls -> Children(w) \cup {w}] :
       /\ tool' = [tool EXCEPT ![w] =
                     [t \in Tools |-> IF t \in calls THEN "exec" ELSE "done"]]
       /\ target' = [target EXCEPT ![w] =
                     [t \in Tools |-> IF t \in calls THEN of[t] ELSE w]]
  /\ UNCHANGED <<state, dispatches, cancel, slots, leases, gated, inputs,
                 noted, control>>
-----------------------------------------------------------------------------
(* await_tools, and the tool tasks it watches. *)

InBatch(w) == pc[w] \in {"tools", "toolwait", "toolacq"}

ToolStep(w, t, from, to, of) ==
  /\ InBatch(w)
  /\ tool[w][t] = from
  /\ tool' = [tool EXCEPT ![w][t] = to]
  /\ target' = [target EXCEPT ![w][t] = of]
  /\ UNCHANGED <<state, pc, turns, dispatches, cancel, slots, leases, gated,
                 inputs, noted, control>>

\* wait(): the tool registers itself as blocked on an active child.
ToolBlocks(w, t) ==
  /\ target[w][t] # w /\ Active(target[w][t])
  /\ ToolStep(w, t, "exec", "blocked", target[w][t])

ToolUnblocksUngated(w, t) ==
  /\ ~Active(target[w][t])
  /\ ToolStep(w, t, "blocked", "exec", w)

\* The child is idle: the tool goes on unless its supervisor has no lease.
ToolUnblocks(w, t) ==
  /\ ~Active(target[w][t])
  /\ ToolStep(w, t, "blocked", IF w \in gated THEN "gated" ELSE "exec", w)

ToolPasses(w, t) ==
  /\ w \notin gated
  /\ ToolStep(w, t, "gated", "exec", w)

ToolFinishes(w, t) ==
  /\ target[w][t] = w \/ ~Active(target[w][t])
  /\ ToolStep(w, t, "exec", "done", w)

SuspendToolsLeased(w) ==
  /\ pc[w] = "tools"
  /\ cancel[w] # "pending"
  /\ Pending(w) # {} /\ Pending(w) \subseteq Blocked(w)
  /\ gated' = gated \cup {w}
  /\ state' = [state EXCEPT ![w] = "waiting"]
  /\ pc' = [pc EXCEPT ![w] = "toolwait"]
  /\ UNCHANGED <<turns, dispatches, cancel, slots, leases, tool, target, inputs,
                 noted, control>>

\* Every unfinished tool is waiting: close the gate and give the lease back.
SuspendTools(w) ==
  /\ pc[w] = "tools"
  /\ cancel[w] # "pending"
  /\ Pending(w) # {} /\ Pending(w) \subseteq Blocked(w)
  /\ gated' = gated \cup {w}
  /\ leases' = leases \ {w}
  /\ slots' = Release(slots)
  /\ state' = [state EXCEPT ![w] = "waiting"]
  /\ pc' = [pc EXCEPT ![w] = "toolwait"]
  /\ UNCHANGED <<turns, dispatches, cancel, tool, target, inputs, noted,
                 control>>

\* Some tool has returned: a lease is needed before the gate opens again.
ToolsWake(w) ==
  /\ pc[w] = "toolwait"
  /\ cancel[w] # "pending"
  /\ Pending(w) = {} \/ ~(Pending(w) \subseteq Blocked(w))
  /\ Acquire(w)

BatchDone(w) ==
  /\ pc[w] = "tools"
  /\ cancel[w] # "pending"
  /\ Pending(w) = {}
  /\ pc' = [pc EXCEPT ![w] = "boundary"]
  /\ UNCHANGED <<state, turns, dispatches, cancel, slots, leases, batch,
                 inputs, noted, control>>
-----------------------------------------------------------------------------
(* Cancellation, stop and shutdown. *)

UnqueuedLeaking(w) == slots

\* A cancelled acquire() leaves the queue and passes a unit it was granted on.
Unqueued(w) == IF pc[w] \in Acquiring THEN Abandon(slots, w) ELSE slots

Waits == {"acquire", "boundary", "model", "finalwait", "finalacq"}

CancelledAsIs(w) ==
  /\ cancel[w] = "pending"
  /\ pc[w] \in Waits
  /\ Conclude(w, state[w], Unqueued(w), leases)
  /\ UNCHANGED <<turns, dispatches, batch, mail, control>>

\* CancelledError is raised where the task is suspended.
Cancelled(w) ==
  /\ cancel[w] = "pending"
  /\ pc[w] \in Waits
  /\ Conclude(w, "stopped", Unqueued(w), leases)
  /\ UNCHANGED <<turns, dispatches, batch, mail, control>>

\* In a batch, _run_tools cancels its tools and gathers them first.
CancelledInBatch(w) ==
  /\ cancel[w] = "pending"
  /\ InBatch(w)
  /\ pc' = [pc EXCEPT ![w] = "unwind"]
  /\ gated' = gated \ {w}
  /\ slots' = Unqueued(w)
  /\ cancel' = [cancel EXCEPT ![w] = "raised"]
  /\ UNCHANGED <<state, turns, dispatches, leases, tool, target, inputs, noted,
                 control>>

Unwound(w) ==
  /\ pc[w] = "unwind"
  /\ tool' = [tool EXCEPT ![w] = [t \in Tools |-> "done"]]
  /\ target' = [target EXCEPT ![w] = [t \in Tools |-> w]]
  /\ Conclude(w, "stopped", slots, leases)
  /\ UNCHANGED <<turns, dispatches, gated, mail, control>>

\* stop: mark the worker, then yield once so that a queued coroutine starts.
BeginStop(w, interrupt) ==
  /\ state[w] # "none"
  /\ stopping[w].phase = "no"
  /\ state' = [state EXCEPT ![w] = "stopped"]
  /\ stopping' = [stopping EXCEPT ![w] =
       IF TaskDone(w) THEN NotStopping
       ELSE [phase |-> "yield", finalizing |-> state[w] \in Terminal,
             interrupt |-> interrupt]]
  /\ UNCHANGED <<pc, turns, dispatches, cancel, slots, leases, batch, news,
                 noted, shutdown>>

Stop(w) ==
  /\ shutdown # "down"
  /\ BeginStop(w, FALSE)
  /\ UNCHANGED mail

\* send(interrupt=True) to an active worker: message, stop, then resume.
Interrupt(w) ==
  /\ shutdown = "no"
  /\ Active(w) /\ dispatches[w] < MaxDispatches
  /\ mail' = [mail EXCEPT ![w] = TRUE]
  /\ \/ ~TaskDone(w) /\ BeginStop(w, TRUE)
     \/ /\ TaskDone(w) /\ LaunchDispatch(w) /\ StopOutlived(w)
        /\ UNCHANGED <<slots, leases, batch, news, shutdown>>

\* The yield is over: a dispatch that was not ending already is cancelled.
StopCancels(w) ==
  /\ stopping[w].phase = "yield"
  /\ stopping' = [stopping EXCEPT ![w].phase = "await"]
  /\ IF ~stopping[w].finalizing /\ cancel[w] = "no" /\ ~TaskDone(w)
     THEN /\ cancel' = [cancel EXCEPT ![w] = "pending"]
          /\ slots' = CancelWaiter(slots, w)
     ELSE UNCHANGED <<cancel, slots>>
  /\ UNCHANGED <<state, pc, turns, dispatches, leases, batch, inputs, noted,
                 shutdown>>

StopReturnsWhenStopped(w) ==
  /\ stopping[w].phase \in {"await", "over"}
  /\ TaskDone(w) /\ state[w] = "stopped"
  /\ stopping' = [stopping EXCEPT ![w] = NotStopping]
  /\ UNCHANGED <<state, pc, turns, dispatches, cancel, noted, slots, leases, batch,
                 inputs, shutdown>>

\* stop returns when the task it saw is done; an interrupt resumes then,
\* which is refused when a follow-up dispatch is already active.
StopReturns(w) ==
  /\ \/ stopping[w].phase = "await" /\ TaskDone(w)
     \/ stopping[w].phase = "over"
  /\ stopping' = [stopping EXCEPT ![w] = NotStopping]
  /\ IF stopping[w].interrupt /\ MayLaunch(w)
     THEN LaunchDispatch(w)
     ELSE UNCHANGED <<state, pc, turns, dispatches, cancel, noted>>
  /\ UNCHANGED <<slots, leases, batch, inputs, shutdown>>

\* shutdown: no dispatch may start, every unfinished one is stopped.
BeginShutdown ==
  /\ shutdown = "no"
  /\ shutdown' = "closing"
  /\ UNCHANGED <<state, pc, turns, dispatches, cancel, slots, leases, batch,
                 inputs, noted, stopping>>

ShutdownStops(w) ==
  /\ shutdown = "closing"
  /\ ~TaskDone(w)
  /\ BeginStop(w, FALSE)
  /\ UNCHANGED mail

\* The session locks of the workers are released last.
EndShutdown ==
  /\ shutdown = "closing"
  /\ \A w \in Workers : TaskDone(w) /\ stopping[w].phase = "no"
  /\ shutdown' = "down"
  /\ UNCHANGED <<state, pc, turns, dispatches, cancel, slots, leases, batch,
                 inputs, noted, stopping>>

Terminated ==
  /\ shutdown = "down"
  /\ \A w \in Workers : pc[w] = "idle"
  /\ UNCHANGED vars
-----------------------------------------------------------------------------
Callers(w) ==
  \/ Start(w) \/ Send(w) \/ ResumeWorker(w) \/ Stop(w) \/ Interrupt(w)
  \/ RootReads(w)

ModelStep(w) == ModelFails(w) \/ Continue(w) \/ Answer(w) \/ CallTools(w)

\* The steps of the dispatch's own task.
TaskStep(w) ==
  \/ StartHookReturns(w) \/ Granted(w) \/ Boundary(w) \/ ModelStep(w)
  \/ FinalWake(w) \/ SuspendTools(w) \/ ToolsWake(w) \/ BatchDone(w)
  \/ Cancelled(w) \/ CancelledInBatch(w) \/ Unwound(w) \/ EndHookReturns(w) \/ Notified(w)
  \/ Finished(w)

ToolTaskStep(w, t) ==
  ToolBlocks(w, t) \/ ToolUnblocks(w, t) \/ ToolPasses(w, t) \/ ToolFinishes(w, t)

StopStep(w) == StopCancels(w) \/ StopReturns(w)

Next ==
  \/ \E w \in Workers :
       Callers(w) \/ TaskStep(w) \/ StopStep(w) \/ ShutdownStops(w)
  \/ \E w \in Workers, t \in Tools : ToolTaskStep(w, t)
  \/ BeginShutdown \/ EndShutdown \/ Terminated

Spec == Init /\ [][Next]_vars

\* The event loop runs every ready task; provider calls, tools and hooks are
\* all bounded by timeouts, so each of them returns.
Fairness ==
  /\ \A w \in Workers :
       WF_vars(TaskStep(w)) /\ WF_vars(StopStep(w)) /\ WF_vars(ShutdownStops(w))
  /\ \A w \in Workers, t \in Tools : WF_vars(ToolTaskStep(w, t))
  /\ WF_vars(EndShutdown)

FairSpec == Spec /\ Fairness
-----------------------------------------------------------------------------
(* Properties. *)

TypeOK ==
  /\ state \in [Workers -> Settled \cup {"queued", "running", "waiting"}]
  /\ pc \in [Workers -> Places]
  /\ turns \in [Workers -> Nat]
  /\ dispatches \in [Workers -> Nat]
  /\ cancel \in [Workers -> {"no", "pending", "raised"}]
  /\ slots \in [free : Nat, queue : Seq(Workers), granted : SUBSET Workers]
  /\ leases \subseteq Workers
  /\ tool \in [Workers -> [Tools -> {"exec", "blocked", "gated", "done"}]]
  /\ target \in [Workers -> [Tools -> Workers]]
  /\ gated \subseteq Workers
  /\ mail \in [Workers -> BOOLEAN]
  /\ news \in [Workers -> BOOLEAN]
  /\ noted \subseteq Workers
  /\ stopping \in [Workers -> [phase : StopPhase, finalizing : BOOLEAN,
                               interrupt : BOOLEAN]]
  /\ shutdown \in {"no", "closing", "down"}

\* Every unit of the semaphore is free, granted to a waiter, or held as a
\* lease, through every suspension, cancellation and failure: at most
\* MaxExecuting workers execute and no unit is ever lost (_slots, _leases).
SlotConservation ==
  slots.free + Cardinality(slots.granted) + Cardinality(leases) = MaxExecuting

\* A worker holds a lease exactly while its dispatch executes: the finally
\* clause of _execute and suspend return it exactly once (_leases).
LeaseIsExecuting ==
  \A w \in Workers :
    /\ pc[w] \in {"boundary", "model", "tools"} => w \in leases
    /\ w \in leases => pc[w] \in {"boundary", "model", "tools", "unwind"}

\* await_tools: "Returning tools cannot execute their post-hooks until leased."
\* A tool that runs does so under the lease of its supervisor.
ToolsRunUnderLease ==
  \A w \in Workers, t \in Tools :
    InBatch(w) /\ tool[w][t] = "exec" => w \in leases

\* No lost wake-up: while someone waits in acquire() a free unit is on its
\* way to a waiter, also when the waiter it was granted to is cancelled.
NoIdleSlot == Prompt(slots)

\* Without a dispatch no worker looks as if it were still working; load()
\* would take such a record for an interrupted run (Worker.state).
IdleIsSettled == \A w \in Workers : pc[w] = "idle" => state[w] \in Settled

\* A message that arrives while a dispatch is completing, too late for its
\* last boundary, is not left behind: _finished or send starts a follow-up.
NoStrandedMail ==
  \A w \in Workers :
    pc[w] = "idle" /\ state[w] = "completed" /\ shutdown = "no" => ~mail[w]

\* A dispatch that reports success has recorded its completion note, from
\* which its parent learns the result (_execute, _notification).
CompletionNoted ==
  \A w \in Workers : pc[w] = "idle" /\ state[w] = "completed" => w \in noted

\* shutdown() returns with every dispatch over, every tool ended and every
\* unit back in the semaphore, so that it may release the session locks.
DownIsQuiet ==
  shutdown = "down" =>
    /\ \A w \in Workers : TaskDone(w) /\ \A t \in Tools : tool[w][t] = "done"
    /\ slots = NewSemaphore(MaxExecuting)

\* Once shutdown() has begun no dispatch is launched any more, whether by a
\* caller, by a relaunch in _finished or by an interrupt that comes to resume.
ClosedLaunchesNothing ==
  [][shutdown # "no" => dispatches' = dispatches]_vars

\* A worker that was stopped stays so until somebody resumes it: a message
\* alone wakes completed workers only, and no follow-up is launched for it.
StoppedStaysStopped ==
  [][\A w \in Workers :
       /\ state[w] = "stopped" /\ TaskDone(w)
       /\ dispatches'[w] # dispatches[w]
       => ResumeWorker(w) \/ Interrupt(w) \/ stopping[w].interrupt]_vars

\* Every dispatch ends, whatever waits for whatever: supervisors that wait
\* for their children lend them their unit (suspend).
EveryDispatchEnds == \A w \in Workers : Active(w) ~> ~Active(w)

\* shutdown() returns.
ShutdownEnds == shutdown = "closing" ~> shutdown = "down"
=============================================================================
