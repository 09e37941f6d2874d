------------------------------- MODULE Background -------------------------------
(***************************************************************************)
(* Detached work: BackgroundTaskManager (extras/background.py), the shell  *)
(* commands it runs (_run_shell in agent/tools/bash.py) and the subagents  *)
(* it runs (run_subagent in extras/subagents.py).  A task is an asyncio    *)
(* task; an action is its code, or that of a caller of stop, wait or       *)
(* shutdown, between two suspension points.  A timeout may fire at any     *)
(* time; outputs are abstracted to the memory generation they belong to.   *)
(***************************************************************************)
EXTENDS Naturals, FiniteSets

CONSTANTS
  Shells,         \* tasks that run a shell command
  Agents,         \* tasks that run a subagent
  MaxLive,        \* MAX_LIVE_TASKS
  MaxForgets      \* bound: forgets during the session

BgTasks == Shells \cup Agents

VARIABLES
  where,      \* where the task is suspended
  status,     \* BackgroundTask.status
  group,      \* the living processes of a shell task's process group
  asked,      \* stop_requested
  hit,        \* Task.cancel() was called and is not delivered yet
  ended,      \* why _run_shell or the child's run ended
  cut,        \* the cleanup of _run_shell was cancelled
  born,       \* memory_generation of the record
  memory,     \* the project's memory generation
  queue,      \* _pending: tasks announced and not yet drained
  calls,      \* the stop or wait call in flight on a task
  teardown,   \* the phase of shutdown()
  doomed      \* the tasks that were live when it began

backgroundVars == <<where, status, group, asked, hit, ended, cut, born,
                    memory, queue, calls, teardown, doomed>>
record == <<status, queue>>
process == <<group, ended, cut>>
manager == <<born, memory, calls, teardown, doomed>>

BackgroundInit ==
  /\ where = [t \in BgTasks |-> "none"]
  /\ status = [t \in BgTasks |-> "none"]
  /\ group = [t \in BgTasks |-> {}]
  /\ asked = [t \in BgTasks |-> FALSE]
  /\ hit = [t \in BgTasks |-> FALSE]
  /\ ended = [t \in BgTasks |-> "no"]
  /\ cut = [t \in BgTasks |-> FALSE]
  /\ born = [t \in BgTasks |-> 0]
  /\ memory = 0 /\ queue = {}
  /\ calls = [t \in BgTasks |-> "no"]
  /\ teardown = "no" /\ doomed = {}

Over(t) == where[t] = "over"
Live == {t \in BgTasks : status[t] = "running"}
At(t, place) == where[t] = place /\ ~hit[t]

\* start: refused at the cap, and to a turn that read forgotten messages; not by
\* shutdown(), which a loop or a chain calls while its workers still run.
StartTask(t) ==
  /\ where[t] = "none"
  /\ Cardinality(Live) < MaxLive
  /\ where' = [where EXCEPT ![t] = "created"]
  /\ status' = [status EXCEPT ![t] = "running"]
  /\ born' = [born EXCEPT ![t] = memory]
  /\ UNCHANGED <<asked, hit, process, memory, queue, calls, teardown, doomed>>

\* The end of run(): the status by how the body ended, and the announcement.
Finish(t, how) ==
  /\ where' = [where EXCEPT ![t] = "over"]
  /\ \E final \in CASE how = "cancelled" -> {"stopped"}
                    [] how = "raised"    -> {"failed"}
                    [] how = "returned"  -> IF asked[t] THEN {"stopped"}
                                            ELSE {"done", "failed"} :
       status' = [status EXCEPT ![t] = final]
  /\ queue' = queue \cup {t}

\* The coroutine runs for the first time.
Begin(t) ==
  /\ At(t, "created")
  /\ where' = [where EXCEPT ![t] = IF t \in Shells THEN "spawn" ELSE "starthook"]
  /\ UNCHANGED <<record, asked, hit, process, manager>>

\* A coroutine that is cancelled before it ran never enters its try: no status,
\* no announcement.
NeverBegins(t) ==
  /\ where[t] = "created" /\ hit[t]
  /\ where' = [where EXCEPT ![t] = "over"]
  /\ hit' = [hit EXCEPT ![t] = FALSE]
  /\ UNCHANGED <<record, asked, process, manager>>
-----------------------------------------------------------------------------
(* _run_shell.  The shell may have one child in its group.                  *)

\* What may survive a SIGTERM of the group: any of its processes can ignore it.
TermTree(g) == SUBSET g

\* What may survive a SIGKILL: a child whose fork was under way is missed, as
\* long as there is a shell to fork it.
KillTree(g) == IF "shell" \in g THEN {{}, {"child"}} ELSE {{}}

Spawned(t) ==
  /\ where[t] = "spawn"
  /\ \/ /\ ~hit[t]
        /\ where' = [where EXCEPT ![t] = "read"]
        /\ group' = [group EXCEPT ![t] = {"shell"}]
        /\ UNCHANGED <<record, hit>>
     \/ /\ ~hit[t] /\ Finish(t, "raised") /\ UNCHANGED <<group, hit>>
     \/ /\ hit[t] /\ Finish(t, "cancelled")
        /\ hit' = [hit EXCEPT ![t] = FALSE]
        /\ UNCHANGED group
  /\ UNCHANGED <<asked, ended, cut, manager>>

\* What the processes do by themselves while the task is there to see it.
ProcessStep(t) ==
  /\ ~Over(t)
  /\ \E g \in SUBSET (IF "shell" \in group[t] THEN {"shell", "child"} ELSE group[t]) :
       group' = [group EXCEPT ![t] = g]
  /\ group' # group
  /\ UNCHANGED <<where, record, asked, hit, ended, cut, manager>>

\* End of file, or a deadline, or the cancellation of the task: the last two
\* kill the group.
ReadEnds(t) ==
  /\ where[t] = "read"
  /\ \/ /\ ~hit[t]
        /\ where' = [where EXCEPT ![t] = "reap"]
        /\ ended' = [ended EXCEPT ![t] = "eof"]
        /\ UNCHANGED <<group, hit>>
     \/ /\ where' = [where EXCEPT ![t] = "cleanup"]
        /\ ended' = [ended EXCEPT ![t] = IF hit[t] THEN "aborted" ELSE "timeout"]
        /\ hit' = [hit EXCEPT ![t] = FALSE]
        /\ \E rest \in KillTree(group[t]) : group' = [group EXCEPT ![t] = rest]
  /\ UNCHANGED <<record, asked, cut, manager>>

SweepNothing(t) ==
  /\ where[t] = "cleanup" /\ ~hit[t]
  /\ where' = [where EXCEPT ![t] = "drain"]
  /\ UNCHANGED <<record, asked, hit, process, manager>>

\* The shell is dead: kill the group again, then drain its output.
Sweep(t) ==
  /\ where[t] = "cleanup" /\ ~hit[t]
  /\ "shell" \notin group[t]
  /\ where' = [where EXCEPT ![t] = "drain"]
  /\ \E rest \in KillTree(group[t]) : group' = [group EXCEPT ![t] = rest]
  /\ UNCHANGED <<record, asked, hit, ended, cut, manager>>

\* A cancellation that arrives in the cleanup is suppressed and ends it early.
CleanupEnds(t) ==
  /\ \/ At(t, "drain") /\ UNCHANGED cut
     \/ /\ where[t] \in {"cleanup", "drain"} /\ hit[t]
        /\ cut' = [cut EXCEPT ![t] = TRUE]
  /\ hit' = [hit EXCEPT ![t] = FALSE]
  /\ IF ended[t] = "aborted"
     THEN Finish(t, "cancelled")
     ELSE where' = [where EXCEPT ![t] = "reap"] /\ UNCHANGED record
  /\ UNCHANGED <<asked, group, ended, manager>>

Reap(t) ==
  /\ where[t] = "reap"
  /\ Finish(t, IF hit[t] THEN "cancelled" ELSE "returned")
  /\ hit' = [hit EXCEPT ![t] = FALSE]
  /\ UNCHANGED <<asked, process, manager>>
-----------------------------------------------------------------------------
(* run_subagent: start hook, the child's run, its record, end hook.         *)

StartHook(t) ==
  /\ where[t] = "starthook"
  /\ IF hit[t] THEN Finish(t, "cancelled")
               ELSE where' = [where EXCEPT ![t] = "child"] /\ UNCHANGED record
  /\ hit' = [hit EXCEPT ![t] = FALSE]
  /\ UNCHANGED <<asked, process, manager>>

\* The child's run answers, fails or is cancelled: its record is appended in
\* every case; when that fails there is a usage warning and no end hook.
ChildEnds(t) ==
  /\ where[t] = "child"
  /\ \E how \in IF hit[t] THEN {"aborted"} ELSE {"answer", "timeout"} :
       ended' = [ended EXCEPT ![t] = how]
  /\ hit' = [hit EXCEPT ![t] = FALSE]
  /\ \/ where' = [where EXCEPT ![t] = "endhook"] /\ UNCHANGED record
     \/ Finish(t, "raised")
  /\ UNCHANGED <<asked, group, cut, manager>>

EndHook(t) ==
  /\ where[t] = "endhook"
  /\ Finish(t, IF hit[t] \/ ended[t] = "aborted" THEN "cancelled" ELSE "returned")
  /\ hit' = [hit EXCEPT ![t] = FALSE]
  /\ UNCHANGED <<asked, process, manager>>
-----------------------------------------------------------------------------
(* stop, wait, the notes for the conversation, shutdown.                    *)

\* _require: a task of the current memory generation.
Readable(t) == where[t] # "none" /\ born[t] = memory

\* A running task on which stop or wait may be called; bound: one call at a time.
Callable(t) ==
  /\ Readable(t) /\ status[t] = "running"
  /\ \A u \in BgTasks : calls[u] = "no"

\* _terminate: SIGTERM to the group of a spawned shell, cancel() for an agent.
Terminate(T) ==
  /\ asked' = [t \in BgTasks |-> asked[t] \/ t \in T]
  /\ hit' = [t \in BgTasks |-> hit[t] \/ (t \in T \cap Agents /\ ~Over(t))]
  /\ group' \in {g \in [BgTasks -> SUBSET {"shell", "child"}] :
                   \A t \in BgTasks :
                     g[t] \in IF t \in T THEN TermTree(group[t]) ELSE {group[t]}}

\* _kill: SIGKILL to the group of a spawned shell, cancel() for an agent.
Kill(T) ==
  /\ hit' = [t \in BgTasks |-> hit[t] \/ (t \in T \cap Agents /\ ~Over(t))]
  /\ group' \in {g \in [BgTasks -> SUBSET {"shell", "child"}] :
                   \A t \in BgTasks :
                     g[t] \in IF t \in T THEN KillTree(group[t]) ELSE {group[t]}}

StopTask(t) ==
  /\ Callable(t)
  /\ Terminate({t})
  /\ calls' = [calls EXCEPT ![t] = "grace"]
  /\ UNCHANGED <<where, record, ended, cut, born, memory,
                 teardown, doomed>>

\* The grace of stop() is over and the task is not.
StopKills(t) ==
  /\ calls[t] = "grace" /\ ~Over(t)
  /\ Kill({t})
  /\ calls' = [calls EXCEPT ![t] = "killed"]
  /\ UNCHANGED <<where, record, asked, ended, cut, born, memory,
                 teardown, doomed>>

WaitForTask(t) ==
  /\ Callable(t)
  /\ calls' = [calls EXCEPT ![t] = "wait"]
  /\ UNCHANGED <<where, record, asked, hit, process, born, memory,
                 teardown, doomed>>

\* stop and wait return when the task is over, or when their time is.
CallReturns(t) ==
  /\ \/ calls[t] = "grace" /\ Over(t)
     \/ calls[t] \in {"wait", "killed"}
  /\ calls' = [calls EXCEPT ![t] = "no"]
  /\ UNCHANGED <<where, record, asked, hit, process, born, memory, teardown, doomed>>

\* drain_notifications, by the runner at the start of a turn's request.
DrainNotes ==
  /\ queue # {} /\ queue' = {}
  /\ UNCHANGED <<where, status, asked, hit, process, born, memory, calls,
                 teardown, doomed>>

ForgetSomething ==
  /\ memory < MaxForgets
  /\ memory' = memory + 1
  /\ UNCHANGED <<where, record, asked, hit, process, born, calls,
                 teardown, doomed>>

Shutdown ==
  /\ teardown = "no"
  /\ Terminate(Live)
  /\ doomed' = Live
  /\ teardown' = IF Live = {} THEN "down" ELSE "grace"
  /\ UNCHANGED <<where, record, ended, cut, born, memory,
                 calls>>

Stragglers == {t \in doomed : ~Over(t)}

ShutdownKills ==
  /\ teardown = "grace"
  /\ Kill(Stragglers)
  /\ teardown' = IF Stragglers = {} THEN "down" ELSE "kill"
  /\ UNCHANGED <<where, record, asked, ended, cut, born, memory, calls, doomed>>

ShutdownCancels ==
  /\ teardown = "kill"
  /\ teardown' = "gather"
  /\ hit' = [t \in BgTasks |-> hit[t] \/ t \in Stragglers]
  /\ UNCHANGED <<where, record, asked, process, born, memory, calls, doomed>>

ShutdownReturns ==
  /\ teardown = "gather" /\ Stragglers = {}
  /\ teardown' = "down"
  /\ UNCHANGED <<where, record, asked, hit, process, born, memory,
                 calls, doomed>>
-----------------------------------------------------------------------------
ShellStep(t) ==
  Spawned(t) \/ ReadEnds(t) \/ Sweep(t) \/ CleanupEnds(t) \/ Reap(t)

AgentStep(t) == StartHook(t) \/ ChildEnds(t) \/ EndHook(t)

BodyStep(t) == Begin(t) \/ NeverBegins(t) \/ ShellStep(t) \/ AgentStep(t)

CallStep(t) == StopKills(t) \/ CallReturns(t)

TeardownStep == ShutdownKills \/ ShutdownCancels \/ ShutdownReturns

BackgroundNext ==
  \/ \E t \in BgTasks : \/ StartTask(t) \/ BodyStep(t) \/ ProcessStep(t)
                      \/ StopTask(t) \/ WaitForTask(t) \/ CallStep(t)
  \/ DrainNotes \/ ForgetSomething \/ Shutdown \/ TeardownStep

\* The event loop runs every ready task, and every wait of a body has a timeout.
\* Processes, callers of stop and wait, shutdown() and forgets owe nothing.
BackgroundFairness == \A t \in BgTasks : WF_backgroundVars(BodyStep(t))

BackgroundSpec == BackgroundInit /\ [][BackgroundNext]_backgroundVars /\ BackgroundFairness
-----------------------------------------------------------------------------
\* No process of a group survives a _run_shell that killed it, not even one
\* that was forked while the first signal was delivered, unless a second
\* cancellation cut the cleanup short ("Catch children spawned while the first
\* signal killed the shell").
KilledTreeIsGone ==
  \A t \in Shells :
    /\ ended[t] \in {"timeout", "aborted"} /\ ~cut[t]
    /\ where[t] \in {"drain", "reap", "over"}
    => group[t] = {}

\* Every task ends, whether or not it is stopped and whatever ignores SIGTERM.
EveryTaskEnds == \A t \in BgTasks : where[t] = "created" ~> Over(t)
=============================================================================
