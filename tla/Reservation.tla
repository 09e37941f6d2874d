------------------------------ MODULE Reservation ------------------------------
(***************************************************************************)
(* Who may touch a worker's workspace (extras/workers.py): a maintenance   *)
(* operation of the workers tool (inspect, review, integrate, cleanup,     *)
(* recover) or the reconciliation of a resumed dispatch reserves a subtree *)
(* of workers, while start, send, resume and other tools go on.  A task is *)
(* a tool call of an agent, in the batch it was created with, or a command *)
(* of the human; an action is its code between two awaits.                 *)
(***************************************************************************)
EXTENDS Naturals, FiniteSets

CONSTANTS
  Tree,           \* the workers there are or may be: a function to their parents
  ToolTasks       \* tool calls and commands that may be in flight together

Main == "main"
Human == "human"
TreeWorkers == DOMAIN Tree

VARIABLES
  life,           \* of a worker: absent, idle, queued, resumed, reconciling, running
  reserved,       \* _maintenance: the task or dispatch that holds a subtree's root
  starts,         \* _workspace_starts: children being created under each worker
  owner,          \* _tool_owners: whose batch a task belongs to
  work            \* what a task is doing

reservationVars == <<life, reserved, starts, owner, work>>

Nobody == "nobody"

\* The ids of workers and of tasks differ, and none is one of the names above.
ASSUME TreeAssumption ==
  /\ \A w \in TreeWorkers : Tree[w] \in (TreeWorkers \cup {Main}) \ {w}
  /\ IsFiniteSet(TreeWorkers) /\ IsFiniteSet(ToolTasks)
  /\ ToolTasks \cap TreeWorkers = {}
  /\ {Main, Human, Nobody} \cap (TreeWorkers \cup ToolTasks) = {}

NoWork == [step |-> "none", on |-> Main]

ReservationInit ==
  /\ life \in [TreeWorkers -> {"absent", "idle"}]
  /\ \A w \in TreeWorkers : life[w] # "absent" /\ Tree[w] # Main => life[Tree[w]] # "absent"
  /\ reserved = [w \in TreeWorkers |-> Nobody]
  /\ starts = [w \in TreeWorkers |-> 0]
  /\ owner = [t \in ToolTasks |-> Nobody]
  /\ work = [t \in ToolTasks |-> NoWork]

Exists(w) == life[w] # "absent"
IsActive(w) == life[w] \notin {"absent", "idle"}
Unfinished(t) == work[t].step # "none"

\* The worker itself and what is above it.
Above(w) ==
  LET up[n \in 0..Cardinality(TreeWorkers)] ==
        IF n = 0 THEN {w} ELSE up[n - 1] \cup ({Tree[v] : v \in up[n - 1] \ {Main}} \ {Main})
  IN up[Cardinality(TreeWorkers)]
Below(w) == {v \in TreeWorkers : Exists(v) /\ w \in Above(v)}

AvailableHere(w) == \A v \in {w} \ {Main} : reserved[v] = Nobody

\* _workspace_available.
Available(w) == \A v \in Above(w) \ {Main} : reserved[v] = Nobody

Siblings(t) == {u \in ToolTasks \ {t} : Unfinished(u) /\ owner[u] = owner[t]}
-----------------------------------------------------------------------------
(* Batches.                                                                 *)

\* A call joins the batch of its agent before any call of the batch has run.
CreateTask(t) ==
  /\ ~Unfinished(t)
  /\ \E o \in {Human, Main} \cup {w \in TreeWorkers : life[w] = "running"} :
       /\ o # Human =>
            \A u \in ToolTasks : Unfinished(u) /\ owner[u] = o => work[u].step = "ready"
       /\ owner' = [owner EXCEPT ![t] = o]
  /\ work' = [work EXCEPT ![t] = [step |-> "ready", on |-> Main]]
  /\ UNCHANGED <<life, reserved, starts>>

FinishTask(t) ==
  /\ work' = [work EXCEPT ![t] = NoWork]
  /\ owner' = [owner EXCEPT ![t] = Nobody]

\* Some other tool, or an error before the first await.
OtherTool(t) ==
  /\ work[t].step = "ready"
  /\ FinishTask(t)
  /\ UNCHANGED <<life, reserved, starts>>

\* An agent manages its descendants, the human and the main agent everybody.
Manages(t, w) == Exists(w) /\ (owner[t] \in TreeWorkers => w \in Below(owner[t]) \ {owner[t]})
-----------------------------------------------------------------------------
(* maintain_workspace.                                                      *)

\* An execution that is not the caller's own, a reservation or a start.
Busy(w, excused) ==
  \/ IsActive(w) /\ w # excused
  \/ reserved[w] # Nobody
  \/ starts[w] > 0

Maintain(t) ==
  /\ work[t].step = "ready"
  /\ \E w \in TreeWorkers :
       LET root == IF Tree[w] # Main THEN Tree[w] ELSE w
           excused == IF owner[t] = Tree[w] THEN owner[t] ELSE Nobody
       IN /\ Manages(t, w)
          /\ owner[t] # Human => Siblings(t) = {}
          /\ Available(w)
          /\ \A v \in Below(root) : ~Busy(v, excused)
          /\ reserved' = [reserved EXCEPT ![root] = t]
          /\ work' = [work EXCEPT ![t] = [step |-> "maintaining", on |-> root]]
  /\ UNCHANGED <<life, starts, owner>>

\* Maintenance ends with a result, an error or the cancellation of its task.
MaintenanceEnds(t) ==
  /\ work[t].step = "maintaining"
  /\ reserved' = [reserved EXCEPT ![work[t].on] = Nobody]
  /\ FinishTask(t)
  /\ UNCHANGED <<life, starts>>
-----------------------------------------------------------------------------
(* start, send and resume.                                                  *)

ParentOf(t) == IF owner[t] = Human THEN Main ELSE owner[t]

\* start, up to the await of the worktree's creation.
StartWorker(t) ==
  /\ work[t].step = "ready"
  /\ \E w \in TreeWorkers :
       /\ ~Exists(w) /\ Tree[w] = ParentOf(t)
       /\ \A u \in ToolTasks : ~(work[u].step = "creating" /\ work[u].on = w)
       /\ Available(ParentOf(t))
       /\ starts' = IF ParentOf(t) = Main THEN starts
                    ELSE [starts EXCEPT ![ParentOf(t)] = @ + 1]
       /\ work' = [work EXCEPT ![t] = [step |-> "creating", on |-> w]]
  /\ UNCHANGED <<life, reserved, owner>>

\* The rest of start: the worker is recorded, then launched, which may refuse.
WorkerStarts(t) ==
  /\ work[t].step = "creating"
  /\ LET w == work[t].on IN
       /\ starts' = IF Tree[w] = Main THEN starts ELSE [starts EXCEPT ![Tree[w]] = @ - 1]
       /\ life' = [life EXCEPT ![w] = IF Available(Tree[w]) THEN "queued" ELSE "stranded"]
  /\ FinishTask(t)
  /\ UNCHANGED reserved

StartFails(t) ==
  /\ work[t].step = "creating"
  /\ LET w == work[t].on IN
       starts' = IF Tree[w] = Main THEN starts ELSE [starts EXCEPT ![Tree[w]] = @ - 1]
  /\ FinishTask(t)
  /\ UNCHANGED <<life, reserved>>

\* send to a completed worker and resume: one code path without an await.
WakeWorker(t) ==
  /\ work[t].step = "ready"
  /\ \E w \in TreeWorkers :
       /\ Manages(t, w) /\ life[w] = "idle" /\ Available(w)
       /\ life' = [life EXCEPT ![w] = "resumed"]
  /\ FinishTask(t)
  /\ UNCHANGED <<reserved, starts>>
-----------------------------------------------------------------------------
(* A dispatch.                                                              *)

RunFirst(w) ==
  /\ life[w] = "queued"
  /\ life' = [life EXCEPT ![w] = "running"]
  /\ UNCHANGED <<reserved, starts, owner, work>>

\* A resumed write worker reserves its own subtree and reconciles; the dispatch
\* fails where a descendant is active.
Reconcile(w) ==
  /\ life[w] = "resumed"
  /\ IF Available(w) /\ \A v \in Below(w) : ~Busy(v, w)
     THEN /\ reserved' = [reserved EXCEPT ![w] = w]
          /\ life' = [life EXCEPT ![w] = "reconciling"]
     ELSE /\ life' = [life EXCEPT ![w] = "idle"]
          /\ UNCHANGED reserved
  /\ UNCHANGED <<starts, owner, work>>

Reconciled(w) ==
  /\ life[w] = "reconciling"
  /\ reserved' = [reserved EXCEPT ![w] = Nobody]
  /\ life' \in {[life EXCEPT ![w] = how] : how \in {"running", "idle"}}
  /\ UNCHANGED <<starts, owner, work>>

\* The dispatch ends, or is stopped: its tool calls have ended or unwound.
DispatchEnds(w) ==
  /\ life[w] = "running"
  /\ \A t \in ToolTasks : Unfinished(t) => owner[t] # w
  /\ life' = [life EXCEPT ![w] = "idle"]
  /\ UNCHANGED <<reserved, starts, owner, work>>

TaskStep(t) ==
  \/ CreateTask(t) \/ OtherTool(t) \/ Maintain(t) \/ MaintenanceEnds(t)
  \/ StartWorker(t) \/ WorkerStarts(t) \/ StartFails(t) \/ WakeWorker(t)

ReservationNext ==
  \/ \E t \in ToolTasks : TaskStep(t)
  \/ \E w \in TreeWorkers : RunFirst(w) \/ Reconcile(w) \/ Reconciled(w) \/ DispatchEnds(w)

ReservationSpec == ReservationInit /\ [][ReservationNext]_reservationVars
-----------------------------------------------------------------------------
\* Under a reserved root nobody else runs, is being created or is reserved: the
\* only active workers are the one whose single tool call maintains a child and
\* the one that reconciles itself.
ReservedIsQuiet ==
  \A r \in TreeWorkers : reserved[r] # Nobody =>
    \A v \in Below(r) :
      /\ starts[v] = 0
      /\ v # r => reserved[v] = Nobody
      /\ IsActive(v) => v = r /\ (reserved[r] = r \/ (owner[reserved[r]] = r
                                                      /\ Siblings(reserved[r]) = {}))
=============================================================================
