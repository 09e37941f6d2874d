---------------------------- MODULE WorkerDelivery ----------------------------
(***************************************************************************)
(* What agents tell each other through the session files                   *)
(* (extras/workers.py): the inboxes of workers, the notes of their         *)
(* completion, their questions, and the usage they are billed, across      *)
(* cancellations, crashes and restarts.  One branch: the main agent, its   *)
(* worker and the worker's worker.  An action is code without an await;    *)
(* what it appends is on disk when it ends, or a prefix of it when the     *)
(* process dies inside.                                                    *)
(***************************************************************************)
EXTENDS Integers, Sequences

CONSTANTS
  MaxSends,       \* bound: messages put into inboxes
  MaxDispatches,  \* bound: dispatches of each worker
  MaxCrashes,      \* bound: crashes of the process
  MaxBill         \* bound: what the workers are billed together

Branch == <<"main", "lead", "hand">>
Agent == {"main", "lead", "hand"}
Delegates == {"lead", "hand"}
Supervisor == [w \in Delegates |-> IF w = "lead" THEN "main" ELSE "lead"]

VARIABLES
  mode,           \* of a delegate: absent, idle, running or ending
  dispatch,       \* how often it was dispatched
  mail,           \* worker_inbox: its messages
  notes,          \* worker_notification: completions and questions
  shown,          \* the messages and notes in each agent's transcript
  repeated,       \* those that were appended although some transcript had them
  calling,        \* the tool call an agent has outstanding, "none" for none
  result,         \* _wait_results: the note a finished wait is about to deliver
  total,          \* usage_totals, checkpointed with every answer
  ledger,         \* the worker_usage records of the root session
  up,             \* the process runs
  crashes, sent    \* bounds

deliveryVars == <<mode, dispatch, mail, notes, shown, repeated, calling, result, total,
                  ledger, up, crashes, sent>>
told == <<mail, notes, shown, repeated>>
usage == <<total, ledger>>
deliveryBounds == <<up, crashes, sent>>

NoNote == [kind |-> "none", of |-> "none", n |-> 0]

DeliveryInit ==
  /\ mode = [w \in Delegates |-> "absent"]
  /\ dispatch = [w \in Delegates |-> 0]
  /\ mail = [w \in Delegates |-> {}]
  /\ notes = {} /\ repeated = {}
  /\ shown = [a \in Agent |-> {}]
  /\ calling = [a \in Agent |-> "none"]
  /\ result = [a \in Agent |-> NoNote]
  /\ total = [w \in Delegates |-> 0]
  /\ ledger = [w \in Delegates |-> <<>>]
  /\ up = TRUE /\ crashes = 0 /\ sent = 0

\* is_active, and an agent that is executing.
Occupied(w) == mode[w] \in {"running", "ending"}
Runs(a) == up /\ a \in {"main"} \cup {w \in Delegates : mode[w] = "running"}

\* questions: those of a worker that no inbox message was queued after.
Questions(w) ==
  {q \in notes : q.kind = "question" /\ q.of = w /\ \A item \in mail[w] : q \notin item.answers}

\* _recipient: the nearest supervisor that is active.
Recipient(note) ==
  IF Supervisor[note.of] = "main" \/ Occupied(Supervisor[note.of])
  THEN Supervisor[note.of] ELSE "main"

ShownAnywhere == UNION {shown[a] : a \in Agent}

PendingHere(a) ==
  {note \in notes : Recipient(note) = a /\ note \notin shown[a]}

\* pending_notifications: the message decides, never the acknowledgement.  A
\* question is for each recipient it gets as long as nobody answered.
PendingNotes(a) ==
  {note \in notes :
     /\ Recipient(note) = a
     /\ IF note.kind = "question"
        THEN note \in Questions(note.of) /\ note \notin shown[a]
        ELSE note \notin ShownAnywhere}

PendingFor(a) == (IF a = "main" THEN {} ELSE mail[a] \ shown[a]) \cup PendingNotes(a)

\* Items are appended to a transcript.
Show(a, items) ==
  /\ shown' = [shown EXCEPT ![a] = @ \cup items]
  /\ repeated' = repeated \cup
       {item \in items : item.kind # "question" /\ item \in ShownAnywhere}
-----------------------------------------------------------------------------
\* _enqueue: a message answers every question its worker has open.
Mail(w) ==
  /\ sent' = sent + 1
  /\ mail' = [mail EXCEPT ![w] =
                @ \cup {[kind |-> "mail", of |-> w, n |-> sent', answers |-> Questions(w)]}]

\* start, resume, a follow-up, or a send that finds its worker completed.
Run(w) ==
  /\ dispatch[w] < MaxDispatches
  /\ dispatch' = [dispatch EXCEPT ![w] = @ + 1]
  /\ mode' = [mode EXCEPT ![w] = "running"]

\* task: a child, awaited by the tool call in the foreground.
Delegate(a, foreground) ==
  /\ Runs(a) /\ calling[a] = "none"
  /\ \E w \in Delegates :
       /\ Supervisor[w] = a /\ mode[w] = "absent" /\ sent < MaxSends
       /\ Run(w) /\ Mail(w)
       /\ calling' = [calling EXCEPT ![a] = IF foreground THEN w ELSE "none"]
  /\ UNCHANGED <<notes, shown, repeated, result, usage, up, crashes>>

\* workers send, /agent send: to an idle worker it is also a dispatch.
SendMail(w) ==
  /\ up /\ mode[w] # "absent" /\ sent < MaxSends
  /\ Mail(w)
  /\ IF mode[w] = "idle" THEN Run(w) ELSE UNCHANGED <<mode, dispatch>>
  /\ UNCHANGED <<notes, shown, repeated, calling, result, usage, up, crashes>>

\* resume pairs the calls an interrupted run left outstanding.
ResumeDelegate(w) ==
  /\ up /\ mode[w] = "idle"
  /\ Run(w)
  /\ calling' = [calling EXCEPT ![w] = "none"]
  /\ result' = [result EXCEPT ![w] = NoNote]
  /\ UNCHANGED <<told, usage, deliveryBounds>>

\* The root repairs its own at the start of a run.
RepairMain ==
  /\ up /\ calling["main"] = "lost"
  /\ calling' = [calling EXCEPT !["main"] = "none"]
  /\ UNCHANGED <<mode, dispatch, told, result, usage, deliveryBounds>>

\* ask_parent, inside a tool call.
AskParent(w) ==
  /\ Runs(w) /\ calling[w] = "none"
  /\ ~\E note \in notes : note.kind = "question"
  /\ calling' = [calling EXCEPT ![w] = "tool"]
  /\ notes' = notes \cup {[kind |-> "question", of |-> w, n |-> dispatch[w]]}
  /\ UNCHANGED <<mode, dispatch, mail, shown, repeated, result, usage,
                 deliveryBounds>>

\* wait: the child has ended, or somebody asks its supervisor a question.
WaitReturns(a) ==
  /\ Runs(a) /\ calling[a] \in Delegates
  /\ LET w == calling[a] IN
       \/ /\ ~Occupied(w)
          /\ result' = [result EXCEPT ![a] = [kind |-> "done", of |-> w, n |-> dispatch[w]]]
       \/ /\ Occupied(w)
          /\ \E note \in PendingNotes(a) : note.kind = "question"
          /\ UNCHANGED result
  /\ calling' = [calling EXCEPT ![a] = "tool"]
  /\ UNCHANGED <<mode, dispatch, told, usage, deliveryBounds>>

\* The result is persisted; that of a wait delivers the note.
PersistResult(a) ==
  /\ Runs(a) /\ calling[a] = "tool"
  /\ calling' = [calling EXCEPT ![a] = "none"]
  /\ Show(a, {result[a]} \ {NoNote})
  /\ result' = [result EXCEPT ![a] = NoNote]
  /\ UNCHANGED <<mode, dispatch, mail, notes, usage, deliveryBounds>>

\* consume at a boundary: whatever is pending.  (The acknowledgement it writes
\* after a note is read by nobody.)
Consume(a) ==
  /\ Runs(a) /\ calling[a] = "none"
  /\ PendingFor(a) # {}
  /\ Show(a, PendingFor(a))
  /\ UNCHANGED <<mode, dispatch, mail, notes, calling, result, usage,
                 deliveryBounds>>

Sum(costs) ==
  LET upTo[n \in 0 .. Len(costs)] == IF n = 0 THEN 0 ELSE upTo[n - 1] + costs[n]
  IN  upTo[Len(costs)]

\* An answer of the model is billed and checkpointed.
Bill(w) ==
  /\ Runs(w) /\ calling[w] = "none" /\ total["lead"] + total["hand"] < MaxBill
  /\ total' = [total EXCEPT ![w] = @ + 1]
  /\ UNCHANGED <<mode, dispatch, told, calling, result, ledger, deliveryBounds>>

RecordTotals(L, T, w) == Append(L[w], T[w])

\* _record_usage: what the ledger of the root does not hold yet.
RecordUsage(L, T, w) == IF T[w] = Sum(L[w]) THEN L[w] ELSE Append(L[w], T[w] - Sum(L[w]))

\* The run of a dispatch ends: an answer that no descendant or input holds up, or
\* a stop or failure at any time, whose outstanding calls are interrupted but
\* whose finished ones are persisted.
EndRun(w) ==
  /\ Runs(w)
  /\ \/ /\ calling[w] = "none" /\ PendingFor(w) = {} /\ Questions(w) = {}
        /\ \A v \in Delegates : Supervisor[v] = w => ~Occupied(v)
        /\ UNCHANGED <<shown, repeated>>
     \/ \E persisted \in {{}, {result[w]} \ {NoNote}} : Show(w, persisted)
  /\ mode' = [mode EXCEPT ![w] = "ending"]
  /\ calling' = [calling EXCEPT ![w] = "none"]
  /\ result' = [result EXCEPT ![w] = NoNote]
  /\ ledger' = [ledger EXCEPT ![w] = RecordUsage(ledger, total, w)]
  /\ UNCHANGED <<dispatch, mail, notes, total, deliveryBounds>>

\* After the end hook: the note, once per dispatch, then the dispatch is over.
NoteCompletion(w) ==
  /\ up /\ mode[w] = "ending"
  /\ notes' = notes \cup {[kind |-> "done", of |-> w, n |-> dispatch[w]]}
  /\ mode' = [mode EXCEPT ![w] = "idle"]
  /\ UNCHANGED <<dispatch, mail, shown, repeated, calling, result, usage,
                 deliveryBounds>>
-----------------------------------------------------------------------------
Die ==
  /\ up' = FALSE
  /\ crashes < MaxCrashes /\ crashes' = crashes + 1
  /\ calling' = [a \in Agent |-> IF calling[a] = "none" THEN "none" ELSE "lost"]
  /\ result' = [a \in Agent |-> NoNote]
  /\ UNCHANGED <<dispatch, mail, notes, usage, sent>>

ProcessStops == up /\ Die /\ UNCHANGED <<mode, shown, repeated>>

\* The process dies in consume: a part was appended.
DiesInConsume(a) ==
  /\ Runs(a) /\ calling[a] = "none"
  /\ \E part \in SUBSET PendingFor(a) : part # {} /\ Show(a, part)
  /\ Die /\ UNCHANGED mode

\* load: what was active is interrupted, and usage that was checkpointed only is
\* recorded.
Load ==
  /\ ~up /\ up' = TRUE
  /\ mode' = [w \in Delegates |-> IF mode[w] = "absent" THEN "absent" ELSE "idle"]
  /\ ledger' = [w \in Delegates |-> RecordUsage(ledger, total, w)]
  /\ UNCHANGED <<dispatch, told, calling, result, total, crashes, sent>>

DeliveryNext ==
  \/ \E a \in Agent :
       \/ \E foreground \in BOOLEAN : Delegate(a, foreground)
       \/ WaitReturns(a) \/ PersistResult(a) \/ Consume(a) \/ DiesInConsume(a)
  \/ \E w \in Delegates :
       SendMail(w) \/ ResumeDelegate(w) \/ AskParent(w) \/ Bill(w) \/ EndRun(w)
       \/ NoteCompletion(w)
  \/ RepairMain \/ ProcessStops \/ Load

DeliverySpec == DeliveryInit /\ [][DeliveryNext]_deliveryVars
-----------------------------------------------------------------------------
\* A message or the note of a completion enters one transcript, once, however
\* consumption, tool results, stops, crashes and changing recipients interleave.
DeliveredOnce == repeated = {}

\* The root ledger holds exactly what a worker that does not run was billed, no
\* dispatch, crash or restart counted twice or dropped.
LedgerIsExact ==
  \A w \in Delegates :
    /\ Sum(ledger[w]) <= total[w]
    /\ up /\ mode[w] \in {"idle", "ending"} => Sum(ledger[w]) = total[w]
=============================================================================
