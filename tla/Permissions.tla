------------------------------ MODULE Permissions ------------------------------
(***************************************************************************)
(* The way of a tool call from the model to its execution: the permission  *)
(* checker (permission/checker.py), the registry that dispatches the call  *)
(* (agent/tools/base.py), the lifecycle hooks around it (hooks/) and the   *)
(* approval prompt shared by the main turn and its workers                 *)
(* (tui/permission.py, tui/app.py).  A slot is one of the calls an agent   *)
(* may have in flight; an action is its code between two suspension        *)
(* points.  What a call would do is a member of Commands; observational    *)
(* hooks change nothing and are left out.                                  *)
(***************************************************************************)
EXTENDS Naturals, Sequences, SequencesExt

CONSTANTS
  MainSlots,      \* calls of the main agent that may be in flight together
  WorkerSlots,    \* calls of its worker
  Commands,       \* what a call may be about, its canonical arguments
  Reads,          \* the commands of the read class
  Denied,         \* matched by a deny rule of the configuration
  Asked           \* matched by an ask rule of the configuration

ASSUME PolicyAssumption ==
  Reads \cup Denied \cup Asked \subseteq Commands \ {"no command"}

CallSlots == MainSlots \cup WorkerSlots
Callers == {"main", "worker"}
CallerOf(c) == IF c \in MainSlots THEN "main" ELSE "worker"
NoCommand == "no command"

VARIABLES
  gate,       \* where the call is suspended
  args,       \* the arguments it is about to run with
  cleared,    \* history: the commands that policy or a human let the call run
  answers,    \* the decision set on the future of its approval
  prompts,    \* the FIFO of the approval prompt: slots
  grants,     \* SessionPermissions of each agent
  doom,       \* its _DoomTracker: the last command and how often in a row
  permissionMode,  \* mode of the base checker
  setting     \* fixed: the worker's overlay, copied mode and read_only, and
              \* who answers an Ask

gateVars == <<gate, args, cleared, answers, prompts, grants, doom,
              permissionMode, setting>>

Modes == {"yolo", "readonly"}

\* The mode a worker copied when it was derived, its read_only flag and the
\* commands its overlay allows: a free one, a read-only one whose overlay tries
\* to allow everything, and one derived in readonly mode.
WorkerPolicies ==
  {<<"yolo", FALSE, {}>>, <<"yolo", TRUE, Commands>>, <<"readonly", FALSE, Commands>>}

PermissionsInit ==
  /\ gate = [c \in CallSlots |-> "idle"]
  /\ args = [c \in CallSlots |-> NoCommand]
  /\ cleared = [c \in CallSlots |-> {}]
  /\ answers = [c \in CallSlots |-> "none"]
  /\ prompts = <<>>
  /\ grants = [a \in Callers |-> {}]
  /\ doom = [a \in Callers |-> [last |-> NoCommand, count |-> 0]]
  /\ permissionMode \in Modes
  /\ setting \in {[copied |-> w[1], readonly |-> w[2], overlay |-> w[3], approver |-> p] :
                   w \in WorkerPolicies, p \in {"user", "auto", "nobody"}}
-----------------------------------------------------------------------------
(* The checker.                                                             *)

Severity == [allow |-> 0, ask |-> 1, deny |-> 2]
Strictest(verdicts) ==
  CHOOSE v \in verdicts : \A u \in verdicts : Severity[u] <= Severity[v]

\* _base_decision: deny rules, read-only, the overlay's own rules, the global
\* rules, the grants of the session, the mode.
BaseDecision(cmd, fallback, readonly, extra, granted) ==
  CASE cmd \in Denied                          -> "deny"
    [] cmd \notin Denied /\ readonly /\ cmd \notin Reads -> "deny"
    [] OTHER -> IF cmd \in extra THEN "allow"
                ELSE IF cmd \in Asked THEN "ask"
                ELSE IF cmd \in granted \cup Reads \/ fallback = "yolo" THEN "allow"
                ELSE "deny"

MainPolicy(cmd) == BaseDecision(cmd, permissionMode, FALSE, {}, grants["main"])

\* A child is capped by its own two layers and by every ancestor.
PolicyDecision(a, cmd) ==
  IF a = "main" THEN MainPolicy(cmd)
  ELSE Strictest({MainPolicy(cmd)} \cup
         {BaseDecision(cmd, setting.copied, setting.readonly, extra, grants[a]) :
            extra \in {{}, setting.overlay}})

\* From the fourth identical call on the count makes no difference.
DoomAfter(a, cmd) ==
  [last |-> cmd,
   count |-> IF doom[a].last # cmd THEN 1
             ELSE IF doom[a].count = 4 THEN 4 ELSE doom[a].count + 1]

\* The third identical call asks, the fourth is denied.
ApplyDoomLoop(n, decision) ==
  IF n >= 4 THEN "deny"
  ELSE IF n >= 3 /\ decision = "allow" THEN "ask" ELSE decision

CheckOf(a, cmd) == ApplyDoomLoop(DoomAfter(a, cmd).count, PolicyDecision(a, cmd))
-----------------------------------------------------------------------------
(* The hooks: handlers run one after another, the most severe verdict and   *)
(* the rewrite of the most severe handler that gave one win.                *)

HookSeverity == [allow |-> 0, defer |-> 1, ask |-> 2, deny |-> 3]

\* A handler that fails, times out or prints garbage denies; one that prints
\* nothing abstains.
HandlerAnswers ==
  [verdict : DOMAIN HookSeverity, rewrite : Commands \cup {NoCommand}, matched : {TRUE}]
  \cup [verdict : {"allow"}, rewrite : {NoCommand}, matched : {FALSE}]

MergeVerdicts(results) ==
  LET Add(merged, r) ==
        IF ~r.matched THEN merged
        ELSE LET s == HookSeverity[r.verdict] IN
             [verdict |-> IF s > HookSeverity[merged.verdict] THEN r.verdict
                          ELSE merged.verdict,
              rewrite |-> IF r.rewrite # NoCommand /\ s >= merged.rank
                          THEN r.rewrite ELSE merged.rewrite,
              rank |-> IF r.rewrite # NoCommand /\ s >= merged.rank
                       THEN s + 1 ELSE merged.rank]
  IN FoldLeft(Add, [verdict |-> "allow", rewrite |-> NoCommand, rank |-> 0], results)

\* What PreToolUse may answer, with at most two handlers.
PreToolUse ==
  {[verdict |-> m.verdict, rewrite |-> m.rewrite] :
     m \in {MergeVerdicts(<<r, s>>) : r, s \in HandlerAnswers}}
-----------------------------------------------------------------------------
(* A call.                                                                  *)

MoveTo(c, place) == gate' = [gate EXCEPT ![c] = place]
Leave(c) ==
  /\ MoveTo(c, "idle")
  /\ args' = [args EXCEPT ![c] = NoCommand]
  /\ cleared' = [cleared EXCEPT ![c] = {}]
  /\ answers' = [answers EXCEPT ![c] = "none"]

\* authorize_tool, up to the await of the approval.
Authorize(c, cmd, verdict, asking, next) ==
  IF verdict = "deny" \/ (verdict = "ask" /\ setting.approver = "nobody")
  THEN Leave(c) /\ UNCHANGED prompts
  ELSE /\ args' = [args EXCEPT ![c] = cmd]
       /\ UNCHANGED answers
       /\ IF verdict = "ask" /\ setting.approver = "user"
          THEN /\ MoveTo(c, asking)
               /\ prompts' = Append(prompts, c)
               /\ UNCHANGED cleared
          ELSE /\ MoveTo(c, next)
               /\ cleared' = [cleared EXCEPT ![c] = @ \cup {cmd}]
               /\ UNCHANGED prompts

Dispatch(c) ==
  /\ gate[c] = "idle"
  /\ \E cmd \in Commands :
       /\ doom' = [doom EXCEPT ![CallerOf(c)] = DoomAfter(CallerOf(c), cmd)]
       /\ Authorize(c, cmd, CheckOf(CallerOf(c), cmd), "asking", "hook")
  /\ UNCHANGED <<grants, permissionMode, setting>>

\* A rewrite that is trusted because the original call was allowed.
HookUnchecked(c) ==
  /\ gate[c] = "hook"
  /\ \E pre \in PreToolUse :
       LET cmd == IF pre.rewrite = NoCommand THEN args[c] ELSE pre.rewrite
       IN Authorize(c, cmd, IF pre.verdict = "defer" THEN "allow" ELSE pre.verdict,
                    "asking again", "run")
  /\ UNCHANGED <<doom, grants, permissionMode, setting>>

\* hooked_run: a rewrite is checked again, as a call of its own.
Hook(c) ==
  /\ gate[c] = "hook"
  /\ \E pre \in PreToolUse :
       LET cmd == IF pre.rewrite = NoCommand THEN args[c] ELSE pre.rewrite
           fresh == cmd # args[c]
           check == IF fresh THEN CheckOf(CallerOf(c), cmd) ELSE "allow"
           verdict == IF pre.verdict = "ask" /\ check = "allow" THEN "ask" ELSE check
       IN IF pre.verdict = "deny"
          THEN Leave(c) /\ UNCHANGED <<prompts, doom>>
          ELSE /\ doom' = IF fresh
                          THEN [doom EXCEPT ![CallerOf(c)] = DoomAfter(CallerOf(c), cmd)]
                          ELSE doom
               /\ Authorize(c, cmd, verdict, "asking again", "run")
  /\ UNCHANGED <<grants, permissionMode, setting>>

Waiting(c) == gate[c] \in {"asking", "asking again"}

\* y, a, and n or ESC.
ApprovalKeys == {"once", "always", "deny"}

\* A key: only the head of the queue is resolved, if it still waits.
Press(decision) ==
  /\ prompts # <<>> /\ Waiting(Head(prompts))
  /\ LET c == Head(prompts) IN
       /\ answers' = [answers EXCEPT ![c] = decision]
       /\ cleared' = [cleared EXCEPT ![c] = IF decision = "deny" THEN @ ELSE @ \cup {args[c]}]
  /\ prompts' = Tail(prompts)
  /\ UNCHANGED <<gate, args, grants, doom, permissionMode, setting>>

\* The awaiter runs again; "always" is a grant of the session of this agent.
AnswerArrives(c) ==
  /\ Waiting(c) /\ answers[c] # "none"
  /\ IF answers[c] = "deny" THEN Leave(c)
     ELSE /\ MoveTo(c, IF gate[c] = "asking" THEN "hook" ELSE "run")
          /\ answers' = [answers EXCEPT ![c] = "none"]
          /\ UNCHANGED <<args, cleared>>
  /\ grants' = IF answers[c] = "always"
               THEN [grants EXCEPT ![CallerOf(c)] = @ \cup {args[c]}] ELSE grants
  /\ UNCHANGED <<prompts, doom, permissionMode, setting>>

RunTool(c) ==
  /\ gate[c] = "run" /\ Leave(c)
  /\ UNCHANGED <<prompts, grants, doom, permissionMode, setting>>

\* The turn is cancelled.  A future that was awaited is cancelled at once; its
\* entry leaves the queue when the awaiter unwinds.
CancelCall(c) ==
  /\ gate[c] \notin {"idle", "unwinding"}
  /\ IF Waiting(c)
     THEN MoveTo(c, "unwinding") /\ UNCHANGED <<args, cleared, answers>>
     ELSE Leave(c)
  /\ UNCHANGED <<prompts, grants, doom, permissionMode, setting>>

UnwindKeepsEntry(c) ==
  /\ gate[c] = "unwinding"
  /\ Leave(c)
  /\ UNCHANGED <<prompts, grants, doom, permissionMode, setting>>

\* _request_approval's finally: exactly this entry is removed.
Unwind(c) ==
  /\ gate[c] = "unwinding"
  /\ Leave(c)
  /\ prompts' = RemoveFirst(prompts, c)
  /\ UNCHANGED <<grants, doom, permissionMode, setting>>

\* /permissions: the mode a child copied when it was derived stays.
SetPermissionMode ==
  /\ \E m \in Modes \ {permissionMode} : permissionMode' = m
  /\ UNCHANGED <<gate, args, cleared, answers, prompts, grants, doom, setting>>

CallStepOf(c) ==
  \/ Dispatch(c) \/ Hook(c) \/ AnswerArrives(c) \/ RunTool(c)
  \/ CancelCall(c) \/ Unwind(c)

PermissionsNext ==
  \/ \E c \in CallSlots : CallStepOf(c)
  \/ \E d \in ApprovalKeys : Press(d)
  \/ SetPermissionMode

PermissionsSpec == PermissionsInit /\ [][PermissionsNext]_gateVars
-----------------------------------------------------------------------------
\* A tool runs only with the exact arguments that the policy allowed or a human
\* approved for this very call, however hooks rewrote them, prompts of other
\* calls were answered and calls were cancelled in between ("approvals apply to
\* these arguments, never to a previously approved command or action").
\* And no grant, overlay, rewrite, approval or automatic approval gets a call past
\* a deny rule, nor a call of a read-only worker out of the read class.
OnlyAllowedRuns ==
  \A c \in CallSlots : gate[c] = "run" =>
    /\ args[c] \in cleared[c]
    /\ args[c] \notin Denied
    /\ CallerOf(c) = "worker" /\ setting.readonly => args[c] \in Reads

\* The prompt shows exactly the calls that wait for a human, each once: a key is
\* never swallowed by the entry of a call that has gone, and no call waits for
\* an entry that is not in the queue.
PromptIsTheWaiters ==
  /\ \A c \in CallSlots : \A i, j \in DOMAIN prompts :
       prompts[i] = c /\ prompts[j] = c => i = j
  /\ {c \in CallSlots : Waiting(c) /\ answers[c] = "none"} \subseteq ToSet(prompts)
  /\ \A c \in ToSet(prompts) : gate[c] = "unwinding" \/ (Waiting(c) /\ answers[c] = "none")
=============================================================================
