------------------------------ MODULE Services_proofs ------------------------------
(***************************************************************************)
(* The services around an agent, for any number of tasks, servers, edits,  *)
(* files, workers and processes: background tasks, MCP and language        *)
(* servers, the locks of the session files, a headless run and the         *)
(* reservations of workspaces.                                             *)
(***************************************************************************)
EXTENDS Background, McpClient, Attachment, Lsp, CommandLine, Reservation,
        FiniteSetTheorems, WellFoundedInduction, TLAPS

-----------------------------------------------------------------------------
(* Background tasks: the process group of a killed shell.                  *)

TaskPlaces == {"none", "created", "spawn", "read", "cleanup", "drain", "reap",
               "starthook", "child", "endhook", "over"}
TaskEnds == {"no", "eof", "timeout", "aborted", "answer"}

BackgroundTypeOK ==
  /\ where \in [BgTasks -> TaskPlaces]
  /\ group \in [BgTasks -> SUBSET {"shell", "child"}]
  /\ ended \in [BgTasks -> TaskEnds]
  /\ cut \in [BgTasks -> BOOLEAN]

\* A shell never runs the code of a subagent, and has no end before its read.
ShellsOnly ==
  \A t \in Shells : /\ where[t] \notin {"starthook", "child", "endhook"}
                    /\ where[t] \in {"none", "created", "spawn", "read"} => ended[t] = "no"

BackgroundInv == BackgroundTypeOK /\ ShellsOnly /\ KilledTreeIsGone

\* What survives a signal was there before, and nothing comes of nothing.
LEMMA KillsOnly ==
  ASSUME NEW g \in SUBSET {"shell", "child"}
  PROVE  /\ \A rest \in KillTree(g) : rest \in SUBSET {"shell", "child"}
         /\ \A rest \in KillTree(g) : "shell" \notin g => rest = {}
         /\ \A rest \in TermTree(g) : rest \in SUBSET g
BY DEF KillTree, TermTree

LEMMA BackgroundInvInit == BackgroundInit => BackgroundInv
BY DEF BackgroundInit, BackgroundInv, BackgroundTypeOK, ShellsOnly, KilledTreeIsGone,
       TaskPlaces, TaskEnds, BgTasks

\* A step that leaves the tasks where they are and lets no empty group grow.
LEMMA GroupsOnlyShrink ==
  ASSUME BackgroundInv, UNCHANGED <<where, ended, cut>>,
         group' \in [BgTasks -> SUBSET {"shell", "child"}],
         \A t \in BgTasks : group[t] = {} => group'[t] = {}
  PROVE  BackgroundInv'
BY DEF BackgroundInv, BackgroundTypeOK, ShellsOnly, KilledTreeIsGone, BgTasks

\* A step of the code of one task, which leaves the others alone.
LEMMA OneTaskMoves ==
  ASSUME BackgroundInv, NEW t \in BgTasks, BackgroundTypeOK',
         \A u \in BgTasks \ {t} : /\ where'[u] = where[u] /\ group'[u] = group[u]
                                  /\ ended'[u] = ended[u] /\ cut'[u] = cut[u],
         t \in Shells =>
           /\ where'[t] \notin {"starthook", "child", "endhook"}
           /\ where'[t] \in {"none", "created", "spawn", "read"} => ended'[t] = "no"
           /\ /\ ended'[t] \in {"timeout", "aborted"} /\ ~cut'[t]
              /\ where'[t] \in {"drain", "reap", "over"}
              => group'[t] = {}
  PROVE  BackgroundInv'
<1>1. ShellsOnly'
  BY DEF ShellsOnly, BackgroundInv, BgTasks
<1>2. KilledTreeIsGone'
  BY DEF KilledTreeIsGone, BackgroundInv, BgTasks
<1> QED BY <1>1, <1>2 DEF BackgroundInv

LEMMA BackgroundInvStep ==
  ASSUME BackgroundInv, [BackgroundNext]_backgroundVars
  PROVE  BackgroundInv'
<1> USE DEF record, process, manager, At, Over, Finish
<1>t. BackgroundTypeOK
  BY DEF BackgroundInv
<1>1. ASSUME NEW t \in BgTasks, StartTask(t)
      PROVE  BackgroundInv'
  <2>1. BackgroundTypeOK' /\ where'[t] = "created" /\ where[t] = "none"
    BY <1>1, <1>t DEF StartTask, BackgroundTypeOK, TaskPlaces
  <2>2. t \in Shells => ended'[t] = "no"
    BY <1>1, <2>1 DEF StartTask, BackgroundInv, ShellsOnly
  <2> QED BY <1>1, <1>t, <2>1, <2>2, OneTaskMoves DEF StartTask, BackgroundTypeOK
<1>2. ASSUME NEW t \in BgTasks, Begin(t) \/ NeverBegins(t)
      PROVE  BackgroundInv'
  <2>1. BackgroundTypeOK' /\ where[t] = "created" /\ UNCHANGED <<ended, cut, group>>
        /\ (t \in Shells => where'[t] \in {"spawn", "over"})
        /\ \A u \in BgTasks \ {t} : where'[u] = where[u]
    BY <1>2, <1>t DEF Begin, NeverBegins, BackgroundTypeOK, TaskPlaces
  <2>2. t \in Shells => ended'[t] = "no"
    BY <2>1 DEF BackgroundInv, ShellsOnly
  <2> QED BY <2>1, <2>2, OneTaskMoves
<1>3. ASSUME NEW t \in BgTasks, Spawned(t)
      PROVE  BackgroundInv'
  <2>1. BackgroundTypeOK' /\ where[t] = "spawn" /\ UNCHANGED <<ended, cut>>
        /\ where'[t] \in {"read", "over"}
        /\ \A u \in BgTasks \ {t} : where'[u] = where[u] /\ group'[u] = group[u]
    BY <1>3, <1>t DEF Spawned, BackgroundTypeOK, TaskPlaces
  <2>2. t \in Shells => ended'[t] = "no"
    BY <2>1 DEF BackgroundInv, ShellsOnly
  <2> QED BY <2>1, <2>2, OneTaskMoves
<1>4. ASSUME NEW t \in BgTasks, ProcessStep(t)
      PROVE  BackgroundInv'
  BY <1>4, <1>t, GroupsOnlyShrink DEF ProcessStep, BackgroundTypeOK
<1>5. ASSUME NEW t \in BgTasks, ReadEnds(t)
      PROVE  BackgroundInv'
  <2>1. CASE where'[t] = "reap"
    BY <1>5, <1>t, <2>1, OneTaskMoves DEF ReadEnds, BackgroundTypeOK, TaskPlaces, TaskEnds
  <2>2. CASE where'[t] = "cleanup"
    <3>1. PICK rest \in KillTree(group[t]) : group' = [group EXCEPT ![t] = rest]
      BY <1>5, <1>t, <2>2 DEF ReadEnds, BackgroundTypeOK
    <3>2. rest \in SUBSET {"shell", "child"}
      BY <3>1, <1>t, KillsOnly DEF BackgroundTypeOK
    <3> QED BY <1>5, <1>t, <2>2, <3>1, <3>2, OneTaskMoves
               DEF ReadEnds, BackgroundTypeOK, TaskPlaces, TaskEnds
  <2> QED BY <1>5, <1>t, <2>1, <2>2 DEF ReadEnds, BackgroundTypeOK
<1>6. ASSUME NEW t \in BgTasks, Sweep(t)
      PROVE  BackgroundInv'
  <2>1. PICK rest \in KillTree(group[t]) : group' = [group EXCEPT ![t] = rest]
    BY <1>6 DEF Sweep
  <2>2. rest = {}
    BY <1>6, <2>1, <1>t, KillsOnly DEF BackgroundTypeOK, Sweep
  <2> QED BY <1>6, <1>t, <2>1, <2>2, OneTaskMoves DEF Sweep, BackgroundTypeOK, TaskPlaces
<1>7. ASSUME NEW t \in BgTasks, CleanupEnds(t)
      PROVE  BackgroundInv'
  <2>1. BackgroundTypeOK' /\ UNCHANGED <<ended, group>> /\ where'[t] \in {"over", "reap"}
        /\ \A u \in BgTasks \ {t} : where'[u] = where[u] /\ cut'[u] = cut[u]
    BY <1>7, <1>t DEF CleanupEnds, BackgroundTypeOK, TaskPlaces
  <2>2. cut'[t] \/ (where[t] = "drain" /\ cut'[t] = cut[t])
    BY <1>7, <1>t DEF CleanupEnds, BackgroundTypeOK
  <2>3. t \in Shells /\ ended'[t] \in {"timeout", "aborted"} /\ ~cut'[t] => group'[t] = {}
    BY <2>1, <2>2 DEF BackgroundInv, KilledTreeIsGone
  <2> QED BY <2>1, <2>3, OneTaskMoves
<1>8. ASSUME NEW t \in BgTasks, Reap(t)
      PROVE  BackgroundInv'
  <2>1. BackgroundTypeOK' /\ UNCHANGED <<ended, group, cut>>
        /\ where[t] = "reap" /\ where'[t] = "over"
        /\ \A u \in BgTasks \ {t} : where'[u] = where[u]
    BY <1>8, <1>t DEF Reap, BackgroundTypeOK, TaskPlaces
  <2>2. t \in Shells /\ ended'[t] \in {"timeout", "aborted"} /\ ~cut'[t] => group'[t] = {}
    BY <2>1 DEF BackgroundInv, KilledTreeIsGone
  <2> QED BY <2>1, <2>2, OneTaskMoves
<1>9. ASSUME NEW t \in BgTasks, StartHook(t) \/ ChildEnds(t) \/ EndHook(t)
      PROVE  BackgroundInv'
  <2>1. where[t] \in {"starthook", "child", "endhook"}
    BY <1>9 DEF StartHook, ChildEnds, EndHook
  <2>2. t \notin Shells
    BY <2>1 DEF BackgroundInv, ShellsOnly
  <2>3. BackgroundTypeOK'
        /\ \A u \in BgTasks \ {t} : /\ where'[u] = where[u] /\ group'[u] = group[u]
                                    /\ ended'[u] = ended[u] /\ cut'[u] = cut[u]
    BY <1>9, <1>t DEF StartHook, ChildEnds, EndHook, BackgroundTypeOK, TaskPlaces, TaskEnds
  <2> QED BY <2>2, <2>3, OneTaskMoves
<1>10. ASSUME NEW T, Terminate(T)
       PROVE  /\ group' \in [BgTasks -> SUBSET {"shell", "child"}]
              /\ \A t \in BgTasks : group[t] = {} => group'[t] = {}
  BY <1>10 DEF Terminate, TermTree
<1>11. ASSUME NEW T, Kill(T)
       PROVE  /\ group' \in [BgTasks -> SUBSET {"shell", "child"}]
              /\ \A t \in BgTasks : group[t] = {} => group'[t] = {}
  BY <1>11 DEF Kill, KillTree
<1>12. ASSUME NEW t \in BgTasks, StopTask(t)
       PROVE  BackgroundInv'
  BY <1>12, <1>10, GroupsOnlyShrink DEF StopTask
<1>13. ASSUME NEW t \in BgTasks, StopKills(t)
       PROVE  BackgroundInv'
  BY <1>13, <1>11, GroupsOnlyShrink DEF StopKills
<1>14. CASE Shutdown
  BY <1>14, <1>10, GroupsOnlyShrink DEF Shutdown
<1>15. CASE ShutdownKills
  BY <1>15, <1>11, GroupsOnlyShrink DEF ShutdownKills
<1>16. CASE UNCHANGED <<where, ended, cut, group>>
  BY <1>16, <1>t, GroupsOnlyShrink DEF BackgroundTypeOK
<1>17. ASSUME NEW t \in BgTasks, WaitForTask(t) \/ CallReturns(t)
       PROVE  BackgroundInv'
  BY <1>17, <1>16 DEF WaitForTask, CallReturns
<1>18. CASE DrainNotes \/ ForgetSomething \/ ShutdownCancels \/ ShutdownReturns
            \/ UNCHANGED backgroundVars
  BY <1>18, <1>16 DEF DrainNotes, ForgetSomething, ShutdownCancels, ShutdownReturns,
                      backgroundVars
<1> QED
  BY <1>1, <1>2, <1>3, <1>4, <1>5, <1>6, <1>7, <1>8, <1>9, <1>12, <1>13, <1>14, <1>15,
     <1>17, <1>18
     DEF BackgroundNext, BodyStep, ShellStep, AgentStep, CallStep, TeardownStep

\* Nothing of a process group outlives a _run_shell that killed it, unless a
\* second cancellation cut its cleanup short (_kill_tree and its second sweep).
THEOREM KilledIsGone == BackgroundSpec => []KilledTreeIsGone
<1>1. BackgroundInit => BackgroundInv
  BY BackgroundInvInit
<1>2. BackgroundInv /\ [BackgroundNext]_backgroundVars => BackgroundInv'
  BY BackgroundInvStep
<1>3. BackgroundInv => KilledTreeIsGone
  BY DEF BackgroundInv
<1> QED BY <1>1, <1>2, <1>3, PTL DEF BackgroundSpec
-----------------------------------------------------------------------------
(* An MCP server.                                                          *)

\* An operation that will bring the registry up to date before it ends.
WillSync(o) ==
  \/ mpc[o] \in {"opening", "authorizing", "granted"}
  \/ mpc[o] = "clearing" /\ mkind[o] = "logout"

\* What an operation may be while it closes a session or clears credentials.
KindsFit ==
  /\ mpc = [o \in McpOps |-> mpc[o]] /\ mkind = [o \in McpOps |-> mkind[o]]
  /\ \A o \in McpOps :
       /\ mpc[o] = "closing" =>
            mkind[o] \in {"call", "reconnect", "disable", "auth", "login", "logout", "shutdown"}
       /\ mpc[o] = "closing" /\ mkind[o] = "shutdown" => mcpClosed
       /\ mpc[o] = "clearing" => mkind[o] \in {"logout", "login"}

\* A registry that does not follow the session has somebody who will see to it.
MismatchIsOwed ==
  registered # (session # NoSession) =>
    mcpClosed \/ "sync" \in owed \/ \E o \in McpOps : WillSync(o)

McpInv == KindsFit /\ ConnectedMeansOpen /\ MismatchIsOwed

\* A step of operation o after which the session is the same and as open, or gone.
LEMMA SessionStaysOpen ==
  ASSUME ConnectedMeansOpen, Repaired,
         session' = NoSession \/ UNCHANGED <<session, stack, open>>
  PROVE  ConnectedMeansOpen'
BY DEF ConnectedMeansOpen, Repaired

\* A step of operation o that syncs, or will, or has not touched the two.
LEMMA SyncIsKept ==
  ASSUME MismatchIsOwed, Repaired, NEW o \in McpOps, mcpClosed => mcpClosed',
         \A u \in McpOps \ {o} : mpc'[u] = mpc[u] /\ mkind'[u] = mkind[u],
         \/ registered' = (session' # NoSession) \/ mcpClosed' \/ WillSync(o)'
         \/ UNCHANGED <<registered, session>> /\ ~WillSync(o)
  PROVE  MismatchIsOwed'
<1> SUFFICES ASSUME registered' # (session' # NoSession), ~mcpClosed', ~WillSync(o)'
             PROVE  "sync" \in owed' \/ \E u \in McpOps : WillSync(u)'
  BY DEF MismatchIsOwed
<1>1. UNCHANGED <<registered, session>> /\ ~WillSync(o) /\ ~mcpClosed
  OBVIOUS
<1>2. CASE "sync" \in owed
  BY <1>1, <1>2 DEF Repaired
<1>3. CASE \E u \in McpOps : WillSync(u)
  BY <1>1, <1>3 DEF WillSync
<1> QED BY <1>1, <1>2, <1>3 DEF MismatchIsOwed

\* The start of a close: nothing has changed yet, or the session is gone and
\* the operation is where its close would have taken it.
LEMMA ClosesOrWill ==
  ASSUME NEW o \in McpOps, NEW kind \in {"call", "reconnect", "disable", "auth", "login",
                                         "logout", "shutdown"},
         KindsFit, StartClose(o, kind), mcpClosed => mcpClosed',
         kind = "shutdown" => mcpClosed'
  PROVE  /\ KindsFit'
         /\ session' = NoSession \/ UNCHANGED <<session, stack, open>>
         /\ \A u \in McpOps \ {o} : mpc'[u] = mpc[u] /\ mkind'[u] = mkind[u]
         /\ \/ registered' = (session' # NoSession) \/ mcpClosed' \/ WillSync(o)'
            \/ UNCHANGED <<registered, session>>
<1> USE DEF Goto, Finished, SyncTools, account, Disconnect, KindsFit, WillSync
<1>1. CASE stack # NoSession
  BY <1>1 DEF StartClose
<1>2. CASE stack = NoSession
  <2>1. Disconnect /\ AfterClose(o, kind)
    BY <1>2 DEF StartClose
  <2> QED BY <2>1 DEF AfterClose
<1> QED BY <1>1, <1>2

LEMMA CloseDoneKeeps ==
  ASSUME NEW o \in McpOps, McpInv, CloseDone(o), Repaired
  PROVE  McpInv'
<1> USE DEF Goto, Finished, SyncTools, account, Disconnect, KindsFit, WillSync
<1>1. session' = NoSession /\ AfterClose(o, mkind[o]) /\ mpc[o] = "closing"
      /\ UNCHANGED mcpClosed
  BY DEF CloseDone
<1>2. mkind[o] \in {"call", "reconnect", "disable", "auth", "login", "logout", "shutdown"}
      /\ (mkind[o] = "shutdown" => mcpClosed)
  BY <1>1 DEF McpInv
<1>3. KindsFit' /\ \A u \in McpOps \ {o} : mpc'[u] = mpc[u] /\ mkind'[u] = mkind[u]
  BY <1>1, <1>2 DEF AfterClose, McpInv
<1>4. registered' = (session' # NoSession) \/ mcpClosed' \/ WillSync(o)'
  BY <1>1, <1>2 DEF AfterClose, McpInv
<1> QED BY <1>1, <1>3, <1>4, SessionStaysOpen, SyncIsKept DEF McpInv

\* The operations that begin with a close, and those that come to it.
LEMMA StartClosesKeep ==
  ASSUME NEW o \in McpOps, McpInv, Repaired,
         StartCall(o) \/ CallOnce(o) \/ DropCredentials(o) \/ Command(o)
         \/ ClearCredentials(o) \/ McpShutdown(o)
  PROVE  McpInv'
<1>0. KindsFit /\ (mcpClosed => mcpClosed') /\ mpc[o] \notin {"opening", "authorizing", "granted"}
  BY DEF McpInv, StartCall, CallOnce, DropCredentials, Command, ClearCredentials, McpShutdown
<1>1. ASSUME NEW kind \in {"call", "reconnect", "disable", "auth", "login", "logout", "shutdown"},
             StartClose(o, kind), kind = "shutdown" => mcpClosed', ~WillSync(o)
      PROVE  McpInv'
  BY <1>0, <1>1, ClosesOrWill, SessionStaysOpen, SyncIsKept DEF McpInv
<1>2. ASSUME UNCHANGED <<session, stack, open, registered>>, ~WillSync(o),
             NEW place, NEW kind, Goto(o, place, kind), place # "closing",
             place = "clearing" => kind \in {"login", "logout"}
      PROVE  McpInv'
  <2>1. KindsFit' /\ \A u \in McpOps \ {o} : mpc'[u] = mpc[u] /\ mkind'[u] = mkind[u]
    BY <1>0, <1>2 DEF Goto, KindsFit
  <2> QED BY <1>0, <1>2, <2>1, SessionStaysOpen, SyncIsKept DEF McpInv
<1> USE DEF link, account, Finished
<1>3. CASE StartCall(o)
  <2>1. ~WillSync(o)
    BY <1>3 DEF StartCall, WillSync
  <2> QED BY <1>1, <1>2, <1>3, <2>1 DEF StartCall
<1>4. CASE CallOnce(o)
  <2>1. ~WillSync(o)
    BY <1>4 DEF CallOnce, WillSync
  <2> QED BY <1>1, <1>2, <1>4, <2>1 DEF CallOnce
<1>5. CASE DropCredentials(o)
  <2>1. ~WillSync(o)
    BY <1>5 DEF DropCredentials, WillSync
  <2> QED BY <1>1, <1>5, <2>1 DEF DropCredentials
<1>6. CASE Command(o)
  <2>1. ~WillSync(o)
    BY <1>6 DEF Command, WillSync
  <2> QED BY <1>1, <1>2, <1>6, <2>1 DEF Command
<1>7. CASE McpShutdown(o)
  <2>1. ~WillSync(o)
    BY <1>7 DEF McpShutdown, WillSync
  <2> QED BY <1>1, <1>7, <2>1 DEF McpShutdown
<1>8. CASE ClearCredentials(o)
  <2>1. CASE mkind[o] = "logout"
    <3>1. Finished(o) /\ SyncTools /\ UNCHANGED link /\ UNCHANGED mcpClosed
      BY <1>8, <2>1 DEF ClearCredentials
    <3>2. KindsFit' /\ \A u \in McpOps \ {o} : mpc'[u] = mpc[u] /\ mkind'[u] = mkind[u]
      BY <1>0, <3>1 DEF Goto, KindsFit
    <3> QED BY <3>1, <3>2, SessionStaysOpen, SyncIsKept DEF McpInv, SyncTools
  <2>2. CASE mkind[o] # "logout"
    <3>1. ~WillSync(o)
      BY <1>8, <2>2 DEF ClearCredentials, WillSync
    <3> QED BY <1>1, <1>8, <2>2, <3>1 DEF ClearCredentials
  <2> QED BY <2>1, <2>2
<1> QED BY <1>3, <1>4, <1>5, <1>6, <1>7, <1>8

\* A connect, its login, and what follows it.
LEMMA ConnectsKeep ==
  ASSUME NEW o \in McpOps, McpInv, Repaired,
         AskUser(o) \/ Redirected(o) \/ OpenSession(o) \/ OpenFails(o) \/ RetryCall(o)
  PROVE  McpInv'
<1> USE DEF Goto, Finished, SyncTools, account, link, McpInv
<1>1. KindsFit' /\ \A u \in McpOps \ {o} : mpc'[u] = mpc[u] /\ mkind'[u] = mkind[u]
  <2>1. PICK place \in {"idle", "authorizing", "granted", "retrying"} : \E kind : Goto(o, place, kind)
    BY DEF AskUser, Redirected, OpenSession, OpenFails, RetryCall
  <2>2. mcpClosed' = mcpClosed
    BY DEF AskUser, Redirected, OpenSession, OpenFails, RetryCall
  <2> QED BY <2>1, <2>2 DEF KindsFit
<1>2. CASE AskUser(o) \/ Redirected(o)
  <2>1. WillSync(o)'
    BY <1>2 DEF AskUser, Redirected, WillSync, KindsFit
  <2> QED BY <1>1, <1>2, <2>1, SessionStaysOpen, SyncIsKept DEF AskUser, Redirected
<1>3. CASE OpenSession(o)
  <2>1. ConnectedMeansOpen'
    BY <1>3 DEF OpenSession, ConnectedMeansOpen
  <2> QED BY <1>1, <1>3, <2>1, SyncIsKept DEF OpenSession
<1>4. CASE OpenFails(o)
  BY <1>1, <1>4, SessionStaysOpen, SyncIsKept DEF OpenFails
<1>5. CASE RetryCall(o)
  BY <1>1, <1>5, SessionStaysOpen, SyncIsKept DEF RetryCall, WillSync
<1> QED BY <1>2, <1>3, <1>4, <1>5

\* Ctrl-C leaves the fields of the server alone and says what is left to do.
LEMMA InterruptKeeps ==
  ASSUME NEW o \in McpOps, McpInv, Interrupt(o)
  PROVE  McpInv'
<1>1. KindsFit'
  BY DEF Interrupt, Finished, Goto, KindsFit, McpInv
<1>2. UNCHANGED <<session, stack, registered, mcpClosed>> /\ owed \subseteq owed'
      /\ (session \in open \ open' => "close" \in owed')
      /\ (registered # (session # NoSession) => "sync" \in owed')
  BY DEF Interrupt
<1>3. ConnectedMeansOpen'
  BY <1>2 DEF ConnectedMeansOpen, McpInv
<1>4. MismatchIsOwed'
  BY <1>2 DEF MismatchIsOwed
<1> QED BY <1>1, <1>3, <1>4 DEF McpInv

LEMMA McpInvStep ==
  ASSUME McpInv, [McpNext]_mcpVars
  PROVE  McpInv'
<1>1. ASSUME NEW s \in Sessions, Break(s), UNCHANGED owed
      PROVE  McpInv'
  BY <1>1 DEF Break, account, McpInv, KindsFit, ConnectedMeansOpen, MismatchIsOwed, WillSync
<1>2. CASE UNCHANGED mcpVars
  BY <1>2 DEF mcpVars, McpInv, KindsFit, ConnectedMeansOpen, MismatchIsOwed, WillSync
<1> QED
  BY <1>1, <1>2, CloseDoneKeeps, StartClosesKeep, ConnectsKeep, InterruptKeeps DEF McpNext

LEMMA McpInvInit == McpInit => McpInv
BY DEF McpInit, McpInv, KindsFit, ConnectedMeansOpen, MismatchIsOwed

LEMMA McpInvAlways == McpSpec => []McpInv
<1>1. McpInit => McpInv
  BY McpInvInit
<1>2. McpInv /\ [McpNext]_mcpVars => McpInv'
  BY McpInvStep
<1> QED BY <1>1, <1>2, PTL DEF McpSpec

\* A server that reports a session holds one that nobody has closed, however the
\* operations on it overlap (_close_server, _open, call).
THEOREM ConnectedIsOpen == McpSpec => []ConnectedMeansOpen
<1>1. McpInv => ConnectedMeansOpen
  BY DEF McpInv
<1> QED BY <1>1, McpInvAlways, PTL

\* When nothing is in flight the registry offers a server's tools exactly when
\* it is connected (_sync_tools).
THEOREM RegistryFollows == McpSpec => []RegistryFollowsSession
<1>1. McpInv => RegistryFollowsSession
  BY DEF McpInv, MismatchIsOwed, RegistryFollowsSession, WillSync
<1> QED BY <1>1, McpInvAlways, PTL
-----------------------------------------------------------------------------
(* Diagnostics of a document.                                              *)

LspPlaces == {"idle", "initialize", "sync", "request", "pull", "answered late"}
TextOf(m) == m.kind = "text"
PipeMessages == [kind : {"text"}, version : Nat, edit : Nat] \cup [kind : {"pull"}, of : Requests]

LspTypeOK ==
  /\ lpc \in [Requests -> LspPlaces]
  /\ using \in [Requests -> Processes \cup {NoServer}]
  /\ wrote \in [Requests -> Nat] /\ got \in [Requests -> Nat]
  /\ spawned \subseteq Processes /\ alive \subseteq spawned
  /\ version \in [Processes -> Nat]
  /\ pipe \in [Processes -> Seq(PipeMessages)]
  /\ doc \in [Processes -> [version : Nat, edit : Nat]]
  /\ edits \in Nat

\* Of a process: what it has not read is no older than what it has, and the
\* texts are in the order of the edits.
PipeOrdered(p) ==
  /\ doc[p].edit <= edits
  /\ doc[p].version = 0 => doc[p].edit = 0
  /\ doc[p].version <= version[p]
  /\ \A i \in DOMAIN pipe[p] : TextOf(pipe[p][i]) =>
       /\ doc[p].edit <= pipe[p][i].edit /\ pipe[p][i].edit <= edits
       /\ pipe[p][i].version \in 1..version[p]
       /\ \A j \in 1..(i - 1) : TextOf(pipe[p][j]) => pipe[p][j].edit <= pipe[p][i].edit

\* It has seen the text that opens the document, or will before any other, or
\* never will: its didOpen was lost.
Deaf(p) ==
  /\ doc[p].version = 0 /\ version[p] > 0
  /\ \A i \in DOMAIN pipe[p] : TextOf(pipe[p][i]) => pipe[p][i].version > 1
Hears(p) ==
  \/ doc[p].version > 0
  \/ \E i \in DOMAIN pipe[p] : /\ TextOf(pipe[p][i]) /\ pipe[p][i].version = 1
                               /\ \A j \in 1..(i - 1) : ~TextOf(pipe[p][j])
Unopened(p) == version[p] = 0

\* When the process reads the message at i it has a text of that edit, or none.
CoveredAt(p, i, e) ==
  \/ doc[p].edit >= e
  \/ Deaf(p)
  \/ \E j \in 1..(i - 1) : TextOf(pipe[p][j]) /\ pipe[p][j].edit >= e

\* A pull in the pipe is that of a request that waits for it, or no longer does.
PullsWait(p) ==
  \A i \in DOMAIN pipe[p] : ~TextOf(pipe[p][i]) =>
    LET q == pipe[p][i].of IN
      /\ lpc[q] \in {"pull", "answered late"} /\ using[q] = p
      /\ CoveredAt(p, i, wrote[q])
      /\ \A j \in 1..(i - 1) : TextOf(pipe[p][j]) \/ pipe[p][j].of # q

ProcessInv(p) ==
  /\ p \notin spawned => version[p] = 0 /\ pipe[p] = <<>>
                       /\ doc[p].version = 0 /\ doc[p].edit = 0
  /\ p \in alive => /\ PipeOrdered(p)
                    /\ Unopened(p) \/ Deaf(p) \/ Hears(p)
                    /\ PullsWait(p)

RequestInv(q) ==
  /\ lpc[q] # "idle" => using[q] \in spawned /\ got[q] = 0
  /\ got[q] # 0 => got[q] >= wrote[q]
  /\ lpc[q] = "request" /\ using[q] \in alive =>
       CoveredAt(using[q], Len(pipe[using[q]]) + 1, wrote[q])

LspInv == LspTypeOK /\ (\A p \in Processes : ProcessInv(p)) /\ \A q \in Requests : RequestInv(q)

LEMMA LspInvInit == LspInit => LspInv
<1> SUFFICES ASSUME LspInit
             PROVE  LspInv
  OBVIOUS
<1>1. LspTypeOK
  BY DEF LspInit, LspTypeOK, LspPlaces, NoServer
<1>2. ASSUME NEW p \in Processes
      PROVE  ProcessInv(p)
  BY DEF LspInit, ProcessInv
<1>3. ASSUME NEW q \in Requests
      PROVE  RequestInv(q)
  BY DEF LspInit, RequestInv
<1> QED BY <1>1, <1>2, <1>3 DEF LspInv

Waits(q) == lpc[q] \in {"pull", "answered late"}

\* A step that leaves a process and the requests that wait for it alone.
LEMMA ProcessUntouched ==
  ASSUME LspTypeOK, NEW p \in Processes, ProcessInv(p),
         p \in spawned => p \in spawned', p \in alive' => p \in alive,
         version'[p] = version[p] \/ (p \in spawned /\ version'[p] = version[p] + 1),
         pipe'[p] = pipe[p], doc'[p] = doc[p],
         edits' \in Nat, edits <= edits',
         \A q \in Requests : Waits(q) /\ using[q] = p =>
           Waits(q)' /\ using'[q] = p /\ wrote'[q] = wrote[q],
         p \in spawned' => p \in spawned
  PROVE  ProcessInv(p)'
<1>1. CASE p \notin alive'
  BY <1>1 DEF ProcessInv
<1>2. CASE p \in alive'
  <2>0. /\ p \in alive /\ p \in spawned /\ pipe[p] \in Seq(PipeMessages)
        /\ doc[p].edit \in Nat /\ doc[p].version \in Nat
        /\ version[p] \in Nat /\ version'[p] \in Nat /\ version[p] <= version'[p]
    BY <1>2 DEF LspTypeOK
  <2>1. PipeOrdered(p)'
    <3>1. PipeOrdered(p)
      BY <2>0 DEF ProcessInv
    <3>2. \A i \in DOMAIN pipe[p] : TextOf(pipe[p][i]) => pipe[p][i].edit \in Nat
      BY <2>0 DEF PipeMessages, TextOf
    <3>3. edits \in Nat
      BY DEF LspTypeOK
    <3>4. doc[p].edit <= edits'
      BY <2>0, <3>1, <3>3 DEF PipeOrdered
    <3>5. \A i \in DOMAIN pipe[p] : TextOf(pipe[p][i]) => pipe[p][i].edit <= edits'
      BY <3>1, <3>2, <3>3 DEF PipeOrdered
    <3>6. \A i \in DOMAIN pipe[p] : TextOf(pipe[p][i]) => pipe[p][i].version \in 1..version'[p]
      BY <2>0, <3>1 DEF PipeOrdered
    <3>7. doc[p].version <= version'[p]
      BY <2>0, <3>1 DEF PipeOrdered
    <3> QED BY <3>1, <3>4, <3>5, <3>6, <3>7 DEF PipeOrdered, TextOf
  <2>2. (Unopened(p) \/ Deaf(p) \/ Hears(p))'
    <3>1. Unopened(p) \/ Deaf(p) \/ Hears(p)
      BY <2>0 DEF ProcessInv
    <3>2. CASE Unopened(p)
      <4>1. doc[p].version = 0 /\ \A i \in DOMAIN pipe[p] : ~TextOf(pipe[p][i])
        BY <2>0, <3>2 DEF ProcessInv, PipeOrdered, Unopened
      <4> QED BY <2>0, <4>1 DEF Unopened, Deaf, TextOf
    <3>3. CASE Deaf(p)
      BY <2>0, <3>3 DEF Deaf, TextOf
    <3>4. CASE Hears(p)
      BY <2>0, <3>4 DEF Hears, TextOf
    <3> QED BY <3>1, <3>2, <3>3, <3>4
  <2>3. PullsWait(p)'
    <3>1. PullsWait(p)
      BY <2>0 DEF ProcessInv
    <3>2. \A i \in DOMAIN pipe[p] : ~TextOf(pipe[p][i]) => pipe[p][i].of \in Requests
      BY <2>0 DEF PipeMessages, TextOf
    <3>3. \A i \in DOMAIN pipe[p] : \A e : CoveredAt(p, i, e) => CoveredAt(p, i, e)'
      BY <2>0 DEF CoveredAt, Deaf
    <3>4. ASSUME NEW i \in DOMAIN pipe[p], ~TextOf(pipe[p][i]),
                 NEW q \in Requests, q = pipe[p][i].of
          PROVE  /\ lpc'[q] \in {"pull", "answered late"} /\ using'[q] = p
                 /\ CoveredAt(p, i, wrote[q])' /\ wrote'[q] = wrote[q]
                 /\ \A j \in 1..(i - 1) : TextOf(pipe[p][j]) \/ pipe[p][j].of # q
      <4>1. Waits(q) /\ using[q] = p /\ CoveredAt(p, i, wrote[q])
            /\ \A j \in 1..(i - 1) : TextOf(pipe[p][j]) \/ pipe[p][j].of # q
        BY <3>1, <3>4 DEF PullsWait, Waits
      <4>2. PICK e : e = wrote[q] /\ e = wrote'[q]
        BY <4>1
      <4>3. CoveredAt(p, i, e)'
        BY <4>1, <4>2, <3>3
      <4> QED BY <4>1, <4>2, <4>3 DEF Waits
    <3>5. ASSUME NEW i \in DOMAIN pipe'[p], ~TextOf(pipe'[p][i])
          PROVE  /\ lpc'[pipe'[p][i].of] \in {"pull", "answered late"}
                 /\ using'[pipe'[p][i].of] = p
                 /\ CoveredAt(p, i, wrote[pipe[p][i].of])'
                 /\ \A j \in 1..(i - 1) : TextOf(pipe'[p][j]) \/ pipe'[p][j].of # pipe'[p][i].of
      <4>1. i \in DOMAIN pipe[p] /\ ~TextOf(pipe[p][i])
        BY <3>5
      <4>2. PICK q \in Requests : q = pipe[p][i].of /\ q = pipe'[p][i].of
        BY <3>2, <4>1
      <4>3. /\ lpc'[q] \in {"pull", "answered late"} /\ using'[q] = p
            /\ CoveredAt(p, i, wrote[q])'
            /\ \A j \in 1..(i - 1) : TextOf(pipe[p][j]) \/ pipe[p][j].of # q
        BY <3>4, <4>1, <4>2
      <4> QED BY <4>2, <4>3
    <3> QED BY <3>5 DEF PullsWait, TextOf
  <2> QED BY <2>0, <2>1, <2>2, <2>3 DEF ProcessInv
<1> QED BY <1>1, <1>2

\* A step that leaves a request, and the process it is about to ask, alone.
LEMMA RequestUntouched ==
  ASSUME LspTypeOK, NEW q \in Requests, RequestInv(q),
         got'[q] = got[q], wrote'[q] = wrote[q], using'[q] = using[q],
         lpc'[q] = lpc[q] \/ (lpc'[q] # "request" /\ lpc[q] # "idle"),
         spawned \subseteq spawned',
         lpc'[q] = "request" /\ using[q] \in alive' =>
           /\ using[q] \in alive
           /\ version'[using[q]] \in {version[using[q]], version[using[q]] + 1}
           /\ pipe'[using[q]] = pipe[using[q]]
           /\ doc'[using[q]] = doc[using[q]]
  PROVE  RequestInv(q)'
<1>1. (lpc'[q] # "idle" => using'[q] \in spawned' /\ got'[q] = 0)
      /\ (got'[q] # 0 => got'[q] >= wrote'[q])
  BY DEF RequestInv
<1>2. ASSUME lpc'[q] = "request", using'[q] \in alive'
      PROVE  CoveredAt(using[q], Len(pipe[using[q]]) + 1, wrote[q])'
  <2>1. CoveredAt(using[q], Len(pipe[using[q]]) + 1, wrote[q]) /\ using[q] \in Processes
    BY <1>2 DEF RequestInv, LspTypeOK
  <2>2. PICK p \in Processes : p = using[q] /\ p = using'[q]
    BY <2>1
  <2>3. version'[p] >= version[p] /\ version[p] \in Nat /\ version'[p] \in Nat /\ pipe'[p] = pipe[p] /\ doc'[p] = doc[p] /\ wrote'[q] = wrote[q]
    BY <1>2, <2>2 DEF LspTypeOK
  <2>4. CoveredAt(p, Len(pipe[p]) + 1, wrote[q])
    BY <2>1, <2>2
  <2>5. CoveredAt(p, Len(pipe[p]) + 1, wrote[q])'
    <3>1. PICK n, e : /\ n = Len(pipe[p]) + 1 /\ n = Len(pipe'[p]) + 1
                      /\ e = wrote[q] /\ e = wrote'[q]
      BY <2>3
    <3>2. CoveredAt(p, n, e)
      BY <2>4, <3>1
    <3>3. CoveredAt(p, n, e)'
      BY <2>3, <3>2 DEF CoveredAt, Deaf, TextOf
    <3> QED BY <3>1, <3>3
  <2> QED BY <2>2, <2>5
<1> QED BY <1>1, <1>2 DEF RequestInv

\* The steps that send and read nothing.
LEMMA QuietSteps ==
  ASSUME LspInv, LspTypeOK', UNCHANGED <<using, wrote, got, pipe, doc, spawned>>,
         alive' \subseteq alive, edits <= edits',
         \A p \in Processes : version'[p] = version[p] \/ (p \in spawned /\ version'[p] = version[p] + 1),
         \A r \in Requests :
           \/ lpc'[r] = lpc[r]
           \/ lpc[r] \in {"initialize", "sync", "request"} /\ lpc'[r] \in {"idle", "sync"}
           \/ lpc[r] = "pull" /\ lpc'[r] = "answered late"
  PROVE  LspInv'
<1>1. LspTypeOK /\ edits' \in Nat
  BY DEF LspInv, LspTypeOK
<1>2. ASSUME NEW p \in Processes
      PROVE  ProcessInv(p)'
  <2>1. \A r \in Requests : Waits(r) /\ using[r] = p =>
          Waits(r)' /\ using'[r] = p /\ wrote'[r] = wrote[r]
    BY DEF Waits
  <2>2. ProcessInv(p)
    BY DEF LspInv
  <2>3. version'[p] = version[p] \/ (p \in spawned /\ version'[p] = version[p] + 1)
    OBVIOUS
  <2> QED BY <1>1, <2>1, <2>2, <2>3, ProcessUntouched
<1>3. ASSUME NEW r \in Requests
      PROVE  RequestInv(r)'
  <2>1. RequestInv(r)
    BY DEF LspInv
  <2>2. CASE lpc'[r] = "request"
    <3>1. lpc[r] = "request" /\ using[r] \in spawned /\ using[r] \in Processes
      BY <2>1, <2>2, <1>1 DEF RequestInv, LspTypeOK
    <3>2. version'[using[r]] \in {version[using[r]], version[using[r]] + 1}
      BY <3>1
    <3> QED BY <1>1, <2>1, <3>1, <3>2, RequestUntouched
  <2>3. CASE lpc'[r] # "request"
    <3>1. lpc'[r] # "idle" => lpc[r] # "idle"
      OBVIOUS
    <3> QED BY <2>1, <2>3, <3>1 DEF RequestInv
  <2> QED BY <2>2, <2>3
<1> QED BY <1>2, <1>3 DEF LspInv

LEMMA QuietKeeps ==
  ASSUME LspInv,
         \/ \E q \in Requests : Initialized(q) \/ InitializeFails(q) \/ Abandoned(q) \/ PullTimesOut(q)
         \/ EditDocument \/ BeginLspShutdown \/ UNCHANGED lspVars
  PROVE  LspInv'
<1>0. LspTypeOK
  BY DEF LspInv
<1>1. ASSUME NEW q \in Requests, Abandoned(q)
      PROVE  LspInv'
  <2>1. /\ lpc[q] \in {"initialize", "sync", "request"} /\ lpc' = [lpc EXCEPT ![q] = "idle"]
        /\ UNCHANGED <<using, wrote, got, spawned, alive, pipe, doc, edits>>
    BY <1>1 DEF Abandoned, Step, lasting
  <2>2. using[q] \in spawned /\ using[q] \in Processes
    BY <2>1, <1>0 DEF LspInv, RequestInv, LspTypeOK
  <2>3. version' = version \/ version' = [version EXCEPT ![using[q]] = @ + 1]
    BY <1>1 DEF Abandoned
  <2>4. version' \in [Processes -> Nat]
    <3>1. version \in [Processes -> Nat] /\ version[using[q]] + 1 \in Nat
      BY <1>0, <2>2 DEF LspTypeOK
    <3> QED BY <2>2, <2>3, <3>1
  <2>5. LspTypeOK'
    BY <1>0, <2>1, <2>4 DEF LspTypeOK, LspPlaces
  <2>6. \A p \in Processes : version'[p] = version[p] \/ (p \in spawned /\ version'[p] = version[p] + 1)
    BY <1>0, <2>2, <2>3 DEF LspTypeOK
  <2>7. \A r \in Requests : \/ lpc'[r] = lpc[r]
                            \/ lpc[r] \in {"initialize", "sync", "request"} /\ lpc'[r] = "idle"
    BY <1>0, <2>1 DEF LspTypeOK
  <2>8. edits <= edits'
    BY <1>0, <2>1 DEF LspTypeOK
  <2> QED BY <2>1, <2>5, <2>6, <2>7, <2>8, QuietSteps
<1>2. ASSUME NEW q \in Requests, Initialized(q) \/ InitializeFails(q) \/ PullTimesOut(q)
      PROVE  LspInv'
  <2>1. UNCHANGED <<using, wrote, got, version, pipe, doc, spawned, edits>> /\ alive' \subseteq alive
    BY <1>2 DEF Initialized, InitializeFails, PullTimesOut, lasting
  <2>0. edits <= edits' /\ edits' \in Nat
    BY <1>0, <2>1 DEF LspTypeOK
  <2>2. PICK place \in {"idle", "sync", "answered late"} :
          /\ lpc' = [lpc EXCEPT ![q] = place]
          /\ IF place = "answered late" THEN lpc[q] = "pull" ELSE lpc[q] = "initialize"
    BY <1>2 DEF Initialized, InitializeFails, PullTimesOut, Step
  <2>3. LspTypeOK' /\ edits <= edits'
    <3>1. lpc' \in [Requests -> LspPlaces]
      BY <1>0, <2>2 DEF LspTypeOK, LspPlaces
    <3>3. alive' \subseteq spawned' /\ spawned' \subseteq Processes
      BY <1>0, <2>1 DEF LspTypeOK
    <3>4. /\ using' \in [Requests -> Processes \cup {NoServer}]
          /\ wrote' \in [Requests -> Nat] /\ got' \in [Requests -> Nat]
          /\ version' \in [Processes -> Nat]
          /\ pipe' \in [Processes -> Seq(PipeMessages)]
          /\ doc' \in [Processes -> [version : Nat, edit : Nat]]
      BY <1>0, <2>1 DEF LspTypeOK
    <3> QED BY <2>0, <3>1, <3>3, <3>4 DEF LspTypeOK
  <2>4. \A r \in Requests :
           \/ lpc'[r] = lpc[r]
           \/ lpc[r] \in {"initialize", "sync", "request"} /\ lpc'[r] \in {"idle", "sync"}
           \/ lpc[r] = "pull" /\ lpc'[r] = "answered late"
    BY <1>0, <2>2 DEF LspTypeOK
  <2> QED BY <2>1, <2>3, <2>4, QuietSteps
<1>3. CASE EditDocument \/ BeginLspShutdown \/ UNCHANGED lspVars
  <2>1. UNCHANGED <<lpc, using, wrote, got, version, pipe, doc, spawned, alive>>
        /\ (edits' = edits \/ edits' = edits + 1)
    BY <1>3 DEF EditDocument, BeginLspShutdown, lspVars
  <2>2. LspTypeOK' /\ edits <= edits'
    BY <1>0, <2>1 DEF LspTypeOK
  <2> QED BY <2>1, <2>2, QuietSteps
<1> QED BY <1>1, <1>2, <1>3

LEMMA LosesKeep ==
  ASSUME LspInv, NEW lost, Lose(lost),
         UNCHANGED <<using, wrote, got, spawned, version, doc, edits>>
  PROVE  LspInv'
<1>0. LspTypeOK /\ edits \in Nat
  BY DEF LspInv, LspTypeOK
<1>1. LspTypeOK'
  <2>1. <<>> \in Seq(PipeMessages)
    OBVIOUS
  <2> QED BY <1>0, <2>1 DEF LspTypeOK, Lose, LspPlaces
<1>2. ASSUME NEW p \in Processes
      PROVE  ProcessInv(p)'
  <2>1. CASE p = lost
    <3>1. p \notin alive' /\ pipe'[p] = <<>>
      BY <2>1 DEF Lose
    <3> QED BY <3>1 DEF ProcessInv, LspInv
  <2>2. CASE p # lost
    <3>1. pipe'[p] = pipe[p] /\ alive' \subseteq alive /\ edits <= edits'
      <4>1. pipe' = [r \in Processes |-> IF r = lost THEN <<>> ELSE pipe[r]]
            /\ alive' = alive \ {lost}
        BY DEF Lose
      <4>2. edits <= edits'
        BY <1>0
      <4> QED BY <2>2, <4>1, <4>2
    <3>2. \A r \in Requests : Waits(r) /\ using[r] = p =>
            Waits(r)' /\ using'[r] = p /\ wrote'[r] = wrote[r]
      BY <2>2 DEF Lose, Waits
    <3>3. ProcessInv(p)
      BY DEF LspInv
    <3> QED BY <1>0, <3>1, <3>2, <3>3, ProcessUntouched
  <2> QED BY <2>1, <2>2
<1>3. ASSUME NEW r \in Requests
      PROVE  RequestInv(r)'
  <2>1. lpc'[r] = lpc[r] \/ (lpc'[r] = "idle" /\ lpc[r] # "idle")
    BY DEF Lose
  <2>2. lpc'[r] = "request" /\ using[r] \in alive' =>
          using[r] \in alive /\ pipe'[using[r]] = pipe[using[r]]
    BY <1>0 DEF Lose, LspTypeOK
  <2> QED BY <1>0, <2>1, <2>2, RequestUntouched DEF LspInv, Lose
<1> QED BY <1>1, <1>2, <1>3 DEF LspInv

\* A new process has read nothing and was sent nothing.
LEMMA AskKeeps ==
  ASSUME LspInv, NEW q \in Requests, Ask(q)
  PROVE  LspInv'
<1>0. LspTypeOK /\ lpc[q] = "idle"
  BY DEF LspInv, Ask
<1>1. UNCHANGED <<wrote, version, pipe, doc, edits>> /\ got' = [got EXCEPT ![q] = 0]
  BY DEF Ask
<1>2. PICK p \in Processes, place \in {"sync", "initialize"} :
        /\ lpc' = [lpc EXCEPT ![q] = place] /\ using' = [using EXCEPT ![q] = p]
        /\ \/ p \in spawned /\ UNCHANGED <<spawned, alive>>
           \/ p \notin spawned /\ spawned' = spawned \cup {p} /\ alive' = alive \cup {p}
  <2>1. CASE current \in alive
    <3>1. current \in spawned /\ current \in Processes
      BY <2>1, <1>0 DEF LspTypeOK
    <3> QED BY <2>1, <3>1 DEF Ask, Step
  <2>2. CASE current \notin alive
    <3>1. Processes # spawned
      BY <2>2 DEF Ask
    <3>2. Unnamed \in Processes /\ Unnamed \notin spawned
      BY <1>0, <3>1 DEF Unnamed, LspTypeOK
    <3> QED BY <2>2, <3>2 DEF Ask, Step
  <2> QED BY <2>1, <2>2
<1>3. LspTypeOK'
  <2>1. lpc' \in [Requests -> LspPlaces] /\ using' \in [Requests -> Processes \cup {NoServer}]
    BY <1>0, <1>2 DEF LspTypeOK, LspPlaces
  <2>2. alive' \subseteq spawned' /\ spawned' \subseteq Processes
    BY <1>0, <1>2 DEF LspTypeOK
  <2> QED BY <1>0, <1>1, <2>1, <2>2 DEF LspTypeOK
<1>4. \A r \in Requests : Waits(r) => Waits(r)' /\ using'[r] = using[r]
  BY <1>0, <1>2 DEF Waits, LspTypeOK
<1>5. ASSUME NEW s \in Processes
      PROVE  ProcessInv(s)'
  <2>0. ProcessInv(s)
    BY DEF LspInv
  <2>1. CASE s = p /\ p \notin spawned
    <3>1. s \in spawned' /\ version'[s] = 0 /\ pipe'[s] = <<>>
          /\ doc'[s].version = 0 /\ doc'[s].edit = 0
      BY <1>1, <1>2, <2>0, <2>1 DEF ProcessInv
    <3>2. edits' \in Nat
      BY <1>0, <1>1 DEF LspTypeOK
    <3>3. PipeOrdered(s)' /\ Unopened(s)' /\ PullsWait(s)'
      BY <3>1, <3>2 DEF PipeOrdered, Unopened, PullsWait
    <3> QED BY <3>1, <3>3 DEF ProcessInv
  <2>2. CASE s # p \/ p \in spawned
    <3>1. /\ s \in spawned => s \in spawned'
          /\ s \in alive' => s \in alive
          /\ s \in spawned' => s \in spawned
      BY <1>2, <2>2
    <3>2. edits' \in Nat /\ edits <= edits'
      BY <1>0, <1>1 DEF LspTypeOK
    <3>3. \A r \in Requests : Waits(r) /\ using[r] = s =>
            Waits(r)' /\ using'[r] = s /\ wrote'[r] = wrote[r]
      BY <1>1, <1>4
    <3> QED BY <1>0, <1>1, <2>0, <3>1, <3>2, <3>3, ProcessUntouched
  <2> QED BY <2>1, <2>2
<1>6. ASSUME NEW r \in Requests
      PROVE  RequestInv(r)'
  <2>0. RequestInv(r)
    BY DEF LspInv
  <2>1. CASE r = q
    <3>1. lpc'[r] = place /\ using'[r] = p /\ got'[r] = 0 /\ p \in spawned'
      BY <1>0, <1>1, <1>2, <2>1 DEF LspTypeOK
    <3> QED BY <3>1 DEF RequestInv
  <2>2. CASE r # q
    <3>1. lpc'[r] = lpc[r] /\ using'[r] = using[r] /\ got'[r] = got[r] /\ wrote'[r] = wrote[r]
          /\ spawned \subseteq spawned'
      BY <1>0, <1>1, <1>2, <2>2 DEF LspTypeOK
    <3>2. lpc[r] = "request" => using[r] \in spawned
      BY <2>0 DEF RequestInv
    <3>3. lpc'[r] = "request" /\ using[r] \in alive' =>
           /\ using[r] \in alive
           /\ version'[using[r]] \in {version[using[r]], version[using[r]] + 1}
           /\ pipe'[using[r]] = pipe[using[r]]
           /\ doc'[using[r]] = doc[using[r]]
      BY <1>1, <1>2, <3>1, <3>2
    <3> QED BY <1>0, <2>0, <3>1, <3>3, RequestUntouched
  <2> QED BY <2>1, <2>2
<1> QED BY <1>3, <1>5, <1>6 DEF LspInv

\* Of a sequence that grows at its end, or loses its head.
LEMMA Grown ==
  ASSUME NEW P \in Seq(PipeMessages), NEW m \in PipeMessages, NEW Q, Q = Append(P, m)
  PROVE  /\ Q \in Seq(PipeMessages) /\ Len(P) \in Nat /\ Len(Q) = Len(P) + 1 /\ Q[Len(P) + 1] = m
         /\ \A i \in DOMAIN P : i \in 1..Len(P) /\ i \in DOMAIN Q /\ Q[i] = P[i]
         /\ \A i \in DOMAIN Q : i \in 1..Len(Q) /\ (i \in DOMAIN P \/ i = Len(P) + 1)
         /\ DOMAIN P = 1..Len(P) /\ DOMAIN Q = 1..Len(Q)
OBVIOUS

LEMMA Shrunk ==
  ASSUME NEW P \in Seq(PipeMessages), P # <<>>, NEW Q, Q = Tail(P)
  PROVE  /\ Q \in Seq(PipeMessages) /\ Len(P) \in Nat /\ Len(P) = Len(Q) + 1 /\ Head(P) = P[1]
         /\ 1 \in DOMAIN P /\ Len(Q) \in Nat
         /\ \A i \in 1..Len(Q) : i + 1 \in DOMAIN P /\ Q[i] = P[i + 1]
         /\ \A i \in DOMAIN P : i = 1 \/ (i - 1 \in 1..Len(Q) /\ Q[i - 1] = P[i])
         /\ DOMAIN P = 1..Len(P) /\ DOMAIN Q = 1..Len(Q)
OBVIOUS

\* What a text adds to a process that will read it.
LEMMA TextArrives ==
  ASSUME LspInv, LspTypeOK', NEW p \in Processes, p \in alive, p \in alive', NEW n \in Nat,
         n = version[p] + 1, version'[p] = n, doc'[p] = doc[p], edits' = edits,
         p \in spawned', NEW m, m = TextMessage(n, edits), pipe'[p] = Append(pipe[p], m),
         \A r \in Requests : Waits(r) => Waits(r)' /\ using'[r] = using[r] /\ wrote'[r] = wrote[r]
  PROVE  /\ ProcessInv(p)'
         /\ \A e : CoveredAt(p, Len(pipe[p]) + 1, e) => CoveredAt(p, Len(pipe[p]) + 1, e)'
         /\ \A e : e = edits => CoveredAt(p, Len(pipe[p]) + 1, e)'
<1>0. /\ LspTypeOK /\ ProcessInv(p) /\ PipeOrdered(p) /\ PullsWait(p)
      /\ Unopened(p) \/ Deaf(p) \/ Hears(p)
  BY DEF LspInv, ProcessInv
<1>1. PICK P, Q : P = pipe[p] /\ Q = pipe'[p]
  OBVIOUS
<1>2. /\ P \in Seq(PipeMessages) /\ Q = Append(P, m) /\ m \in PipeMessages
      /\ edits \in Nat /\ version[p] \in Nat /\ doc[p].edit \in Nat /\ doc[p].version \in Nat
  BY <1>0, <1>1 DEF LspTypeOK, TextMessage, PipeMessages
<1>3. TextOf(m) /\ m.edit = edits /\ m.version = n
  BY DEF TextMessage, TextOf
<1>4. /\ Q \in Seq(PipeMessages) /\ Len(P) \in Nat /\ Len(Q) = Len(P) + 1 /\ Q[Len(P) + 1] = m
      /\ \A i \in DOMAIN P : i \in 1..Len(P) /\ i \in DOMAIN Q /\ Q[i] = P[i]
      /\ \A i \in DOMAIN Q : i \in 1..Len(Q) /\ (i \in DOMAIN P \/ i = Len(P) + 1)
      /\ DOMAIN P = 1..Len(P) /\ DOMAIN Q = 1..Len(Q)
  BY <1>2, Grown
<1>5. \A i \in DOMAIN P : TextOf(P[i]) =>
       /\ doc[p].edit <= P[i].edit /\ P[i].edit <= edits /\ P[i].edit \in Nat
       /\ P[i].version \in 1..version[p]
       /\ \A j \in 1..(i - 1) : TextOf(P[j]) => P[j].edit <= P[i].edit
  BY <1>0, <1>1, <1>2 DEF PipeOrdered, PipeMessages, TextOf
<1>6. PipeOrdered(p)'
  <2>1. \A i \in DOMAIN Q : TextOf(Q[i]) =>
         /\ doc[p].edit <= Q[i].edit /\ Q[i].edit <= edits
         /\ Q[i].version \in 1..n
         /\ \A j \in 1..(i - 1) : TextOf(Q[j]) => Q[j].edit <= Q[i].edit
    <3>1. ASSUME NEW i \in DOMAIN Q, i \in DOMAIN P, TextOf(Q[i])
          PROVE  /\ doc[p].edit <= Q[i].edit /\ Q[i].edit <= edits
                 /\ Q[i].version \in 1..n
                 /\ \A j \in 1..(i - 1) : TextOf(Q[j]) => Q[j].edit <= Q[i].edit
      <4>1. Q[i] = P[i] /\ \A j \in 1..(i - 1) : j \in DOMAIN P /\ Q[j] = P[j]
        BY <1>4, <3>1
      <4> QED BY <1>2, <1>5, <3>1, <4>1
    <3>2. ASSUME NEW i \in DOMAIN Q, i = Len(P) + 1
          PROVE  /\ doc[p].edit <= Q[i].edit /\ Q[i].edit <= edits
                 /\ Q[i].version \in 1..n
                 /\ \A j \in 1..(i - 1) : TextOf(Q[j]) => Q[j].edit <= Q[i].edit
      <4>1. Q[i] = m /\ \A j \in 1..(i - 1) : j \in DOMAIN P /\ Q[j] = P[j]
        BY <1>4, <3>2
      <4>2. doc[p].edit <= edits
        BY <1>0 DEF PipeOrdered
      <4> QED BY <1>2, <1>3, <1>5, <4>1, <4>2
    <3> QED BY <1>4, <3>1, <3>2
  <2>2. doc[p].edit <= edits /\ (doc[p].version = 0 => doc[p].edit = 0) /\ doc[p].version <= n
    BY <1>0, <1>2 DEF PipeOrdered
  <2> QED BY <1>1, <2>1, <2>2 DEF PipeOrdered, TextOf
<1>7. Deaf(p) => Deaf(p)'
  <2> SUFFICES ASSUME Deaf(p)
               PROVE  Deaf(p)'
    OBVIOUS
  <2>1. n > 1 /\ doc[p].version = 0
    BY <1>2 DEF Deaf
  <2>2. \A i \in DOMAIN Q : TextOf(Q[i]) => Q[i].version > 1
    BY <1>1, <1>3, <1>4, <2>1 DEF Deaf
  <2> QED BY <1>1, <2>1, <2>2 DEF Deaf, TextOf
<1>8. (Unopened(p) \/ Deaf(p) \/ Hears(p))'
  <2>1. CASE Unopened(p)
    <3>1. \A i \in DOMAIN P : ~TextOf(P[i])
      BY <1>5, <2>1 DEF Unopened
    <3>2. n = 1 /\ Len(P) + 1 \in DOMAIN Q
      BY <1>4, <2>1 DEF Unopened
    <3>3. \A j \in 1..(Len(P) + 1 - 1) : ~TextOf(Q[j])
      BY <1>4, <3>1
    <3> QED BY <1>1, <1>3, <1>4, <3>2, <3>3 DEF Hears, TextOf
  <2>2. CASE Hears(p)
    <3>1. CASE doc[p].version > 0
      BY <3>1 DEF Hears
    <3>2. CASE ~(doc[p].version > 0)
      <4>1. PICK i \in DOMAIN P : /\ TextOf(P[i]) /\ P[i].version = 1
                                  /\ \A j \in 1..(i - 1) : ~TextOf(P[j])
        BY <1>1, <2>2, <3>2 DEF Hears
      <4>2. i \in DOMAIN Q /\ Q[i] = P[i] /\ \A j \in 1..(i - 1) : Q[j] = P[j]
        BY <1>4
      <4> QED BY <1>1, <4>1, <4>2 DEF Hears, TextOf
    <3> QED BY <3>1, <3>2
  <2> QED BY <1>0, <1>7, <2>1, <2>2
<1>9. ASSUME NEW i, NEW e, CoveredAt(p, i, e), i \in DOMAIN P \/ i = Len(P) + 1
      PROVE  CoveredAt(p, i, e)'
  <2>1. CASE \E j \in 1..(i - 1) : TextOf(P[j]) /\ P[j].edit >= e
    BY <1>1, <1>4, <1>9, <2>1 DEF CoveredAt, TextOf
  <2> QED BY <1>1, <1>7, <1>9, <2>1 DEF CoveredAt
<1>10. PullsWait(p)'
  <2>1. ASSUME NEW i \in DOMAIN Q, ~TextOf(Q[i]), NEW q \in Requests, q = Q[i].of
        PROVE  /\ lpc'[q] \in {"pull", "answered late"} /\ using'[q] = p
               /\ CoveredAt(p, i, wrote[q])' /\ wrote'[q] = wrote[q]
               /\ \A j \in 1..(i - 1) : TextOf(Q[j]) \/ Q[j].of # q
    <3>1. i \in DOMAIN P /\ Q[i] = P[i] /\ \A j \in 1..(i - 1) : Q[j] = P[j]
      BY <1>3, <1>4, <2>1
    <3>2. /\ Waits(q) /\ using[q] = p /\ CoveredAt(p, i, wrote[q])
          /\ \A j \in 1..(i - 1) : TextOf(P[j]) \/ P[j].of # q
      <4>1. i \in DOMAIN pipe[p] /\ ~TextOf(pipe[p][i]) /\ pipe[p][i].of = q
        BY <1>1, <2>1, <3>1
      <4>2. /\ lpc[q] \in {"pull", "answered late"} /\ using[q] = p
            /\ CoveredAt(p, i, wrote[q])
            /\ \A j \in 1..(i - 1) : TextOf(pipe[p][j]) \/ pipe[p][j].of # q
        BY <1>0, <4>1 DEF PullsWait
      <4> QED BY <1>1, <4>2 DEF Waits
    <3>3. PICK e : e = wrote[q] /\ e = wrote'[q]
      BY <3>2
    <3>4. CoveredAt(p, i, e)'
      BY <1>9, <3>1, <3>2, <3>3
    <3> QED BY <3>1, <3>2, <3>3, <3>4 DEF Waits
  <2>2. \A i \in DOMAIN Q : ~TextOf(Q[i]) => Q[i].of \in Requests
    BY <1>4 DEF PipeMessages, TextOf
  <2>3. ASSUME NEW i \in DOMAIN pipe'[p], ~TextOf(pipe'[p][i])
        PROVE  /\ lpc'[pipe'[p][i].of] \in {"pull", "answered late"}
               /\ using'[pipe'[p][i].of] = p
               /\ CoveredAt(p, i, wrote[pipe[p][i].of])'
               /\ \A j \in 1..(i - 1) : TextOf(pipe'[p][j]) \/ pipe'[p][j].of # pipe'[p][i].of
    <3>1. PICK q \in Requests : q = Q[i].of /\ q = pipe'[p][i].of
      BY <1>1, <2>2, <2>3
    <3>2. /\ lpc'[q] \in {"pull", "answered late"} /\ using'[q] = p
          /\ CoveredAt(p, i, wrote[q])' /\ wrote'[q] = wrote[q]
          /\ \A j \in 1..(i - 1) : TextOf(Q[j]) \/ Q[j].of # q
      BY <1>1, <2>1, <2>3, <3>1
    <3> QED BY <1>1, <3>1, <3>2
  <2> QED BY <2>3 DEF PullsWait, TextOf
<1>11. ProcessInv(p)'
  BY <1>6, <1>8, <1>10 DEF ProcessInv
<1>12. ASSUME NEW e
       PROVE  /\ CoveredAt(p, Len(P) + 1, e) => CoveredAt(p, Len(P) + 2, e)'
              /\ e = edits => CoveredAt(p, Len(P) + 2, e)'
  <2>1. CASE CoveredAt(p, Len(P) + 1, e)
    <3>1. CoveredAt(p, Len(P) + 1, e)'
      BY <1>9, <2>1
    <3>2. PICK a, b : a = Len(P) + 1 /\ b = Len(P) + 2 /\ \A j \in 1..(a - 1) : j \in 1..(b - 1)
      BY <1>4
    <3>3. CoveredAt(p, a, e)'
      BY <3>1, <3>2
    <3>4. CoveredAt(p, b, e)'
      BY <3>2, <3>3 DEF CoveredAt
    <3> QED BY <3>2, <3>4
  <2>2. CASE e = edits
    <3>1. Len(P) + 1 \in 1..(Len(P) + 2 - 1) /\ TextOf(Q[Len(P) + 1]) /\ Q[Len(P) + 1].edit >= e
      BY <1>2, <1>3, <1>4, <2>2
    <3> QED BY <1>1, <3>1 DEF CoveredAt, TextOf
  <2> QED BY <2>1, <2>2
<1>13. PICK n1, n2 : /\ n1 = Len(P) + 1 /\ n1 = Len(pipe[p]) + 1
                    /\ n2 = Len(P) + 2 /\ n2 = Len(pipe'[p]) + 1
  <2>1. Len(pipe[p]) = Len(P) /\ Len(pipe'[p]) = Len(Q)
    BY <1>1
  <2>2. Len(Q) + 1 = Len(P) + 2
    BY <1>4
  <2> QED BY <2>1, <2>2
<1>14. ASSUME NEW e
       PROVE  /\ CoveredAt(p, n1, e) => CoveredAt(p, n2, e)'
              /\ e = edits => CoveredAt(p, n2, e)'
  BY <1>12, <1>13
<1> QED BY <1>11, <1>13, <1>14

\* A pull arrives behind the text that its request has sent.
LEMMA PullArrives ==
  ASSUME LspInv, LspTypeOK', NEW p \in Processes, p \in alive, p \in spawned',
         NEW q \in Requests, lpc[q] = "request", using[q] = p,
         lpc' = [lpc EXCEPT ![q] = "pull"],
         UNCHANGED <<using, wrote, version, doc, edits>>,
         NEW m, m = PullMessage(q), pipe'[p] = Append(pipe[p], m)
  PROVE  /\ ProcessInv(p)'
         /\ \A e : CoveredAt(p, Len(pipe[p]) + 1, e) => CoveredAt(p, Len(pipe[p]) + 1, e)'
<1>0. /\ LspTypeOK /\ ProcessInv(p) /\ PipeOrdered(p) /\ PullsWait(p)
      /\ Unopened(p) \/ Deaf(p) \/ Hears(p)
      /\ CoveredAt(p, Len(pipe[p]) + 1, wrote[q])
  BY DEF LspInv, ProcessInv, RequestInv
<1>1. PICK P, Q : P = pipe[p] /\ Q = pipe'[p]
  OBVIOUS
<1>2. P \in Seq(PipeMessages) /\ Q = Append(P, m) /\ m \in PipeMessages
  BY <1>0, <1>1 DEF LspTypeOK, PullMessage, PipeMessages
<1>3. ~TextOf(m) /\ m.of = q
  BY DEF PullMessage, TextOf
<1>4. /\ Q \in Seq(PipeMessages) /\ Len(P) \in Nat /\ Len(Q) = Len(P) + 1 /\ Q[Len(P) + 1] = m
      /\ \A i \in DOMAIN P : i \in 1..Len(P) /\ i \in DOMAIN Q /\ Q[i] = P[i]
      /\ \A i \in DOMAIN Q : i \in 1..Len(Q) /\ (i \in DOMAIN P \/ i = Len(P) + 1)
      /\ DOMAIN P = 1..Len(P) /\ DOMAIN Q = 1..Len(Q)
  BY <1>2, Grown
<1>5. PipeOrdered(p)'
  <2>1. \A i \in DOMAIN P : TextOf(P[i]) =>
         /\ doc[p].edit <= P[i].edit /\ P[i].edit <= edits
         /\ P[i].version \in 1..version[p]
         /\ \A j \in 1..(i - 1) : TextOf(P[j]) => P[j].edit <= P[i].edit
    BY <1>0, <1>1 DEF PipeOrdered
  <2>2. \A i \in DOMAIN Q : TextOf(Q[i]) =>
         /\ i \in DOMAIN P /\ Q[i] = P[i]
         /\ \A j \in 1..(i - 1) : Q[j] = P[j]
    <3> SUFFICES ASSUME NEW i \in DOMAIN Q, TextOf(Q[i])
                 PROVE  i \in DOMAIN P /\ Q[i] = P[i] /\ \A j \in 1..(i - 1) : Q[j] = P[j]
      OBVIOUS
    <3>1. i \in DOMAIN P
      BY <1>3, <1>4
    <3>2. \A j \in 1..(i - 1) : j \in DOMAIN P
      BY <1>4, <3>1
    <3> QED BY <1>4, <3>1, <3>2
  <2>3. doc[p].edit <= edits /\ (doc[p].version = 0 => doc[p].edit = 0) /\ doc[p].version <= version[p]
    BY <1>0 DEF PipeOrdered
  <2>4. \A i \in DOMAIN Q : TextOf(Q[i]) =>
         /\ doc[p].edit <= Q[i].edit /\ Q[i].edit <= edits
         /\ Q[i].version \in 1..version[p]
         /\ \A j \in 1..(i - 1) : TextOf(Q[j]) => Q[j].edit <= Q[i].edit
    BY <2>1, <2>2
  <2> QED BY <1>1, <2>3, <2>4 DEF PipeOrdered, TextOf
<1>6. Deaf(p) => Deaf(p)'
  BY <1>1, <1>3, <1>4 DEF Deaf, TextOf
<1>7. (Unopened(p) \/ Deaf(p) \/ Hears(p))'
  <2>1. CASE Hears(p) /\ ~(doc[p].version > 0)
    <3>1. PICK i \in DOMAIN P : /\ TextOf(P[i]) /\ P[i].version = 1
                                /\ \A j \in 1..(i - 1) : ~TextOf(P[j])
      BY <1>1, <2>1 DEF Hears
    <3>2. i \in DOMAIN Q /\ Q[i] = P[i] /\ \A j \in 1..(i - 1) : Q[j] = P[j]
      BY <1>4
    <3> QED BY <1>1, <3>1, <3>2 DEF Hears, TextOf
  <2>2. CASE Unopened(p) \/ (Hears(p) /\ doc[p].version > 0)
    BY <2>2 DEF Unopened, Hears
  <2> QED BY <1>0, <1>6, <2>1, <2>2
<1>8. ASSUME NEW i, NEW e, CoveredAt(p, i, e), i \in DOMAIN P \/ i = Len(P) + 1
      PROVE  CoveredAt(p, i, e)'
  <2>1. CASE \E j \in 1..(i - 1) : TextOf(P[j]) /\ P[j].edit >= e
    BY <1>1, <1>4, <1>8, <2>1 DEF CoveredAt, TextOf
  <2> QED BY <1>1, <1>6, <1>8, <2>1 DEF CoveredAt
<1>9. ASSUME NEW i \in DOMAIN P, ~TextOf(P[i])
      PROVE  P[i].of # q
  <2>1. i \in DOMAIN pipe[p] /\ ~TextOf(pipe[p][i]) /\ pipe[p][i].of = P[i].of
    BY <1>1, <1>9
  <2>2. lpc[pipe[p][i].of] \in {"pull", "answered late"}
    BY <1>0, <2>1 DEF PullsWait
  <2> QED BY <2>1, <2>2
<1>10. PullsWait(p)'
  <2>1. ASSUME NEW i \in DOMAIN Q, ~TextOf(Q[i]), NEW r \in Requests, r = Q[i].of
        PROVE  /\ lpc'[r] \in {"pull", "answered late"} /\ using[r] = p
               /\ CoveredAt(p, i, wrote[r])'
               /\ \A j \in 1..(i - 1) : TextOf(Q[j]) \/ Q[j].of # r
    <3>1. CASE i \in DOMAIN P
      <4>1. Q[i] = P[i] /\ r # q /\ \A j \in 1..(i - 1) : Q[j] = P[j]
        BY <1>3, <1>4, <1>9, <2>1, <3>1
      <4>2. i \in DOMAIN pipe[p] /\ ~TextOf(pipe[p][i]) /\ pipe[p][i].of = r
        BY <1>1, <2>1, <3>1, <4>1
      <4>3. /\ lpc[r] \in {"pull", "answered late"} /\ using[r] = p
            /\ CoveredAt(p, i, wrote[r])
            /\ \A j \in 1..(i - 1) : TextOf(pipe[p][j]) \/ pipe[p][j].of # r
        BY <1>0, <4>2 DEF PullsWait
      <4>4. PICK e : e = wrote[r] /\ e = wrote'[r]
        OBVIOUS
      <4>5. CoveredAt(p, i, e)'
        BY <1>8, <3>1, <4>3, <4>4
      <4>6. lpc'[r] = lpc[r]
        BY <1>0, <4>1 DEF LspTypeOK
      <4> QED BY <1>1, <4>1, <4>3, <4>4, <4>5, <4>6
    <3>2. CASE i = Len(P) + 1
      <4>1. r = q /\ \A j \in 1..(i - 1) : j \in DOMAIN P /\ Q[j] = P[j]
        BY <1>3, <1>4, <2>1, <3>2
      <4>2. PICK e : e = wrote[q] /\ e = wrote'[q]
        OBVIOUS
      <4>3. CoveredAt(p, i, e)
        BY <1>0, <1>1, <3>2, <4>2
      <4>4. CoveredAt(p, i, e)'
        BY <1>8, <3>2, <4>3
      <4>5. lpc'[q] = "pull"
        BY <1>0 DEF LspTypeOK
      <4> QED BY <1>9, <4>1, <4>2, <4>4, <4>5
    <3> QED BY <1>4, <3>1, <3>2
  <2>2. \A i \in DOMAIN Q : ~TextOf(Q[i]) => Q[i].of \in Requests
    BY <1>4 DEF PipeMessages, TextOf
  <2>3. ASSUME NEW i \in DOMAIN pipe'[p], ~TextOf(pipe'[p][i])
        PROVE  /\ lpc'[pipe'[p][i].of] \in {"pull", "answered late"}
               /\ using'[pipe'[p][i].of] = p
               /\ CoveredAt(p, i, wrote[pipe[p][i].of])'
               /\ \A j \in 1..(i - 1) : TextOf(pipe'[p][j]) \/ pipe'[p][j].of # pipe'[p][i].of
    <3>1. PICK r \in Requests : r = Q[i].of /\ r = pipe'[p][i].of
      BY <1>1, <2>2, <2>3
    <3>2. /\ lpc'[r] \in {"pull", "answered late"} /\ using'[r] = p
          /\ CoveredAt(p, i, wrote[r])'
          /\ \A j \in 1..(i - 1) : TextOf(Q[j]) \/ Q[j].of # r
      BY <1>1, <2>1, <2>3, <3>1
    <3> QED BY <1>1, <3>1, <3>2
  <2> QED BY <2>3 DEF PullsWait, TextOf
<1>11. ProcessInv(p)'
  BY <1>5, <1>7, <1>10 DEF ProcessInv
<1>12. PICK n1, n2 : /\ n1 = Len(P) + 1 /\ n1 = Len(pipe[p]) + 1
                    /\ n2 = Len(Q) + 1 /\ n2 = Len(pipe'[p]) + 1
                    /\ \A j \in 1..(n1 - 1) : j \in 1..(n2 - 1)
  <2>1. Len(pipe[p]) = Len(P) /\ Len(pipe'[p]) = Len(Q)
    BY <1>1
  <2>2. \A j \in 1..(Len(P) + 1 - 1) : j \in 1..(Len(Q) + 1 - 1)
    BY <1>4
  <2> QED BY <2>1, <2>2
<1>13. ASSUME NEW e, CoveredAt(p, n1, e)
       PROVE  CoveredAt(p, n2, e)'
  <2>1. CoveredAt(p, n1, e)'
    BY <1>8, <1>12, <1>13
  <2> QED BY <1>12, <2>1 DEF CoveredAt
<1> QED BY <1>11, <1>12, <1>13

\* The file is read and sent.
LEMMA SyncKeeps ==
  ASSUME LspInv, NEW q \in Requests, Sync(q)
  PROVE  LspInv'
<1>0. LspTypeOK /\ lpc[q] = "sync" /\ edits \in Nat
  BY DEF LspInv, LspTypeOK, Sync
<1>1. PICK p : p = using[q] /\ p \in Processes /\ p \in spawned
  BY <1>0 DEF LspInv, RequestInv, LspTypeOK
<1>2. PICK n \in Nat : n = version[p] + 1
  BY <1>0, <1>1 DEF LspTypeOK
<1>3. /\ version' = [version EXCEPT ![p] = n] /\ wrote' = [wrote EXCEPT ![q] = edits]
      /\ lpc' = [lpc EXCEPT ![q] = "request"]
      /\ UNCHANGED <<using, got, current, spawned, alive, doc, edits>>
  BY <1>1, <1>2 DEF Sync, Step, lasting
<1>4. version'[p] = n
  BY <1>0, <1>1, <1>3 DEF LspTypeOK
<1>5. PICK m : m = TextMessage(n, edits) /\ m \in PipeMessages
  <2>1. \A e \in Nat : TextMessage(n, e) \in PipeMessages
    BY DEF TextMessage, PipeMessages
  <2> QED BY <1>0, <2>1
<1>6. pipe' = [pipe EXCEPT ![p] = IF p \in alive THEN Append(@, m) ELSE @]
  BY <1>1, <1>3, <1>4, <1>5 DEF Sync, Send
<1>7. LspTypeOK'
  <2>1. pipe' \in [Processes -> Seq(PipeMessages)]
    <3>1. pipe[p] \in Seq(PipeMessages) /\ pipe \in [Processes -> Seq(PipeMessages)]
      BY <1>0, <1>1 DEF LspTypeOK
    <3>2. Append(pipe[p], m) \in Seq(PipeMessages)
      BY <3>1, <1>5
    <3> QED BY <1>6, <3>1, <3>2
  <2>2. lpc' \in [Requests -> LspPlaces] /\ wrote' \in [Requests -> Nat]
        /\ version' \in [Processes -> Nat]
    BY <1>0, <1>2, <1>3 DEF LspTypeOK, LspPlaces
  <2> QED BY <1>0, <1>3, <2>1, <2>2 DEF LspTypeOK
<1>8. \A r \in Requests : Waits(r) => Waits(r)' /\ using'[r] = using[r] /\ wrote'[r] = wrote[r]
  BY <1>0, <1>3 DEF Waits, LspTypeOK
<1>9. p \in alive =>
        /\ ProcessInv(p)'
        /\ \A e : CoveredAt(p, Len(pipe[p]) + 1, e) => CoveredAt(p, Len(pipe[p]) + 1, e)'
        /\ \A e : e = edits => CoveredAt(p, Len(pipe[p]) + 1, e)'
  <2> SUFFICES ASSUME p \in alive
               PROVE  /\ ProcessInv(p)'
                      /\ \A e : CoveredAt(p, Len(pipe[p]) + 1, e) => CoveredAt(p, Len(pipe[p]) + 1, e)'
                      /\ \A e : e = edits => CoveredAt(p, Len(pipe[p]) + 1, e)'
    OBVIOUS
  <2>1. pipe'[p] = Append(pipe[p], m) /\ p \in alive' /\ p \in spawned' /\ doc'[p] = doc[p]
        /\ edits' = edits
    BY <1>0, <1>1, <1>3, <1>6 DEF LspTypeOK
  <2> QED BY <1>1, <1>2, <1>4, <1>5, <1>7, <1>8, <2>1, TextArrives
<1>10. ASSUME NEW s \in Processes, s # p \/ p \notin alive
       PROVE  ProcessInv(s)' /\ pipe'[s] = pipe[s]
  <2>1. /\ version'[s] = version[s] \/ (s \in spawned /\ version'[s] = version[s] + 1)
        /\ pipe'[s] = pipe[s] /\ doc'[s] = doc[s] /\ edits' \in Nat /\ edits <= edits'
    BY <1>0, <1>1, <1>2, <1>3, <1>6, <1>10 DEF LspTypeOK
  <2>2. ProcessInv(s)
    BY DEF LspInv
  <2>3. \A r \in Requests : Waits(r) /\ using[r] = s =>
           Waits(r)' /\ using'[r] = s /\ wrote'[r] = wrote[r]
    BY <1>8
  <2> QED BY <1>0, <1>3, <2>1, <2>2, <2>3, ProcessUntouched
<1>11. ASSUME NEW r \in Requests
       PROVE  RequestInv(r)'
  <2>0. RequestInv(r)
    BY DEF LspInv
  <2>1. CASE r = q
    <3>1. got'[r] = 0 /\ using'[r] \in spawned' /\ using'[r] = p /\ wrote'[r] = edits
      BY <1>0, <1>1, <1>3, <2>0, <2>1 DEF RequestInv, LspTypeOK
    <3>2. PICK e, n1 : e = edits /\ e = wrote'[r] /\ n1 = Len(pipe'[p]) + 1
      BY <3>1
    <3>3. p \in alive => CoveredAt(p, n1, e)'
      BY <1>9, <3>2
    <3> QED BY <1>3, <3>1, <3>2, <3>3 DEF RequestInv
  <2>2. CASE r # q
    <3>1. lpc'[r] = lpc[r] /\ using'[r] = using[r] /\ got'[r] = got[r] /\ wrote'[r] = wrote[r]
      BY <1>0, <1>3, <2>2 DEF LspTypeOK
    <3>2. CASE using[r] = p /\ p \in alive /\ lpc[r] = "request"
      <4>1. PICK e, n1, n2 : /\ e = wrote[r] /\ e = wrote'[r]
                             /\ n1 = Len(pipe[p]) + 1 /\ n2 = Len(pipe'[p]) + 1
        BY <3>1
      <4>2. CoveredAt(p, n1, e)
        BY <2>0, <3>2, <4>1 DEF RequestInv
      <4>3. CoveredAt(p, n2, e)'
        BY <1>9, <3>2, <4>1, <4>2
      <4> QED BY <1>3, <2>0, <3>1, <3>2, <4>1, <4>3 DEF RequestInv
    <3>3. CASE using[r] # p \/ p \notin alive \/ lpc[r] # "request"
      <4>1. lpc[r] = "request" /\ using[r] \in alive =>
              /\ version'[using[r]] \in {version[using[r]], version[using[r]] + 1}
              /\ pipe'[using[r]] = pipe[using[r]] /\ doc'[using[r]] = doc[using[r]]
        BY <1>0, <1>3, <1>6, <3>3 DEF LspTypeOK
      <4> QED BY <1>0, <1>3, <2>0, <3>1, <4>1, RequestUntouched
    <3> QED BY <3>2, <3>3
  <2> QED BY <2>1, <2>2
<1> QED BY <1>7, <1>9, <1>10, <1>11 DEF LspInv

\* A process reads what comes first: it takes a text, or is deaf and stays so,
\* or answers a pull.
LEMMA HeadRead ==
  ASSUME LspInv, LspTypeOK', NEW p \in Processes, p \in alive, p \in spawned',
         pipe[p] # <<>>, pipe'[p] = Tail(pipe[p]), NEW m, m = Head(pipe[p]),
         UNCHANGED <<using, wrote, version, edits>>,
         \/ /\ TextOf(m) /\ ~(m.version > 1 /\ doc[p].version = 0)
            /\ doc'[p].version = m.version /\ doc'[p].edit = m.edit
         \/ /\ TextOf(m) /\ m.version > 1 /\ doc[p].version = 0 /\ doc'[p] = doc[p]
         \/ /\ ~TextOf(m) /\ doc'[p] = doc[p],
         \A r \in Requests : Waits(r) /\ using[r] = p /\ (TextOf(m) \/ r # m.of) => Waits(r)'
  PROVE  /\ ProcessInv(p)'
         /\ \A e \in Nat : CoveredAt(p, Len(pipe[p]) + 1, e) => CoveredAt(p, Len(pipe[p]) + 1, e)'
<1>0. /\ LspTypeOK /\ ProcessInv(p) /\ PipeOrdered(p) /\ PullsWait(p)
      /\ Unopened(p) \/ Deaf(p) \/ Hears(p)
  BY DEF LspInv, ProcessInv
<1>1. PICK P, Q : P = pipe[p] /\ Q = pipe'[p]
  OBVIOUS
<1>2. P \in Seq(PipeMessages) /\ Q = Tail(P) /\ P # <<>>
  BY <1>0, <1>1 DEF LspTypeOK
<1>3. /\ Q \in Seq(PipeMessages) /\ Len(P) \in Nat /\ Len(P) = Len(Q) + 1 /\ m = P[1]
      /\ 1 \in DOMAIN P /\ Len(Q) \in Nat
      /\ \A i \in 1..Len(Q) : i + 1 \in DOMAIN P /\ Q[i] = P[i + 1]
      /\ \A i \in DOMAIN P : i = 1 \/ (i - 1 \in 1..Len(Q) /\ Q[i - 1] = P[i])
      /\ DOMAIN P = 1..Len(P) /\ DOMAIN Q = 1..Len(Q)
  BY <1>1, <1>2, Shrunk
<1>4. PICK d, d2, v : /\ d = doc[p] /\ d2 = doc'[p] /\ v = version[p] /\ v = version'[p]
                      /\ d.edit \in Nat /\ d.version \in Nat /\ v \in Nat
                      /\ d2.edit \in Nat /\ d2.version \in Nat /\ edits \in Nat
  BY <1>0 DEF LspTypeOK
<1>5. /\ d.edit <= edits /\ (d.version = 0 => d.edit = 0) /\ d.version <= v
      /\ \A i \in DOMAIN P : TextOf(P[i]) =>
           /\ d.edit <= P[i].edit /\ P[i].edit <= edits
           /\ P[i].version \in 1..v
           /\ \A j \in 1..(i - 1) : TextOf(P[j]) => P[j].edit <= P[i].edit
  BY <1>0, <1>1, <1>4 DEF PipeOrdered
<1>6. \A i \in DOMAIN P : TextOf(P[i]) => P[i].edit \in Nat /\ P[i].version \in Nat
  BY <1>2 DEF PipeMessages, TextOf
<1>7. /\ d2.edit <= edits /\ (d2.version = 0 => d2.edit = 0) /\ d2.version <= v /\ d.edit <= d2.edit
      /\ \A i \in 1..Len(Q) : TextOf(Q[i]) => d2.edit <= Q[i].edit
  <2>1. CASE TextOf(m) /\ d2.version = m.version /\ d2.edit = m.edit
    <3>1. m.version \in 1..v /\ m.edit <= edits /\ d.edit <= m.edit
      BY <1>3, <1>5, <2>1
    <3>2. ASSUME NEW i \in 1..Len(Q), TextOf(Q[i])
          PROVE  m.edit <= Q[i].edit
      <4>1. i + 1 \in DOMAIN P /\ Q[i] = P[i + 1] /\ 1 \in 1..(i + 1 - 1)
        BY <1>3, <3>2
      <4> QED BY <1>3, <1>5, <2>1, <3>2, <4>1
    <3> QED BY <1>4, <2>1, <3>1, <3>2
  <2>2. CASE d2 = d
    <3>1. ASSUME NEW i \in 1..Len(Q), TextOf(Q[i])
          PROVE  d.edit <= Q[i].edit
      BY <1>3, <1>5, <3>1
    <3> QED BY <1>4, <1>5, <2>2, <3>1
  <2> QED BY <1>4, <2>1, <2>2
<1>8. PipeOrdered(p)'
  <2>1. ASSUME NEW i \in 1..Len(Q), TextOf(Q[i])
        PROVE  /\ Q[i].edit <= edits /\ Q[i].version \in 1..v
               /\ \A j \in 1..(i - 1) : TextOf(Q[j]) => Q[j].edit <= Q[i].edit
    <3>1. i + 1 \in DOMAIN P /\ Q[i] = P[i + 1]
      BY <1>3
    <3>2. ASSUME NEW j \in 1..(i - 1), TextOf(Q[j])
          PROVE  Q[j].edit <= Q[i].edit
      <4>1. j + 1 \in 1..(i + 1 - 1) /\ j \in 1..Len(Q)
        BY <1>3
      <4>2. Q[j] = P[j + 1]
        BY <1>3, <4>1
      <4> QED BY <1>5, <2>1, <3>1, <3>2, <4>1, <4>2
    <3> QED BY <1>5, <2>1, <3>1, <3>2
  <2>2. edits' = edits
    OBVIOUS
  <2> QED BY <1>1, <1>3, <1>4, <1>7, <2>1, <2>2 DEF PipeOrdered, TextOf
<1>9. Deaf(p) => Deaf(p)'
  <2> SUFFICES ASSUME Deaf(p)
               PROVE  Deaf(p)'
    OBVIOUS
  <2>1. d.version = 0 /\ v > 0 /\ \A i \in DOMAIN P : TextOf(P[i]) => P[i].version > 1
    BY <1>1, <1>4 DEF Deaf
  <2>2. TextOf(m) => m.version > 1
    BY <1>3, <2>1
  <2>3. d2 = d
    BY <1>4, <2>1, <2>2
  <2>4. \A i \in 1..Len(Q) : TextOf(Q[i]) => Q[i].version > 1
    BY <1>3, <2>1
  <2> QED BY <1>1, <1>3, <1>4, <2>1, <2>3, <2>4 DEF Deaf, TextOf
<1>10. TextOf(m) /\ m.version > 1 /\ d.version = 0 => Deaf(p)
  <2> SUFFICES ASSUME TextOf(m), m.version > 1, d.version = 0
               PROVE  Deaf(p)
    OBVIOUS
  <2>1. ~Unopened(p)
    BY <1>3, <1>4, <1>5 DEF Unopened
  <2>2. ~Hears(p)
    <3> SUFFICES ASSUME Hears(p)
                 PROVE  FALSE
      OBVIOUS
    <3>1. PICK i \in DOMAIN P : /\ TextOf(P[i]) /\ P[i].version = 1
                                /\ \A j \in 1..(i - 1) : ~TextOf(P[j])
      BY <1>1, <1>4 DEF Hears
    <3>2. i # 1 /\ i \in 1..Len(P)
      BY <1>3, <3>1
    <3>3. 1 \in 1..(i - 1)
      BY <1>3, <3>2
    <3> QED BY <1>3, <3>1, <3>3
  <2> QED BY <1>0, <2>1, <2>2
<1>11. (Unopened(p) \/ Deaf(p) \/ Hears(p))'
  <2>1. CASE Unopened(p)
    BY <1>4, <2>1 DEF Unopened
  <2>2. CASE Hears(p)
    <3>1. CASE d2.version > 0
      BY <1>4, <3>1 DEF Hears
    <3>2. CASE ~(d2.version > 0)
      <4>1. d2.version = 0
        BY <1>4, <3>2
      <4>2. CASE TextOf(m)
        <5>1. m.version \in 1..v
          BY <1>3, <1>5, <4>2
        <5>2. d2 = d /\ m.version > 1
          BY <1>4, <4>1, <4>2, <5>1
        <5> QED BY <1>9, <1>10, <4>1, <4>2, <5>2
      <4>3. CASE ~TextOf(m)
        <5>1. d = d2
          BY <1>4, <4>3
        <5>2. PICK i \in DOMAIN P : /\ TextOf(P[i]) /\ P[i].version = 1
                                    /\ \A j \in 1..(i - 1) : ~TextOf(P[j])
          BY <1>1, <1>4, <2>2, <3>2, <5>1 DEF Hears
        <5>3. PICK k : k = i - 1 /\ k \in 1..Len(Q) /\ Q[k] = P[i]
          BY <1>3, <4>3, <5>2
        <5>4. ASSUME NEW j \in 1..(k - 1)
              PROVE  ~TextOf(Q[j])
          <6>1. j \in 1..Len(Q) /\ j + 1 \in 1..(i - 1)
            BY <1>3, <5>2, <5>3
          <6> QED BY <1>3, <5>2, <6>1
        <5> QED BY <1>1, <1>3, <5>2, <5>3, <5>4 DEF Hears, TextOf
      <4> QED BY <4>2, <4>3
    <3> QED BY <3>1, <3>2
  <2> QED BY <1>0, <1>9, <2>1, <2>2
<1>12. ASSUME NEW i \in 1..(Len(Q) + 1), NEW e, CoveredAt(p, i + 1, e), e \in Nat
       PROVE  CoveredAt(p, i, e)'
  <2>1. CASE d.edit >= e
    BY <1>4, <1>7, <1>12, <2>1 DEF CoveredAt
  <2>2. CASE Deaf(p)
    BY <1>9, <2>2 DEF CoveredAt
  <2>3. CASE \E j \in 1..(i + 1 - 1) : TextOf(P[j]) /\ P[j].edit >= e
    <3>1. PICK j \in 1..i : TextOf(P[j]) /\ P[j].edit >= e
      BY <2>3
    <3>2. CASE j = 1
      <4>1. TextOf(m) /\ m.edit >= e
        BY <1>3, <3>1, <3>2
      <4>2. CASE d2.edit = m.edit
        BY <1>4, <4>1, <4>2 DEF CoveredAt
      <4>3. CASE Deaf(p)
        BY <1>9, <4>3 DEF CoveredAt
      <4> QED BY <1>4, <1>10, <4>1, <4>2, <4>3
    <3>3. CASE j # 1
      <4>1. PICK k : k = j - 1 /\ k \in 1..(i - 1) /\ k \in 1..Len(Q)
        BY <1>3, <3>1, <3>3
      <4>2. Q[k] = P[j]
        BY <1>3, <4>1
      <4> QED BY <1>1, <3>1, <4>1, <4>2 DEF CoveredAt, TextOf
    <3> QED BY <3>2, <3>3
  <2> QED BY <1>1, <1>4, <1>12, <2>1, <2>2, <2>3 DEF CoveredAt
<1>13. PullsWait(p)'
  <2>1. ASSUME NEW i \in 1..Len(Q), ~TextOf(Q[i]), NEW r \in Requests, r = Q[i].of
        PROVE  /\ lpc'[r] \in {"pull", "answered late"} /\ using'[r] = p
               /\ CoveredAt(p, i, wrote[r])'
               /\ \A j \in 1..(i - 1) : TextOf(Q[j]) \/ Q[j].of # r
    <3>1. i + 1 \in DOMAIN P /\ Q[i] = P[i + 1]
      BY <1>3
    <3>2. PICK k : k = i + 1 /\ k \in DOMAIN pipe[p] /\ ~TextOf(pipe[p][k]) /\ pipe[p][k].of = r
      BY <1>1, <2>1, <3>1
    <3>3. /\ lpc[r] \in {"pull", "answered late"} /\ using[r] = p
          /\ CoveredAt(p, k, wrote[r])
          /\ \A j \in 1..(k - 1) : TextOf(P[j]) \/ P[j].of # r
      BY <1>0, <1>1, <3>2 DEF PullsWait
    <3>4. TextOf(m) \/ r # m.of
      <4>1. 1 \in 1..(k - 1)
        BY <3>2
      <4> QED BY <1>3, <3>3, <4>1
    <3>5. Waits(r)'
      BY <3>3, <3>4 DEF Waits
    <3>6. PICK e : e = wrote[r] /\ e = wrote'[r] /\ e \in Nat
      BY <1>0 DEF LspTypeOK
    <3>7. CoveredAt(p, i, e)'
      <4>1. CoveredAt(p, i + 1, e)
        BY <3>2, <3>3, <3>6
      <4>2. i \in 1..(Len(Q) + 1)
        BY <1>3
      <4> QED BY <1>12, <3>6, <4>1, <4>2
    <3>8. ASSUME NEW j \in 1..(i - 1)
          PROVE  TextOf(Q[j]) \/ Q[j].of # r
      <4>1. j \in 1..Len(Q) /\ j + 1 \in 1..(k - 1)
        BY <1>3, <3>2
      <4> QED BY <1>3, <3>3, <4>1
    <3> QED BY <3>3, <3>5, <3>6, <3>7, <3>8 DEF Waits
  <2>2. \A i \in 1..Len(Q) : ~TextOf(Q[i]) => Q[i].of \in Requests
    BY <1>3 DEF PipeMessages, TextOf
  <2>3. ASSUME NEW i \in DOMAIN pipe'[p], ~TextOf(pipe'[p][i])
        PROVE  /\ lpc'[pipe'[p][i].of] \in {"pull", "answered late"}
               /\ using'[pipe'[p][i].of] = p
               /\ CoveredAt(p, i, wrote[pipe[p][i].of])'
               /\ \A j \in 1..(i - 1) : TextOf(pipe'[p][j]) \/ pipe'[p][j].of # pipe'[p][i].of
    <3>0. i \in 1..Len(Q) /\ ~TextOf(Q[i])
      BY <1>1, <1>3, <2>3
    <3>1. PICK r \in Requests : r = Q[i].of /\ r = pipe'[p][i].of
      BY <1>1, <2>2, <3>0
    <3>2. /\ lpc'[r] \in {"pull", "answered late"} /\ using'[r] = p
          /\ CoveredAt(p, i, wrote[r])'
          /\ \A j \in 1..(i - 1) : TextOf(Q[j]) \/ Q[j].of # r
      BY <2>1, <3>0, <3>1
    <3> QED BY <1>1, <3>1, <3>2
  <2> QED BY <2>3 DEF PullsWait, TextOf
<1>14. ProcessInv(p)'
  BY <1>8, <1>11, <1>13 DEF ProcessInv
<1>15. PICK n1, n2 : /\ n1 = n2 + 1 /\ n1 = Len(pipe[p]) + 1 /\ n2 \in 1..(Len(Q) + 1)
                     /\ n2 = Len(pipe'[p]) + 1
  <2>1. Len(pipe[p]) = Len(P) /\ Len(pipe'[p]) = Len(Q)
    BY <1>1
  <2>2. /\ Len(P) + 1 = (Len(Q) + 1) + 1 /\ Len(Q) + 1 \in 1..(Len(Q) + 1)
    BY <1>3
  <2> QED BY <2>1, <2>2
<1>16. \A e \in Nat : CoveredAt(p, n1, e) => CoveredAt(p, n2, e)'
  BY <1>12, <1>15
<1> QED BY <1>14, <1>15, <1>16

\* The request waits for its answer, or finds the transport closed.
LEMMA PullKeeps ==
  ASSUME LspInv, NEW q \in Requests, Pull(q)
  PROVE  LspInv'
<1>0. /\ LspTypeOK /\ edits \in Nat /\ lpc[q] = "request"
      /\ UNCHANGED <<using, wrote, got, current, spawned, alive, version, doc, edits>>
  BY DEF LspInv, LspTypeOK, Pull, lasting
<1>1. PICK p : p = using[q] /\ p \in Processes /\ p \in spawned
  BY <1>0 DEF LspInv, RequestInv, LspTypeOK
<1>2. PICK m : m = PullMessage(q) /\ m \in PipeMessages
  <2>1. PullMessage(q) \in PipeMessages
    BY DEF PullMessage, PipeMessages
  <2> QED BY <2>1
<1>3. /\ lpc' = [lpc EXCEPT ![q] = IF p \in alive THEN "pull" ELSE "idle"]
      /\ pipe' = [pipe EXCEPT ![p] = IF p \in alive THEN Append(@, m) ELSE @]
  BY <1>1, <1>2 DEF Pull, Step, Send
<1>4. LspTypeOK'
  <2>1. pipe' \in [Processes -> Seq(PipeMessages)]
    <3>1. pipe[p] \in Seq(PipeMessages) /\ pipe \in [Processes -> Seq(PipeMessages)]
      BY <1>0, <1>1 DEF LspTypeOK
    <3>2. Append(pipe[p], m) \in Seq(PipeMessages)
      BY <3>1, <1>2
    <3> QED BY <1>3, <3>1, <3>2
  <2>2. lpc' \in [Requests -> LspPlaces]
    BY <1>0, <1>3 DEF LspTypeOK, LspPlaces
  <2> QED BY <1>0, <2>1, <2>2 DEF LspTypeOK
<1>5. p \in alive =>
        /\ ProcessInv(p)'
        /\ \A e : CoveredAt(p, Len(pipe[p]) + 1, e) => CoveredAt(p, Len(pipe[p]) + 1, e)'
  <2> SUFFICES ASSUME p \in alive
               PROVE  /\ ProcessInv(p)'
                      /\ \A e : CoveredAt(p, Len(pipe[p]) + 1, e) => CoveredAt(p, Len(pipe[p]) + 1, e)'
    OBVIOUS
  <2>1. pipe'[p] = Append(pipe[p], m) /\ p \in spawned' /\ lpc' = [lpc EXCEPT ![q] = "pull"]
    BY <1>0, <1>1, <1>3 DEF LspTypeOK
  <2> QED BY <1>0, <1>1, <1>2, <1>4, <2>1, PullArrives
<1>6. ASSUME NEW s \in Processes, s # p \/ p \notin alive
      PROVE  ProcessInv(s)' /\ pipe'[s] = pipe[s]
  <2>1. pipe'[s] = pipe[s] /\ edits' \in Nat /\ edits <= edits'
    BY <1>0, <1>1, <1>3, <1>6 DEF LspTypeOK
  <2>2. ProcessInv(s)
    BY DEF LspInv
  <2>3. \A r \in Requests : Waits(r) /\ using[r] = s =>
           Waits(r)' /\ using'[r] = s /\ wrote'[r] = wrote[r]
    BY <1>0, <1>3 DEF Waits, LspTypeOK
  <2> QED BY <1>0, <2>1, <2>2, <2>3, ProcessUntouched
<1>7. ASSUME NEW r \in Requests
      PROVE  RequestInv(r)'
  <2>0. RequestInv(r)
    BY DEF LspInv
  <2>1. CASE r = q
    <3>1. lpc'[r] \in {"pull", "idle"} /\ got[r] = 0 /\ using[r] \in spawned
      BY <1>0, <1>3, <2>0, <2>1 DEF LspTypeOK, RequestInv
    <3> QED BY <1>0, <3>1 DEF RequestInv
  <2>2. CASE r # q
    <3>1. lpc'[r] = lpc[r]
      BY <1>0, <1>3, <2>2 DEF LspTypeOK
    <3>2. CASE using[r] = p /\ p \in alive /\ lpc[r] = "request"
      <4>1. PICK e, n1, n2 : /\ e = wrote[r] /\ e = wrote'[r]
                             /\ n1 = Len(pipe[p]) + 1 /\ n2 = Len(pipe'[p]) + 1
        BY <1>0
      <4>2. CoveredAt(p, n1, e)
        BY <2>0, <3>2, <4>1 DEF RequestInv
      <4>3. CoveredAt(p, n2, e)'
        BY <1>5, <3>2, <4>1, <4>2
      <4> QED BY <1>0, <2>0, <3>1, <3>2, <4>1, <4>3 DEF RequestInv
    <3>3. CASE using[r] # p \/ p \notin alive \/ lpc[r] # "request"
      <4>1. lpc[r] = "request" /\ using[r] \in alive => pipe'[using[r]] = pipe[using[r]]
        BY <1>0, <1>3, <3>3 DEF LspTypeOK
      <4> QED BY <1>0, <2>0, <3>1, <4>1, RequestUntouched
    <3> QED BY <3>2, <3>3
  <2> QED BY <2>1, <2>2
<1> QED BY <1>4, <1>5, <1>6, <1>7 DEF LspInv

\* A process reads: the request whose pull it was has its answer.
LEMMA ReadsKeep ==
  ASSUME LspInv, NEW p \in Processes, ServerReads(p)
  PROVE  LspInv'
<1>0. /\ LspTypeOK /\ edits \in Nat /\ p \in alive /\ p \in spawned /\ pipe[p] # <<>>
      /\ UNCHANGED <<using, wrote, current, spawned, alive, version, edits>>
      /\ pipe' = [pipe EXCEPT ![p] = Tail(@)]
      /\ ProcessInv(p) /\ PipeOrdered(p) /\ PullsWait(p)
  BY DEF LspInv, LspTypeOK, ServerReads, lasting, ProcessInv
<1>1. PICK m : m = Head(pipe[p])
  OBVIOUS
<1>2. m \in PipeMessages /\ m = pipe[p][1] /\ 1 \in DOMAIN pipe[p]
      /\ pipe[p] \in Seq(PipeMessages) /\ pipe'[p] = Tail(pipe[p])
  BY <1>0, <1>1 DEF LspTypeOK
<1>3. CASE TextOf(m)
  <2>1. UNCHANGED <<lpc, got>>
    BY <1>1, <1>3 DEF ServerReads, TextOf
  <2>2. \/ doc' = doc /\ m.version > 1 /\ doc[p].version = 0
        \/ /\ doc' = [doc EXCEPT ![p] = [version |-> m.version, edit |-> m.edit]]
           /\ ~(m.version > 1 /\ doc[p].version = 0)
    BY <1>1, <1>3 DEF ServerReads, TextOf
  <2>3. m.version \in Nat /\ m.edit \in Nat
    BY <1>2, <1>3 DEF PipeMessages, TextOf
  <2>4. LspTypeOK'
    <3>1. doc' \in [Processes -> [version : Nat, edit : Nat]]
      <4>1. [version |-> m.version, edit |-> m.edit] \in [version : Nat, edit : Nat]
        BY <2>3
      <4>2. doc \in [Processes -> [version : Nat, edit : Nat]]
        BY <1>0 DEF LspTypeOK
      <4> QED BY <2>2, <4>1, <4>2
    <3>2. pipe' \in [Processes -> Seq(PipeMessages)]
      <4>1. Tail(pipe[p]) \in Seq(PipeMessages)
        BY <1>0, <1>2
      <4> QED BY <1>0, <4>1 DEF LspTypeOK
    <3> QED BY <1>0, <2>1, <3>1, <3>2 DEF LspTypeOK
  <2>5. /\ \/ /\ TextOf(m) /\ ~(m.version > 1 /\ doc[p].version = 0)
              /\ doc'[p].version = m.version /\ doc'[p].edit = m.edit
           \/ /\ TextOf(m) /\ m.version > 1 /\ doc[p].version = 0 /\ doc'[p] = doc[p]
           \/ /\ ~TextOf(m) /\ doc'[p] = doc[p]
        /\ \A s \in Processes : s # p => doc'[s] = doc[s]
    BY <1>0, <1>3, <2>2 DEF LspTypeOK
  <2>6. \A r \in Requests : Waits(r) => Waits(r)'
    BY <2>1 DEF Waits
  <2>7. /\ ProcessInv(p)'
        /\ \A e \in Nat : CoveredAt(p, Len(pipe[p]) + 1, e) => CoveredAt(p, Len(pipe[p]) + 1, e)'
    BY <1>0, <1>1, <1>2, <2>4, <2>5, <2>6, HeadRead
  <2>8. ASSUME NEW s \in Processes, s # p
        PROVE  ProcessInv(s)'
    <3>1. ProcessInv(s) /\ pipe'[s] = pipe[s] /\ doc'[s] = doc[s] /\ edits' \in Nat /\ edits <= edits'
      BY <1>0, <2>5, <2>8 DEF LspTypeOK, LspInv
    <3>2. \A r \in Requests : Waits(r) /\ using[r] = s =>
           Waits(r)' /\ using'[r] = s /\ wrote'[r] = wrote[r]
      BY <1>0, <2>6
    <3> QED BY <1>0, <3>1, <3>2, ProcessUntouched
  <2>9. ASSUME NEW r \in Requests
        PROVE  RequestInv(r)'
    <3>0. RequestInv(r)
      BY DEF LspInv
    <3>1. CASE using[r] = p /\ lpc[r] = "request"
      <4>1. PICK e, n1, n2 : /\ e \in Nat /\ e = wrote[r] /\ e = wrote'[r]
                              /\ n1 = Len(pipe[p]) + 1 /\ n2 = Len(pipe'[p]) + 1
        BY <1>0 DEF LspTypeOK
      <4>2. CoveredAt(p, n1, e)
        BY <1>0, <3>0, <3>1, <4>1 DEF RequestInv
      <4>3. CoveredAt(p, n2, e)'
        BY <2>7, <4>1, <4>2
      <4> QED BY <1>0, <2>1, <3>0, <3>1, <4>1, <4>3 DEF RequestInv
    <3>2. CASE ~(using[r] = p /\ lpc[r] = "request")
      <4>1. lpc[r] = "request" /\ using[r] \in alive =>
               pipe'[using[r]] = pipe[using[r]] /\ doc'[using[r]] = doc[using[r]]
        <5>1. using[r] \in alive => using[r] \in Processes
          BY <1>0 DEF LspTypeOK
        <5> QED BY <1>0, <2>5, <3>2, <5>1 DEF LspTypeOK
      <4> QED BY <1>0, <2>1, <3>0, <4>1, RequestUntouched
    <3> QED BY <3>1, <3>2
  <2> QED BY <2>4, <2>7, <2>8, <2>9 DEF LspInv
<1>4. CASE ~TextOf(m)
  <2>1. PICK q \in Requests : q = m.of /\ q = pipe[p][1].of
    BY <1>2, <1>4 DEF PipeMessages, TextOf
  <2>2. /\ lpc' = [lpc EXCEPT ![q] = "idle"] /\ doc' = doc
        /\ got' = IF lpc[q] = "pull" THEN [got EXCEPT ![q] = doc[p].edit] ELSE got
    BY <1>1, <1>4, <2>1 DEF ServerReads, TextOf, Step
  <2>3. /\ lpc[q] \in {"pull", "answered late"} /\ using[q] = p
        /\ CoveredAt(p, 1, wrote[q])
    BY <1>0, <1>2, <1>4, <2>1 DEF PullsWait
  <2>4. LspTypeOK'
    <3>1. lpc' \in [Requests -> LspPlaces] /\ got' \in [Requests -> Nat]
      BY <1>0, <2>2 DEF LspTypeOK, LspPlaces
    <3>2. pipe' \in [Processes -> Seq(PipeMessages)]
      <4>1. Tail(pipe[p]) \in Seq(PipeMessages)
        BY <1>0, <1>2
      <4> QED BY <1>0, <4>1 DEF LspTypeOK
    <3> QED BY <1>0, <2>2, <3>1, <3>2 DEF LspTypeOK
  <2>5. \A r \in Requests : r # q => lpc'[r] = lpc[r] /\ got'[r] = got[r]
    BY <1>0, <2>2 DEF LspTypeOK
  <2>6. \A r \in Requests : Waits(r) /\ r # q => Waits(r)'
    BY <2>5 DEF Waits
  <2>7. /\ ProcessInv(p)'
        /\ \A e \in Nat : CoveredAt(p, Len(pipe[p]) + 1, e) => CoveredAt(p, Len(pipe[p]) + 1, e)'
    <3>1. \A r \in Requests : Waits(r) /\ using[r] = p /\ (TextOf(m) \/ r # m.of) => Waits(r)'
      BY <1>4, <2>1, <2>6
    <3>2. ~TextOf(m) /\ doc'[p] = doc[p]
      BY <1>4, <2>2
    <3> QED BY <1>0, <1>1, <1>2, <2>4, <3>1, <3>2, HeadRead
  <2>8. ASSUME NEW s \in Processes, s # p
        PROVE  ProcessInv(s)'
    <3>1. ProcessInv(s) /\ pipe'[s] = pipe[s] /\ doc'[s] = doc[s] /\ edits' \in Nat /\ edits <= edits'
      BY <1>0, <2>2, <2>8 DEF LspTypeOK, LspInv
    <3>2. \A r \in Requests : Waits(r) /\ using[r] = s =>
           Waits(r)' /\ using'[r] = s /\ wrote'[r] = wrote[r]
      BY <1>0, <2>3, <2>6, <2>8
    <3> QED BY <1>0, <3>1, <3>2, ProcessUntouched
  <2>9. ASSUME NEW r \in Requests
        PROVE  RequestInv(r)'
    <3>0. RequestInv(r)
      BY DEF LspInv
    <3>1. CASE r = q
      <4>1. lpc'[q] = "idle" /\ got[q] = 0
        BY <1>0, <2>2, <2>3, <3>0, <3>1 DEF LspTypeOK, RequestInv
      <4>2. doc[p].edit >= wrote[q] \/ doc[p].edit = 0
        <5>1. CASE Deaf(p)
          BY <1>0, <5>1 DEF Deaf, PipeOrdered
        <5>2. ~ \E j \in 1..(1 - 1) : TRUE
          OBVIOUS
        <5> QED BY <2>3, <5>1, <5>2 DEF CoveredAt
      <4>3. got'[q] = 0 \/ got'[q] = doc[p].edit
        BY <1>0, <2>2, <4>1 DEF LspTypeOK
      <4> QED BY <1>0, <3>1, <4>1, <4>2, <4>3 DEF RequestInv
    <3>2. CASE r # q /\ using[r] = p /\ lpc[r] = "request"
      <4>1. PICK e, n1, n2 : /\ e \in Nat /\ e = wrote[r] /\ e = wrote'[r]
                              /\ n1 = Len(pipe[p]) + 1 /\ n2 = Len(pipe'[p]) + 1
        BY <1>0 DEF LspTypeOK
      <4>2. CoveredAt(p, n1, e)
        BY <1>0, <3>0, <3>2, <4>1 DEF RequestInv
      <4>3. CoveredAt(p, n2, e)'
        BY <2>7, <4>1, <4>2
      <4> QED BY <1>0, <2>5, <3>0, <3>2, <4>1, <4>3 DEF RequestInv
    <3>3. CASE r # q /\ ~(using[r] = p /\ lpc[r] = "request")
      <4>1. lpc[r] = "request" /\ using[r] \in alive => pipe'[using[r]] = pipe[using[r]]
        <5>1. using[r] \in alive => using[r] \in Processes
          BY <1>0 DEF LspTypeOK
        <5> QED BY <1>0, <3>3, <5>1 DEF LspTypeOK
      <4>2. lpc'[r] = lpc[r] /\ got'[r] = got[r]
        BY <2>5, <3>3
      <4> QED BY <1>0, <2>2, <3>0, <4>1, <4>2, RequestUntouched
    <3> QED BY <3>1, <3>2, <3>3
  <2> QED BY <2>4, <2>7, <2>8, <2>9 DEF LspInv
<1> QED BY <1>3, <1>4

\* Every step keeps it: most send and read nothing.
LEMMA LspInvNext ==
  ASSUME LspInv, [LspNext]_lspVars
  PROVE  LspInv'
<1>1. ASSUME NEW p \in Processes, ServerDies(p)
      PROVE  LspInv'
  BY <1>1, LosesKeep DEF ServerDies, lasting
<1>2. CASE LspShutdown
  BY <1>2, LosesKeep DEF LspShutdown
<1> QED BY <1>1, <1>2, QuietKeeps, AskKeeps, SyncKeeps, PullKeeps, ReadsKeep DEF LspNext

\* The answer to a pull is about a text at least as new as the one the caller
\* read when it asked, also when it overtakes or outlives another request
\* (lsp/manager.py diagnostics_for, lsp/jsonrpc.py).
THEOREM AnswersCoverEdits == LspSpec => []AnswerCoversEdit
<1>1. LspInv => AnswerCoversEdit
  BY DEF LspInv, RequestInv, AnswerCoversEdit
<1> QED BY <1>1, LspInvInit, LspInvNext, PTL DEF LspSpec
-----------------------------------------------------------------------------
(* The sessions and locks of several processes.                            *)

AttachStages == {"away", "opened", "idle", "starting", "switched", "loading", "headless",
                 "creating", "glancing", "deleting"}

AttachTypeOK ==
  /\ disk \in [Files -> {"unborn", "whole", "deleted", "headerless"}]
  /\ locker \in [Files -> Lecodes \cup {NoLecode}]
  /\ seat \in [Lecodes -> Files \cup {NoFile}]
  /\ reach \in [Lecodes -> Files \cup {NoFile}]
  /\ stage \in [Lecodes -> AttachStages]
  /\ crew \in [Lecodes -> SUBSET CrewFiles]
  /\ active \in [Lecodes -> SUBSET CrewFiles]
  /\ enlisted \in [Files -> SUBSET CrewFiles]

\* The workers a process has loaded are its own and belong to its session, but
\* in the middle of a switch; none runs while a session is opened or left.
CrewHeld(p) ==
  /\ \A c \in crew[p] : locker[c] = p /\ disk[c] = "whole"
  /\ active[p] \subseteq crew[p]
  /\ stage[p] \in {"opened", "switched"} => active[p] = {}
  /\ seat[p] = NoFile => crew[p] = {}
  /\ seat[p] # NoFile /\ stage[p] # "switched" => crew[p] \subseteq enlisted[seat[p]]

\* A session whose lock is held is there; a chat holds the lock of its own.
SeatHeld(p) ==
  seat[p] # NoFile =>
    /\ disk[seat[p]] # "unborn" /\ seat[p] \notin crew[p]
    /\ locker[seat[p]] = p => disk[seat[p]] # "deleted"
    /\ stage[p] \notin {"headless", "creating"} => locker[seat[p]] = p
    /\ locker[seat[p]] = p \/ seat[p] \in RootFiles

\* What a process has opened or locked for its next step is not its own session,
\* nor a worker of it.
ReachApart(p) ==
  /\ reach[p] # NoFile => disk[reach[p]] # "unborn"
  /\ stage[p] \in {"opened", "creating", "glancing", "deleting"} => reach[p] # NoFile
  /\ stage[p] \in {"creating", "glancing", "deleting"} => reach[p] # seat[p]
  /\ stage[p] \in {"glancing", "deleting"} => locker[reach[p]] = p /\ reach[p] \notin crew[p]
  /\ stage[p] = "creating" => reach[p] \in CrewFiles
  /\ stage[p] = "switched" => reach[p] = NoFile
  /\ stage[p] \in {"starting", "loading"} /\ reach[p] # NoFile =>
       reach[p] \in enlisted[seat[p]]
  /\ stage[p] = "away" => seat[p] = NoFile
  /\ stage[p] \in {"idle", "starting", "switched", "loading", "headless", "creating",
                   "deleting"} => seat[p] # NoFile

\* Only who does not hold the lock appends to a session that is gone, and only a
\* headless process does not.
CrewsHaveHeaders == \A f \in CrewFiles : disk[f] # "headerless"

OwnPart(p) == CrewHeld(p) /\ SeatHeld(p) /\ ReachApart(p)

AttachInv == AttachTypeOK /\ CrewsHaveHeaders /\ \A p \in Lecodes : OwnPart(p)

LEMMA KindsOfFiles == RootFiles \subseteq Files /\ CrewFiles \subseteq Files
BY DEF Files

LEMMA AttachInvInit == AttachInit => AttachInv
BY DEF AttachInit, AttachInv, AttachTypeOK, AttachStages, OwnPart, CrewHeld, SeatHeld, ReachApart,
       CrewsHaveHeaders, Files

\* What a step of process p may do to the locks and the files: take what is free,
\* free what is its own, delete what it holds, and make or append to a file.
Lawful(p) ==
  /\ \A q \in Lecodes \ {p} :
       /\ seat'[q] = seat[q] /\ reach'[q] = reach[q] /\ stage'[q] = stage[q]
       /\ crew'[q] = crew[q] /\ active'[q] = active[q]
  /\ \A f \in Files :
       /\ locker'[f] = locker[f] \/ {locker[f], locker'[f]} \subseteq {NoLecode, p}
       /\ \/ disk'[f] \in {disk[f], "whole"}
          \/ disk'[f] = "deleted" /\ locker[f] = p
          \/ disk'[f] = "headerless" /\ disk[f] = "deleted" /\ f \notin CrewFiles
       /\ enlisted[f] \subseteq enlisted'[f]

\* Then the other processes have what they had.
LEMMA OthersSpared ==
  ASSUME AttachTypeOK, NEW p \in Lecodes, NEW q \in Lecodes \ {p}, Lawful(p), OwnPart(q)
  PROVE  OwnPart(q)'
<1>1. p # NoLecode /\ q # NoLecode /\ q # p
  BY AttachmentAssumption
<1>2. \A f \in Files : (locker'[f] = q) <=> (locker[f] = q)
  BY <1>1 DEF Lawful
<1>3. \A f \in Files : locker[f] = q =>
        /\ disk[f] = "whole" => disk'[f] = "whole"
        /\ disk'[f] = "deleted" => disk[f] = "deleted"
  BY <1>1 DEF Lawful
<1>4. \A f \in Files : disk[f] # "unborn" => disk'[f] # "unborn"
  BY DEF Lawful
<1>5. /\ seat'[q] = seat[q] /\ reach'[q] = reach[q] /\ stage'[q] = stage[q]
      /\ crew'[q] = crew[q] /\ active'[q] = active[q]
  BY DEF Lawful
<1>6. crew[q] \subseteq Files /\ seat[q] \in Files \cup {NoFile} /\ reach[q] \in Files \cup {NoFile}
  BY KindsOfFiles DEF AttachTypeOK
<1>7. CrewHeld(q)'
  <2>1. \A c \in crew[q] : locker'[c] = q /\ disk'[c] = "whole"
    BY <1>2, <1>3, <1>6 DEF OwnPart, CrewHeld
  <2>2. seat[q] # NoFile /\ stage[q] # "switched" => crew[q] \subseteq enlisted'[seat[q]]
    BY <1>6 DEF OwnPart, CrewHeld, Lawful
  <2> QED BY <1>5, <2>1, <2>2 DEF OwnPart, CrewHeld
<1>8. SeatHeld(q)'
  BY <1>2, <1>3, <1>4, <1>5, <1>6 DEF OwnPart, SeatHeld
<1>9. ReachApart(q)'
  <2>1. seat[q] # NoFile => enlisted[seat[q]] \subseteq enlisted'[seat[q]]
    BY <1>6 DEF Lawful
  <2> QED BY <2>1, <1>2, <1>4, <1>5, <1>6 DEF OwnPart, ReachApart
<1> QED BY <1>7, <1>8, <1>9 DEF OwnPart

LEMMA OneProcessMoves ==
  ASSUME AttachInv, NEW p \in Lecodes, AttachTypeOK', Lawful(p), OwnPart(p)'
  PROVE  AttachInv'
<1>1. CrewsHaveHeaders'
  BY DEF CrewsHaveHeaders, AttachInv, Lawful, Files
<1> QED BY <1>1, OthersSpared DEF AttachInv

\* The steps that touch no lock and no file but those of p's own session.
LEMMA OpeningKeeps ==
  ASSUME AttachInv, NEW p \in Lecodes, NEW f \in Files,
         \/ CreateAtStart(p, f) \/ CreateFromChat(p, f) \/ HandOff(p, f)
         \/ OpenAtStart(p, f) \/ PickAtStart(p, f) \/ OpenFromChat(p, f)
  PROVE  AttachInv'
<1> USE AttachmentAssumption, KindsOfFiles
<1>1. AttachTypeOK /\ OwnPart(p) /\ f # NoFile
  BY DEF AttachInv
<1>2. /\ stage[p] = "away" \/ Unoccupied(p)
      /\ \/ disk' = disk /\ Listed(f)
         \/ disk[f] = "unborn" /\ disk' = Written(f)
      /\ reach' = [reach EXCEPT ![p] = f]
      /\ ToLock(p)
  <2>1. CASE Create(p, f) /\ (stage[p] = "away" \/ Unoccupied(p))
    BY <2>1 DEF Create
  <2>2. CASE /\ Open(p, f) /\ ToLock(p) /\ UNCHANGED disk
             /\ stage[p] = "away" \/ Unoccupied(p)
    BY <2>2 DEF Open
  <2> QED BY <2>1, <2>2 DEF CreateAtStart, CreateFromChat, HandOff, OpenAtStart, PickAtStart,
                            OpenFromChat
<1>3. AttachTypeOK' /\ Lawful(p)
  BY <1>1, <1>2 DEF AttachTypeOK, Lawful, ToLock, Written, AttachStages
<1>4. stage'[p] = "opened" /\ reach'[p] = f /\ active[p] = {}
      /\ (stage[p] = "away" \/ stage[p] = "idle")
      /\ UNCHANGED <<locker, seat, crew, active, enlisted>>
  BY <1>1, <1>2 DEF ToLock, AttachTypeOK, Unoccupied, OwnPart, CrewHeld, ReachApart
<1>5. \A g \in Files : (disk[g] = "whole" => disk'[g] = "whole")
                       /\ (disk'[g] = "unborn" => disk[g] = "unborn")
                       /\ (disk'[g] = "deleted" => disk[g] = "deleted")
      /\ disk'[f] = "whole"
  BY <1>1, <1>2 DEF AttachTypeOK, Written, Listed
<1>6. OwnPart(p)'
  BY <1>1, <1>4, <1>5 DEF OwnPart, CrewHeld, SeatHeld, ReachApart, AttachTypeOK
<1> QED BY <1>3, <1>6, OneProcessMoves

\* The new lock is held before the old one is released.
LEMMA SwitchKeeps ==
  ASSUME AttachInv, NEW p \in Lecodes, SwitchSession(p)
  PROVE  AttachInv'
<1> USE AttachmentAssumption, KindsOfFiles
<1> DEFINE f == reach[p]
<1>1. AttachTypeOK /\ OwnPart(p) /\ f \in Files /\ stage[p] = "opened"
  BY DEF AttachInv, SwitchSession, AttachTypeOK, OwnPart, ReachApart
<1>2. /\ locker[f] = NoLecode /\ disk[f] # "deleted" /\ active[p] = {}
      /\ f \notin crew[p] /\ seat[p] \notin crew[p] /\ f # NoFile
      /\ seat[p] # NoFile => locker[seat[p]] = p
  BY <1>1 DEF SwitchSession, Lockable, OwnPart, CrewHeld, SeatHeld, AttachTypeOK
<1>3. /\ seat'[p] = f /\ reach'[p] = NoFile
      /\ stage'[p] = IF seat[p] = NoFile THEN "starting" ELSE "switched"
      /\ UNCHANGED <<disk, crew, active, enlisted>>
      /\ \A q \in Lecodes \ {p} : seat'[q] = seat[q] /\ reach'[q] = reach[q] /\ stage'[q] = stage[q]
  BY <1>1 DEF SwitchSession, AttachTypeOK
<1>4. /\ locker'[f] = p
      /\ \A g \in Files \ {f, seat[p]} : locker'[g] = locker[g]
      /\ seat[p] # NoFile /\ seat[p] # f => locker'[seat[p]] = NoLecode
  <2>1. locker' = [g \in Files |->
                     CASE g = f -> p [] g = seat[p] -> NoLecode [] OTHER -> locker[g]]
    BY DEF SwitchSession
  <2>2. ASSUME NEW g \in Files
        PROVE  locker'[g] = CASE g = f -> p [] g = seat[p] -> NoLecode [] OTHER -> locker[g]
    BY <2>1
  <2>3. f # seat[p]
    BY <1>1, <1>2
  <2> QED BY <1>1, <2>2, <2>3 DEF AttachTypeOK
<1>5. AttachTypeOK'
  BY <1>1 DEF SwitchSession, AttachTypeOK, AttachStages
<1>6. Lawful(p)
  BY <1>1, <1>2, <1>3, <1>4 DEF Lawful, AttachTypeOK
<1>7. disk[f] # "unborn"
  BY <1>1 DEF AttachInv, OwnPart, ReachApart
<1>8. OwnPart(p)'
  <2>1. CrewHeld(p)'
    BY <1>1, <1>2, <1>3, <1>4 DEF OwnPart, CrewHeld, AttachTypeOK
  <2>2. SeatHeld(p)'
    BY <1>1, <1>2, <1>3, <1>4, <1>7 DEF SeatHeld
  <2>3. ReachApart(p)'
    BY <1>2, <1>3 DEF ReachApart
  <2> QED BY <2>1, <2>2, <2>3 DEF OwnPart
<1> QED BY <1>5, <1>6, <1>8, OneProcessMoves

LEMMA LoadingKeeps ==
  ASSUME AttachInv, NEW p \in Lecodes,
         \/ LockRefused(p) \/ DropCrew(p) \/ LoadWorker(p) \/ Loaded(p)
         \/ \E c \in Files : OpenWorker(p, c)
  PROVE  AttachInv'
<1> USE AttachmentAssumption, KindsOfFiles
<1>1. AttachTypeOK /\ OwnPart(p)
  BY DEF AttachInv
<1> USE DEF AttachTypeOK, AttachStages, Lawful, OwnPart, CrewHeld, SeatHeld, ReachApart
<1>2. CASE LockRefused(p)
  <2>1. AttachTypeOK' /\ Lawful(p)
    BY <1>1, <1>2 DEF LockRefused
  <2>2. OwnPart(p)'
    BY <1>1, <1>2 DEF LockRefused
  <2> QED BY <2>1, <2>2, OneProcessMoves
<1>3. CASE DropCrew(p)
  <2>1. AttachTypeOK'
    BY <1>1, <1>3 DEF DropCrew, Freed
  <2>2. Lawful(p)
    BY <1>1, <1>3 DEF DropCrew, Freed
  <2>3. /\ locker' = [f \in Files |-> IF f \in crew[p] THEN NoLecode ELSE locker[f]]
        /\ crew'[p] = {} /\ stage'[p] = "loading" /\ stage[p] = "switched"
        /\ UNCHANGED <<disk, seat, reach, active, enlisted>>
    BY <1>1, <1>3 DEF DropCrew, Freed
  <2>4. CrewHeld(p)' /\ ReachApart(p)'
    BY <1>1, <2>3
  <2>5. SeatHeld(p)'
    BY <1>1, <2>3
  <2>6. OwnPart(p)'
    BY <2>4, <2>5
  <2> QED BY <2>1, <2>2, <2>6, OneProcessMoves
<1>4. CASE LoadWorker(p)
  <2>0. /\ reach[p] \in CrewFiles /\ reach[p] \in Files
        /\ locker[reach[p]] = NoLecode /\ disk[reach[p]] = "whole"
    BY <1>1, <1>4 DEF LoadWorker, Lockable, AttachInv, CrewsHaveHeaders, Files
  <2>1. AttachTypeOK'
    BY <1>1, <1>4, <2>0 DEF LoadWorker, Taken
  <2>2. Lawful(p)
    BY <1>1, <1>4, <2>0 DEF LoadWorker, Taken
  <2>3. OwnPart(p)'
    BY <1>1, <1>4, <2>0 DEF LoadWorker, Taken
  <2> QED BY <2>1, <2>2, <2>3, OneProcessMoves
<1>5. CASE Loaded(p)
  <2>1. AttachTypeOK' /\ Lawful(p)
    BY <1>1, <1>5 DEF Loaded
  <2>2. OwnPart(p)'
    BY <1>1, <1>5 DEF Loaded
  <2> QED BY <2>1, <2>2, OneProcessMoves
<1>6. ASSUME NEW c \in Files, OpenWorker(p, c)
      PROVE  AttachInv'
  <2>1. AttachTypeOK' /\ Lawful(p)
    BY <1>1, <1>6 DEF OpenWorker, Open
  <2>2. OwnPart(p)'
    BY <1>1, <1>6 DEF OpenWorker, Open, Listed
  <2> QED BY <2>1, <2>2, OneProcessMoves
<1> QED BY <1>2, <1>3, <1>4, <1>5, <1>6

\* The death of a process, or its exit, and the end of a load that failed.
LEMMA LeavingKeeps ==
  ASSUME AttachInv, NEW p \in Lecodes, Leave(p) \/ LoadFails(p)
  PROVE  AttachInv'
<1> USE AttachmentAssumption, KindsOfFiles
<1>1. AttachTypeOK /\ OwnPart(p)
  BY DEF AttachInv
<1> USE DEF AttachTypeOK, AttachStages, Lawful, OwnPart, CrewHeld, SeatHeld, ReachApart
<1>2. CASE Gone(p)
  <2>1. AttachTypeOK'
    BY <1>1, <1>2 DEF Gone
  <2>2. Lawful(p)
    BY <1>1, <1>2 DEF Gone
  <2>3. OwnPart(p)'
    BY <1>1, <1>2 DEF Gone
  <2> QED BY <2>1, <2>2, <2>3, OneProcessMoves
<1>3. CASE LoadFails(p) /\ ~Gone(p)
  <2>0. /\ stage[p] = "loading"
        /\ reach' = [reach EXCEPT ![p] = NoFile]
        /\ stage' = [stage EXCEPT ![p] = "idle"]
        /\ UNCHANGED <<disk, locker, seat, crew, active, enlisted>>
    BY <1>3 DEF LoadFails
  <2>1. AttachTypeOK' /\ Lawful(p)
    BY <1>1, <2>0
  <2>2. OwnPart(p)'
    BY <1>1, <2>0
  <2> QED BY <2>1, <2>2, OneProcessMoves
<1> QED BY <1>2, <1>3 DEF Leave

\* Files and workers: a headless run, records, workers that start and stop.
LEMMA WorkingKeeps ==
  ASSUME AttachInv, NEW p \in Lecodes,
         \/ AppendRecord(p) \/ StartWorking(p)
         \/ \E f \in Files : RunHeadless(p, f) \/ CreateWorker(p, f)
                             \/ ResumeWorking(p, f) \/ StopWorking(p, f)
  PROVE  AttachInv'
<1> USE AttachmentAssumption, KindsOfFiles
<1>1. AttachTypeOK /\ OwnPart(p)
  BY DEF AttachInv
<1> USE DEF AttachTypeOK, AttachStages, Lawful, OwnPart, CrewHeld, SeatHeld, ReachApart
<1>2. CASE AppendRecord(p)
  <2>1. AttachTypeOK' /\ Lawful(p)
    BY <1>1, <1>2 DEF AppendRecord
  <2>2. OwnPart(p)'
    BY <1>1, <1>2 DEF AppendRecord
  <2> QED BY <2>1, <2>2, OneProcessMoves
<1>3. CASE StartWorking(p)
  <2>0. reach[p] \in CrewFiles /\ reach[p] \in Files /\ seat[p] \in Files /\ reach[p] # seat[p] /\ Home(p) \in {"idle", "headless"}
        /\ (Home(p) = "idle" => locker[seat[p]] = p)
    BY <1>1, <1>3 DEF StartWorking, Home, Files
  <2>1. CASE Lockable(reach[p])
    <3>1. AttachTypeOK'
      BY <1>1, <1>3, <2>0, <2>1 DEF StartWorking, Taken
    <3>2. Lawful(p)
      BY <1>1, <1>3, <2>0, <2>1 DEF StartWorking, Taken, Lockable
    <3>3. disk[reach[p]] = "whole"
      BY <1>1, <2>0, <2>1 DEF Lockable, AttachInv, CrewsHaveHeaders
    <3>4. OwnPart(p)'
      BY <1>1, <1>3, <2>0, <2>1, <3>3 DEF StartWorking, Taken, Lockable
    <3> QED BY <3>1, <3>2, <3>4, OneProcessMoves
  <2>2. CASE ~Lockable(reach[p])
    <3>1. AttachTypeOK' /\ Lawful(p)
      BY <1>1, <1>3, <2>0, <2>2 DEF StartWorking
    <3>2. OwnPart(p)'
      BY <1>1, <1>3, <2>0, <2>2 DEF StartWorking
    <3> QED BY <3>1, <3>2, OneProcessMoves
  <2> QED BY <2>1, <2>2
<1>4. ASSUME NEW f \in Files, RunHeadless(p, f)
      PROVE  AttachInv'
  <2>1. AttachTypeOK' /\ Lawful(p)
    BY <1>1, <1>4 DEF RunHeadless, Written
  <2>2. OwnPart(p)'
    BY <1>1, <1>4 DEF RunHeadless, Written
  <2> QED BY <2>1, <2>2, OneProcessMoves
<1>5. ASSUME NEW f \in Files, CreateWorker(p, f)
      PROVE  AttachInv'
  <2>1. AttachTypeOK' /\ Lawful(p)
    BY <1>1, <1>5 DEF CreateWorker, Written
  <2>2. OwnPart(p)'
    BY <1>1, <1>5 DEF CreateWorker, Written
  <2> QED BY <2>1, <2>2, OneProcessMoves
<1>6. ASSUME NEW f \in Files, ResumeWorking(p, f) \/ StopWorking(p, f)
      PROVE  AttachInv'
  <2>0. active' \in [Lecodes -> SUBSET CrewFiles]
    <3>1. CASE ResumeWorking(p, f)
      BY <1>1, <3>1 DEF ResumeWorking
    <3>2. CASE StopWorking(p, f)
      BY <1>1, <3>2 DEF StopWorking
    <3> QED BY <1>6, <3>1, <3>2
  <2>1. AttachTypeOK' /\ Lawful(p)
    BY <1>1, <1>6, <2>0 DEF ResumeWorking, StopWorking
  <2>2. OwnPart(p)'
    <3>1. CASE ResumeWorking(p, f)
      BY <1>1, <3>1 DEF ResumeWorking
    <3>2. CASE StopWorking(p, f)
      BY <1>1, <3>2 DEF StopWorking
    <3> QED BY <1>6, <3>1, <3>2
  <2> QED BY <2>1, <2>2, OneProcessMoves
<1> QED BY <1>2, <1>3, <1>4, <1>5, <1>6

\* A lock that is held for a moment, a deletion, an import.
LEMMA MomentsKeep ==
  ASSUME AttachInv, NEW p \in Lecodes,
         \/ EndGlance(p) \/ Unlink(p)
         \/ \E f \in Files : Glance(p, f) \/ LockForDelete(p, f) \/ Import(p, f)
  PROVE  AttachInv'
<1> USE AttachmentAssumption, KindsOfFiles
<1>1. AttachTypeOK /\ OwnPart(p)
  BY DEF AttachInv
<1> USE DEF AttachTypeOK, AttachStages, Lawful, OwnPart, CrewHeld, SeatHeld, ReachApart
<1>2. CASE EndGlance(p)
  <2>1. AttachTypeOK' /\ Lawful(p)
    BY <1>1, <1>2 DEF EndGlance, Freed
  <2>2. OwnPart(p)'
    BY <1>1, <1>2 DEF EndGlance, Freed
  <2> QED BY <2>1, <2>2, OneProcessMoves
<1>3. CASE Unlink(p)
  <2>1. AttachTypeOK' /\ Lawful(p)
    BY <1>1, <1>3 DEF Unlink, Freed
  <2>2. OwnPart(p)'
    BY <1>1, <1>3 DEF Unlink, Freed
  <2> QED BY <2>1, <2>2, OneProcessMoves
<1>4. ASSUME NEW f \in Files, Glance(p, f)
      PROVE  AttachInv'
  <2>1. AttachTypeOK' /\ Lawful(p)
    BY <1>1, <1>4 DEF Glance, Taken
  <2>2. OwnPart(p)'
    BY <1>1, <1>4 DEF Glance, Taken
  <2> QED BY <2>1, <2>2, OneProcessMoves
<1>5. ASSUME NEW f \in Files, LockForDelete(p, f)
      PROVE  AttachInv'
  <2>1. AttachTypeOK' /\ Lawful(p)
    BY <1>1, <1>5 DEF LockForDelete, Taken
  <2>2. OwnPart(p)'
    BY <1>1, <1>5 DEF LockForDelete, Taken, Listed, Unoccupied
  <2> QED BY <2>1, <2>2, OneProcessMoves
<1>6. ASSUME NEW f \in Files, Import(p, f)
      PROVE  AttachInv'
  <2>1. AttachTypeOK' /\ Lawful(p)
    BY <1>1, <1>6 DEF Import, Written
  <2>2. OwnPart(p)'
    BY <1>1, <1>6 DEF Import, Written
  <2> QED BY <2>1, <2>2, OneProcessMoves
<1> QED BY <1>2, <1>3, <1>4, <1>5, <1>6

LEMMA AttachInvStep ==
  ASSUME AttachInv, [AttachNext]_attachVars
  PROVE  AttachInv'
<1>1. CASE UNCHANGED attachVars
  BY <1>1 DEF attachVars, AttachInv, AttachTypeOK, OwnPart, CrewHeld, SeatHeld, ReachApart,
              CrewsHaveHeaders
<1>2. ASSUME NEW p \in Lecodes, AttachStep(p)
      PROVE  AttachInv'
  BY <1>2, OpeningKeeps, SwitchKeeps, LoadingKeeps, LeavingKeeps, WorkingKeeps, MomentsKeep
     DEF AttachStep
<1> QED BY <1>1, <1>2 DEF AttachNext

\* A process works in a session that is there and that no other can open, lock
\* or delete, with workers of that session (acquire_lock, delete,
\* switch_session, WorkerManager.load).
THEOREM SessionIsHeld == AttachSpec => []AttachedIsHeld
<1>1. AttachInit => AttachInv
  BY AttachInvInit
<1>2. AttachInv /\ [AttachNext]_attachVars => AttachInv'
  BY AttachInvStep
<1>3. AttachInv => AttachedIsHeld
  <2> SUFFICES ASSUME AttachInv, NEW p \in Lecodes
               PROVE  /\ \A c \in crew[p] : locker[c] = p /\ disk[c] = "whole"
                      /\ active[p] \subseteq crew[p]
                      /\ seat[p] # NoFile => active[p] \subseteq enlisted[seat[p]]
                      /\ seat[p] # NoFile /\ stage[p] \notin {"headless", "creating"} =>
                           locker[seat[p]] = p /\ disk[seat[p]] # "deleted"
    BY DEF AttachedIsHeld
  <2> QED BY DEF AttachInv, OwnPart, CrewHeld, SeatHeld
<1> QED BY <1>1, <1>2, <1>3, PTL DEF AttachSpec
-----------------------------------------------------------------------------
(* The end of a headless run.                                              *)

RunEnds == {"done", "empty", "max_turns", "context_overflow", "cost_limit"}
Reasons == RunEnds \cup {"timeout"}
Exceptions == {NoError, "crash", "interrupt", "timeout"} \cup DOMAIN ProviderCodes

\* The reason of a run that returned is in the session; the review of a run
\* without a budget may change it afterwards, but never to "done".
ReasonRecorded ==
  /\ Capped /\ stop # "done" => runStopped = <<stop>>
  /\ stop = "done" => runStopped = <<>>

PromptPlaces == {"parse", "start", "attaching", "running", "review", "stopHook", "returned",
                 "closing", "judging", "ended"}

\* What is known of a prompt at each place: what is open, thrown and recorded.
PromptInv ==
  /\ cpc \in PromptPlaces
  /\ stop \in RunEnds /\ (stop = "cost_limit" => Capped)
  /\ runStopped \in Seq(Reasons)
  /\ thrown \in Exceptions
  /\ cpc \in {"parse", "start"} => unclosed = <<>>
  /\ cpc \in {"parse", "start", "attaching", "running"} => runStopped = <<>>
  /\ cpc = "review" /\ Capped => runStopped = <<>>
  /\ cpc \in PromptPlaces \ {"closing", "judging", "ended"} => thrown = NoError
  /\ \/ cpc = "review" /\ ~Capped
     \/ cpc \in {"stopHook", "returned"}
     \/ cpc \in {"closing", "judging"} /\ thrown = NoError
     => ReasonRecorded
  /\ cpc = "judging" => unclosed = <<>>

CommandInv == options.asked = {"prompt"} => PromptInv /\ PromptEndIsRecorded

LEMMA OneRecord ==
  ASSUME NEW why \in Reasons
  PROVE  /\ Append(<<>>, why) = <<why>> /\ <<why>> \in Seq(Reasons) /\ <<>> \in Seq(Reasons)
         /\ Last(<<why>>) = why
         /\ \A s \in Seq(Reasons) : Append(s, why) \in Seq(Reasons) /\ Last(Append(s, why)) = why
<1>1. Len(<<why>>) = 1 /\ <<why>>[1] = why
  OBVIOUS
<1>2. Append(<<>>, why) = <<why>>
  OBVIOUS
<1>3. \A s \in Seq(Reasons) : Append(s, why) \in Seq(Reasons) /\ Last(Append(s, why)) = why
  BY DEF Last
<1> QED BY <1>1, <1>2, <1>3 DEF Last

LEMMA PromptMode == options.asked = {"prompt"} => Mode = "prompt"
BY DEF Mode

LEMMA ErrorsAreRaised == \A error \in Errors : error \in Exceptions /\ error # NoError
BY DEF Errors, Exceptions, ProviderCodes, NoError

LEMMA CommandInvInit == CommandInit => CommandInv
BY DEF CommandInit, CommandInv, PromptInv, PromptPlaces, RunEnds, Exceptions, PromptEndIsRecorded

\* From the options to the first request.
LEMMA StartKeeps ==
  ASSUME PromptInv, options.asked = {"prompt"},
         Parse \/ StartupFails \/ StartPrompt \/ StartLoop \/ StartChain \/ Attach
         \/ ReadPlan \/ NextPhase
  PROVE  PromptInv' /\ PromptEndIsRecorded'
<1> USE PromptMode DEF Go
<1>1. CASE Parse
  <2>1. cpc = "parse" /\ cpc' \in {"start", "ended"}
        /\ UNCHANGED <<options, stop, thrown, unclosed, runStopped>>
        /\ (cpc' = "ended" => verdict' = Verdict("startup_error", 2))
    BY <1>1 DEF Parse
  <2> QED BY <2>1 DEF PromptInv, PromptPlaces, PromptEndIsRecorded, Verdict, Capped
<1>2. CASE StartupFails
  <2>1. verdict'.reason \in {"startup_error", "interrupted"}
    BY <1>2 DEF StartupFails, Verdict
  <2> QED BY <1>2, <2>1 DEF StartupFails, PromptInv, PromptPlaces, PromptEndIsRecorded, Capped
<1>3. CASE StartPrompt
  <2>1. cpc' = "ended" => verdict'.reason = "blocked" /\ unclosed' = unclosed
    BY <1>3 DEF StartPrompt, Verdict
  <2>2. cpc = "start" /\ cpc' \in {"attaching", "ended"}
        /\ UNCHANGED <<options, stop, thrown, runStopped>>
    BY <1>3 DEF StartPrompt
  <2> QED BY <2>1, <2>2 DEF PromptInv, PromptPlaces, PromptEndIsRecorded, Capped
<1>4. CASE StartLoop \/ StartChain
  BY <1>4 DEF StartLoop, StartChain
<1>5. CASE Attach
  BY <1>5 DEF Attach, BeginRun, PromptInv, PromptPlaces, PromptEndIsRecorded, Capped
<1>6. CASE ReadPlan \/ NextPhase
  BY <1>6 DEF ReadPlan, NextPhase, PromptInv, PromptPlaces
<1> QED BY <1>1, <1>2, <1>3, <1>4, <1>5, <1>6

\* From a request to the return of run().
LEMMA RunKeeps ==
  ASSUME PromptInv, options.asked = {"prompt"},
         \/ \E why \in {"done", "empty", "max_turns", "context_overflow"} : RunStops(why)
         \/ ReviewEnds \/ StopHookEnds \/ RunReturns
  PROVE  PromptInv' /\ PromptEndIsRecorded'
<1> USE PromptMode DEF Go
<1>1. ASSUME NEW why \in {"done", "empty", "max_turns", "context_overflow"}, RunStops(why)
      PROVE  PromptInv' /\ PromptEndIsRecorded'
  <2>1. cpc = "running" /\ stop' \in RunEnds /\ (stop' = "cost_limit" => Capped)
        /\ UNCHANGED <<options, thrown, unclosed>> /\ (Capped' <=> Capped)
    BY <1>1 DEF RunStops, RunEnds, Capped
  <2>2. CASE Capped
    <3>1. cpc' = "review" /\ UNCHANGED runStopped
      BY <1>1, <2>2 DEF RunStops
    <3> QED BY <2>1, <2>2, <3>1 DEF PromptInv, PromptPlaces, PromptEndIsRecorded
  <2>3. CASE ~Capped
    <3>1. cpc' = "stopHook" /\ (stop' = "done" => runStopped' = <<>>)
          /\ (stop' # "done" => runStopped' = <<stop'>>) /\ runStopped' \in Seq(Reasons)
      <4>1. runStopped = <<>> /\ stop' \in Reasons
        BY <2>1 DEF PromptInv, Reasons
      <4>2. PICK how \in Reasons : how = stop'
        BY <4>1
      <4>3. runStopped' = IF how = "done" THEN runStopped ELSE Append(runStopped, how)
        BY <4>2, <1>1, <2>1, <2>3 DEF RunStops, RecordEnd
      <4>4. cpc' = "stopHook"
        BY <1>1, <2>1, <2>3 DEF RunStops, RecordEnd
      <4>5. CASE how = "done"
        BY <4>1, <4>2, <4>3, <4>4, <4>5, OneRecord
      <4>6. CASE how # "done"
        <5>1. runStopped' = <<how>>
          BY <4>1, <4>3, <4>6, OneRecord
        <5> QED BY <4>2, <4>4, <4>6, <5>1, OneRecord
      <4> QED BY <4>5, <4>6
    <3> QED BY <2>1, <2>3, <3>1 DEF PromptInv, PromptPlaces, PromptEndIsRecorded, ReasonRecorded
  <2> QED BY <2>2, <2>3
<1>2. CASE ReviewEnds
  <2>1. cpc = "review" /\ thrown = NoError /\ UNCHANGED <<options, thrown, unclosed>>
        /\ (Capped' <=> Capped)
    BY <1>2 DEF ReviewEnds, PromptInv, PromptPlaces, Capped
  <2>2. /\ stop' \in {"cost_limit", "context_overflow", stop} /\ stop' \in RunEnds
        /\ stop' = "cost_limit" => Capped
        /\ stop' = "done" => stop = "done"
    BY <1>2 DEF ReviewEnds, PromptInv, RunEnds
  <2>3. CASE Capped
    <3>1. cpc' = "stopHook" /\ (stop' = "done" => runStopped' = <<>>)
          /\ (stop' # "done" => runStopped' = <<stop'>>) /\ runStopped' \in Seq(Reasons)
      <4>1. runStopped = <<>> /\ stop' \in Reasons
        BY <2>1, <2>2, <2>3 DEF PromptInv, Reasons
      <4>2. PICK how \in Reasons : how = stop'
        BY <4>1
      <4>3. runStopped' = IF how = "done" THEN runStopped ELSE Append(runStopped, how)
        BY <4>2, <1>2, <2>3 DEF ReviewEnds, RecordEnd
      <4>4. cpc' = "stopHook"
        BY <1>2, <2>3 DEF ReviewEnds, RecordEnd
      <4>5. CASE how = "done"
        BY <4>1, <4>2, <4>3, <4>4, <4>5, OneRecord
      <4>6. CASE how # "done"
        <5>1. runStopped' = <<how>>
          BY <4>1, <4>3, <4>6, OneRecord
        <5> QED BY <4>2, <4>4, <4>6, <5>1, OneRecord
      <4> QED BY <4>5, <4>6
    <3> QED BY <2>1, <2>2, <2>3, <3>1
            DEF PromptInv, PromptPlaces, PromptEndIsRecorded, ReasonRecorded
  <2>4. CASE ~Capped
    <3>1. cpc' = "returned" /\ UNCHANGED runStopped
      BY <1>2, <2>4 DEF ReviewEnds
    <3> QED BY <2>1, <2>2, <2>4, <3>1
            DEF PromptInv, PromptPlaces, PromptEndIsRecorded, ReasonRecorded
  <2> QED BY <2>3, <2>4
<1>3. CASE StopHookEnds
  <2>1. cpc = "stopHook" /\ cpc' = (IF Capped THEN "returned" ELSE "review")
        /\ UNCHANGED <<options, stop, thrown, unclosed, runStopped>> /\ (Capped' <=> Capped)
    BY <1>3 DEF StopHookEnds, Capped
  <2> QED BY <2>1 DEF PromptInv, PromptPlaces, PromptEndIsRecorded, ReasonRecorded
<1>4. CASE RunReturns
  <2>1. cpc = "returned" /\ cpc' = "closing" /\ (Capped' <=> Capped)
        /\ UNCHANGED <<options, stop, thrown, unclosed, runStopped>>
    BY <1>4 DEF RunReturns, Capped
  <2> QED BY <2>1 DEF PromptInv, PromptPlaces, PromptEndIsRecorded, ReasonRecorded
<1> QED BY <1>1, <1>2, <1>3, <1>4

\* What may happen between two awaits.
LEMMA EventsKeep ==
  ASSUME PromptInv, options.asked = {"prompt"},
         \/ SpendRunsOut \/ Forget \/ UsageIsMissing \/ PriceUnknown
         \/ \E error \in Errors : Raise(error)
  PROVE  PromptInv' /\ PromptEndIsRecorded'
<1>1. CASE SpendRunsOut \/ Forget \/ UsageIsMissing
  <2>1. UNCHANGED <<options, cpc, stop, thrown, unclosed, runStopped>> /\ (Capped' <=> Capped)
        /\ cpc # "ended"
    BY <1>1 DEF SpendRunsOut, Forget, UsageIsMissing, Capped
  <2> QED BY <2>1 DEF PromptInv, PromptEndIsRecorded, ReasonRecorded
<1>2. CASE PriceUnknown \/ \E error \in Errors : Raise(error)
  <2>1. cpc' = "closing" /\ thrown' \in Exceptions /\ thrown' # NoError
        /\ UNCHANGED <<options, stop, runStopped>> /\ (Capped' <=> Capped)
    BY <1>2, ErrorsAreRaised DEF PriceUnknown, Raise, Go, Capped, Exceptions, ProviderCodes, NoError
  <2> QED BY <2>1 DEF PromptInv, PromptPlaces, PromptEndIsRecorded
<1> QED BY <1>1, <1>2

LEMMA TeardownKeeps ==
  ASSUME PromptInv, options.asked = {"prompt"}, Close \/ CloseFails \/ Closed
  PROVE  PromptInv' /\ PromptEndIsRecorded'
<1>1. CASE Close \/ CloseFails
  <2>1. cpc = "closing" /\ UNCHANGED <<options, cpc, stop, runStopped>> /\ (Capped' <=> Capped)
        /\ thrown' \in {thrown, "crash"}
    BY <1>1, PromptMode DEF Close, CloseFails, Capped
  <2> QED BY <2>1 DEF PromptInv, PromptPlaces, PromptEndIsRecorded, ReasonRecorded, Exceptions, NoError
<1>2. CASE Closed
  <2>1. cpc = "closing" /\ cpc' = "judging" /\ unclosed = <<>> /\ (Capped' <=> Capped)
        /\ UNCHANGED <<options, stop, thrown, unclosed, runStopped>>
    BY <1>2 DEF Closed, Go, Capped
  <2> QED BY <2>1 DEF PromptInv, PromptPlaces, PromptEndIsRecorded, ReasonRecorded
<1> QED BY <1>1, <1>2

\* The verdict: by the limit, by what was thrown, or by how the run stopped.
LEMMA JudgeKeeps ==
  ASSUME PromptInv, options.asked = {"prompt"}, JudgePrompt \/ JudgeLoop \/ JudgeChain
  PROVE  PromptInv' /\ PromptEndIsRecorded'
<1>1. cpc = "judging" /\ cpc' = "ended" /\ JudgePrompt /\ (Capped' <=> Capped)
      /\ UNCHANGED <<options, stop, thrown, unclosed>>
  BY PromptMode DEF JudgePrompt, JudgeLoop, JudgeChain, Judged, Go, Capped
<1>2. thrown \in Exceptions /\ unclosed = <<>> /\ runStopped \in Seq(Reasons) /\ stop \in RunEnds
      /\ (thrown = NoError => ReasonRecorded) /\ (stop = "cost_limit" => Capped)
  BY <1>1 DEF PromptInv
<1>3. Limit \in {"timeout", "cost_limit", NoError} /\ NoError \notin {"timeout", "cost_limit"}
      /\ (Limit = "timeout" => thrown = "timeout")
  BY DEF Limit, NoError, ProviderCodes
<1>4. CASE Limit # NoError
  <2>1. verdict'.reason = Limit
    BY <1>1, <1>4 DEF JudgePrompt, Judged, Verdict
  <2>2. CASE LimitUnrecorded
    <3>1. runStopped' = Append(runStopped, Limit)
      BY <1>1, <2>2 DEF JudgePrompt
    <3>2. runStopped' \in Seq(Reasons) /\ Last(runStopped') = Limit
      BY <1>2, <1>3, <1>4, <3>1, OneRecord DEF Reasons, RunEnds
    <3> QED BY <1>1, <1>2, <1>3, <1>4, <2>1, <3>2
            DEF PromptInv, PromptPlaces, PromptEndIsRecorded
  <2>3. CASE ~LimitUnrecorded
    <3>1. runStopped' = runStopped /\ thrown = NoError /\ stop = Limit
      BY <1>1, <1>4, <2>3 DEF JudgePrompt, LimitUnrecorded
    <3>2. Limit = "cost_limit"
      BY <1>3, <1>4, <3>1 DEF NoError
    <3>3. Last(runStopped) = "cost_limit"
      BY <1>2, <3>1, <3>2, OneRecord DEF ReasonRecorded, Reasons, RunEnds
    <3> QED BY <1>1, <1>2, <2>1, <3>1, <3>2, <3>3
            DEF PromptInv, PromptPlaces, PromptEndIsRecorded
  <2> QED BY <2>2, <2>3
<1>5. CASE Limit = NoError
  <2>0. runStopped' = runStopped
    BY <1>1, <1>5 DEF JudgePrompt, LimitUnrecorded
  <2>1. CASE thrown # NoError
    <3>1. verdict' = Thrown
      BY <1>1, <1>5, <2>1 DEF JudgePrompt, Judged
    <3>2. verdict'.reason \in {"interrupted", "error"}
      BY <3>1 DEF Thrown, Verdict
    <3> QED BY <1>1, <1>2, <2>0, <3>2 DEF PromptInv, PromptPlaces, PromptEndIsRecorded
  <2>2. CASE thrown = NoError
    <3>1. verdict'.reason = stop
      BY <1>1, <1>5, <2>2 DEF JudgePrompt, Judged, Verdict
    <3>2. Capped /\ stop # "done" => Last(runStopped) = stop
      BY <1>2, <2>2, OneRecord DEF ReasonRecorded, Reasons
    <3>3. stop = "done" => runStopped = <<>>
      BY <1>2, <2>2 DEF ReasonRecorded
    <3>4. stop # "timeout"
      BY <1>2 DEF RunEnds
    <3> QED BY <1>1, <1>2, <2>0, <3>1, <3>2, <3>3, <3>4
            DEF PromptInv, PromptPlaces, PromptEndIsRecorded
  <2> QED BY <2>1, <2>2
<1> QED BY <1>4, <1>5

LEMMA CommandInvStep ==
  ASSUME CommandInv, [CommandNext]_commandVars
  PROVE  CommandInv'
<1>1. UNCHANGED options
  BY DEF CommandNext, commandVars, Parse, StartupFails, StartPrompt, StartLoop, StartChain, Attach,
         ReadPlan, NextPhase, RunStops, ReviewEnds, StopHookEnds, RunReturns, SpendRunsOut, Forget,
         UsageIsMissing, Raise, PriceUnknown, Close, CloseFails, Closed, JudgePrompt, JudgeLoop,
         JudgeChain, Judged
<1> SUFFICES ASSUME options.asked = {"prompt"}
             PROVE  PromptInv' /\ PromptEndIsRecorded'
  BY <1>1 DEF CommandInv
<1>2. PromptInv /\ PromptEndIsRecorded
  BY DEF CommandInv
<1>3. CASE UNCHANGED commandVars
  BY <1>2, <1>3 DEF commandVars, PromptInv, PromptEndIsRecorded, ReasonRecorded, Capped
<1> QED BY <1>2, <1>3, StartKeeps, RunKeeps, EventsKeep, TeardownKeeps, JudgeKeeps
        DEF CommandNext

\* The last run_stopped record of a prompt is the reason its caller is told, and
\* everything it opened was shut down (run_headless, AgentRunner.finish).
THEOREM EndIsRecorded == CommandSpec => []PromptEndIsRecorded
<1>1. CommandInit => CommandInv
  BY CommandInvInit
<1>2. CommandInv /\ [CommandNext]_commandVars => CommandInv'
  BY CommandInvStep
<1>3. CommandInv => PromptEndIsRecorded
  BY DEF CommandInv, PromptEndIsRecorded
<1> QED BY <1>1, <1>2, <1>3, PTL DEF CommandSpec
-----------------------------------------------------------------------------
(* Reservations of workspaces.                                             *)

LEMMA LeastExists ==
  ASSUME NEW S \in SUBSET Nat, S # {}
  PROVE  \E m \in S : \A k \in S : m <= k
<1>1. PICK m \in S : \A k \in S : ~(<<k, m>> \in OpToRel(<, Nat))
  BY NatLessThanWellFounded, WFMin
<1>2. \A k \in S : ~(k < m)
  BY <1>1 DEF OpToRel
<1> QED
  BY <1>2

ParentsIn(S) == {Tree[v] : v \in S \ {Main}} \ {Main}
Depth == Cardinality(TreeWorkers)

\* f holds the worker w and what is up to k levels above it, for k up to n.
UpTo(w, n, f) ==
  f = [k \in 0..n |-> IF k = 0 THEN {w} ELSE f[k - 1] \cup ParentsIn(f[k - 1])]

LEMMA UpExists ==
  ASSUME NEW w, NEW n \in Nat
  PROVE  \E f : UpTo(w, n, f)
<1> DEFINE Missing == {m \in Nat : ~\E f : UpTo(w, m, f)}
<1>1. SUFFICES ASSUME Missing # {}
               PROVE  FALSE
  OBVIOUS
<1>2. PICK m \in Missing : \A k \in Missing : m <= k
  BY <1>1, LeastExists
<1>3. m # 0
  <2>1. PICK f : f = [k \in 0..0 |-> {w}]
    OBVIOUS
  <2>2. UpTo(w, 0, f)
    BY <2>1 DEF UpTo
  <2> QED BY <2>2
<1>4. m \in Nat /\ m - 1 \in Nat /\ ~(m <= m - 1)
  BY <1>3
<1>5. PICK f : UpTo(w, m - 1, f)
  BY <1>2, <1>4
<1>6. PICK g : g = [k \in 0..m |-> IF k = m THEN f[m - 1] \cup ParentsIn(f[m - 1]) ELSE f[k]]
  OBVIOUS
<1>7. ASSUME NEW k \in 0..m
      PROVE  g[k] = IF k = 0 THEN {w} ELSE g[k - 1] \cup ParentsIn(g[k - 1])
  <2>1. CASE k = m
    <3>1. g[k] = f[m - 1] \cup ParentsIn(f[m - 1]) /\ g[k - 1] = f[m - 1] /\ k # 0
      BY <1>3, <1>4, <1>6, <2>1
    <3> QED BY <3>1
  <2>2. CASE k # m
    <3>1. k \in 0..(m - 1) /\ g[k] = f[k]
      BY <1>4, <1>6, <2>2
    <3>2. f[k] = IF k = 0 THEN {w} ELSE f[k - 1] \cup ParentsIn(f[k - 1])
      BY <1>5, <3>1 DEF UpTo
    <3>3. k # 0 => g[k - 1] = f[k - 1]
      BY <1>4, <1>6, <3>1
    <3> QED BY <3>1, <3>2, <3>3
  <2> QED BY <2>1, <2>2
<1>8. UpTo(w, m, g)
  BY <1>6, <1>7 DEF UpTo
<1> QED BY <1>2, <1>8

LEMMA DepthType == IsFiniteSet(TreeWorkers) /\ Depth \in Nat
BY TreeAssumption, FS_CardinalityType DEF Depth

LEMMA AboveIs ==
  ASSUME NEW w
  PROVE  \E f : /\ f[0] = {w} /\ Above(w) = f[Depth]
                /\ \A k \in 1..Depth : f[k] = f[k - 1] \cup ParentsIn(f[k - 1])
<1>1. Depth \in Nat
  BY DepthType
<1> DEFINE u == CHOOSE g : UpTo(w, Depth, g)
<1>2. UpTo(w, Depth, u)
  BY <1>1, UpExists
<1>3. Above(w) = u[Depth]
  BY DEF Above, UpTo, ParentsIn, Depth
<1> HIDE DEF u
<1>4. u[0] = {w} /\ \A k \in 1..Depth : u[k] = u[k - 1] \cup ParentsIn(u[k - 1])
  <2>1. 0 \in 0..Depth /\ \A k \in 1..Depth : k \in 0..Depth /\ k # 0
    BY <1>1
  <2>2. \A k \in 0..Depth : u[k] = IF k = 0 THEN {w} ELSE u[k - 1] \cup ParentsIn(u[k - 1])
    BY <1>2 DEF UpTo
  <2> QED BY <2>1, <2>2
<1> QED BY <1>3, <1>4

\* It lies in every set that holds the worker and is closed upwards.
LEMMA AboveLeast ==
  ASSUME NEW w, NEW S, w \in S, ParentsIn(S) \subseteq S
  PROVE  w \in Above(w) /\ Above(w) \subseteq S
<1>1. PICK f : /\ f[0] = {w} /\ Above(w) = f[Depth]
               /\ \A k \in 1..Depth : f[k] = f[k - 1] \cup ParentsIn(f[k - 1])
  BY AboveIs
<1> DEFINE Out == {k \in Nat : k <= Depth /\ ~(w \in f[k] /\ f[k] \subseteq S)}
<1>2. Depth \in Nat
  BY DepthType
<1>3. Out = {}
  <2> SUFFICES ASSUME Out # {}
               PROVE  FALSE
    OBVIOUS
  <2>1. PICK m \in Out : \A k \in Out : m <= k
    BY LeastExists
  <2>2. m # 0
    BY <1>1, <2>1
  <2>3. m \in 1..Depth /\ m - 1 \in Nat /\ m - 1 <= Depth /\ ~(m <= m - 1)
    BY <1>2, <2>1, <2>2
  <2>4. w \in f[m - 1] /\ f[m - 1] \subseteq S
    BY <2>1, <2>3
  <2>5. f[m] = f[m - 1] \cup ParentsIn(f[m - 1])
    BY <1>1, <2>3
  <2>6. ParentsIn(f[m - 1]) \subseteq ParentsIn(S)
    BY <2>4 DEF ParentsIn
  <2> QED BY <2>1, <2>4, <2>5, <2>6
<1>4. Depth \notin Out
  BY <1>3
<1> HIDE DEF Depth
<1> QED BY <1>1, <1>2, <1>4

\* Each level adds a worker or nothing, and there are no more than Depth.
LEMMA AboveClosed ==
  ASSUME NEW w \in TreeWorkers
  PROVE  w \in Above(w) /\ Above(w) \subseteq TreeWorkers /\ ParentsIn(Above(w)) \subseteq Above(w)
<1>0. ParentsIn(TreeWorkers) \subseteq TreeWorkers
  BY TreeAssumption DEF ParentsIn
<1>1. w \in Above(w) /\ Above(w) \subseteq TreeWorkers
  BY <1>0, AboveLeast
<1>2. PICK f : /\ f[0] = {w} /\ Above(w) = f[Depth]
               /\ \A k \in 1..Depth : f[k] = f[k - 1] \cup ParentsIn(f[k - 1])
  BY AboveIs
<1>3. Depth \in Nat /\ IsFiniteSet(TreeWorkers)
  BY DepthType
<1> DEFINE Good(k) == f[k] \subseteq TreeWorkers
                      /\ (ParentsIn(f[k]) \subseteq f[k] \/ Cardinality(f[k]) >= k + 1)
           Out == {k \in Nat : k <= Depth /\ ~Good(k)}
<1>4. Out = {}
  <2> SUFFICES ASSUME Out # {}
               PROVE  FALSE
    OBVIOUS
  <2>1. PICK m \in Out : \A k \in Out : m <= k
    BY LeastExists
  <2>2. m # 0
    <3>1. Cardinality({w}) = 1
      BY FS_Singleton
    <3>2. Good(0)
      BY <1>2, <3>1
    <3> QED BY <2>1, <3>2
  <2>3. m \in 1..Depth /\ m - 1 \in Nat /\ m - 1 <= Depth /\ ~(m <= m - 1) /\ m \in Nat
    BY <1>3, <2>1, <2>2
  <2>4. PICK S, T : S = f[m - 1] /\ T = f[m] /\ T = S \cup ParentsIn(S)
    BY <1>2, <2>3
  <2>5. Good(m - 1)
    BY <2>1, <2>3
  <2>6. S \subseteq TreeWorkers /\ T \subseteq TreeWorkers
    <3>1. ParentsIn(S) \subseteq ParentsIn(TreeWorkers)
      BY <2>4, <2>5 DEF ParentsIn
    <3> QED BY <1>0, <2>4, <2>5, <3>1
  <2>7. IsFiniteSet(S) /\ IsFiniteSet(T) /\ Cardinality(S) \in Nat /\ Cardinality(T) \in Nat
    BY <1>3, <2>6, FS_Subset, FS_CardinalityType
  <2>8. CASE ParentsIn(S) \subseteq S
    <3>1. T = S
      BY <2>4, <2>8
    <3>2. Good(m)
      BY <2>4, <2>6, <2>8, <3>1
    <3> QED BY <2>1, <3>2
  <2>9. CASE ~(ParentsIn(S) \subseteq S)
    <3>1. PICK x : x \in T /\ x \notin S
      BY <2>4, <2>9
    <3>2. Cardinality(S \cup {x}) = Cardinality(S) + 1 /\ IsFiniteSet(S \cup {x})
      BY <2>7, <3>1, FS_AddElement
    <3>3. S \cup {x} \in SUBSET T
      BY <2>4, <3>1
    <3>4. Cardinality(S \cup {x}) <= Cardinality(T)
      BY <2>7, <3>3, FS_Subset
    <3>5. Cardinality(S) >= m - 1 + 1
      BY <2>4, <2>5, <2>9
    <3>6. Cardinality(T) >= m + 1
      BY <2>3, <2>7, <3>2, <3>4, <3>5
    <3>7. Good(m)
      BY <2>4, <2>6, <3>6
    <3> QED BY <2>1, <3>7
  <2> QED BY <2>8, <2>9
<1>5. Good(Depth)
  <2>1. Depth \notin Out
    BY <1>4
  <2> HIDE DEF Good
  <2> QED BY <1>3, <2>1
<1>6. Cardinality(f[Depth]) <= Depth /\ Cardinality(f[Depth]) \in Nat
  BY <1>3, <1>5, FS_Subset, FS_CardinalityType DEF Depth
<1>7. ~(Cardinality(f[Depth]) >= Depth + 1)
  BY <1>3, <1>6
<1> QED BY <1>1, <1>2, <1>5, <1>7

LEMMA AboveFacts ==
  ASSUME NEW w \in TreeWorkers
  PROVE  /\ w \in Above(w) /\ Above(w) \subseteq TreeWorkers
         /\ Tree[w] # Main => /\ Tree[w] \in TreeWorkers /\ Tree[w] \in Above(w)
                              /\ Above(Tree[w]) \subseteq Above(w)
                              /\ Above(w) \subseteq {w} \cup Above(Tree[w])
         /\ Tree[w] = Main => Above(w) = {w}
<1>1. w \in Above(w) /\ Above(w) \subseteq TreeWorkers /\ ParentsIn(Above(w)) \subseteq Above(w)
  BY AboveClosed
<1>0. w # Main /\ Main \notin TreeWorkers
  BY TreeAssumption
<1>2. CASE Tree[w] # Main
  <2>1. Tree[w] \in TreeWorkers
    BY <1>2, TreeAssumption
  <2>2. Tree[w] \in ParentsIn(Above(w))
    BY <1>0, <1>1, <1>2 DEF ParentsIn
  <2>3. Above(Tree[w]) \subseteq Above(w)
    BY <1>1, <2>2, AboveLeast
  <2>4. /\ Tree[w] \in Above(Tree[w]) /\ Above(Tree[w]) \subseteq TreeWorkers
        /\ ParentsIn(Above(Tree[w])) \subseteq Above(Tree[w])
    BY <2>1, AboveClosed
  <2>5. ParentsIn({w} \cup Above(Tree[w])) \subseteq {w} \cup Above(Tree[w])
    BY <2>4 DEF ParentsIn
  <2>6. Above(w) \subseteq {w} \cup Above(Tree[w])
    BY <2>5, AboveLeast
  <2> QED BY <1>1, <1>2, <2>1, <2>2, <2>3, <2>6
<1>3. CASE Tree[w] = Main
  <2>1. ParentsIn({w}) \subseteq {w}
    BY <1>3 DEF ParentsIn
  <2>2. Above(w) \subseteq {w}
    BY <2>1, AboveLeast
  <2> QED BY <1>1, <1>3, <2>2
<1> QED BY <1>2, <1>3

-----------------------------------------------------------------------------
Ways == {"absent", "idle", "queued", "resumed", "reconciling", "running"}
TaskWork == [step : {"none", "ready", "maintaining", "creating"}, on : TreeWorkers \cup {Main}]

ReservationTypeOK ==
  /\ life \in [TreeWorkers -> Ways]
  /\ reserved \in [TreeWorkers -> {Nobody} \cup TreeWorkers \cup ToolTasks]
  /\ starts \in [TreeWorkers -> Nat]
  /\ owner \in [ToolTasks -> {Nobody, Human, Main} \cup TreeWorkers]
  /\ work \in [ToolTasks -> TaskWork]

\* Nobody exists without its parent, and nobody owns a call before it exists.
ParentsExist == \A w \in TreeWorkers : Exists(w) /\ Tree[w] # Main => Exists(Tree[w])
OwnersExist == \A t \in ToolTasks : Unfinished(t) /\ owner[t] \in TreeWorkers => Exists(owner[t])

\* A root is held by its own dispatch or by the task that maintains it.
HeldRight(r) ==
  reserved[r] # Nobody =>
    /\ Exists(r)
    /\ reserved[r] # r => /\ reserved[r] \in ToolTasks
                          /\ work[reserved[r]] = [step |-> "maintaining", on |-> r]

\* A worker is being created once, under a parent that exists and counts it.
Creates(t) == work[t].step = "creating"
Creation(t) ==
  Creates(t) =>
    LET w == work[t].on IN
      /\ w \in TreeWorkers /\ ~Exists(w)
      /\ Tree[w] # Main => Exists(Tree[w])
      /\ \A u \in ToolTasks : Creates(u) /\ work[u].on = w => u = t
CreatedUnder(v) == {t \in ToolTasks : Creates(t) /\ Tree[work[t].on] = v}
StartsCounted == \A v \in TreeWorkers : starts[v] = Cardinality(CreatedUnder(v))

QuietUnder(r, v) ==
  /\ starts[v] = 0
  /\ v # r => reserved[v] = Nobody
  /\ IsActive(v) => v = r /\ (reserved[r] = r \/ (owner[reserved[r]] = r
                                                  /\ Siblings(reserved[r]) = {}))

RootInv(r) == reserved[r] # Nobody => \A v \in Below(r) : QuietUnder(r, v)

ReservationInv ==
  /\ ReservationTypeOK /\ ParentsExist /\ OwnersExist /\ StartsCounted
  /\ \A r \in TreeWorkers : HeldRight(r) /\ RootInv(r)
  /\ \A t \in ToolTasks : Creation(t)

LEMMA ReservationInvInit == ReservationInit => ReservationInv
<1> SUFFICES ASSUME ReservationInit
             PROVE  ReservationInv
  OBVIOUS
<1>1. life \in [TreeWorkers -> {"absent", "idle"}] /\ ParentsExist
  BY DEF ReservationInit, ParentsExist, Exists
<1>2. \A t \in ToolTasks : owner[t] = Nobody /\ work[t] = [step |-> "none", on |-> Main]
  BY DEF ReservationInit, NoWork
<1>3. \A t \in ToolTasks : ~Unfinished(t) /\ ~Creates(t)
  BY <1>2 DEF Unfinished, Creates
<1>4. ReservationTypeOK
  <2>1. NoWork \in TaskWork
    BY DEF NoWork, TaskWork
  <2>2. life \in [TreeWorkers -> Ways]
    BY <1>1 DEF Ways
  <2> QED BY <2>1, <2>2 DEF ReservationInit, ReservationTypeOK
<1>5. \A v \in TreeWorkers : CreatedUnder(v) = {}
  BY <1>3 DEF CreatedUnder
<1>6. StartsCounted
  BY <1>5, FS_EmptySet DEF StartsCounted, ReservationInit
<1>7. \A r \in TreeWorkers : HeldRight(r) /\ RootInv(r)
  BY DEF ReservationInit, HeldRight, RootInv
<1> QED BY <1>1, <1>3, <1>4, <1>6, <1>7 DEF ReservationInv, OwnersExist, Creation

\* A reservation that a step leaves alone, with everybody under it.
LEMMA RootStays ==
  ASSUME ReservationInv, NEW r \in TreeWorkers, reserved'[r] = reserved[r],
         reserved[r] # Nobody =>
           /\ Exists(r)'
           /\ \A v \in TreeWorkers : r \in Above(v) /\ Exists(v)' =>
                /\ Exists(v) /\ (starts[v] = 0 => starts'[v] = 0)
                /\ v # r /\ reserved[v] = Nobody => reserved'[v] = Nobody
                /\ IsActive(v)' => IsActive(v),
         reserved[r] \in ToolTasks =>
           /\ work'[reserved[r]] = work[reserved[r]] /\ owner'[reserved[r]] = owner[reserved[r]]
           /\ owner[reserved[r]] = r => Siblings(reserved[r])' \subseteq Siblings(reserved[r])
  PROVE  HeldRight(r)' /\ RootInv(r)'
<1>1. HeldRight(r) /\ RootInv(r)
  BY DEF ReservationInv
<1>2. HeldRight(r)'
  BY <1>1 DEF HeldRight
<1>3. ASSUME reserved[r] # Nobody, NEW v \in Below(r)'
      PROVE  QuietUnder(r, v)'
  <2>1. v \in Below(r) /\ v \in TreeWorkers /\ r \in Above(v) /\ Exists(v)'
    BY <1>3 DEF Below
  <2>2. QuietUnder(r, v)
    BY <1>1, <1>3, <2>1 DEF RootInv
  <2>3. starts'[v] = 0 /\ (v # r => reserved'[v] = Nobody)
    BY <1>3, <2>1, <2>2 DEF QuietUnder
  <2>4. ASSUME IsActive(v)', reserved'[r] # r
        PROVE  owner'[reserved'[r]] = r /\ Siblings(reserved[r])' = {}
    <3>1. IsActive(v) /\ reserved[r] \in ToolTasks
      BY <1>1, <1>3, <2>1, <2>4 DEF HeldRight
    <3>2. owner[reserved[r]] = r /\ Siblings(reserved[r]) = {}
      BY <2>2, <2>4, <3>1 DEF QuietUnder
    <3> QED BY <3>1, <3>2
  <2>5. IsActive(v)' => v = r
    BY <1>3, <2>1, <2>2 DEF QuietUnder
  <2> QED BY <2>3, <2>4, <2>5 DEF QuietUnder
<1> QED BY <1>2, <1>3 DEF RootInv

\* A step that starts, reserves and wakes nobody, and adds no sibling to a
\* call that holds a reservation.
LEMMA ReservationEases ==
  ASSUME ReservationInv, ReservationTypeOK',
         \A w \in TreeWorkers : Exists(w)' <=> Exists(w),
         \A w \in TreeWorkers : IsActive(w)' => IsActive(w),
         starts' = starts,
         \A r \in TreeWorkers : reserved'[r] \in {reserved[r], Nobody},
         \A t \in ToolTasks : Creates(t)' <=> Creates(t),
         \A t \in ToolTasks : Creates(t) => work'[t].on = work[t].on,
         \A r \in TreeWorkers : reserved'[r] \in ToolTasks =>
           /\ work'[reserved[r]] = work[reserved[r]] /\ owner'[reserved[r]] = owner[reserved[r]]
           /\ owner[reserved[r]] = r => Siblings(reserved[r])' \subseteq Siblings(reserved[r]),
         OwnersExist'
  PROVE  ReservationInv'
<1>1. ParentsExist'
  BY TreeAssumption DEF ReservationInv, ParentsExist
<1>3. StartsCounted'
  <2>1. \A v \in TreeWorkers : CreatedUnder(v)' = CreatedUnder(v)
    BY DEF CreatedUnder
  <2> QED BY <2>1 DEF ReservationInv, StartsCounted
<1>4. ASSUME NEW r \in TreeWorkers
      PROVE  HeldRight(r)' /\ RootInv(r)'
  <2>1. CASE reserved'[r] = Nobody
    BY <2>1 DEF HeldRight, RootInv
  <2>2. CASE reserved'[r] # Nobody
    <3>1. reserved'[r] = reserved[r]
      BY <2>2
    <3>2. reserved[r] # Nobody => Exists(r)
      BY DEF ReservationInv, HeldRight
    <3> QED BY <3>1, <3>2, RootStays
  <2> QED BY <2>1, <2>2
<1>5. ASSUME NEW t \in ToolTasks
      PROVE  Creation(t)'
  <2>1. Creation(t)
    BY DEF ReservationInv
  <2> QED BY <2>1, TreeAssumption DEF Creation
<1> QED BY <1>1, <1>3, <1>4, <1>5 DEF ReservationInv

\* The facts a step of a task starts from.
LEMMA TaskFacts ==
  ASSUME ReservationInv, NEW t \in ToolTasks
  PROVE  /\ work[t].step \in {"none", "ready", "maintaining", "creating"}
         /\ work[t].on \in TreeWorkers \cup {Main}
BY DEF ReservationInv, ReservationTypeOK, TaskWork

LEMMA HolderFacts ==
  ASSUME ReservationInv, NEW r \in TreeWorkers, reserved[r] # Nobody
  PROVE  /\ Exists(r)
         /\ \A t \in ToolTasks : reserved[r] = t => /\ work[t].step = "maintaining"
                                                    /\ work[t].on = r
<1>1. ASSUME NEW t \in ToolTasks, reserved[r] = t
      PROVE  work[t] = [step |-> "maintaining", on |-> r]
  <2>1. t # r
    BY TreeAssumption
  <2> QED BY <1>1, <2>1 DEF ReservationInv, HeldRight
<1>2. Exists(r)
  BY DEF ReservationInv, HeldRight
<1> QED BY <1>1, <1>2

LEMMA CreateTaskKeeps ==
  ASSUME ReservationInv, NEW t \in ToolTasks, CreateTask(t)
  PROVE  ReservationInv'
<1>0. ReservationTypeOK /\ work[t].step = "none" /\ UNCHANGED <<life, reserved, starts>>
  BY DEF ReservationInv, CreateTask, Unfinished
<1>1. PICK o \in {Human, Main} \cup {w \in TreeWorkers : life[w] = "running"} :
        /\ o # Human => \A u \in ToolTasks : Unfinished(u) /\ owner[u] = o => work[u].step = "ready"
        /\ owner' = [owner EXCEPT ![t] = o]
  BY DEF CreateTask
<1>2. work' = [work EXCEPT ![t] = [step |-> "ready", on |-> Main]]
  BY DEF CreateTask
<1>3. ReservationTypeOK'
  <2>1. [step |-> "ready", on |-> Main] \in TaskWork
    BY DEF TaskWork
  <2>2. work' \in [ToolTasks -> TaskWork]
    BY <1>0, <1>2, <2>1 DEF ReservationTypeOK
  <2>3. owner' \in [ToolTasks -> {Nobody, Human, Main} \cup TreeWorkers]
    BY <1>0, <1>1 DEF ReservationTypeOK
  <2> QED BY <1>0, <2>2, <2>3 DEF ReservationTypeOK
<1>4. /\ work'[t].step = "ready" /\ owner'[t] = o
      /\ \A u \in ToolTasks : u # t => work'[u] = work[u] /\ owner'[u] = owner[u]
  BY <1>0, <1>1, <1>2 DEF ReservationTypeOK
<1>5. \A u \in ToolTasks : (Creates(u)' <=> Creates(u)) /\ (Creates(u) => work'[u].on = work[u].on)
  BY <1>0, <1>4 DEF Creates
<1>6. ASSUME NEW r \in TreeWorkers, reserved'[r] \in ToolTasks
      PROVE  /\ work'[reserved[r]] = work[reserved[r]] /\ owner'[reserved[r]] = owner[reserved[r]]
             /\ owner[reserved[r]] = r => Siblings(reserved[r])' \subseteq Siblings(reserved[r])
  <2>1. PICK h \in ToolTasks : h = reserved[r] /\ h = reserved'[r]
    BY <1>0, <1>6
  <2>2. work[h].step = "maintaining"
    <3>1. reserved[r] # Nobody
      BY <2>1, TreeAssumption
    <3> QED BY <2>1, <3>1, HolderFacts
  <2>3. h # t /\ work'[h] = work[h] /\ owner'[h] = owner[h] /\ Unfinished(h)
    BY <1>0, <1>4, <2>2 DEF Unfinished
  <2>4. ASSUME owner[h] = r
        PROVE  o # r
    <3>1. r # Human
      BY TreeAssumption
    <3> QED BY <1>1, <2>2, <2>3, <2>4, <3>1
  <2>5. ASSUME owner[h] = r
        PROVE  Siblings(h)' \subseteq Siblings(h)
    BY <1>4, <2>3, <2>4, <2>5 DEF Siblings, Unfinished
  <2> QED BY <2>1, <2>3, <2>5
<1>7. OwnersExist'
  <2>1. o \in TreeWorkers => Exists(o)
    BY <1>1, TreeAssumption DEF Exists
  <2> QED BY <1>0, <1>4, <2>1 DEF ReservationInv, OwnersExist, Exists, Unfinished
<1> QED BY <1>0, <1>3, <1>5, <1>6, <1>7, ReservationEases DEF Exists, IsActive

\* A task ends that created nothing, and gives back what it reserved.
LEMMA TaskEndsKeeps ==
  ASSUME ReservationInv, NEW t \in ToolTasks, ~Creates(t), FinishTask(t),
         UNCHANGED <<life, starts>>,
         reserved' = reserved \/ (work[t].step = "maintaining"
                                  /\ reserved' = [reserved EXCEPT ![work[t].on] = Nobody]),
         work[t].step = "maintaining" => reserved' # reserved \/ \A r \in TreeWorkers : reserved[r] # t
  PROVE  ReservationInv'
<1>0. ReservationTypeOK
  BY DEF ReservationInv
<1>1. /\ work'[t] = NoWork /\ owner'[t] = Nobody
      /\ \A u \in ToolTasks : u # t => work'[u] = work[u] /\ owner'[u] = owner[u]
  BY <1>0 DEF FinishTask, ReservationTypeOK
<1>2. \A r \in TreeWorkers : reserved'[r] \in {reserved[r], Nobody} /\ reserved'[r] # t
  <2>1. t # Nobody
    BY TreeAssumption
  <2>0. ASSUME NEW r \in TreeWorkers, reserved[r] = t
        PROVE  work[t].step = "maintaining" /\ work[t].on = r
    BY <2>0, <2>1, HolderFacts
  <2>2. ASSUME NEW r \in TreeWorkers, reserved' = reserved
        PROVE  reserved'[r] # t
    BY <2>0, <2>2
  <2>3. ASSUME NEW r \in TreeWorkers, reserved' = [reserved EXCEPT ![work[t].on] = Nobody]
        PROVE  reserved'[r] \in {reserved[r], Nobody} /\ reserved'[r] # t
    <3>1. reserved[r] = t => work[t].on = r
      BY <2>0
    <3>2. reserved'[r] = IF r = work[t].on THEN Nobody ELSE reserved[r]
      BY <1>0, <2>3 DEF ReservationTypeOK
    <3> QED BY <2>1, <3>1, <3>2
  <2> QED BY <2>2, <2>3
<1>3. ReservationTypeOK'
  <2>1. NoWork \in TaskWork
    BY DEF TaskWork, NoWork
  <2>2. work' \in [ToolTasks -> TaskWork]
    BY <1>0, <2>1 DEF ReservationTypeOK, FinishTask
  <2>3. owner' \in [ToolTasks -> {Nobody, Human, Main} \cup TreeWorkers]
    BY <1>0 DEF ReservationTypeOK, FinishTask
  <2>4. reserved' \in [TreeWorkers -> {Nobody} \cup TreeWorkers \cup ToolTasks]
    BY <1>0 DEF ReservationTypeOK
  <2> QED BY <1>0, <2>2, <2>3, <2>4 DEF ReservationTypeOK
<1>4. \A u \in ToolTasks : (Creates(u)' <=> Creates(u)) /\ (Creates(u) => work'[u].on = work[u].on)
  BY <1>1 DEF Creates, NoWork
<1>5. ASSUME NEW r \in TreeWorkers, reserved'[r] \in ToolTasks
      PROVE  /\ work'[reserved[r]] = work[reserved[r]] /\ owner'[reserved[r]] = owner[reserved[r]]
             /\ owner[reserved[r]] = r => Siblings(reserved[r])' \subseteq Siblings(reserved[r])
  <2>1. PICK h \in ToolTasks : h = reserved[r] /\ h = reserved'[r] /\ h # t
    BY <1>2, <1>5, TreeAssumption
  <2>2. ~Unfinished(t)' /\ owner'[h] = owner[h] /\ work'[h] = work[h]
    BY <1>1, <2>1 DEF Unfinished, NoWork
  <2>3. Siblings(h)' \subseteq Siblings(h)
    BY <1>1, <2>2 DEF Siblings, Unfinished
  <2> QED BY <2>1, <2>2, <2>3
<1>6. OwnersExist'
  BY <1>1 DEF ReservationInv, OwnersExist, Exists, Unfinished, NoWork
<1> QED BY <1>2, <1>3, <1>4, <1>5, <1>6, ReservationEases DEF Exists, IsActive

\* A dispatch moves on, or ends and gives back what it reserved.
LEMMA DispatchEases ==
  ASSUME ReservationInv, NEW w \in TreeWorkers, NEW how \in {"idle", "running"},
         IsActive(w), life' = [life EXCEPT ![w] = how],
         reserved' = reserved \/ reserved' = [reserved EXCEPT ![w] = Nobody],
         UNCHANGED <<starts, owner, work>>
  PROVE  ReservationInv'
<1>0. ReservationTypeOK
  BY DEF ReservationInv
<1>1. ReservationTypeOK'
  <2>1. life' \in [TreeWorkers -> Ways]
    BY <1>0 DEF ReservationTypeOK, Ways
  <2>2. reserved' \in [TreeWorkers -> {Nobody} \cup TreeWorkers \cup ToolTasks]
    BY <1>0 DEF ReservationTypeOK
  <2> QED BY <1>0, <2>1, <2>2 DEF ReservationTypeOK
<1>2. \A v \in TreeWorkers : /\ Exists(v)' <=> Exists(v)
                             /\ IsActive(v)' => IsActive(v)
                             /\ reserved'[v] \in {reserved[v], Nobody}
  BY <1>0 DEF ReservationTypeOK, Exists, IsActive
<1>3. \A t \in ToolTasks : (Creates(t)' <=> Creates(t)) /\ (Unfinished(t)' <=> Unfinished(t))
  BY DEF Creates, Unfinished
<1>4. OwnersExist'
  BY <1>2, <1>3 DEF ReservationInv, OwnersExist
<1>5. ASSUME NEW r \in TreeWorkers, reserved'[r] \in ToolTasks
      PROVE  Siblings(reserved[r])' \subseteq Siblings(reserved[r])
  <2>1. reserved'[r] = reserved[r]
    BY <1>2, <1>5, TreeAssumption
  <2> QED BY <1>3, <2>1 DEF Siblings
<1> QED BY <1>1, <1>2, <1>3, <1>4, <1>5, ReservationEases

\* Where nothing above a worker is reserved, it may wake up.
LEMMA WakeKeeps ==
  ASSUME ReservationInv, NEW t \in ToolTasks, WakeWorker(t)
  PROVE  ReservationInv'
<1>0. ReservationTypeOK /\ work[t].step = "ready" /\ UNCHANGED <<reserved, starts>>
  BY DEF ReservationInv, WakeWorker
<1>1. PICK w \in TreeWorkers : life[w] = "idle" /\ Available(w) /\ life' = [life EXCEPT ![w] = "resumed"]
  BY DEF WakeWorker
<1>2. /\ work'[t] = NoWork /\ owner'[t] = Nobody
      /\ \A u \in ToolTasks : u # t => work'[u] = work[u] /\ owner'[u] = owner[u]
  BY <1>0 DEF WakeWorker, FinishTask, ReservationTypeOK
<1>3. \A v \in TreeWorkers : /\ Exists(v)' <=> Exists(v)
                             /\ v # w => (IsActive(v)' <=> IsActive(v))
  BY <1>0, <1>1 DEF ReservationTypeOK, Exists, IsActive
<1>4. ReservationTypeOK'
  <2>1. NoWork \in TaskWork
    BY DEF TaskWork, NoWork
  <2>2. work' \in [ToolTasks -> TaskWork]
    BY <1>0, <2>1 DEF ReservationTypeOK, FinishTask, WakeWorker
  <2>3. owner' \in [ToolTasks -> {Nobody, Human, Main} \cup TreeWorkers]
    BY <1>0 DEF ReservationTypeOK, FinishTask, WakeWorker
  <2>4. life' \in [TreeWorkers -> Ways]
    BY <1>0, <1>1 DEF ReservationTypeOK, Ways
  <2> QED BY <1>0, <2>2, <2>3, <2>4 DEF ReservationTypeOK
<1>5. \A u \in ToolTasks : (Creates(u)' <=> Creates(u)) /\ (Creates(u) => work'[u] = work[u])
  BY <1>0, <1>2 DEF Creates, NoWork
<1>6. ASSUME NEW r \in TreeWorkers
      PROVE  HeldRight(r)' /\ RootInv(r)'
  <2>1. CASE reserved[r] = Nobody
    BY <1>0, <2>1 DEF HeldRight, RootInv
  <2>2. CASE reserved[r] # Nobody
    <3>1. r \notin Above(w)
      BY <1>1, <2>2, TreeAssumption DEF Available
    <3>2. Exists(r)' /\ \A v \in TreeWorkers : r \in Above(v) /\ Exists(v)' =>
                          Exists(v) /\ (IsActive(v)' => IsActive(v))
      BY <1>3, <2>2, <3>1, HolderFacts
    <3>3. ASSUME reserved[r] \in ToolTasks
          PROVE  /\ work'[reserved[r]] = work[reserved[r]] /\ owner'[reserved[r]] = owner[reserved[r]]
                 /\ Siblings(reserved[r])' \subseteq Siblings(reserved[r])
      <4>1. PICK h \in ToolTasks : h = reserved[r] /\ h = reserved'[r]
        BY <1>0, <3>3
      <4>2. h # t
        BY <1>0, <2>2, <4>1, HolderFacts
      <4>3. Siblings(h)' \subseteq Siblings(h)
        BY <1>2, <4>2 DEF Siblings, Unfinished, NoWork
      <4> QED BY <1>2, <4>1, <4>2, <4>3
    <3> QED BY <1>0, <3>2, <3>3, RootStays
  <2> QED BY <2>1, <2>2
<1>7. ParentsExist' /\ OwnersExist'
  <2>1. ParentsExist'
    BY <1>3, TreeAssumption DEF ReservationInv, ParentsExist
  <2>2. OwnersExist'
    BY <1>2, <1>3, TreeAssumption DEF ReservationInv, OwnersExist, Unfinished, NoWork
  <2> QED BY <2>1, <2>2
<1>8. StartsCounted'
  <2>1. \A v \in TreeWorkers : CreatedUnder(v)' = CreatedUnder(v)
    BY <1>5 DEF CreatedUnder
  <2> QED BY <1>0, <2>1 DEF ReservationInv, StartsCounted
<1>9. ASSUME NEW u \in ToolTasks
      PROVE  Creation(u)'
  <2>1. Creation(u)
    BY DEF ReservationInv
  <2> QED BY <1>3, <1>5, <2>1, TreeAssumption DEF Creation
<1> QED BY <1>4, <1>6, <1>7, <1>8, <1>9 DEF ReservationInv

\* A task that holds nothing leaves those that do, and their siblings, alone.
LEMMA HolderStays ==
  ASSUME ReservationInv, NEW t \in ToolTasks, work[t].step # "maintaining",
         \A u \in ToolTasks : u # t => work'[u] = work[u] /\ owner'[u] = owner[u],
         Unfinished(t)' => Unfinished(t) /\ owner'[t] = owner[t],
         NEW r \in TreeWorkers, reserved[r] \in ToolTasks, reserved'[r] = reserved[r]
  PROVE  /\ work'[reserved[r]] = work[reserved[r]] /\ owner'[reserved[r]] = owner[reserved[r]]
         /\ Siblings(reserved[r])' \subseteq Siblings(reserved[r])
<1>1. PICK h \in ToolTasks : h = reserved[r] /\ h = reserved'[r]
  OBVIOUS
<1>2. h # t
  <2>1. reserved[r] # Nobody
    BY TreeAssumption
  <2> QED BY <1>1, <2>1, HolderFacts
<1>3. Siblings(h)' \subseteq Siblings(h)
  BY <1>2 DEF Siblings, Unfinished
<1> QED BY <1>1, <1>2, <1>3

\* A worker is created under one that exists, and that nothing above reserves.
LEMMA StartWorkerKeeps ==
  ASSUME ReservationInv, NEW t \in ToolTasks, StartWorker(t)
  PROVE  ReservationInv'
<1>0. ReservationTypeOK /\ work[t].step = "ready" /\ UNCHANGED <<life, reserved, owner>>
  BY DEF ReservationInv, StartWorker
<1>1. PICK w \in TreeWorkers :
        /\ ~Exists(w) /\ Tree[w] = ParentOf(t)
        /\ \A u \in ToolTasks : ~(work[u].step = "creating" /\ work[u].on = w)
        /\ Available(ParentOf(t))
        /\ starts' = IF ParentOf(t) = Main THEN starts ELSE [starts EXCEPT ![ParentOf(t)] = @ + 1]
        /\ work' = [work EXCEPT ![t] = [step |-> "creating", on |-> w]]
  BY DEF StartWorker
<1>2. PICK p : p = Tree[w] /\ (p # Main => p \in TreeWorkers /\ Exists(p)) /\ Available(p)
               /\ starts' = IF p = Main THEN starts ELSE [starts EXCEPT ![p] = @ + 1]
  <2>1. Tree[w] # Main => Tree[w] \in TreeWorkers
    BY TreeAssumption
  <2>2. Tree[w] # Main => Tree[w] = owner[t]
    BY <1>1 DEF ParentOf
  <2>3. Tree[w] # Main => Exists(Tree[w])
    BY <1>0, <2>1, <2>2 DEF ReservationInv, OwnersExist, Unfinished
  <2> QED BY <1>1, <2>1, <2>3
<1>3. /\ work'[t].step = "creating" /\ work'[t].on = w
      /\ \A u \in ToolTasks : u # t => work'[u] = work[u]
  BY <1>0, <1>1 DEF ReservationTypeOK
<1>4. ReservationTypeOK'
  <2>1. [step |-> "creating", on |-> w] \in TaskWork
    BY DEF TaskWork
  <2>2. work' \in [ToolTasks -> TaskWork]
    BY <1>0, <1>1, <2>1 DEF ReservationTypeOK
  <2>3. starts' \in [TreeWorkers -> Nat]
    BY <1>0, <1>2 DEF ReservationTypeOK
  <2> QED BY <1>0, <2>2, <2>3 DEF ReservationTypeOK
<1>5. ASSUME NEW r \in TreeWorkers
      PROVE  HeldRight(r)' /\ RootInv(r)'
  <2>1. CASE reserved[r] = Nobody
    BY <1>0, <2>1 DEF HeldRight, RootInv
  <2>2. CASE reserved[r] # Nobody
    <3>1. p # Main => r \notin Above(p)
      BY <1>2, <2>2, TreeAssumption DEF Available
    <3>2. ASSUME NEW v \in TreeWorkers, r \in Above(v)
          PROVE  starts'[v] = starts[v]
      BY <1>0, <1>2, <3>1, <3>2 DEF ReservationTypeOK
    <3>3. Exists(r)' /\ \A v \in TreeWorkers : Exists(v)' => Exists(v) /\ (IsActive(v)' => IsActive(v))
      BY <1>0, <2>2, HolderFacts DEF Exists, IsActive
    <3>4. Unfinished(t)
      BY <1>0 DEF Unfinished
    <3>5. reserved[r] \in ToolTasks =>
            /\ work'[reserved[r]] = work[reserved[r]] /\ owner'[reserved[r]] = owner[reserved[r]]
            /\ Siblings(reserved[r])' \subseteq Siblings(reserved[r])
      BY <1>0, <1>3, <3>4, HolderStays
    <3> QED BY <1>0, <3>2, <3>3, <3>5, RootStays
  <2> QED BY <2>1, <2>2
<1>6. ParentsExist' /\ OwnersExist'
  <2>1. \A u \in ToolTasks : Unfinished(u)' => Unfinished(u)
    BY <1>0, <1>3 DEF Unfinished
  <2> QED BY <1>0, <2>1 DEF ReservationInv, ParentsExist, OwnersExist, Exists
<1>7. StartsCounted'
  <2>1. ~Creates(t) /\ \A u \in ToolTasks : Creates(u)' <=> Creates(u) \/ u = t
    BY <1>0, <1>3 DEF Creates
  <2>2. ASSUME NEW v \in TreeWorkers
        PROVE  starts'[v] = Cardinality(CreatedUnder(v)')
    <3>1. IsFiniteSet(CreatedUnder(v)) /\ starts[v] = Cardinality(CreatedUnder(v))
      <4>1. CreatedUnder(v) \subseteq ToolTasks
        BY DEF CreatedUnder
      <4> QED BY <4>1, TreeAssumption, FS_Subset DEF ReservationInv, StartsCounted
    <3>2. CASE v = p
      <4>1. CreatedUnder(v)' = CreatedUnder(v) \cup {t} /\ t \notin CreatedUnder(v)
        BY <1>2, <1>3, <2>1, <3>2 DEF CreatedUnder
      <4>2. Cardinality(CreatedUnder(v) \cup {t}) = starts[v] + 1
        BY <3>1, <4>1, FS_AddElement
      <4>3. starts'[v] = starts[v] + 1
        BY <1>0, <1>2, <3>2, TreeAssumption DEF ReservationTypeOK
      <4> QED BY <4>1, <4>2, <4>3
    <3>3. CASE v # p
      <4>1. CreatedUnder(v)' = CreatedUnder(v)
        BY <1>2, <1>3, <2>1, <3>3 DEF CreatedUnder
      <4>2. starts'[v] = starts[v]
        BY <1>0, <1>2, <3>3 DEF ReservationTypeOK
      <4> QED BY <3>1, <4>1, <4>2
    <3> QED BY <3>2, <3>3
  <2> QED BY <2>2 DEF StartsCounted
<1>8. ASSUME NEW u \in ToolTasks
      PROVE  Creation(u)'
  <2>1. Creation(u)
    BY DEF ReservationInv
  <2>2. CASE u = t
    BY <1>0, <1>1, <1>2, <1>3, <2>2 DEF Creation, Creates, Exists
  <2>3. CASE u # t
    BY <1>0, <1>1, <1>3, <2>1, <2>3 DEF Creation, Creates, Exists
  <2> QED BY <2>2, <2>3
<1> QED BY <1>4, <1>5, <1>6, <1>7, <1>8 DEF ReservationInv

\* A creation ends, with a worker or without: nothing above it is reserved,
\* since its parent counts it.
LEMMA CreationEnds ==
  ASSUME ReservationInv, NEW t \in ToolTasks, work[t].step = "creating", FinishTask(t),
         NEW w, w = work[t].on, reserved' = reserved,
         starts' = IF Tree[w] = Main THEN starts ELSE [starts EXCEPT ![Tree[w]] = @ - 1],
         life' = life \/ life' = [life EXCEPT ![w] = "queued"]
  PROVE  ReservationInv'
<1>0. ReservationTypeOK /\ Creation(t) /\ Creates(t)
  BY DEF ReservationInv, Creates
<1>1. /\ w \in TreeWorkers /\ ~Exists(w)
      /\ Tree[w] # Main => Tree[w] \in TreeWorkers /\ Exists(Tree[w])
      /\ \A u \in ToolTasks : Creates(u) /\ work[u].on = w => u = t
  BY <1>0, TreeAssumption DEF Creation
<1>2. /\ work'[t] = NoWork /\ owner'[t] = Nobody
      /\ \A u \in ToolTasks : u # t => work'[u] = work[u] /\ owner'[u] = owner[u]
  BY <1>0 DEF FinishTask, ReservationTypeOK
<1>3. ~Creates(t)' /\ \A u \in ToolTasks : Creates(u)' <=> Creates(u) /\ u # t
  BY <1>2 DEF Creates, NoWork
<1>4. ASSUME NEW v \in TreeWorkers
      PROVE  /\ starts'[v] = Cardinality(CreatedUnder(v)') /\ starts'[v] \in Nat
             /\ starts[v] = 0 => starts'[v] = 0
             /\ v = Tree[w] => starts[v] # 0
  <2>1. IsFiniteSet(CreatedUnder(v)) /\ starts[v] = Cardinality(CreatedUnder(v)) /\ starts[v] \in Nat
    <3>1. CreatedUnder(v) \subseteq ToolTasks
      BY DEF CreatedUnder
    <3> QED BY <1>0, <3>1, TreeAssumption, FS_Subset DEF ReservationInv, StartsCounted, ReservationTypeOK
  <2>2. CASE v = Tree[w]
    <3>1. CreatedUnder(v)' = CreatedUnder(v) \ {t} /\ t \in CreatedUnder(v)
      BY <1>0, <1>2, <1>3, <2>2 DEF CreatedUnder
    <3>2. Cardinality(CreatedUnder(v) \ {t}) = starts[v] - 1
      BY <2>1, <3>1, FS_RemoveElement
    <3>3. CreatedUnder(v) # {}
      BY <3>1
    <3>4. starts[v] # 0
      BY <2>1, <3>3, FS_EmptySet
    <3>5. starts'[v] = starts[v] - 1
      BY <1>0, <2>2, TreeAssumption DEF ReservationTypeOK
    <3> QED BY <2>1, <3>1, <3>2, <3>4, <3>5
  <2>3. CASE v # Tree[w]
    <3>1. CreatedUnder(v)' = CreatedUnder(v)
      BY <1>2, <1>3, <2>3 DEF CreatedUnder
    <3>2. starts'[v] = starts[v]
      BY <1>0, <2>3 DEF ReservationTypeOK
    <3> QED BY <2>1, <2>3, <3>1, <3>2
  <2> QED BY <2>2, <2>3
<1>5. ReservationTypeOK'
  <2>1. NoWork \in TaskWork
    BY DEF TaskWork, NoWork
  <2>2. work' \in [ToolTasks -> TaskWork]
    BY <1>0, <2>1 DEF ReservationTypeOK, FinishTask
  <2>3. owner' \in [ToolTasks -> {Nobody, Human, Main} \cup TreeWorkers]
    BY <1>0 DEF ReservationTypeOK, FinishTask
  <2>4. life' \in [TreeWorkers -> Ways]
    BY <1>0, <1>1 DEF ReservationTypeOK, Ways
  <2>5. starts' \in [TreeWorkers -> Nat]
    <3>1. DOMAIN starts' = TreeWorkers /\ starts' = [v \in TreeWorkers |-> starts'[v]]
      BY <1>0 DEF ReservationTypeOK
    <3> QED BY <1>4, <3>1
  <2> QED BY <1>0, <2>2, <2>3, <2>4, <2>5 DEF ReservationTypeOK
<1>6. \A v \in TreeWorkers : /\ v # w => life'[v] = life[v]
                             /\ Exists(v) => Exists(v)'
                             /\ Exists(v)' => Exists(v) \/ v = w
  BY <1>0, <1>1 DEF ReservationTypeOK, Exists
<1>7. ASSUME NEW r \in TreeWorkers, reserved[r] # Nobody
      PROVE  r \notin Above(w)
  <2>1. Exists(r) /\ r # w
    BY <1>1, <1>7, HolderFacts
  <2>2. ASSUME Tree[w] # Main, r \in Above(Tree[w])
        PROVE  FALSE
    <3>1. Tree[w] \in Below(r)
      BY <1>1, <2>2 DEF Below
    <3>2. starts[Tree[w]] = 0
      BY <1>7, <3>1 DEF ReservationInv, RootInv, QuietUnder
    <3> QED BY <1>1, <1>4, <2>2, <3>2
  <2> QED BY <1>1, <2>1, <2>2, AboveFacts
<1>8. ASSUME NEW r \in TreeWorkers
      PROVE  HeldRight(r)' /\ RootInv(r)'
  <2>1. CASE reserved[r] = Nobody
    BY <2>1 DEF HeldRight, RootInv
  <2>2. CASE reserved[r] # Nobody
    <3>1. Exists(r)'
      BY <1>6, <2>2, HolderFacts
    <3>2. ASSUME NEW v \in TreeWorkers, r \in Above(v), Exists(v)'
          PROVE  Exists(v) /\ (starts[v] = 0 => starts'[v] = 0) /\ (IsActive(v)' => IsActive(v))
      <4>1. v # w
        BY <1>7, <2>2, <3>2
      <4> QED BY <1>4, <1>6, <3>2, <4>1 DEF IsActive
    <3>3. work[t].step # "maintaining" /\ ~Unfinished(t)'
      BY <1>2 DEF Unfinished, NoWork
    <3>5. reserved[r] \in ToolTasks =>
            /\ work'[reserved[r]] = work[reserved[r]] /\ owner'[reserved[r]] = owner[reserved[r]]
            /\ Siblings(reserved[r])' \subseteq Siblings(reserved[r])
      BY <1>2, <3>3, HolderStays
    <3> QED BY <3>1, <3>2, <3>5, RootStays
  <2> QED BY <2>1, <2>2
<1>9. ParentsExist' /\ OwnersExist'
  <2>1. ParentsExist'
    BY <1>1, <1>6, TreeAssumption DEF ReservationInv, ParentsExist
  <2>2. OwnersExist'
    BY <1>2, <1>6, TreeAssumption DEF ReservationInv, OwnersExist, Unfinished, NoWork
  <2> QED BY <2>1, <2>2
<1>10. ASSUME NEW u \in ToolTasks
       PROVE  Creation(u)'
  <2>1. Creation(u)
    BY DEF ReservationInv
  <2>2. CASE Creates(u)'
    <3>1. u # t /\ Creates(u) /\ work'[u] = work[u]
      BY <1>2, <1>3, <2>2
    <3>2. PICK x : /\ x = work[u].on /\ x = work'[u].on
                   /\ x \in TreeWorkers /\ x # w /\ ~Exists(x) /\ (Tree[x] # Main => Exists(Tree[x]))
      BY <1>1, <2>1, <3>1 DEF Creation
    <3>3. ~Exists(x)'
      BY <1>6, <3>2
    <3>4. Tree[x] # Main => Exists(Tree[x])'
      BY <1>6, <3>2, TreeAssumption
    <3>5. \A z \in ToolTasks : Creates(z)' /\ work'[z].on = x => z = u
      BY <1>2, <1>3, <2>1, <3>1, <3>2 DEF Creation
    <3> QED BY <3>2, <3>3, <3>4, <3>5 DEF Creation
  <2> QED BY <2>2 DEF Creation
<1> QED BY <1>4, <1>5, <1>8, <1>9, <1>10 DEF ReservationInv, StartsCounted

\* What a maintained root and the subtree under it are found to be.
LEMMA MaintainKeeps ==
  ASSUME ReservationInv, NEW t \in ToolTasks, Maintain(t)
  PROVE  ReservationInv'
<1>0. ReservationTypeOK /\ work[t].step = "ready" /\ UNCHANGED <<life, starts, owner>>
  BY DEF ReservationInv, Maintain
<1>1. PICK w, root, excused :
        /\ w \in TreeWorkers
        /\ root = IF Tree[w] # Main THEN Tree[w] ELSE w
        /\ excused = IF owner[t] = Tree[w] THEN owner[t] ELSE Nobody
        /\ Exists(w) /\ (owner[t] # Human => Siblings(t) = {}) /\ Available(w)
        /\ \A v \in Below(root) : ~Busy(v, excused)
        /\ reserved' = [reserved EXCEPT ![root] = t]
        /\ work' = [work EXCEPT ![t] = [step |-> "maintaining", on |-> root]]
  BY DEF Maintain, Manages
<1>2. /\ root \in TreeWorkers /\ root \in Above(w) /\ Above(root) \subseteq Above(w) /\ Exists(root)
      /\ Above(root) \subseteq TreeWorkers
  <2>1. CASE Tree[w] # Main
    BY <1>1, <2>1, AboveFacts DEF ReservationInv, ParentsExist
  <2>2. CASE Tree[w] = Main
    BY <1>1, <2>2, AboveFacts
  <2> QED BY <2>1, <2>2
<1>3. \A r \in Above(root) : reserved[r] = Nobody
  BY <1>1, <1>2, TreeAssumption DEF Available
<1>4. /\ work'[t] = [step |-> "maintaining", on |-> root]
      /\ \A u \in ToolTasks : u # t => work'[u] = work[u]
  BY <1>0, <1>1 DEF ReservationTypeOK
<1>5. reserved'[root] = t /\ \A v \in TreeWorkers : v # root => reserved'[v] = reserved[v]
  BY <1>0, <1>1, <1>2 DEF ReservationTypeOK
<1>6. ReservationTypeOK'
  <2>1. [step |-> "maintaining", on |-> root] \in TaskWork
    BY <1>2 DEF TaskWork
  <2>2. work' \in [ToolTasks -> TaskWork]
    BY <1>0, <1>1, <2>1 DEF ReservationTypeOK
  <2>3. reserved' \in [TreeWorkers -> {Nobody} \cup TreeWorkers \cup ToolTasks]
    BY <1>0, <1>1, <1>2 DEF ReservationTypeOK
  <2> QED BY <1>0, <2>2, <2>3 DEF ReservationTypeOK
<1>7. \A u \in ToolTasks : /\ Unfinished(u)' <=> Unfinished(u)
                           /\ Creates(u)' <=> Creates(u)
                           /\ Creates(u) => work'[u] = work[u]
  BY <1>0, <1>4 DEF Unfinished, Creates
<1>8. HeldRight(root)' /\ RootInv(root)'
  <2>1. HeldRight(root)'
    BY <1>0, <1>2, <1>4, <1>5, TreeAssumption DEF HeldRight, Exists
  <2>2. ASSUME NEW v \in Below(root)'
        PROVE  QuietUnder(root, v)'
    <3>1. v \in Below(root) /\ v \in TreeWorkers
      BY <1>0, <2>2 DEF Below, Exists
    <3>2. ~Busy(v, excused)
      BY <1>1, <3>1
    <3>3. starts'[v] = 0 /\ (v # root => reserved'[v] = Nobody)
      BY <1>0, <1>5, <3>1, <3>2 DEF Busy, ReservationTypeOK
    <3>4. ASSUME IsActive(v)'
          PROVE  v = root /\ owner'[t] = root /\ Siblings(t)' = {}
      <4>1. v = excused
        BY <1>0, <3>2, <3>4 DEF Busy, IsActive
      <4>2. owner[t] = Tree[w] /\ v = owner[t] /\ owner[t] # Human /\ Tree[w] # Main
        BY <1>1, <3>1, <4>1, TreeAssumption
      <4>3. v = root /\ owner[t] = root
        BY <1>1, <4>2
      <4>4. Siblings(t)' = Siblings(t)
        BY <1>0, <1>7 DEF Siblings
      <4> QED BY <1>0, <1>1, <4>2, <4>3, <4>4
    <3> QED BY <1>5, <3>3, <3>4 DEF QuietUnder
  <2> QED BY <2>1, <2>2 DEF RootInv
<1>9. ASSUME NEW r \in TreeWorkers, r # root
      PROVE  HeldRight(r)' /\ RootInv(r)'
  <2>1. CASE reserved[r] = Nobody
    BY <1>5, <1>9, <2>1 DEF HeldRight, RootInv
  <2>2. CASE reserved[r] # Nobody
    <3>1. r \notin Above(root)
      BY <1>3, <2>2
    <3>2. Exists(r)'
      BY <1>0, <2>2, HolderFacts DEF Exists
    <3>3. \A v \in TreeWorkers : r \in Above(v) /\ Exists(v)' =>
            /\ Exists(v) /\ reserved'[v] = reserved[v] /\ (IsActive(v)' => IsActive(v))
      BY <1>0, <1>5, <3>1 DEF Exists, IsActive
    <3>4. reserved[r] \in ToolTasks =>
            /\ work'[reserved[r]] = work[reserved[r]] /\ owner'[reserved[r]] = owner[reserved[r]]
            /\ Siblings(reserved[r])' \subseteq Siblings(reserved[r])
      BY <1>0, <1>4, <1>5, <1>7, <1>9, HolderStays
    <3> QED BY <1>0, <1>5, <1>9, <3>2, <3>3, <3>4, RootStays
  <2> QED BY <2>1, <2>2
<1>10. ParentsExist' /\ OwnersExist'
  BY <1>0, <1>7 DEF ReservationInv, ParentsExist, OwnersExist, Exists
<1>11. StartsCounted'
  <2>1. \A v \in TreeWorkers : CreatedUnder(v)' = CreatedUnder(v)
    BY <1>7 DEF CreatedUnder
  <2> QED BY <1>0, <2>1 DEF ReservationInv, StartsCounted
<1>12. ASSUME NEW u \in ToolTasks
       PROVE  Creation(u)'
  <2>1. Creation(u)
    BY DEF ReservationInv
  <2> QED BY <1>0, <1>7, <2>1 DEF Creation, Exists
<1> QED BY <1>6, <1>8, <1>9, <1>10, <1>11, <1>12 DEF ReservationInv

\* A resumed dispatch reserves itself, where its subtree is at rest.
LEMMA ReconcileKeeps ==
  ASSUME ReservationInv, NEW w \in TreeWorkers, life[w] = "resumed", Available(w),
         \A v \in Below(w) : ~Busy(v, w),
         reserved' = [reserved EXCEPT ![w] = w], life' = [life EXCEPT ![w] = "reconciling"],
         UNCHANGED <<starts, owner, work>>
  PROVE  ReservationInv'
<1>0. ReservationTypeOK
  BY DEF ReservationInv
<1>1. w \in Above(w) /\ Above(w) \subseteq TreeWorkers
  BY AboveFacts
<1>2. \A r \in Above(w) : reserved[r] = Nobody
  BY <1>1, TreeAssumption DEF Available
<1>3. reserved'[w] = w /\ \A v \in TreeWorkers : v # w => reserved'[v] = reserved[v]
  BY <1>0 DEF ReservationTypeOK
<1>4. ReservationTypeOK'
  BY <1>0 DEF ReservationTypeOK, Ways
<1>5. \A v \in TreeWorkers : (Exists(v)' <=> Exists(v)) /\ (IsActive(v)' <=> IsActive(v))
  BY <1>0 DEF ReservationTypeOK, Exists, IsActive
<1>6. HeldRight(w)' /\ RootInv(w)'
  <2>1. HeldRight(w)'
    BY <1>3, <1>5 DEF HeldRight, Exists
  <2>2. ASSUME NEW v \in Below(w)'
        PROVE  QuietUnder(w, v)'
    <3>1. v \in Below(w) /\ v \in TreeWorkers
      BY <1>5, <2>2 DEF Below
    <3>2. ~Busy(v, w)
      BY <3>1
    <3>3. starts'[v] = 0 /\ (v # w => reserved'[v] = Nobody)
      BY <1>0, <1>3, <3>1, <3>2 DEF Busy, ReservationTypeOK
    <3>4. IsActive(v)' => v = w
      BY <1>5, <3>1, <3>2 DEF Busy
    <3> QED BY <1>3, <3>3, <3>4 DEF QuietUnder
  <2> QED BY <2>1, <2>2 DEF RootInv
<1>7. ASSUME NEW r \in TreeWorkers, r # w
      PROVE  HeldRight(r)' /\ RootInv(r)'
  <2>1. CASE reserved[r] = Nobody
    BY <1>3, <1>7, <2>1 DEF HeldRight, RootInv
  <2>2. CASE reserved[r] # Nobody
    <3>1. r \notin Above(w)
      BY <1>2, <2>2
    <3>2. Exists(r)'
      BY <1>5, <2>2, HolderFacts
    <3>3. \A v \in TreeWorkers : r \in Above(v) => reserved'[v] = reserved[v]
      BY <1>3, <3>1
    <3>4. Siblings(reserved[r])' \subseteq Siblings(reserved[r])
      BY <1>3, <1>7 DEF Siblings, Unfinished
    <3> QED BY <1>3, <1>5, <1>7, <3>2, <3>3, <3>4, RootStays
  <2> QED BY <2>1, <2>2
<1>8. ParentsExist' /\ OwnersExist'
  <2>1. ParentsExist'
    BY <1>5, TreeAssumption DEF ReservationInv, ParentsExist
  <2> QED BY <1>5, <2>1 DEF ReservationInv, OwnersExist, Unfinished
<1>9. StartsCounted'
  <2>1. \A v \in TreeWorkers : CreatedUnder(v)' = CreatedUnder(v)
    BY DEF CreatedUnder, Creates
  <2> QED BY <2>1 DEF ReservationInv, StartsCounted
<1>10. ASSUME NEW u \in ToolTasks
       PROVE  Creation(u)'
  <2>1. Creation(u)
    BY DEF ReservationInv
  <2> QED BY <1>5, <2>1, TreeAssumption DEF Creation, Creates
<1> QED BY <1>4, <1>6, <1>7, <1>8, <1>9, <1>10 DEF ReservationInv

LEMMA ReservationInvNext ==
  ASSUME ReservationInv, [ReservationNext]_reservationVars
  PROVE  ReservationInv'
<1>0. ReservationTypeOK
  BY DEF ReservationInv
<1>1. ASSUME NEW t \in ToolTasks, OtherTool(t) \/ MaintenanceEnds(t)
      PROVE  ReservationInv'
  <2>1. CASE OtherTool(t)
    BY <2>1, TaskEndsKeeps DEF OtherTool, Creates
  <2>2. CASE MaintenanceEnds(t)
    <3>1. /\ work[t].step = "maintaining" /\ FinishTask(t) /\ UNCHANGED <<life, starts>>
          /\ reserved' = [reserved EXCEPT ![work[t].on] = Nobody] /\ ~Creates(t)
      BY <2>2 DEF MaintenanceEnds, Creates
    <3>2. reserved' # reserved \/ \A r \in TreeWorkers : reserved[r] # t
      <4> SUFFICES ASSUME NEW r \in TreeWorkers, reserved[r] = t
                   PROVE  reserved' # reserved
        OBVIOUS
      <4>1. t # Nobody
        BY TreeAssumption
      <4>2. work[t].on = r
        BY <4>1, HolderFacts
      <4>3. reserved'[r] = Nobody
        BY <1>0, <3>1, <4>2 DEF ReservationTypeOK
      <4> QED BY <4>1, <4>3
    <3> QED BY <3>1, <3>2, TaskEndsKeeps
  <2> QED BY <1>1, <2>1, <2>2
<1>2. ASSUME NEW t \in ToolTasks, WorkerStarts(t) \/ StartFails(t)
      PROVE  ReservationInv'
  <2>1. PICK w : w = work[t].on
    OBVIOUS
  <2>2. /\ work[t].step = "creating" /\ FinishTask(t) /\ reserved' = reserved
        /\ starts' = IF Tree[w] = Main THEN starts ELSE [starts EXCEPT ![Tree[w]] = @ - 1]
        /\ life' = life \/ life' = [life EXCEPT ![w] = IF Available(Tree[w]) THEN "queued" ELSE "stranded"]
    BY <1>2, <2>1 DEF WorkerStarts, StartFails
  <2>3. Available(Tree[w])
    <3>1. w \in TreeWorkers /\ (Tree[w] # Main => Tree[w] \in TreeWorkers /\ Exists(Tree[w]))
          /\ t \in CreatedUnder(Tree[w])
      BY <2>1, <2>2, TreeAssumption DEF ReservationInv, Creation, Creates, CreatedUnder
    <3>2. CASE Tree[w] = Main
      <4>1. ParentsIn({Main}) \subseteq {Main}
        BY DEF ParentsIn
      <4>2. Above(Main) \subseteq {Main}
        BY <4>1, AboveLeast
      <4> QED BY <3>2, <4>2 DEF Available
    <3>3. CASE Tree[w] # Main
      <4>1. starts[Tree[w]] # 0
        <5>1. starts[Tree[w]] = Cardinality(CreatedUnder(Tree[w]))
          BY <3>1, <3>3 DEF ReservationInv, StartsCounted
        <5>2. CreatedUnder(Tree[w]) \subseteq ToolTasks
          BY DEF CreatedUnder
        <5>3. IsFiniteSet(CreatedUnder(Tree[w]))
          BY <5>2, TreeAssumption, FS_Subset
        <5> QED BY <3>1, <5>1, <5>3, FS_EmptySet
      <4>2. ASSUME NEW r \in Above(Tree[w]), reserved[r] # Nobody
            PROVE  FALSE
        <5>1. r \in TreeWorkers
          BY <3>1, <3>3, <4>2, AboveFacts
        <5>2. Tree[w] \in Below(r)
          BY <3>1, <3>3, <4>2 DEF Below
        <5>3. starts[Tree[w]] = 0
          BY <4>2, <5>1, <5>2 DEF ReservationInv, RootInv, QuietUnder
        <5> QED BY <4>1, <5>3
      <4> QED BY <4>2 DEF Available
    <3> QED BY <3>2, <3>3
  <2> QED BY <2>1, <2>2, <2>3, CreationEnds
<1>3. ASSUME NEW w \in TreeWorkers, RunFirst(w) \/ DispatchEnds(w)
      PROVE  ReservationInv'
  <2>1. CASE RunFirst(w)
    BY <2>1, DispatchEases DEF RunFirst, IsActive
  <2>2. CASE DispatchEnds(w)
    BY <2>2, DispatchEases DEF DispatchEnds, IsActive
  <2> QED BY <1>3, <2>1, <2>2
<1>4. ASSUME NEW w \in TreeWorkers, Reconcile(w)
      PROVE  ReservationInv'
  <2>1. CASE Available(w) /\ \A v \in Below(w) : ~Busy(v, w)
    BY <1>4, <2>1, ReconcileKeeps DEF Reconcile
  <2>2. CASE ~(Available(w) /\ \A v \in Below(w) : ~Busy(v, w))
    <3>1. IsActive(w) /\ life' = [life EXCEPT ![w] = "idle"] /\ UNCHANGED <<reserved, starts, owner, work>>
      BY <1>4, <2>2 DEF Reconcile, IsActive
    <3> QED BY <3>1, DispatchEases
  <2> QED BY <2>1, <2>2
<1>5. ASSUME NEW w \in TreeWorkers, Reconciled(w)
      PROVE  ReservationInv'
  <2>1. PICK how \in {"idle", "running"} : life' = [life EXCEPT ![w] = how]
    BY <1>5 DEF Reconciled
  <2>2. IsActive(w) /\ reserved' = [reserved EXCEPT ![w] = Nobody] /\ UNCHANGED <<starts, owner, work>>
    BY <1>5 DEF Reconciled, IsActive
  <2> QED BY <2>1, <2>2, DispatchEases
<1>6. CASE UNCHANGED reservationVars
  <2>1. UNCHANGED <<life, reserved, starts, owner, work>>
    BY <1>6 DEF reservationVars
  <2>2. ReservationTypeOK' /\ OwnersExist'
    BY <1>0, <2>1 DEF ReservationTypeOK, ReservationInv, OwnersExist, Exists, Unfinished
  <2>3. \A r \in TreeWorkers : Siblings(reserved[r])' \subseteq Siblings(reserved[r])
    BY <2>1 DEF Siblings, Unfinished
  <2> QED BY <2>1, <2>2, <2>3, ReservationEases DEF Exists, IsActive, Creates
<1> QED BY <1>1, <1>2, <1>3, <1>4, <1>5, <1>6, CreateTaskKeeps, MaintainKeeps, StartWorkerKeeps, WakeKeeps
        DEF ReservationNext, TaskStep

\* Under a reserved root nobody else runs, is being created or is reserved, and
\* a batch that maintains it has no other call (extras/workers.py
\* maintain_workspace, start, resume and the reconciliation of a dispatch).
THEOREM ReservedStaysQuiet == ReservationSpec => []ReservedIsQuiet
<1>1. ReservationInv => ReservedIsQuiet
  BY DEF ReservationInv, RootInv, QuietUnder, ReservedIsQuiet
<1> QED BY <1>1, ReservationInvInit, ReservationInvNext, PTL DEF ReservationSpec
=============================================================================
