---------------------------------- MODULE Lsp ----------------------------------
(***************************************************************************)
(* Diagnostics for one document (lsp/manager.py) over the language servers *)
(* that are spawned for it (lsp/jsonrpc.py).  A request is one call of     *)
(* diagnostics_for, made after an edit; an action is its code, or that of  *)
(* the reader loop or of shutdown(), between two awaits.  A server process *)
(* reads a FIFO of messages and answers in that order, unless it dies.     *)
(***************************************************************************)
EXTENDS Naturals, Sequences, SequencesExt

CONSTANTS
  Requests,       \* diagnostics_for calls that may be in flight together
  Processes,      \* bound: server processes that are ever spawned
  MaxEdits,       \* bound: edits of the document
  MaxAsks         \* bound: calls of diagnostics_for

NoServer == "none"

VARIABLES
  lpc,            \* where a request is suspended
  using,          \* the server it works with
  wrote,          \* the edit its caller had made when it read the file
  got,            \* the edit its answer is about
  current,        \* LspManager._servers for this document
  spawned,        \* processes started so far
  alive,          \* those that run
  version,        \* _Server.opened: the version sent last to a process
  pipe,           \* the messages it has not read yet
  doc,            \* the version and the edit it has seen last
  edits,          \* the last edit of the document
  asksMade,       \* how many requests were made
  lspClosed       \* the phase of shutdown()

lspVars == <<lpc, using, wrote, got, current, spawned, alive, version, pipe, doc, edits,
             asksMade, lspClosed>>
lasting == <<edits, asksMade, lspClosed>>

LspInit ==
  /\ lpc = [q \in Requests |-> "idle"]
  /\ using = [q \in Requests |-> NoServer]
  /\ wrote = [q \in Requests |-> 0]
  /\ got = [q \in Requests |-> 0]
  /\ current = NoServer /\ spawned = {} /\ alive = {}
  /\ version = [p \in Processes |-> 0]
  /\ pipe = [p \in Processes |-> <<>>]
  /\ doc = [p \in Processes |-> [version |-> 0, edit |-> 0]]
  /\ edits = 1 /\ asksMade = 0 /\ lspClosed = "no"

Step(q, place) == lpc' = [lpc EXCEPT ![q] = place]
Send(p, msg) == pipe' = [pipe EXCEPT ![p] = IF p \in alive THEN Append(@, msg) ELSE @]
TextMessage(n, e) == [kind |-> "text", version |-> n, edit |-> e]
PullMessage(q) == [kind |-> "pull", of |-> q]

\* A write or an edit of the document by a tool.
EditDocument ==
  /\ edits < MaxEdits /\ edits' = edits + 1
  /\ UNCHANGED <<lpc, using, wrote, got, current, spawned, alive, version, pipe, doc,
                 asksMade, lspClosed>>

\* A name for the next process; which one it gets is immaterial.
Unnamed == CHOOSE p \in Processes : p \notin spawned

\* diagnostics_for, up to a live server or the start of a new one.
Ask(q) ==
  /\ lpc[q] = "idle" /\ lspClosed = "no" /\ asksMade < MaxAsks
  /\ asksMade' = asksMade + 1
  /\ IF current \in alive
     THEN Step(q, "sync") /\ using' = [using EXCEPT ![q] = current] /\ UNCHANGED <<spawned, alive>>
     ELSE LET p == Unnamed IN
            /\ Processes # spawned
            /\ spawned' = spawned \cup {p} /\ alive' = alive \cup {p}
            /\ using' = [using EXCEPT ![q] = p]
            /\ Step(q, "initialize")
  /\ got' = [got EXCEPT ![q] = 0]
  /\ UNCHANGED <<wrote, current, version, pipe, doc, edits, lspClosed>>

\* initialize is answered: the server is the one for this document from now on.
Initialized(q) ==
  /\ lpc[q] = "initialize" /\ using[q] \in alive
  /\ current' = using[q]
  /\ Step(q, "sync")
  /\ UNCHANGED <<using, wrote, got, spawned, alive, version, pipe, doc,
                 lasting>>

\* It is not, or the process is dead: kill what was half initialised.
InitializeFails(q) ==
  /\ lpc[q] = "initialize"
  /\ alive' = alive \ {using[q]}
  /\ Step(q, "idle")
  /\ UNCHANGED <<using, wrote, got, current, spawned, version, pipe, doc,
                 lasting>>

\* SECTION_TIMEOUT, shorter than the wait for initialize, or Ctrl-C cancels the
\* request.  A server that is being initialised is then neither kept nor killed,
\* and a text that waits for the write lock is counted but never sent.
Abandoned(q) ==
  /\ lpc[q] \in {"initialize", "sync", "request"}
  /\ version' = IF lpc[q] = "sync" THEN [version EXCEPT ![using[q]] = @ + 1] ELSE version
  /\ Step(q, "idle")
  /\ UNCHANGED <<using, wrote, got, current, spawned, alive, pipe, doc, lasting>>

\* didOpen and no didChange.
SyncOpensOnly(q) ==
  /\ lpc[q] = "sync"
  /\ LET p == using[q] IN
       IF version[p] > 0 THEN UNCHANGED <<version, pipe>>
       ELSE version' = [version EXCEPT ![p] = 1] /\ Send(p, TextMessage(1, edits))
  /\ wrote' = [wrote EXCEPT ![q] = edits]
  /\ Step(q, "request")
  /\ UNCHANGED <<using, got, current, spawned, alive, doc, lasting>>

\* The file is read and didOpen or didChange is written; the lock of the client
\* is fair, so messages arrive in the order in which their writers ran.
Sync(q) ==
  /\ lpc[q] = "sync"
  /\ LET p == using[q] IN
       /\ version' = [version EXCEPT ![p] = @ + 1]
       /\ Send(p, TextMessage(version'[p], edits))
  /\ wrote' = [wrote EXCEPT ![q] = edits]
  /\ Step(q, "request")
  /\ UNCHANGED <<using, got, current, spawned, alive, doc, lasting>>

\* The pull request; on a dead transport it fails at once.
Pull(q) ==
  /\ lpc[q] = "request"
  /\ Send(using[q], PullMessage(q))
  /\ Step(q, IF using[q] \in alive THEN "pull" ELSE "idle")
  /\ UNCHANGED <<using, wrote, got, current, spawned, alive, version, doc,
                 lasting>>

\* The process reads a message: a text, unless the document was never opened (its
\* didOpen was lost), or a request; an answer resolves the future that waits for it.
ServerReads(p) ==
  /\ p \in alive /\ pipe[p] # <<>>
  /\ LET msg == Head(pipe[p]) IN
       IF msg.kind = "text"
       THEN /\ doc' = IF msg.version > 1 /\ doc[p].version = 0 THEN doc
                      ELSE [doc EXCEPT ![p] = [version |-> msg.version, edit |-> msg.edit]]
            /\ UNCHANGED <<lpc, got>>
       ELSE /\ Step(msg.of, "idle")
            /\ got' = IF lpc[msg.of] = "pull" THEN [got EXCEPT ![msg.of] = doc[p].edit] ELSE got
            /\ UNCHANGED doc
  /\ pipe' = [pipe EXCEPT ![p] = Tail(@)]
  /\ UNCHANGED <<using, wrote, current, spawned, alive, version, lasting>>

\* The request times out and falls back on what was published; its id stays
\* pending until the answer comes, which then finds a future that is done.
PullTimesOut(q) ==
  /\ lpc[q] = "pull"
  /\ Step(q, "answered late")
  /\ UNCHANGED <<using, wrote, got, current, spawned, alive, version, pipe, doc,
                 lasting>>

\* What is lost with a process: its reader loop fails every pending request.
Lose(p) ==
  /\ alive' = alive \ {p}
  /\ pipe' = [r \in Processes |-> IF r = p THEN <<>> ELSE pipe[r]]
  /\ lpc' = [q \in Requests |->
               IF lpc[q] \in {"pull", "answered late"} /\ using[q] = p THEN "idle" ELSE lpc[q]]

ServerDies(p) ==
  /\ p \in alive
  /\ Lose(p)
  /\ UNCHANGED <<using, wrote, got, current, spawned, version, doc, lasting>>

\* shutdown(): the server it knows is asked to exit, killed and forgotten.
BeginLspShutdown ==
  /\ lspClosed = "no" /\ lspClosed' = "closing"
  /\ UNCHANGED <<lpc, using, wrote, got, current, spawned, alive, version, pipe, doc,
                 edits, asksMade>>

LspShutdown ==
  /\ lspClosed = "closing" /\ lspClosed' = "down"
  /\ current' = NoServer
  /\ Lose(current)
  /\ UNCHANGED <<using, wrote, got, spawned, version, doc, edits, asksMade>>

LspNext ==
  \/ \E q \in Requests : \/ Ask(q) \/ Initialized(q) \/ InitializeFails(q) \/ Abandoned(q) \/ Sync(q)
                         \/ Pull(q) \/ PullTimesOut(q)
  \/ \E p \in Processes : ServerReads(p) \/ ServerDies(p)
  \/ EditDocument \/ BeginLspShutdown \/ LspShutdown

LspSpec == LspInit /\ [][LspNext]_lspVars
-----------------------------------------------------------------------------
\* The answer to a pull is about a text at least as new as the one the caller
\* read when it asked, also when the answer of another request comes late; a
\* server whose didOpen was lost answers about no text at all.
AnswerCoversEdit ==
  \A q \in Requests : lpc[q] = "idle" /\ got[q] # 0 => got[q] >= wrote[q]
=============================================================================
