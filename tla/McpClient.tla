------------------------------- MODULE McpClient -------------------------------
(***************************************************************************)
(* One MCP server of McpManager (extras/mcp_client.py) and the credentials *)
(* it keeps (extras/mcp_auth.py).  An operation is a tool call of the      *)
(* model or of a worker, or a /mcp command; several may be in flight, and  *)
(* nothing in the manager keeps them apart.  An action is the code of an   *)
(* operation between two awaits.  A session is identified by the exit      *)
(* stack that closes it; transports, timeouts and OAuth exchanges are      *)
(* awaits that succeed or fail.                                            *)
(***************************************************************************)
EXTENDS FiniteSets

CONSTANTS
  McpOps,         \* operations that may be in flight together
  Sessions        \* bound: sessions open at the same time

VARIABLES
  mpc,            \* where an operation is suspended
  mkind,          \* what it is
  target,         \* the exit stack it is closing
  session,        \* server.session
  stack,          \* server.stack
  open,           \* sessions that were opened and not closed
  broken,         \* those of them whose peer is gone
  registered,     \* the tools of the server are in the registry
  enabled,        \* server.config.enabled
  authRequired,   \* server.auth_required
  interactive,    \* server.interactive
  token,          \* credentials are stored
  oauth,          \* fixed: config.auth = "oauth"
  mcpClosed,      \* shutdown() has begun
  owed            \* what an interrupted call has left undone: "close", "sync"

mcpVars == <<mpc, mkind, target, session, stack, open, broken, registered, enabled,
             authRequired, interactive, token, oauth, mcpClosed, owed>>
link == <<session, stack, open, broken>>
account == <<authRequired, interactive>>

NoSession == "none"

McpInit ==
  /\ mpc = [o \in McpOps |-> "idle"]
  /\ mkind = [o \in McpOps |-> "none"]
  /\ target = [o \in McpOps |-> NoSession]
  /\ session = NoSession /\ stack = NoSession /\ open = {} /\ broken = {}
  /\ registered = FALSE /\ enabled \in BOOLEAN
  /\ oauth \in BOOLEAN /\ token \in {FALSE, oauth}
  /\ authRequired = FALSE /\ interactive = FALSE
  /\ mcpClosed = FALSE /\ owed = {}

Goto(o, place, kind) ==
  /\ mpc' = [mpc EXCEPT ![o] = place]
  /\ mkind' = [mkind EXCEPT ![o] = kind]

\* _sync_tools: the registry holds the tools of a server that has a session.
SyncTools == registered' = (session' # NoSession)

\* A later operation that closes, or that syncs, makes up for an interrupted one.
Repaired ==
  owed' = {d \in owed : IF d = "close" THEN session' = session
                        ELSE registered' # (session' # NoSession)}

\* The end of an operation, in the step of its last change.
Finished(o) == Goto(o, "idle", "none")

\* A session that breaks: the peer died, or revoked the grant.
Break(s) ==
  /\ s \in open \ broken
  /\ broken' = broken \cup {s}
  /\ UNCHANGED <<mpc, mkind, target, session, stack, open, registered, enabled, account,
                 token, oauth, mcpClosed>>

\* What follows the close of a session: a login, a connect, or the end.
AfterClose(o, kind) ==
  CASE kind \in {"call", "reconnect"} ->
         IF enabled THEN Goto(o, "opening", kind) /\ UNCHANGED <<registered, account>>
         ELSE Finished(o) /\ SyncTools /\ UNCHANGED account
    [] kind = "disable" ->
         Finished(o) /\ authRequired' = FALSE /\ SyncTools /\ UNCHANGED interactive
    [] kind \in {"auth", "login"} ->
         /\ Goto(o, "opening", kind)
         /\ authRequired' = FALSE /\ interactive' = TRUE /\ UNCHANGED registered
    [] kind = "logout" -> Goto(o, "clearing", kind) /\ UNCHANGED <<registered, account>>
    [] kind = "shutdown" -> Finished(o) /\ UNCHANGED <<registered, account>>

Disconnect == session' = NoSession /\ stack' = NoSession

\* The start of _close_server: the stack is closed by an await, or there is none.
StartClose(o, kind) ==
  /\ target' = [target EXCEPT ![o] = stack]
  /\ UNCHANGED <<open, broken>>
  /\ \/ /\ stack = NoSession
        /\ Disconnect /\ AfterClose(o, kind)
     \/ /\ stack # NoSession
        /\ Goto(o, "closing", kind)
        /\ UNCHANGED <<session, stack, registered, account>>

KeepSession == session' = session /\ stack' = stack

\* A close that forgets to clear the fields of the server.
CloseDoneKeepsFields(o) ==
  /\ mpc[o] = "closing"
  /\ open' = open \ {target[o]} /\ broken' = broken \ {target[o]}
  /\ KeepSession
  /\ target' = [target EXCEPT ![o] = NoSession]
  /\ AfterClose(o, mkind[o])
  /\ UNCHANGED <<enabled, token, oauth, mcpClosed>>

\* The stack is closed; the fields are cleared whatever they hold by now.
CloseDone(o) ==
  /\ mpc[o] = "closing"
  /\ open' = open \ {target[o]} /\ broken' = broken \ {target[o]}
  /\ Disconnect
  /\ target' = [target EXCEPT ![o] = NoSession]
  /\ AfterClose(o, mkind[o])
  /\ UNCHANGED <<enabled, token, oauth, mcpClosed>>

\* call: on the session if there is one, else through a connect.
StartCall(o) ==
  /\ mpc[o] = "idle" /\ enabled
  /\ \/ /\ session # NoSession
        /\ Goto(o, "calling", "call")
        /\ target' = [target EXCEPT ![o] = session]
        /\ UNCHANGED <<link, registered, account>>
     \/ session = NoSession /\ StartClose(o, "call")
  /\ UNCHANGED <<enabled, token, oauth, mcpClosed>>

\* _call_once: a result, or a failure that drops a rejected grant and reconnects.
CallOnce(o) ==
  /\ mpc[o] = "calling"
  /\ \/ /\ target[o] \in open \ broken
        /\ Finished(o)
        /\ target' = [target EXCEPT ![o] = NoSession]
        /\ UNCHANGED <<link, registered, account>>
     \/ /\ oauth
        /\ Goto(o, "dropping", "call")
        /\ target' = [target EXCEPT ![o] = NoSession]
        /\ UNCHANGED <<link, registered, account>>
     \/ StartClose(o, "call")
  /\ UNCHANGED <<enabled, token, oauth, mcpClosed>>

StoreGrant == token' = oauth
DropGrant == token' = FALSE

DropCredentials(o) ==
  /\ mpc[o] = "dropping"
  /\ DropGrant
  /\ StartClose(o, "call")
  /\ UNCHANGED <<enabled, oauth, mcpClosed>>

\* Only an interactive login has a loopback callback, and so a browser; the flag
\* is the server's, so a connect that overlaps the login has them too.
Interactive == oauth /\ interactive

\* Without a grant of its own a connect has to make do with the stored one.
MayAuthorize(o) == oauth => token \/ mpc[o] = "granted"

\* The listener is bound, the link shown, the browser opened: the user is asked.
AskUser(o) ==
  /\ mpc[o] = "opening" /\ Interactive
  /\ Goto(o, "authorizing", mkind[o])
  /\ UNCHANGED <<target, link, registered, enabled, account, token, oauth, mcpClosed>>

\* The redirect arrives with a code, which is exchanged for a grant; a refusal,
\* a redirect without a code and a wait that runs out make the open fail.
Redirected(o) ==
  /\ mpc[o] = "authorizing"
  /\ StoreGrant
  /\ Goto(o, "granted", mkind[o])
  /\ UNCHANGED <<target, link, registered, enabled, account, oauth, mcpClosed>>

Login(o) == mkind[o] \in {"auth", "login"}

\* A name for the next session; which one it gets is immaterial.
Unused == CHOOSE s \in Sessions : s \notin open \cup {stack}

\* _open: a new session, under a stored grant or the one of this login.
OpenSession(o) ==
  /\ mpc[o] \in {"opening", "granted"} /\ MayAuthorize(o)
  /\ LET s == Unused IN
       /\ Sessions \ (open \cup {stack}) # {}
       /\ session' = s /\ stack' = s
       /\ open' = open \cup {s}
  /\ authRequired' = (Login(o) /\ authRequired)
  /\ interactive' = (~Login(o) /\ interactive)
  /\ SyncTools
  /\ IF mkind[o] = "call" THEN Goto(o, "retrying", "call") ELSE Finished(o)
  /\ UNCHANGED <<target, broken, enabled, token, oauth, mcpClosed>>

OpenFails(o) ==
  /\ mpc[o] \in {"opening", "authorizing", "granted"}
  /\ session' = NoSession
  /\ authRequired' \in {FALSE, oauth}
  /\ interactive' = (~Login(o) /\ interactive)
  /\ SyncTools
  /\ Finished(o)
  /\ UNCHANGED <<target, stack, open, broken, enabled, token, oauth, mcpClosed>>

\* The second attempt: its result or its error is the result of the call.
RetryCall(o) ==
  /\ mpc[o] = "retrying"
  /\ Finished(o)
  /\ UNCHANGED <<target, link, registered, enabled, account, token, oauth, mcpClosed>>

\* A /mcp command, up to its first await.
Command(o) ==
  /\ mpc[o] = "idle" /\ ~mcpClosed
  /\ \/ /\ \E k \in {"reconnect", "auth", "logout"} :
             (k # "reconnect" => oauth) /\ StartClose(o, k)
        /\ UNCHANGED enabled
     \/ enabled /\ enabled' = FALSE /\ StartClose(o, "disable")
     \/ /\ \/ ~enabled /\ enabled' = TRUE /\ Goto(o, "opening", "enable")
           \/ oauth /\ UNCHANGED enabled /\ Goto(o, "clearing", "login")
        /\ UNCHANGED <<target, link, registered, account>>
  /\ UNCHANGED <<token, oauth, mcpClosed>>

\* FileTokenStorage.clear, for logout and at the start of login.
LogoutUnsynced(o) ==
  /\ mpc[o] = "clearing"
  /\ DropGrant
  /\ \/ /\ mkind[o] = "logout"
        /\ authRequired' = TRUE /\ Finished(o)
        /\ UNCHANGED <<target, link, registered, interactive>>
     \/ mkind[o] = "login" /\ StartClose(o, "login")
  /\ UNCHANGED <<enabled, oauth, mcpClosed>>

ClearCredentials(o) ==
  /\ mpc[o] = "clearing"
  /\ DropGrant
  /\ \/ /\ mkind[o] = "logout"
        /\ UNCHANGED <<target, link, interactive>>
        /\ authRequired' = TRUE /\ Finished(o) /\ SyncTools
     \/ mkind[o] = "login" /\ StartClose(o, "login")
  /\ UNCHANGED <<enabled, oauth, mcpClosed>>

McpShutdown(o) ==
  /\ mpc[o] = "idle" /\ ~mcpClosed
  /\ mcpClosed' = TRUE
  /\ StartClose(o, "shutdown")
  /\ UNCHANGED <<enabled, token, oauth>>

\* Ctrl-C takes a call with its turn, at whatever await it is: the stack is
\* closed all the same, the fields and the registry are left as they are.
Interrupt(o) ==
  /\ mkind[o] = "call"
  /\ open' = open \ (IF mpc[o] = "closing" THEN {target[o]} ELSE {})
  /\ broken' = broken \cap open'
  /\ token' \in IF mpc[o] = "dropping" THEN {token, FALSE} ELSE {token}
  /\ target' = [target EXCEPT ![o] = NoSession]
  /\ Finished(o)
  /\ owed' = owed \cup (IF session \in open \ open' THEN {"close"} ELSE {})
                  \cup (IF registered # (session # NoSession) THEN {"sync"} ELSE {})
  /\ UNCHANGED <<session, stack, registered, enabled, authRequired, interactive, oauth,
                 mcpClosed>>

McpNext ==
  \/ /\ \E o \in McpOps :
          \/ StartCall(o) \/ CallOnce(o) \/ DropCredentials(o)
          \/ CloseDone(o) \/ AskUser(o) \/ Redirected(o) \/ OpenSession(o)
          \/ OpenFails(o) \/ RetryCall(o) \/ Command(o) \/ ClearCredentials(o)
          \/ McpShutdown(o)
     /\ Repaired
  \/ \E o \in McpOps : Interrupt(o)
  \/ \E s \in Sessions : Break(s) /\ UNCHANGED owed

McpSpec == McpInit /\ [][McpNext]_mcpVars
-----------------------------------------------------------------------------
\* A server that is reported connected holds a session nobody has closed, also
\* when a second operation closed, reopened or failed to reopen it meanwhile; only
\* Ctrl-C during a close leaves a closed one, until the next operation drops it.
ConnectedMeansOpen ==
  session # NoSession =>
    /\ stack = session
    /\ session \in open \/ "close" \in owed

\* Once no operation is in flight the registry offers the tools of the server
\* exactly when it is connected: a call, a reconnect, a login or a logout never
\* leaves tools that cannot run, nor hides tools that can.  A call that Ctrl-C
\* took while it reconnected may, until the next operation.
RegistryFollowsSession ==
  (\A o \in McpOps : mpc[o] = "idle") /\ ~mcpClosed /\ "sync" \notin owed
    => registered = (session # NoSession)
=============================================================================
