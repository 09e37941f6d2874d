-------------------------- MODULE SessionConversation --------------------------
(***************************************************************************)
(* The session file as an implementation of Conversation.  What replay     *)
(* makes of the file is kept in three history variables, which no action   *)
(* of SessionTurns reads.                                                  *)
(***************************************************************************)
EXTENDS SessionTurns

VARIABLES said, shown, undone

watched == <<log, next, mem, turn, compacting, said, shown, undone>>

Shown(l, m) == SeqsOf(VisibleMessages(l, m))

ShownAfterRedo(l, m) ==
  UNION {Shown(Append(l, RedoOf(NextSeq(l), t.seq)), m) : t \in Redoable(l)}

Watch ==
  /\ said' = SeqsOf(Messages(log'))
  /\ shown' = Shown(log', mem')
  /\ undone' = ShownAfterRedo(log', mem') \ shown'

WatchedSpec ==
  /\ Init /\ said = {} /\ shown = {} /\ undone = {}
  /\ [][Next /\ Watch]_watched

TheConversation == INSTANCE Conversation WITH said <- said, shown <- shown, undone <- undone

\* What was undone comes back by a redo that follows at once, and only then;
\* what was cleared or forgotten never does; a message that is shown stays so
\* until a command hides it (undo, redo, rewind_to, clear, compact).
ImplementsConversation == TheConversation!Spec
=============================================================================
