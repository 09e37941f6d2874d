----------------------------- MODULE Conversation -----------------------------
(***************************************************************************)
(* What the session file promises its user (session/storage.py, module     *)
(* docstring): a conversation is a set of messages that the model is shown.*)
(* Messages are said once; they may be cut back, and the next redo restores*)
(* just what was cut; they may be dropped for good.  Nothing else ever     *)
(* brings a hidden message back.                                           *)
(***************************************************************************)
VARIABLES
  said,     \* every message ever recorded
  shown,    \* those the model is shown, itself or through a summary
  undone    \* those a redo would show again

Init == said = {} /\ shown = {} /\ undone = {}

Say ==
  /\ said \subseteq said'
  /\ shown \subseteq shown' /\ shown' \ shown \subseteq said' \ said
  /\ undone' = {}

CutBack ==
  /\ said' = said
  /\ shown' \subseteq shown
  /\ undone' = shown \ shown'

Restore ==
  /\ said' = said
  /\ shown' = shown \cup undone
  /\ undone' = {}

\* A clear, a forget, or a record that ends the chance of a redo.
Drop ==
  /\ said' = said
  /\ shown' \subseteq shown
  /\ undone' \subseteq undone

Next == Say \/ CutBack \/ Restore \/ Drop

Spec == Init /\ [][Next]_<<said, shown, undone>>
=============================================================================
