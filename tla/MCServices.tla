------------------------------ MODULE MCServices -------------------------------
(***************************************************************************)
(* Small instances of eight components that share no state, checked in one   *)
(* run: subject, chosen initially, is the component that moves.            *)
(***************************************************************************)
EXTENDS Background, Provider, Reservation, Lsp, McpClient, Worktree, Attachment,
        CommandLine, TLC

VARIABLE subject

services == <<backgroundVars, providerVars, reservationVars, lspVars, mcpVars,
              worktreeVars, attachVars, commandVars, subject>>

\* w3 works for w2, which works for w1, which works for the main agent.
ThreeDeep == ("w1" :> Main) @@ ("w2" :> "w1") @@ ("w3" :> "w2")

\* The initial choices of a component that does not move are fixed.
AtRest ==
  /\ budgeted \in IF subject = "provider" THEN BOOLEAN ELSE {FALSE}
  /\ <<enabled, oauth>> \in
       IF subject = "mcp" THEN BOOLEAN \X BOOLEAN ELSE {<<FALSE, FALSE>>}
  /\ {w \in TreeWorkers : life[w] # "absent"} \in
       IF subject = "reservation" THEN SUBSET TreeWorkers ELSE {{}}
  /\ subject = "command" \/ options = [asked |-> {}, json |-> FALSE, capped |-> FALSE,
                                       timed |-> FALSE]

ServicesInit ==
  /\ subject \in {"background", "provider", "reservation", "lsp", "mcp", "worktree",
                 "attachment", "command"}
  /\ BackgroundInit /\ ProviderInit /\ ReservationInit /\ LspInit /\ McpInit
  /\ WorktreeInit /\ AttachInit /\ CommandInit
  /\ AtRest

ServicesNext ==
  /\ UNCHANGED subject
  /\ \/ /\ subject = "background" /\ BackgroundNext
        /\ UNCHANGED <<providerVars, reservationVars, lspVars, mcpVars,
                       worktreeVars, attachVars, commandVars>>
     \/ /\ subject = "provider" /\ ProviderNext
        /\ UNCHANGED <<backgroundVars, reservationVars, lspVars, mcpVars,
                       worktreeVars, attachVars, commandVars>>
     \/ /\ subject = "reservation" /\ ReservationNext
        /\ UNCHANGED <<backgroundVars, providerVars, lspVars, mcpVars,
                       worktreeVars, attachVars, commandVars>>
     \/ /\ subject = "lsp" /\ LspNext
        /\ UNCHANGED <<backgroundVars, providerVars, reservationVars, mcpVars,
                       worktreeVars, attachVars, commandVars>>
     \/ /\ subject = "mcp" /\ McpNext
        /\ UNCHANGED <<backgroundVars, providerVars, reservationVars, lspVars,
                       worktreeVars, attachVars, commandVars>>
     \/ /\ subject = "worktree" /\ WorktreeNext
        /\ UNCHANGED <<backgroundVars, providerVars, reservationVars, lspVars,
                       mcpVars, attachVars, commandVars>>
     \/ /\ subject = "attachment" /\ AttachNext
        /\ UNCHANGED <<backgroundVars, providerVars, reservationVars, lspVars,
                       mcpVars, worktreeVars, commandVars>>
     \/ /\ subject = "command" /\ CommandNext
        /\ UNCHANGED <<backgroundVars, providerVars, reservationVars, lspVars,
                       mcpVars, worktreeVars, attachVars>>

ServicesSpec == ServicesInit /\ [][ServicesNext]_services

\* BackgroundFairness, of the steps of that subject.
FairServices ==
  /\ ServicesSpec
  /\ \A t \in BgTasks : WF_backgroundVars(subject = "background" /\ BodyStep(t))
=============================================================================
