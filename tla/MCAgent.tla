-------------------------------- MODULE MCAgent --------------------------------
(***************************************************************************)
(* Small instances of four components that share no state, checked in one  *)
(* run: subject, chosen initially, is the component that moves.            *)
(***************************************************************************)
EXTENDS ChatApp, Permissions, WorkerDelivery, MemoryFacts, TLC

VARIABLE subject

agentVars == <<chatVars, gateVars, deliveryVars, memoryVars, subject>>

\* One message in each session.
OneEach == {[log |-> l, n |-> 1] : l \in Logs}

\* The initial choices of a component that does not move are fixed.
AtRest ==
  /\ permissionMode \in IF subject = "permissions" THEN Modes ELSE {"yolo"}
  /\ <<setting.copied, setting.readonly, setting.overlay>> \in
       IF subject = "permissions" THEN WorkerPolicies ELSE {<<"yolo", FALSE, {}>>}
  /\ setting.approver \in
       IF subject = "permissions" THEN {"user", "auto", "nobody"} ELSE {"user"}

AgentInit ==
  /\ subject \in {"chat", "permissions", "delivery", "memory"}
  /\ ChatInit /\ PermissionsInit /\ DeliveryInit /\ MemoryInit
  /\ AtRest

AgentNext ==
  /\ UNCHANGED subject
  /\ \/ /\ subject = "chat" /\ ChatNext
        /\ UNCHANGED <<gateVars, deliveryVars, memoryVars>>
     \/ /\ subject = "permissions" /\ PermissionsNext
        /\ UNCHANGED <<chatVars, deliveryVars, memoryVars>>
     \/ /\ subject = "delivery" /\ DeliveryNext
        /\ UNCHANGED <<chatVars, gateVars, memoryVars>>
     \/ /\ subject = "memory" /\ MemoryNext
        /\ UNCHANGED <<chatVars, gateVars, deliveryVars>>

AgentSpec == AgentInit /\ [][AgentNext]_agentVars

\* No two processes or sessions of a project differ, and no two lines of the chat.
AgentSymmetry == Permutations(Owners) \cup Permutations(Logs) \cup Permutations(Lines)
=============================================================================
