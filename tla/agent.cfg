SPECIFICATION AgentSpec
CONSTANTS
  Lines = {l1, l2}
  AskCalls = {a1}
  QueueLimit = 2
  MaxRuns = 2
  MaxRounds = 1
  NoLine = NoLine
  MainSlots = {m1}
  WorkerSlots = {w1}
  Commands = {edit, drop}
  Reads = {}
  Denied = {drop}
  Asked = {edit}
  MaxSends = 2
  MaxDispatches = 2
  MaxCrashes = 1
  MaxBill = 1
  Owners = {o1, o2}
  Logs = {s1, s2}
  Said <- OneEach
  MaxLines = 2
  MaxRevisions = 2
  MaxAsks = 2
  MaxDeaths = 1
INVARIANTS
  PromptOnce
  QueueOrder
  OnlyAllowedRuns
  PromptIsTheWaiters
  DeliveredOnce
  LedgerIsExact
  
PROPERTIES
  NothingForgottenStored
SYMMETRY AgentSymmetry
CHECK_DEADLOCK FALSE
