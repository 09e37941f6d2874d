SPECIFICATION FairServices
CONSTANTS
  Shells = {"shell"}
  Agents = {"agent"}
  MaxLive = 1
  MaxForgets = 1
  ModelCalls = {c1, c2}
  MaxCost = 2
  MaxCallCost = 2
  MaxAttempts = 2
  MaxSent = 4
  Tree <- ThreeDeep
  ToolTasks = {t1, t2, t3}
  Requests = {q1, q2}
  Processes = {p1, p2}
  MaxEdits = 2
  MaxAsks = 3
  McpOps = {o1, o2}
  Sessions = {s1, s2}
  Checkouts = {"a"}
  MaxCommits = 2
  MaxReviews = 2
  Lecodes = {lc1, lc2}
  RootFiles = {f1, f2}
  CrewFiles = {f3}
  MaxRounds = 2
INVARIANTS
  
  ConnectedMeansOpen
  RegistryFollowsSession
  
  OvershootIsBounded
  ReservedIsQuiet
  IntegratedMeansMerged
  NoCommitLost
  AttachedIsHeld
  PromptEndIsRecorded
PROPERTIES
  
  OnlyReviewedArrives
CHECK_DEADLOCK FALSE
