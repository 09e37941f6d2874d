SPECIFICATION Spec
CONSTANTS
  w1 = w1
  w2 = w2
  Root = Root
  Workers = {w1, w2}
  Parent <- PairTree
  Delegated = {w2}
  Tools = {t1, t2}
  MaxExecuting = 1
  MaxTurns = 3
  MaxDispatches = 1
  EndHook = FALSE
INVARIANTS
  TypeOK
  SlotConservation
  LeaseIsExecuting
  ToolsRunUnderLease
  CompletionNoted
  DownIsQuiet
  NoIdleSlot
SYMMETRY ToolSymmetry
