SPECIFICATION Spec
CONSTANTS
  w1 = w1
  w2 = w2
  Root = Root
  Workers = {w1, w2}
  Parent <- PairTree
  Delegated = {w2}
  Tools = {t1}
  MaxExecuting = 1
  MaxTurns = 2
  MaxDispatches = 1
  EndHook = TRUE
INVARIANTS
  CompletionNoted
