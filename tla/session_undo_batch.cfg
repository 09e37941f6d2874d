CONSTANTS
  None = None
  NoTurn = NoTurn
  Tools = {t1}
  KeepTail = 1
  MaxRecords = 6
  MaxNoisy = 6
  MaxNoise = 1
  MaxGeneration = 1
  Notes = {}
SPECIFICATION Spec
INVARIANTS ResultsUndoneWithCalls
