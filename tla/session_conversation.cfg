CONSTANTS
  None = None
  NoTurn = NoTurn
  Tools = {t1}
  KeepTail = 1
  MaxRecords = 6
  MaxNoisy = 6
  MaxNoise = 2
  MaxGeneration = 1
  Notes = {"background", "worker"}
SPECIFICATION WatchedSpec
INVARIANTS SeqsIncrease AppendReadable
PROPERTIES ImplementsConversation
