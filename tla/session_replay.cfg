CONSTANTS
  None = None
  NoTurn = NoTurn
  Tools = {t1}
  KeepTail = 1
  MaxRecords = 7
  MaxNoisy = 6
  MaxNoise = 1
  MaxGeneration = 1
  Notes = {"background"}
SPECIFICATION Spec
INVARIANTS SummaryPartition ExchangesWhole NoForgottenContent
PROPERTIES AnswersWhatIsShown
