SPECIFICATION ChatSpec
CONSTANTS
  Lines = {l1}
  AskCalls = {a1, a2}
  QueueLimit = 1
  MaxRuns = 1
  MaxRounds = 1
  NoLine = NoLine
INVARIANTS
  QuestionsAnswerable
CHECK_DEADLOCK FALSE
