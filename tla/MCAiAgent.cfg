SPECIFICATION ASpec
CONSTANTS
  t1 = t1
  t2 = t2
  t3 = t3
  Turns = {t1, t2, t3}
  Positions <- MCPositions
  Menu <- MCMenu
  MAX_HISTORY_PAIRS = 2
  RECURSION_LIMIT = 5
  Empty = Empty
INVARIANTS
  ATypeOK
  ConversationHappened
  SequentialMemory
  RoundsBounded
  ReportIsTrue
