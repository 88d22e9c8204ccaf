SPECIFICATION MCSpec
CONSTANTS
  p1 = p1
  p2 = p2
  Positions = {p1, p2}
  Requests = {r1, r2, r3}
  Ops <- MCOps
  BATCH = 2
  Blank = Blank
  NoRow = NoRow
SYMMETRY Symmetry
INVARIANTS
  TypeOK
  OccExact
  ConflictIsGenuine
  VersionWithinWrites
  AnswersAreHonest
  HistoryChains
  HistoryHasNoClear
