SPECIFICATION MCSpec
CONSTANTS
  p1 = p1
  p2 = p2
  Positions = {p1}
  WsWrites = {w1, w2}
  Requests = {w1, w2, h1}
  Ops <- HttpOps
  BATCH = 2
  WINDOW = 1
  MaxRestarts = 1
  CATCHUP = 1
  MaxDrops = 1
  Blank = Blank
  NoRow = NoRow
VIEW View
SYMMETRY Symmetry
INVARIANTS
  CTypeOK
  Reconciled
