SPECIFICATION MCSpec
CONSTANTS
  p1 = p1
  p2 = p2
  Positions = {p1, p2}
  WsWrites = {w1, w2, w3}
  Requests = {w1, w2, w3}
  Ops <- MCOps
  BATCH = 2
  WINDOW = 1
  MaxRestarts = 1
  Blank = Blank
  NoRow = NoRow
VIEW View
SYMMETRY Symmetry
INVARIANTS
  GTypeOK
  Accounted
  DebounceBound
  LastWriteWins
  RoomCaughtUp
  NoWriteStuck
PROPERTY
  TicketsKept
  OnlyOnward
