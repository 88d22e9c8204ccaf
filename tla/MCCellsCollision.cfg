SPECIFICATION MCSpec
CONSTANTS
  p1 = p1
  p2 = p2
  Positions = {p1, p2}
  Requests = {r1, r2}
  Ops <- CollisionOps
  BATCH = 2
  Blank = Blank
  NoRow = NoRow
PROPERTY
  NoLostUpdate
