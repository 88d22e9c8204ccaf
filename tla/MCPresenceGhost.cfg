SPECIFICATION PSpec
CONSTANTS
  s1 = s1
  s2 = s2
  g1 = g1
  i1 = i1
  i2 = i2
  Sockets = {s1, s2, g1}
  Guests = {g1}
  Rooms = {A, B}
  Calls = {c1, c2, c3, c4}
  Instances = {i1, i2}
  Home <- TwoInstances
  A = A
  B = B
  Visits <- AllMoveOn
  NoRoom = NoRoom
  Free = Free
SYMMETRY Symmetry
INVARIANT
  GoneMeansAbsent
