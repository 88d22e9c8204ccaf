SPECIFICATION MCSpec
CONSTANTS
  o = o
  u = u
  s1 = s1
  s2 = s2
  n1 = n1
  OldNote = n1
  r1 = r1
  r2 = r2
  r3 = r3
  Users = {o, u}
  Owner = o
  Requests = {r1, r2, r3}
  Asks <- MCAsks
  OldTabs <- TwoTabs
  NoToken = NoToken
VIEW View
SYMMETRY Symmetry
INVARIANTS
  WTypeOK
  RightsRespected
  TabsNumbered
  CollisionExplained
  LinkLives
  TabsAnnounced
