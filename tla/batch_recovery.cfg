SPECIFICATION Spec
CONSTANTS
  p1 = p1
  p2 = p2
  p3 = p3
  r1 = r1
  d1 = d1
  c1 = c1
  c2 = c2
  Paths = {p1, p2, p3}
  Items = {r1}
  Dirs = {d1}
  Root = Root
  Parent <- MCParent
  Contents = {c1, c2}
  Missing = Missing
  Directory = Directory
  Batches <- MCBatches
  Tx = {1, 2}
  MaxEdits = 0
  MaxFaults = 2
  MaxCrashes = 2
CHECK_DEADLOCK FALSE
INVARIANTS
  AllOrNothing
  IndexCoherent
PROPERTIES
  AnswerMatchesVault
  StartupResolvesAll
