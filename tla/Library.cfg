SPECIFICATION MCSpec
CONSTANTS
  A = A
  x = x
  p = p
  q = q
  r = r
  n1 = n1
  n2 = n2
  None = None
  Node = {n1, n2}
  Tag = {A}
  Name = {A, x}
  Job = {p, q, r}
  Asked <- MCAsked
  Hashed = {A}
  Blocks = 2
  MaxFaults = 1
INVARIANTS
  OneWriterPerNode
  WholeUnlessTheLeaseMoved
  SuccessMeansInstalled
  AliasesHaveModels
PROPERTIES
  EveryPullEnds
CHECK_DEADLOCK FALSE
