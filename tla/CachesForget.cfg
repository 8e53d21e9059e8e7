SPECIFICATION MCSpec
CONSTANTS
  n1 = n1
  n2 = n2
  r1 = r1
  r2 = r2
  r3 = r3
  chat = chat
  None = None
  Node = {n1}
  Cleaner = n1
  Reply = {r1, r2}
  Request <- MCRequest
  Saved <- MCSaved
  Token = {4}
  Kinds = {"plain"}
  MaxSlots = {1}
  Budget = 100
  ForkMin = 1
  TailTokens = 1
  MinRun = 2
  MaxSnapshots = 2
  Chunk = 2
  TailSnapshot = 1
  Block = 2
  MinPersist = 2
  DiskBudget = 2
  MaxNew = 1
  MaxAdmin = 1
  MaxFiles = 3
INVARIANT ForgottenStaysGone
SYMMETRY Symmetry
CHECK_DEADLOCK FALSE
