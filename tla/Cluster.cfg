SPECIFICATION Spec
CONSTANTS
  n1 = n1
  n2 = n2
  n3 = n3
  c1 = c1
  c2 = c2
  None = None
  Node = {n1, n2, n3}
  Call = {c1, c2}
  Plans <- MCPlans
  TTL = 2
  Margin = 1
  Target = 3
  Remembered = 8
  MaxTries = 2
INVARIANTS
  ToldIsTrue
  OneLeaseHolder
  LeaverStaysOut
PROPERTIES
  OneHistorySpec
CHECK_DEADLOCK FALSE
