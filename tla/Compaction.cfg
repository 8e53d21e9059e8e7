SPECIFICATION SceneSpec
CONSTANTS
  Node = {1, 2, 3}
  c1 = c1
  c2 = c2
  Command = {c1, c2}
  NOOP = NOOP
  None = None
  LastSlot = 1
  MaxRound = 1
  MaxCrashes = 1
  SnapshotEvery = 1
  Events <- LaggardCatchesUp
INVARIANTS
  IInv
  NeverSafetyViolation
  SameSlotSameState
  BaseAndLogRebuild
PROPERTY ImplementsLog
