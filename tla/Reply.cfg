SPECIFICATION Spec
CONSTANTS
  r1 = r1
  r2 = r2
  r3 = r3
  Reply = {r1, r2, r3}
  Plans <- MCPlans
  NumCtx = 7
  Kernel = 3
  PlainChunk = 2
  HybridChunk = 3
  TailOffset = 1
  MaxFused = 1
  MaxBatch = 2
  MaxSnapshots = 2
  MaxTag = 2
  Garbage = Garbage
  None = None
INVARIANTS
  SampledFromTheWholeText
  ShownAsPromised
CHECK_DEADLOCK FALSE
