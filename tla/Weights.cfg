SPECIFICATION ReadSpec
CONSTANTS
  Models <- MCModels
  MaxStops = 2
INVARIANTS
  WeightsAreTheFiles
  EstimateMatchesLoad
  MappedWhileNeeded
  StoppedLoadLeavesNoTrace
  KernelsAgree
  EveryBitOnce
CHECK_DEADLOCK FALSE
