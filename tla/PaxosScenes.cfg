SPECIFICATION SceneSpec
CONSTANTS
  Node = {1, 2, 3}
  c1 = c1
  c2 = c2
  Command = {c1, c2}
  NOOP = NOOP
  None = None
  LastSlot = 0
  MaxRound = 1
  MaxCrashes = 1
  Events <- Scenes
INVARIANTS
  Agreement
  OneProposalPerBallot
  LaterBallotsKeepChosen
  LearnedIsChosen
PROPERTIES
  PromisesBind
  OutrankedGivesUp
