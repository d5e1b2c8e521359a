SPECIFICATION Spec
CONSTANTS
  Turns = {t1, t2, t3}
  NoTurn = NoTurn
  DrainController = DrainController
  MaxTokens = 1
  Modes = {TRUE, FALSE}
  Paced = FALSE
SYMMETRY TurnSymmetry
INVARIANTS
  RunOwnsSignal
  FreshController
  OwnWords
PROPERTIES
  AbortedStaysSilent
CHECK_DEADLOCK FALSE
