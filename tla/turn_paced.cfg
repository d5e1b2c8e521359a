SPECIFICATION Spec
CONSTANTS
  Turns = {t1, t2}
  NoTurn = NoTurn
  DrainController = DrainController
  MaxTokens = 3
  Modes = {TRUE, FALSE}
  Paced = TRUE
SYMMETRY TurnSymmetry
INVARIANTS
  TypeOK
  SerialSynthesis
  EndedIsSilent
  EndedIsComplete
  OneAgent
  InterruptReachesAgent
  QueueHasDrain
  NeverSpins
CHECK_DEADLOCK FALSE
