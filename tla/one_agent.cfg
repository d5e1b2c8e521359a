SPECIFICATION Spec
CONSTANTS
  Turns = {t1, t2}
  NoTurn = NoTurn
  DrainController = DrainController
  MaxTokens = 1
  Modes = {FALSE}
  Paced = FALSE
INVARIANTS
  OneAgent
CHECK_DEADLOCK FALSE
