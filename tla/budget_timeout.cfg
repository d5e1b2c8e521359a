SPECIFICATION Spec
CONSTANTS
  Turns = {t1}
  NoTurn = NoTurn
  DrainController = DrainController
  MaxTokens = 1
  Modes = {FALSE}
  Paced = TRUE
INVARIANTS
  OnlyCallerInterrupts
CHECK_DEADLOCK FALSE
