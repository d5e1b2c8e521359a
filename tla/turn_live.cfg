SPECIFICATION FairSpec
CONSTANTS
  Turns = {t1, t2}
  NoTurn = NoTurn
  DrainController = DrainController
  MaxTokens = 1
  Modes = {FALSE}
  Paced = TRUE
PROPERTIES
  TurnsFinish
  SessionReleased
CHECK_DEADLOCK FALSE
