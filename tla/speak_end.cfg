SPECIFICATION FairSpec
CONSTANTS
  Turns = {t1}
  NoTurn = NoTurn
  DrainController = DrainController
  MaxTokens = 2
  Modes = {TRUE}
  Paced = TRUE
PROPERTIES
  SessionReleased
CHECK_DEADLOCK FALSE
