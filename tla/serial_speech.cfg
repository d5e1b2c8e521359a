SPECIFICATION Spec
CONSTANTS
  Turns = {t1, t2}
  NoTurn = NoTurn
  DrainController = DrainController
  MaxTokens = 1
  Modes = {TRUE}
  Paced = TRUE
INVARIANTS
  SerialSpeech
CHECK_DEADLOCK FALSE
