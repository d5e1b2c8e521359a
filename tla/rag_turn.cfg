SPECIFICATION Spec
CONSTANTS
  Profiles <- AllProfiles
  Plans <- SomePlans
  Facts <- SomeFacts
  WebKeys = {7}
  MaxWeb = 2
  MaxAttempts = 3
  MaxExpansions = 3
  StepLimit = 25
INVARIANTS
  TypeOK
  AnswerReserved
  HopsDistinct
  NoRecursionError
  AssessedEvidence
PROPERTIES
  LateSearchesNothing
  KeepsPromise
