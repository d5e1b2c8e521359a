SPECIFICATION Spec
CONSTANTS
  Requests = {q1, q2}
  Runs = {r1, r2, r3}
  Docs = {d1, d2}
  Base = Base
  NoDoc = NoDoc
  Batches = 2
  Concurrency = 2
  MaxCrashes = 2
  MaxDeletes = 1
  MaxIgnored = 1
CONSTRAINT Sound
SYMMETRY TaskSymmetry
INVARIANTS
  TypeOK
  CompletedIsWhole
  StepsInOrder
  FailedIsQuiet
  NeverStuck
  VersionSwitched
PROPERTIES
  FinishedWorkKept
  KeepsPromise
CHECK_DEADLOCK FALSE
