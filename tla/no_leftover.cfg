SPECIFICATION Spec
CONSTANTS
  Requests = {q1, q2}
  Runs = {r1, r2}
  Docs = {d1, d2}
  Base = Base
  NoDoc = NoDoc
  Batches = 1
  Concurrency = 1
  MaxCrashes = 0
  MaxDeletes = 0
  MaxIgnored = 0
SYMMETRY TaskSymmetry
INVARIANTS
  NoLeftover
CHECK_DEADLOCK FALSE
