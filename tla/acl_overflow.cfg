SPECIFICATION CacheSpec
CONSTANTS
  Users = {u1}
  Readers = {r1}
  Docs = {d1, d2}
  NoDoc = NoDoc
  MaxRequests = 1
  MaxChanges = 1
  MaxFaults = 0
  ColumnMax = 1
INVARIANTS
  RulesReachIndex
CHECK_DEADLOCK FALSE
