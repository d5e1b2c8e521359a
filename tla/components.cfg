SPECIFICATION MCSpec
CONSTANTS
  g1 = g1
  g2 = g2
  v1 = v1
  v2 = v2
  Users = {u1}
  Readers = {r1, r2}
  Docs = {d1}
  NoDoc = NoDoc
  MaxRequests = 2
  MaxChanges = 1
  MaxFaults = 1
  ColumnMax = 9
  Instances = {i1, i2}
  Versions = {n1, n2}
  Chunks = {k1}
  MaxEsFaults = 1
  MaxMoves = 2
  MaxBases = 2
  MaxQueries = 2
  Found = {c1, c2}
  Limits = {1, 2}
  MaxSubQueries = 2
  PerQueryMin = 1
  Versions0 = {v1, v2}
  Pieces = {g1, g2}
  OwnerOf <- Owner
  Writers = {w1, w2}
  MaxGraphFaults = 1
  MaxGraphOps = 2
  Personas = {p1, p2}
  NoPersona = NoPersona
  MaxStarts = 2
  MaxDrops = 1
  MaxRecordings = 2
  MaxEvents = 4
  MaxTurns = 2
  MaxFrames = 2
  MaxClients = 2
  MaxTalks = 2
  WindowLimit = 2
  SummaryLimit = 2
  KeepHead = 1
  KeepTail = 1
  Threshold = 1
  MaxTalkFaults = 1
  MaxRules = 2
  MaxRuleOps = 3
  LinkJobs = {j1, j2}
  Sound0 = 3
  MaxUploads = 3
  RerankLimit = 2
  Positions = {0, 1, 2}
  MaxLines = 4
  Files = {f1, f2}
  Managers = {m1, m2}
  ListLimit = 1
  MaxPieces = 2
  MaxLibraryOps = 2
  MaxLibraryFaults = 1
  Aims = {t1, t2}
  NoAim = NoAim
  MaxAsks = 2
  MaxPending = 2
  MaxWrites = 1
  Conversations = {y1, y2}
  NoConversation = NoConversation
  MaxQuestions = 2
  MaxBusy = 3
  Shelves = {s1, s2}
  NoShelf = NoShelf
  MaxSubmits = 1
  MaxSelected = 3
  Cases = {e1, e2}
  Curators = {a1, a2}
  MaxEdits = 2
  MaxRuns = 1
  SummaryAnswers = 1
  HealthAnswers = 2
  MaxAnswers = 3
  MaxNumber = 2
  MaxTicks = 4
  MaxOutages = 1
  MaxLooks = 1
  Rememberers = {1, 2}
  Makers = {"ann"}
  MaxMemories = 2
  MaxMemoryOps = 3
  MaxMemoryFaults = 1
  FailureLimit = 1
  MemoryLimit = 1
  MaxCases = 2
  BrowserTabs = {z1, z2}
  Visitors = {w1, w2}
  MaxSignIns = 2
  MaxCalls = 2
  Callers = {q1, q2}
  AccountKeys = {k1}
  MaxAccountOps = 4
  MaxMigrations = 3
  Parses = {o1, o2}
  MaxCuts = 2
  MaxMediaFaults = 2
INVARIANTS
  ComponentsTypeOK
  MCFreshResult
  MCAbortIsOwn
  MCStoresFollow
  MCSurvivorsKept
  MCPageShowsItsSession
  MCNothingOrphaned
  MCMediaInStep
  MCLogAndMemoryAgree
  MCAccessAgrees
  MCStepsMatchReference
CHECK_DEADLOCK FALSE
