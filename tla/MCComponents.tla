--------------------------- MODULE MCComponents ----------------------------
(***************************************************************************)
(* The components that are checked on small instances of their own, in one *)
(* run: a behaviour is one of one component, the variables of the others   *)
(* stay empty.  They share no state, and their own modules state their     *)
(* properties.                                                             *)
(***************************************************************************)
EXTENDS TLC, RetrievalCache, EsIndex, HybridRetrieval, GraphStore,
        ChatSession, MicController, TtsPlayback, ConversationMemory,
        AccessRules, SpeechProviders, RetrievalOps, DocumentLibrary,
        ConsolePages, ChatPage, UploadDrawer, EvalRuns, DashboardOps, SignIn,
        Accounts, Migrations, MediaParse, HealthProbe, MemoryRecords

CONSTANTS g1, g2, v1, v2
VARIABLE component  \* the one this behaviour is of

\* A chunk of the graph belongs to a version.
Owner == g1 :> v1 @@ g2 :> v2

\* What the variables of the components that do not take part are.
Off == {}
CacheOff ==
  /\ epoch = Off /\ revision = Off /\ cache = Off /\ docs = Off
  /\ config = Off /\ dbEpoch = Off /\ clock = Off /\ queued = Off
  /\ changes = Off /\ unrefreshed = Off /\ hidden = Off /\ lost = Off
  /\ backward = Off /\ crossed = Off /\ search = Off /\ reader = Off
  /\ writer = Off /\ refresh = Off /\ faults = Off /\ requests = Off
EsOff ==
  /\ indexes = Off /\ readAlias = Off /\ writeAlias = Off /\ indexed = Off
  /\ instance = Off /\ built = Off /\ esFaults = Off /\ moves = Off
  /\ mixed = Off
SearchOff ==
  /\ ask = Off /\ todo = Off /\ found = Off /\ lostBases = Off
  /\ report = Off /\ answer = Off /\ found0 = Off /\ worked = Off
  /\ crowded = Off
GraphOff ==
  /\ rows = Off /\ graph = Off /\ graphWriter = Off /\ graphLeft = Off
  /\ torn = Off
ChatOff ==
  /\ page = Off /\ start = Off /\ session = Off /\ index = Off /\ wire = Off
  /\ down = Off /\ latest = Off /\ trouble = Off /\ astray = Off
MicOff ==
  /\ ui = Off /\ mic = Off /\ sent = Off /\ slipped = Off /\ again = Off
  /\ events = Off
MediaOff ==
  /\ wireOut = Off /\ decoding = Off /\ player = Off /\ played = Off
  /\ avatar = Off /\ missed = Off
TalkOff ==
  /\ talk = Off /\ log = Off /\ memory = Off /\ longTerm = Off
  /\ talkFaults = Off /\ raced = Off
AccessOff ==
  /\ doc = Off /\ meta = Off /\ links = Off /\ job = Off /\ stale = Off
  /\ asked = Off
SpeechOff ==
  /\ synth = Off /\ heard = Off /\ clone = Off /\ slip = Off
OpsOff ==
  /\ call = Off
LibraryOff ==
  /\ files = Off /\ inEs = Off /\ manager = Off /\ libraryLeft = Off
  /\ strays = Off /\ published = Off
ConsoleOff ==
  /\ screen = Off /\ view = Off /\ shown = Off /\ turn = Off /\ pending = Off
  /\ written = Off /\ told = Off /\ stray = Off
ChatPageOff ==
  /\ stores = Off /\ list = Off /\ sdk = Off /\ asking = Off /\ ending = Off
  /\ spoken = Off /\ said = Off /\ opens = Off /\ newest = Off
  /\ redone = Off /\ unlike = Off
UploadOff ==
  /\ drawer = Off /\ loops = Off /\ lines = Off /\ landed = Off
  /\ turned = Off
EvalOff ==
  /\ evalRows = Off /\ inHand = Off /\ wanted = Off /\ behind = Off
  /\ overrun = Off /\ edits = Off /\ runs = Off
FigureOff ==
  /\ figure = Off
SignOff ==
  /\ tabs = Off /\ storage = Off /\ issued = Off /\ expired = Off
  /\ calls = Off /\ foreign = Off /\ late = Off
AccountOff ==
  /\ users = Off /\ keys = Off /\ roles = Off /\ request = Off
  /\ agreed = Off /\ putBack = Off /\ granted = Off /\ odd = Off
  /\ taken = Off /\ accountOps = Off
MigrationOff ==
  /\ schema = Off /\ migration = Off /\ completed = Off /\ refusedAt = Off
  /\ hollow = Off
MediaParseOff ==
  /\ parse = Off /\ bucket = Off /\ objects = Off /\ mediaFaults = Off
  /\ faultsLeft = Off
HealthOff ==
  /\ up = Off /\ configured = Off /\ worker = Off /\ beat = Off /\ now = Off
  /\ check = Off /\ healthTab = Off /\ outages = Off /\ looks = Off
  /\ seenDown = Off /\ signs = Off /\ atRead = Off
RecordOff ==
  /\ provider = Off /\ records = Off /\ section = Off /\ breaker = Off
  /\ memoryCall = Off /\ listing = Off /\ erased = Off /\ stored = Off
  /\ askedAway = Off /\ memoryOps = Off /\ memoryFaults = Off

Components == {"cache", "indexes", "search", "graph", "session",
  "microphone", "playback", "memory", "access", "speech", "steps", "library",
  "console", "messages", "uploads", "evaluation", "figures", "signin",
  "accounts", "migrations", "media", "health", "records"}
MCInit ==
  /\ component \in Components
  /\ IF component = "cache" THEN CacheInit ELSE CacheOff
  /\ IF component = "indexes" THEN EsInit ELSE EsOff
  /\ IF component = "search" THEN SearchInit ELSE SearchOff
  /\ IF component = "graph" THEN GraphInit ELSE GraphOff
  /\ IF component = "session" THEN ChatInit ELSE ChatOff
  /\ IF component = "microphone" THEN MicInit ELSE MicOff
  /\ IF component = "playback" THEN MediaInit ELSE MediaOff
  /\ IF component = "memory" THEN TalkInit ELSE TalkOff
  /\ IF component = "access" THEN AccessInit ELSE AccessOff
  /\ IF component = "speech" THEN SpeechInit ELSE SpeechOff
  /\ IF component = "steps" THEN OpsInit ELSE OpsOff
  /\ IF component = "library" THEN LibraryInit ELSE LibraryOff
  /\ IF component = "console" THEN ConsoleInit ELSE ConsoleOff
  /\ IF component = "messages" THEN ChatPageInit ELSE ChatPageOff
  /\ IF component = "uploads" THEN UploadInit ELSE UploadOff
  /\ IF component = "evaluation" THEN EvalInit ELSE EvalOff
  /\ IF component = "figures" THEN FigureInit ELSE FigureOff
  /\ IF component = "signin" THEN SignInit ELSE SignOff
  /\ IF component = "accounts" THEN AccountInit ELSE AccountOff
  /\ IF component = "migrations" THEN MigrationInit ELSE MigrationOff
  /\ IF component = "media" THEN MediaParseInit ELSE MediaParseOff
  /\ IF component = "health" THEN HealthInit ELSE HealthOff
  /\ IF component = "records" THEN RecordInit ELSE RecordOff
MCNext ==
  /\ UNCHANGED component
  /\ IF component = "cache" THEN TRUE ELSE UNCHANGED cacheVars
  /\ IF component = "indexes" THEN TRUE ELSE UNCHANGED esVars
  /\ IF component = "search" THEN TRUE ELSE UNCHANGED searchVars
  /\ IF component = "graph" THEN TRUE ELSE UNCHANGED graphVars
  /\ IF component = "session" THEN TRUE ELSE UNCHANGED chatVars
  /\ IF component = "microphone" THEN TRUE ELSE UNCHANGED micVars
  /\ IF component = "playback" THEN TRUE ELSE UNCHANGED mediaVars
  /\ IF component = "memory" THEN TRUE ELSE UNCHANGED talkVars
  /\ IF component = "access" THEN TRUE ELSE UNCHANGED accessVars
  /\ IF component = "speech" THEN TRUE ELSE UNCHANGED speechVars
  /\ IF component = "steps" THEN TRUE ELSE UNCHANGED opsVars
  /\ IF component = "library" THEN TRUE ELSE UNCHANGED libraryVars
  /\ IF component = "console" THEN TRUE ELSE UNCHANGED consoleVars
  /\ IF component = "messages" THEN TRUE ELSE UNCHANGED chatPageVars
  /\ IF component = "uploads" THEN TRUE ELSE UNCHANGED uploadVars
  /\ IF component = "evaluation" THEN TRUE ELSE UNCHANGED evalVars
  /\ IF component = "figures" THEN TRUE ELSE UNCHANGED figureVars
  /\ IF component = "signin" THEN TRUE ELSE UNCHANGED signVars
  /\ IF component = "accounts" THEN TRUE ELSE UNCHANGED accountVars
  /\ IF component = "migrations" THEN TRUE ELSE UNCHANGED migrationVars
  /\ IF component = "media" THEN TRUE ELSE UNCHANGED mediaParseVars
  /\ IF component = "health" THEN TRUE ELSE UNCHANGED healthVars
  /\ IF component = "records" THEN TRUE ELSE UNCHANGED recordVars
  /\ IF component = "cache" THEN CacheNext ELSE TRUE
  /\ IF component = "indexes" THEN EsNext ELSE TRUE
  /\ IF component = "search" THEN SearchNext ELSE TRUE
  /\ IF component = "graph" THEN GraphNext ELSE TRUE
  /\ IF component = "session" THEN ChatNext ELSE TRUE
  /\ IF component = "microphone" THEN MicNext ELSE TRUE
  /\ IF component = "playback" THEN MediaNext ELSE TRUE
  /\ IF component = "memory" THEN TalkNext ELSE TRUE
  /\ IF component = "access" THEN AccessNext ELSE TRUE
  /\ IF component = "speech" THEN SpeechNext ELSE TRUE
  /\ IF component = "steps" THEN OpsNext ELSE TRUE
  /\ IF component = "library" THEN LibraryNext ELSE TRUE
  /\ IF component = "console" THEN ConsoleNext ELSE TRUE
  /\ IF component = "messages" THEN ChatPageNext ELSE TRUE
  /\ IF component = "uploads" THEN UploadNext ELSE TRUE
  /\ IF component = "evaluation" THEN EvalNext ELSE TRUE
  /\ IF component = "figures" THEN FigureNext ELSE TRUE
  /\ IF component = "signin" THEN SignNext ELSE TRUE
  /\ IF component = "accounts" THEN AccountNext ELSE TRUE
  /\ IF component = "migrations" THEN MigrationNext ELSE TRUE
  /\ IF component = "media" THEN MediaParseNext ELSE TRUE
  /\ IF component = "health" THEN HealthNext ELSE TRUE
  /\ IF component = "records" THEN RecordNext ELSE TRUE
MCVars == <<component, cacheVars, esVars, searchVars, graphVars, chatVars,
  micVars, mediaVars, talkVars, accessVars, speechVars, opsVars, libraryVars,
  consoleVars, chatPageVars, uploadVars, evalVars, figureVars, signVars,
  accountVars, migrationVars, mediaParseVars, healthVars, recordVars>>
MCSpec == MCInit /\ [][MCNext]_MCVars

\* The types of the component that moves.
ComponentsTypeOK ==
  /\ component = "cache" => CacheTypeOK
  /\ component = "indexes" => EsTypeOK
  /\ component = "search" => SearchTypeOK
  /\ component = "graph" => GraphTypeOK
  /\ component = "session" => ChatTypeOK
  /\ component = "microphone" => MicTypeOK
  /\ component = "playback" => MediaTypeOK
  /\ component = "memory" => TalkTypeOK
  /\ component = "access" => AccessTypeOK
  /\ component = "speech" => SpeechTypeOK
  /\ component = "steps" => OpsTypeOK
  /\ component = "library" => LibraryTypeOK
  /\ component = "console" => ConsoleTypeOK
  /\ component = "messages" => ChatPageTypeOK
  /\ component = "uploads" => UploadTypeOK
  /\ component = "evaluation" => EvalTypeOK
  /\ component = "figures" => FigureTypeOK
  /\ component = "signin" => SignTypeOK
  /\ component = "accounts" => AccountTypeOK
  /\ component = "migrations" => MigrationTypeOK
  /\ component = "media" => MediaParseTypeOK
  /\ component = "health" => HealthTypeOK
  /\ component = "records" => RecordTypeOK

\* Search: an answer holds what its reader may see of the current rows, whoever
\* computed it and whatever changed meanwhile (RetrievalCache).
MCFreshResult == component = "cache" => FreshResult

\* Search: a reader that gives up stops its own wait only (RetrievalCache).
MCAbortIsOwn == component = "cache" => AbortIsOwn

\* Stores: what Elasticsearch and Neo4j hold follows the rows of PostgreSQL and
\* is read where it is written, whatever is done to a document and its versions;
\* a file that is parsed is stored with all it names, and the schema is what the
\* files of the migrations make (EsIndex, GraphStore, DocumentLibrary, MediaParse,
\* Migrations).
MCStoresFollow ==
  /\ component = "indexes" => ReadsWhatItWrites
  /\ component = "graph" => GraphFollowsRows
  /\ component = "library" => LibraryAgrees
  /\ component = "media" => MediaParsed
  /\ component = "migrations" => MigrationsConverge

\* Search: what channels, sub-queries and bases that work find survives the
\* failure of the others, up to the cuts (HybridRetrieval).
MCSurvivorsKept == component = "search" => SurvivorsKept

\* Pages: the page is in the session of its persona and its human is of that
\* session; it shows the rows of its conversation; a page of the console shows
\* what it is about, as new as it was told, files land where they were sent, a tab
\* shows who it is signed in as and the health page what was probed (ChatSession,
\* ChatPage, ConsolePages, UploadDrawer, SignIn, HealthProbe).
MCPageShowsItsSession ==
  /\ component = "session" => PageShowsItsSession
  /\ component = "messages" => ListIsTheConversation
  /\ component = "console" => PanesFollow
  /\ component = "uploads" => UploadsLand
  /\ component = "signin" => ShowsWhoItIs
  /\ component = "health" => HealthIsHonest

\* Sessions: nothing is left behind by a session that ends (ChatSession).
MCNothingOrphaned == component = "session" => NothingOrphaned

\* Media: a page that records has a take in progress and sends it once, it plays
\* the turn that speaks, and a sentence is heard in order and whole
\* (MicController, TtsPlayback, SpeechProviders).
MCMediaInStep ==
  /\ component = "microphone" => MicMatchesState
  /\ component = "playback" => PlaysOwnTurn
  /\ component = "speech" => HeardOnce

\* Records: the window and the bounded summary of a conversation hold what its log
\* has and the latest of it, a long-term memory is kept until it is deleted, and an
\* evaluation case is what its users made it (ConversationMemory, MemoryRecords,
\* EvalRuns).
MCLogAndMemoryAgree ==
  /\ component = "memory" => LogAndMemoryAgree
  /\ component = "records" => MemoriesKept
  /\ component = "evaluation" => EditsStand

\* Access: what rules and scopes say, the index and the lists say; users, keys and
\* roles are what was asked of them (AccessRules, Accounts).
MCAccessAgrees ==
  /\ component = "access" => AccessAgrees
  /\ component = "accounts" => AccountsStand

\* Calculations: the steps of a retrieval compute what they are for, the figures
\* of the dashboards count what they name (RetrievalOps, DashboardOps).
MCStepsMatchReference ==
  /\ component = "steps" => StepsMatchReference
  /\ component = "figures" => FiguresRight
==============================================================================
