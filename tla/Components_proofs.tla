-------------------------- MODULE Components_proofs --------------------------
(***************************************************************************)
(* The run of all components: a behaviour is one of one component, so a    *)
(* property of a component holds of it.                                    *)
(***************************************************************************)
EXTENDS MCComponents, Retrieval_proofs, Conversation_proofs, Records_proofs

-----------------------------------------------------------------------------
\* A step of the run is one of its component.
LEMMA CacheMoves ==
  ASSUME [MCNext]_MCVars
  PROVE  component' = component /\ (component = "cache" => [CacheNext]_cacheVars)
BY DEF MCNext, MCVars

\* A step of the run is one of its component.
LEMMA SearchMoves ==
  ASSUME [MCNext]_MCVars
  PROVE  component' = component /\ (component = "search" => [SearchNext]_searchVars)
BY DEF MCNext, MCVars

\* A step of the run is one of its component.
LEMMA SessionMoves ==
  ASSUME [MCNext]_MCVars
  PROVE  component' = component /\ (component = "session" => [ChatNext]_chatVars)
BY DEF MCNext, MCVars

\* A step of the run is one of its component.
LEMMA MicMoves ==
  ASSUME [MCNext]_MCVars
  PROVE  component' = component /\ (component = "microphone" => [MicNext]_micVars)
BY DEF MCNext, MCVars

\* A step of the run is one of its component.
LEMMA PlaybackMoves ==
  ASSUME [MCNext]_MCVars
  PROVE  component' = component /\ (component = "playback" => [MediaNext]_mediaVars)
BY DEF MCNext, MCVars

\* A step of the run is one of its component.
LEMMA SpeechMoves ==
  ASSUME [MCNext]_MCVars
  PROVE  component' = component /\ (component = "speech" => [SpeechNext]_speechVars)
BY DEF MCNext, MCVars

\* A step of the run is one of its component.
LEMMA TalkMoves ==
  ASSUME [MCNext]_MCVars
  PROVE  component' = component /\ (component = "memory" => [TalkNext]_talkVars)
BY DEF MCNext, MCVars

\* A step of the run is one of its component.
LEMMA RecordMoves ==
  ASSUME [MCNext]_MCVars
  PROVE  component' = component /\ (component = "records" => [RecordNext]_recordVars)
BY DEF MCNext, MCVars

\* A step of the run is one of its component.
LEMMA EvalMoves ==
  ASSUME [MCNext]_MCVars
  PROVE  component' = component /\ (component = "evaluation" => [EvalNext]_evalVars)
BY DEF MCNext, MCVars

\* A step of the run is one of its component.
LEMMA AccessMoves ==
  ASSUME [MCNext]_MCVars
  PROVE  component' = component /\ (component = "access" => [AccessNext]_accessVars)
BY DEF MCNext, MCVars

\* A step of the run is one of its component.
LEMMA AccountMoves ==
  ASSUME [MCNext]_MCVars
  PROVE  component' = component /\ (component = "accounts" => [AccountNext]_accountVars)
BY DEF MCNext, MCVars

\* In every behaviour of the run of components, for every value of the
\* constants: a request is not answered with what a change took away before
\* it (RetrievalCache).
THEOREM ComponentsServeFresh == MCSpec => []MCFreshResult
<1>. DEFINE I == component = "cache" => CacheInv
<1>1. MCInit => I
  BY CacheInitSafe DEF MCInit
<1>2. I /\ [MCNext]_MCVars => I'
  BY CacheMoves, CacheStepSafe
<1>3. I => MCFreshResult
  BY CacheIsFresh DEF MCFreshResult
<1>. QED BY <1>1, <1>2, <1>3, PTL DEF MCSpec

\* No request of the search ends for another caller's signal
\* (RetrievalCache).
THEOREM ComponentsAbortTheirOwn == MCSpec => []MCAbortIsOwn
<1>. DEFINE I == component = "cache" => CacheInv
<1>1. MCInit => I
  BY CacheInitSafe DEF MCInit
<1>2. I /\ [MCNext]_MCVars => I'
  BY CacheMoves, CacheStepSafe
<1>3. I => MCAbortIsOwn
  BY CacheAbortsItsOwn DEF MCAbortIsOwn
<1>. QED BY <1>1, <1>2, <1>3, PTL DEF MCSpec

\* What channels, sub-queries and bases that work find survives the failure of
\* the others, for any bases, queries, chunks and limits, up to the two cuts and
\* the two failing filters that the property names (HybridRetrieval).
THEOREM ComponentsKeepSurvivors == MCSpec => []MCSurvivorsKept
<1>. DEFINE I == component = "search" => KeptInv
<1>1. MCInit => I
  BY SearchInitSafe DEF MCInit
<1>2. I /\ [MCNext]_MCVars => I'
  BY SearchMoves, SearchStepSafe
<1>3. I => MCSurvivorsKept
  BY DEF KeptInv, SurvivorsKept, MCSurvivorsKept
<1>. QED BY <1>1, <1>2, <1>3, PTL DEF MCSpec

\* A session that ends leaves no socket, no registry entry and no human
\* behind but where the code is known to (ChatSession).
THEOREM ComponentsOrphanNothing == MCSpec => []MCNothingOrphaned
<1>. DEFINE I == component = "session" => ChatInv
<1>1. MCInit => I
  BY ChatInitSafe DEF MCInit
<1>2. I /\ [MCNext]_MCVars => I'
  BY SessionMoves, ChatStepSafe
<1>3. I => MCNothingOrphaned
  BY DEF ChatInv, MCNothingOrphaned
<1>. QED BY <1>1, <1>2, <1>3, PTL DEF MCSpec

\* A page that records has a take in progress and no microphone is on beside its
\* recorder's but those that slipped; the page plays the turn that speaks; and a
\* sentence is heard in order and whole, after what was heard on a WebSocket that
\* was left (MicController, TtsPlayback, SpeechProviders).
THEOREM ComponentsMediaInStep == MCSpec => []MCMediaInStep
<1>. DEFINE I == /\ component = "microphone" => MicInv
                 /\ component = "playback" => MediaInv
                 /\ component = "speech" => SpeechInv
<1>1. MCInit => I
  BY MicInitSafe, MediaInitSafe, SpeechInitSafe DEF MCInit
<1>2. I /\ [MCNext]_MCVars => I'
  BY MicMoves, MicStepSafe, PlaybackMoves, MediaStepSafe, SpeechMoves, SpeechStepSafe
<1>3. I => MCMediaInStep
  BY MicInStep, MediaPlaysItsTurn, SpeechHeardOnce DEF MCMediaInStep
<1>. QED BY <1>1, <1>2, <1>3, PTL DEF MCSpec

\* What the window and the bounded summary of a conversation hold is in its log
\* and as recent as the limits allow, a long-term memory is kept until it is
\* deleted, and an evaluation case is what its users made it, up to the races
\* that are recorded (ConversationMemory, MemoryRecords, EvalRuns).
THEOREM ComponentsRememberOneStory == MCSpec => []MCLogAndMemoryAgree
<1>. DEFINE I == /\ component = "memory" => TalkInv
                 /\ component = "records" => RecordInv
                 /\ component = "evaluation" => EvalInv
<1>1. MCInit => I
  BY TalkInitSafe, RecordInitSafe, EvalInitSafe DEF MCInit
<1>2. I /\ [MCNext]_MCVars => I'
  BY TalkMoves, TalkStepSafe, RecordMoves, RecordStepSafe, EvalMoves, EvalStepSafe
<1>3. I => MCLogAndMemoryAgree
  BY TalkAgrees, RecordsAreKept, EvalStands DEF MCLogAndMemoryAgree
<1>. QED BY <1>1, <1>2, <1>3, PTL DEF MCSpec

\* List, index and check of a document agree on who sees it, and users, keys
\* and roles are what was asked of them (AccessRules, Accounts).
THEOREM ComponentsAgreeOnAccess == MCSpec => []MCAccessAgrees
<1>. DEFINE I == /\ component = "access" => AccessInv
                 /\ component = "accounts" => AccountInv
<1>1. MCInit => I
  BY AccessInitSafe, AccountInitSafe DEF MCInit
<1>2. I /\ [MCNext]_MCVars => I'
  BY AccessMoves, AccessStepSafe, AccountMoves, AccountStepSafe
<1>3. I => MCAccessAgrees
  BY AccessIsAgreed, AccountsAreAsAsked DEF MCAccessAgrees
<1>. QED BY <1>1, <1>2, <1>3, PTL DEF MCSpec
==============================================================================
