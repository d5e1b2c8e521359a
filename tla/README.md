# A verification development for ai-agent-course-code

The repository is a course project that grew into an enterprise knowledge base
with a realtime voice agent: a NestJS backend (`src/backend`), a Vue client
(`src/frontend`) and their docs. This directory holds TLA+ modules of its
stateful parts and of its pure algorithms, TLC configurations that check them on
small instances, and proofs that TLAPS checks for every value of the constants.
`PROJECT.json` lists the runs, the mutants that show that each property can fail,
the source lines of every definition, the hazards, the findings and the theorems.

Paths below are relative to `src/backend/src` unless they start with `src/`.

## 1. Inventory

| part | state it keeps | modules |
|---|---|---|
| WebSocket gateway, session handler, session registry, digital human (`gateway`, `conversation/services/realtime-session.registry.ts`) | clients, sessions by id and by client, the provider's sessions | `ChatSession` |
| Input handlers, agent, TTS and speak pipelines (`gateway/handlers`, `gateway/pipeline`) | turn and pipeline fields of a session | `RealtimeTurn` |
| Turn protocol, message log, memory (`conversation`, `memory`) | rows with sequence numbers, window and summary in Redis, circuits, long-term records | `ConversationMemory`, `MemoryRecords` |
| Agent graph, its services and the turn's budget (`agent`, `common/rag`) | state of one run, call counters, deadline | `RagGraph`, `AgentRun` |
| Document ingest tasks (`knowledge/services/document/document-task*.ts`) | task and step rows, checkpoint, queue job | `DocumentTask`, `IngestTask` |
| Documents and their versions (`knowledge/services/document/knowledge-document.service.ts`) | document rows, chunks, index documents | `DocumentLibrary` |
| Parsers and object storage (`knowledge/services/document/parsers`, `storage`) | files and frames in S3, temporary directories | `MediaParse` |
| Retrieval cache, content revision, permission epoch (`knowledge/services/retrieval`) | cached results in Redis, `acl_version` | `RetrievalCache` |
| Retrieval channels and their fusion (`retrieval/channels`, `pipeline`) | one search | `HybridRetrieval` |
| Pure steps of a retrieval (expansion, rerankers, evidence, queries, sections, graph query) | none | `RetrievalOps` |
| Elasticsearch indexes (`knowledge/elasticsearch`) | index versions, read and write alias | `EsIndex` |
| Knowledge graph (`knowledge/graph`) | Neo4j nodes and relations, sync status of a row | `GraphStore` |
| Access control (`rbac`) | rules, index metadata, links of users, roles and permissions | `AccessRules` |
| Users, API keys, roles (`auth`, `user`, `rbac`) | single rows, read and saved whole | `Accounts` |
| Evaluation cases (`knowledge/services/evaluation`) | single rows, read and saved whole | `EvalRuns` |
| Dashboards, turn report, golden cases (`dashboard`, `common/rag`, `agent/evaluation`) | none | `DashboardOps` |
| Speech synthesis and voice cloning (`speech`) | one task, a voice with its timers | `SpeechProviders` |
| Migrations (`src/backend/scripts/migrate.js`) | the schema | `Migrations` |
| Chat page: sessions, microphone, playback, messages (`src/frontend/src/hooks`) | socket, recorder, media source, lists of messages | `ChatSession`, `MicController`, `TtsPlayback`, `ChatPage` |
| Console pages, upload drawer, sign-in (`src/frontend/src`) | panes, queues, tokens in localStorage | `ConsolePages`, `UploadDrawer`, `SignIn` |
| Health probes, the worker's heartbeat and their page (`health`, `HealthTab.vue`) | one key in Redis | `HealthProbe` |
| the rest (configuration, notifications, prompts) | single rows or none | not modelled |

How they interact: a page opens a socket and asks for sessions (`ChatSession`); an
input of a session runs a turn (`RealtimeTurn`), which runs the agent (`RagGraph`),
which searches (`RetrievalCache` around `HybridRetrieval` around `RetrievalOps`,
reading what `EsIndex` and `GraphStore` hold) and is logged and remembered
(`ConversationMemory`, `MemoryRecords`). A file becomes a task (`DocumentTask`), is parsed
(`MediaParse`), indexed and put into the graph; its versions live on under
`DocumentLibrary`, its permissions under `AccessRules`, and both bump the numbers
`RetrievalCache` keys its results with. Three composites are modelled as one
module because their parts share a promise: the page and the gateway
(`ChatSession`), the recorder and the events of the turn (`MicController`), the
cache with the writers, their queue and the epoch in the rows (`RetrievalCache`).

The hard behaviours are interleavings of awaits on one event loop (turns, sessions,
pages), several processes over stores without transactions (tasks, versions, graph,
memory, rows saved whole), at-least-once delivery by the queue, crashes between
two writes, answers that arrive after what they were asked for has gone, and
timeouts that look like cancellations. `PROJECT.json` has each at its line.

## 2. Plan

Done, in the order of their importance: the realtime turn, the ingest task, the
agent graph, the retrieval with its cache and permissions, the stores, the sessions
and the page, the memory, the documents, the rest of the console. What is left is in
section 9. The joined run `components` checks the modules that need little state
each; a component that grows beyond it gets a run of its own, as `rag_turn` has.

## 3. The realtime turn (`RealtimeTurn`)

The gateway runs on one JavaScript event loop, so an action is the code between
two awaits. `session` is the `RealtimeSession` object (fields under their names)
plus `alive`, whether it is still in the registry: a deleted session ignores
every write but handlers keep reading it. `phase[t]` says where the handler of
turn `t` awaits: `asr` (speech recognition), `starting` (`onTurnStart`),
`running` (the agent), `ending` (`onTurnEnd`), then `over` or `refused`. `synth`
and `speaking` are the provider calls in flight: the continuation of each is a
drain. `aborted` is the set of controllers whose signal is aborted; the
controller of a turn's run is named by the turn. Four history variables record
what a property needs: what was handed to a provider, whose end event was due,
whose provider failed, and which turn was reported to the client.

| action | code |
|---|---|
| `TextInput`, `AudioInput`, `AsrHears`, `AsrRefuses` | the two input handlers up to their awaits |
| `TurnStarted`, `TurnStartFails` | the continuation of `onTurnStart` |
| `Token` | `onToken`: buffer, cut at a sentence end, enqueue, maybe start a drain |
| `AgentSettles`, `AgentAborted` | `catch` and `finally` of `run`: flush the rest, ask for the end |
| `TurnEnded` | what follows `onTurnEnd` |
| `TtsReturns`, `TtsFails`, `TtsAborted` | a drain after its await, by outcome |
| `SpeakReturns`, `SpeakFails` | the same for `speak()` |
| `Interrupt`, `Disconnect` | `InterruptHandler.handle`, `cleanupSession` |

The pipelines are operators from a session to the session they leave, the calls
they start and whether they never return (`hang`): `while (queue.length > 0)`
on a deleted session shifts nothing away and, with `undefined` in hand, continues
without an await. An abort's rejection is a microtask, so it runs before the loop
takes another event (`Settled`); everything else interleaves freely.

Left out: audio frames and their sequence numbers, the texts (a token is the pair
of its turn and its rank), the reply messages other than the ends, several
sessions (turns of two sessions share nothing but the registry map), and a change
of `speakMode` in the middle of a session, listed as a hazard.

**Bounds.** Two overlapping turns of three tokens let a sentence be in flight, one
queued and one in the buffer when an interrupt, an input or a failure comes; three
turns are needed for a third input to meet two that entered (`turn_unpaced`).
`MaxTokens` bounds an answer. `Modes` is the set of speech modes a session may
have. Turns are symmetric in the runs without liveness.

**Paced.** With `Paced` the client sends nothing between an input and
`conversation:start`. The frontend does not guarantee it: `useMicController.ts`
may send an interrupt or an input right after its binary frame. What holds
only for a paced client is in `turn_paced` and `turn_live`; `turn_unpaced` has
what holds for any. Without pacing TLC finds `OneAgent` violated (`one_agent`),
and, with the same cause, three overlapping inputs violate `SerialSynthesis`, two
`onTurnStart` calls that resolve in the other order violate
`InterruptReachesAgent`, and the `finally` of a replaced run clears the sentence
buffer of the run that replaced it, which violates `EndedIsComplete`.

**Fairness.** `FairSpec` is weakly fair to `Settling` only: the event loop does
not rest while something awaited can settle. The agent runs under a wall-clock
budget and database and provider calls end or fail, so each settles in
the end. The client and the arrival of tokens are not fair.

## 4. The ingest task (`DocumentTask`, `IngestTask`)

An upload becomes a task row, three step rows (`parse`, `index`, `graph_sync`) and a
BullMQ job. A worker runs the steps over the object storage, the database, the search
index and the graph; each step records its status, so a job that is delivered again
goes on where it left off. There is no transaction over two statements: an action is
one statement, `Throws` is the failure of the one at hand, the writes of a catch
included, and `Crash` may come between any two. A crash puts the jobs of the worker
back, once each: `stalled` counts the waiting jobs that were delivered before, and a
run of such a job (`again`) is given up by the next crash (`GivenUp`), as BullMQ does
with its `maxStalledCount` of 1.

`task`, `steps`, `parsed` (the document of the parse step), `documents` (rows with
their chunks, assets, version group and flags) and `es` (the search index) are what
is stored. `queue` counts waiting jobs by whether their data names a version group.
`request[q]` and `run[r]` are the program counters of HTTP requests and deliveries; a
run also has its local variables, `skips` among them: which steps it saw completed
when it read them, before it began. `ignored` is a history variable, see below.

| action | code |
|---|---|
| `SaveTask`, `SaveSteps`, `AddJob` | `createUploadIngestTask`, `createUploadVersionTask` |
| `RetryAllowed`, `ResetTask`, `ResetSteps`, `AddJob` | `retryTask` |
| `WriteStepsFails`, `AddJobFails`, `RegisterJobFails`, `RequestFailsTask`, `RequestFailsSteps`, `RequestStops` | their error paths, `markTaskFailed`; a write of these that fails, or the API process that dies |
| `Deliver`, `LoadTask`, `LoadSteps`, `Begin`, `StartStep` | the processor of the worker and the head of `runUploadIngestTask` |
| `CreateDocument`, `NameGroupFails`, `KeepDocument`, `ClearAssets`, `SaveAssets` | the try of `parse` |
| `ClearChunks`, `ClearEs`, `CleanUpFails`, `InsertBatch`, `UpsertBatch`, `UpsertFails`, `Publish` | the try of `index`, `indexDocumentChunks` |
| `PendingGraph`, `SyncGraph` | the try of `graph_sync`, `syncGraphOnly` |
| `FinishStep`, `BindParse`, `BindIndex` | the writes that end a try: the step, then the task |
| `Demote`, `Promote`, `ClearOthers`, `Reindex`, `SwitchIndexFails` | `setCurrentDocumentVersion` |
| `Complete` | the last `updateTask` |
| `Throws`, `CatchDocument`, `CatchStep`, `CatchTask` | the catch of a step |
| `RunFailsTask`, `RunFailsSteps`, `FailureUnsaved` | the catch of the worker, `markTaskFailed`, whose own writes may fail |
| `Acknowledge`, `Crash` | BullMQ: one attempt per job; a stalled job waits again, and is failed when it stalls twice |
| `DeleteFromIndex`, `DeleteRow` | `deleteDocument` by a user |

**What the code ignores.** Some failures are logged and ignored (the clean-up before
indexing, every refusal of the search index), some leave the task in a state its code
does not repair (writing the steps, registering the job), and nothing keeps two
retries, or a retry and a redelivered job, from overlapping: `retryTask` reads the
status and writes it later. No property survives these, and none is promised by
the code. The model takes all of these steps and records them in `ignored`; `Sound`
says there was none, every property is about sound behaviours, and the constraint
`Sound` stops TLC from exploring what follows the first unsound state. What each one
breaks is a hazard in `PROJECT.json`.

**What strands a task.** `NeverStuck` says that a task that is pending or running has
a request, a job or a run at work on it. It does not ask for `Sound`: it holds through
overlaps, failed clean-ups, refused index writes and deletions. Four things end it
(`Stranding`), each recorded in `ignored` when it happens and only then: the step rows
cannot be written (`steps`); the request stops between the reset of the task and the
publication of its job, because a write fails or the process dies (`abandoned`,
`document-task.service.ts:311`); marking the task failed fails after the failure that
was to be marked (`unsaved`, `document-task-worker.service.ts:127`); a job stalls twice
(`stalled`). In each of the four the code leaves a task that nothing works on, and no
sweep of the repository finds it. What the property does show is the rest: one failing
write anywhere, those of the runner's catches included, is made up for by the worker's
catch, and a crash at any statement by the redelivery.

**The promise.** `IngestTask` is the task as a user knows it: absent, pending,
running, completed or failed; content that becomes whole only while it runs and is
whole when it completes; retried only when failed. `KeepsPromise` is the refinement
(`whole` is: the document of the parse holds every batch, once). Two clauses of the
abstract specification are there because of what the code does: `Start` and `Fail`
are allowed on a completed task, since the queue may deliver a job again after a
crash between the last write and the acknowledgement, and such a job may fail before
its first step.

**What is not promised.** A task whose worker dies between marking the parse step and
naming the document in the task completes without ever naming it (`task.documentId`
stays null: the document's task list misses it). `document.status` may stay `failed`
on a completed task, when the checkpoint after the index step is not saved and the
worker then dies. A retry of a version task forgets its group (`safeUploadMetadata`),
so `VersionSwitched` is about tasks without a retry. A retry resets all steps, though
the plan of the repository says completed ones are skipped.

**Bounds.** Two requests are an upload and a retry; three deliveries are the first
job, its redelivery and the job of the retry, in any combination with two crashes,
which is enough to make one job stall twice or two jobs once; two
documents let a retry create a second one; two batches let an attempt stop in the
middle of the chunks. One
deletion by the user at any point. `MaxIgnored` 1 lets each ignored failure happen
once. Requests, deliveries and documents are symmetric.

Left out: stage and progress, notifications, checkpoints that nobody reads, the
stored Markdown (a parse that completed has stored it), files without assets or
chunks, the base document of a version being deleted, a worker that lost its lock and comes
back beside its successor (a crash here is final).

## 5. One run of the agent (`RagGraph`, `AgentRun`)

LangGraph runs one node at a time, so a node is an action: its model and store
calls resolve to one of the outcomes that the code tells apart. `node` is the node
that runs next; `attempt` and `RunAgain` are its retry policy, which runs the same
node on the same state with what it charged still charged; `Goto` is an edge and
counts a superstep towards LangGraph's recursion limit (25, the library's
default, external). `state` has the fields of `RagState` that decide anything;
`past` is `retrievalHistory`; `shown` are the citations last pushed to the client.
`Tick` is the clock of the turn's budget, `TimeOut` and `Abort` end the run between
two nodes. The models are free: they return any plan that names nothing twice, any facts, any web
query of the constants.

Checked: one call stays reserved for the answer whatever was retried
(`AnswerReserved`); no query is searched twice and hops stay within the profile
(`HopsDistinct`); no run meets the recursion limit (`NoRecursionError`); the answer's
evidence is the one evaluated last (`AssessedEvidence`); nothing is searched once the
clock has run out (`LateSearchesNothing`); and the run refines `AgentRun`, in which
the result carries the citations that were pushed last.

Not promised by the code, and not stated: a node that is retried charges the
budget again; the stop reason of a web search that is tried again is the one of the
evaluation before (`agent/langgraph/nodes/evaluation.nodes.ts:245`); any error
named `AbortError` leaves the web search, also one of the search service itself.

**Bounds.** `MCRagGraph` has the four profiles of `common/rag/rag-profile.ts` with their real
numbers; a plan of five sub-questions is longer than any profile's hops; the
missing facts hold one that was asked and one that was not; one web query besides
the empty one makes both a new search and a repeated one.

## 6. The other components

Each module below is a specification of its own with its type invariant and the
property the joined run states for it. Where the code lets something happen that
breaks what it promises, the step is taken, and a history variable (a *ghost*)
records it; the property excepts exactly what the ghost names. The exceptions are
what to read first: each is a behaviour the code has.

### Retrieval

**`RetrievalCache`** (`FreshResult`, `AbortIsOwn`). Requests of several readers, the
search they share while it runs (`RetrievalPipelineService.retrieve`), results under
a key of epoch and revision, writers that change rows and then bump, the queue of
index refreshes. A request that starts after a change took effect is never answered
with what it took away. Exceptions: a bump Redis lost (`lost`); `getEpoch` writing
back an epoch it read before a bump (`backward`); a persona's configurations read
before the change and the revision after it (`crossed`). Archiving, switching a
version and changing the governance bump no revision, though
`shouldInvalidateRetrievalCache` names them; degraded and empty results are cached
like others. Administrators, who see everything, are not among the readers.

**`HybridRetrieval`** (`SurvivorsKept`). Sub-queries against every base over three
channels, PostgreSQL where Elasticsearch fails, fusion, merging, expansion, filters,
reranking. Each sub-query keeps the best of its share of the limit (`PerQueryTopK`,
`knowledge/services/retrieval/channels/hybrid-retriever.service.ts:108`), each base
its own trace, and a base that fails among several loses both. The property is the
isolation: whatever other channels, sub-queries and bases did, a chunk that a channel
returned to a sub-query of a base that did not fail is in the answer with that
channel, if the request may see it; and a vector or keyword channel is reported
degraded exactly if it answered no sub-query of such a base. Two ghosts carry it:
`found0`, what was returned, and `worked`, who answered. Exceptions: a sub-query whose
channels return more than its share; bases that together keep more than the limit
(`crowded`); a persona's permission filter that fails; and the sub-query whose graph
filter fails, since `retrieveGraphChunks` returns `filterCurrentChunks` without an await
inside its `try` (line 780), which loses that sub-query with all its channels, and only
that one. A transient error of that filter ends the base, or the whole search of one
base or of a persona. A graph that fails is not reported as degraded; an Elasticsearch
that is switched off counts as a fallback. Whether the question was rewritten is left
out: it changes what is reported, not what is found.

**`RetrievalOps`** (`StepsMatchReference`). Seven algorithms over all inputs of the
bounds, each against a reference that says what it is for: the neighbours added to
the hits, the rerankers, the evidence merged over hops and capped, the queries of a
question, the sections of a markdown document, the topics its headings make, and
the graph query (paths run through relations whose chunk the reader may not see and
each undirected path is counted twice). An LLM that scores in decimals under the
limit loses every chunk, since `minScore` is always given
(`knowledge/services/retrieval/processing/llm-reranker.provider.ts:144`); the cap uses another score than the order
of the evidence.

**`EsIndex`** (`ReadsWhatItWrites`). Instances that ensure their index and aliases at
start, documents written and deleted, operators who build a switch and apply it
later. Exceptions (`mixed`): a second version deployed before the aliases of the first
stand; a move applied between the check and the put of an instance.

**`GraphStore`** (`GraphFollowsRows`). Every writer of Neo4j, one query at a time.
Exceptions (`torn`): writers that overlap, a delete that failed and is ignored, a
process that stops, a version promoted without a sync, a document whose row has
gone. A sync writes disabled chunks as enabled.

### Documents

**`DocumentLibrary`** (`LibraryAgrees`). The routes of the document controller with
their permissions, and what each changes in rows and index, one statement at a time.
Exceptions (`strays`): requests on one group that overlap or stop half-way, an index
request that failed, a version whose ingest failed (its row stays current), documents
with more chunks than a list returns (500, `knowledge/services/document/knowledge-document.service.ts:407`), a
retry of a version that is not current, a base removed with its documents. A
version uploaded by an administrator takes the document over; a version list is not
checked against the document's visibility.

**`MediaParse`** (`MediaParsed`). Which parser takes a file and what each failure
leaves. `PlainTextParser` accepts `text/html` before `WebPageParser` is asked; two
first uploads collide when both create the bucket
(`storage/s3-object-storage.provider.ts:90`); frames of a video whose storage fails
stay in S3 with nothing naming them.

**`Migrations`** (`MigrationsConverge`). Every run executes every file again and takes
three error codes for "already done". After a complete run a second one ends at
`002`, whose table `005` renamed. `033` is not in the list (`src/backend/scripts/migrate.js:20`).

### People and permissions

**`AccessRules`** (`AccessAgrees`). Four implementations of one rule are compared: the
SQL filter of lists and searches, the filter over index metadata, the last check of
an answer, the guards. Exceptions: a governance change that enqueues no refresh
(`stale`); a denial, which hides a document from all who are not named; a role besides
the token's; replacements of links that overlap. Lists and tasks do not look at
document rules; a retry is open to all who see the document.

**`Accounts`** (`AccountsStand`). A change reads a row and saves all of it. Exceptions: a
save of an older row (`putBack`), a password checked on one reading and saved on
another (`taken` must stay false but for the change in between), roles that a failed
creation leaves or a late save inserts again (`odd`). A token stays valid after the
password changed.

**`SignIn`** (`ShowsWhoItIs`). Tabs of one browser over one localStorage. Exceptions:
another tab signed in or out (`foreign`), an answer to an earlier sign-in (`late`).

**`EvalRuns`** (`EditsStand`). Cases edited while batches hold the rows they read.
Exception (`overrun`): a stale row was saved, or a process died over a running case,
which stays "running".

### Conversation

**`ChatSession`** (`PageShowsItsSession`, `NothingOrphaned`). The page, its socket, and
one handler per `session:start`. Exceptions (`trouble`, `astray`): two starts that
cross, a socket that closes under a start, a provider that answers after ten seconds,
a conversation that was opened while its session was made (the handler ignores
`conversationId`), a mode changed while offline.

**`ConversationMemory`** (`LogAndMemoryAgree`). Rows, window, summary, circuits, one
Redis command at a time. The summary is bounded as in the code, and measured in lines,
one for a folded message: a summary that would pass its limit (4000 characters,
`SummaryLimit`) keeps its last `KeepHead` and takes the first `KeepTail` of what is
folded (`memory/utils/rolling-summary.utils.ts:32`). So the memory forgets, and the
property says what: a message that reached the window is in the window or in the
summary as long as it is among the last `KeepHead` lines folded (`age` counts them),
whatever command fails and wherever the process dies; the summary keeps to its limit;
the memory holds nothing the log does not; a question is numbered before its reply.
Exceptions (`raced`): two rows numbered at once, two turns writing the memory at once;
and a key that expired, which takes its messages out of the claim. That a line keeps
only 120 characters of its message is below the model's grain. The comment of the fold
promises the prefix of the old summary (line 8), the code keeps its end, as the comment
at line 26 says. `setSummary` has no caller and is left out. `refreshSummaryFromWindow` seeds the summary with the
older half of the window, where its comment says the tail
(`memory/services/short-term-memory.service.ts:130`). Deleting a conversation leaves
its memory in Redis.

**`MemoryRecords`** (`MemoriesKept`). Long-term memories over the table or mem0, calls
of several users through one breaker. What a user was told of is kept until a delete
is asked for, a list is within what its reader may read and full up to the limit,
and the breaker waits only for a probe that is under way. A list asks for 50 records
and both providers cut at 20. A failed delete still answers `{deleted: true}`
(`memory/controllers/memory.controller.ts:81`). A content of blanks passes the request's
validation and counts as a failure of the provider
(`memory/providers/local-long-term-memory.provider.ts:22`): three of them open the
breaker for all users.

**`ChatPage`** (`ListIsTheConversation`). Typed answers from the AI SDK, spoken ones
from the socket, copied into one list. Exceptions (`unlike`, `redone`): rows read
while a question was under way, a stopped request that brings its own conversation
back (`src/frontend/src/hooks/useTextChat.ts:58`), an answer asked for again.

**`MicController`** (`MicMatchesState`). While the page says it is recording, a take is
asked for, on or being stopped: no event of the socket, the turn or the buttons leaves
the page recording nothing. A take is sent at most once unless it was stopped again
while it was stopping (`again`). And a microphone that is on is the recorder's, while
the page records, but for those of `slipped`: the page stopped before the permission was
given, a permission, a denial or an end of an earlier take came late, or an event of the
socket or the turn set the state during the recording. `onstop` clears the recorder
whichever it is (`src/frontend/src/hooks/useAudio.ts:33`). A microphone that slipped does stay
on where nothing holds its recorder any more.

**`TtsPlayback`** (`PlaysOwnTurn`). A turn's audio plays in order and once. Exceptions:
frames before their source opened or after `tts:end` (`missed`); sessions that follow
each other faster than an avatar starts (`crossed`).

**`SpeechProviders`** (`HeardOnce`). A sentence is heard from its start, in order, and
whole when its synthesis ends well. In "auto" the WebSocket may be left for HTTP after
frames were heard, when it breaks, closes or reports a failed task with an error that
`shouldFallbackToHttp` knows (`speech/tts/providers/dashscope-tts.provider.ts:533`): the
sentence then starts again, and the property says exactly that, the frames heard before
(`earlier`) and then the whole sentence. In no other mode, and only once. Two things end
the process, since nobody catches what they throw: a message that is no JSON (line 595),
and an abort while the socket connects (line 187: its listeners are gone when closing it
emits an error). A voice reported ready is the one of the sample reported, unless a
second sample came during the training (`uploads`).

### Console

**`ConsolePages`** (`PanesFollow`), **`UploadDrawer`** (`UploadsLand`). Panes written by
answers that arrive in any order; files that go one after the other while the
drawer is closed, opened or turned. Exceptions: an overtaken answer (`stray`), a drawer
opened again or turned during its uploads (`turned`), which empties the queue under
the loop.

**`DashboardOps`** (`FiguresRight`). The turn report, the figures of both pages from
the rows they read, the score of a case and of a golden case, against what their
names say. The stored trace never carries what the permission and rerank figures
read (`dashboard/dashboard.service.ts:292`, `:535` against
`common/rag/rag-turn-report.ts:115`), so these are zero and null; a channel the
profile disables counts as degraded; the query at line 275 has no order clause.

**`HealthProbe`** (`HealthIsHonest`). Nine probes one after the other while services
and the worker come and go. A service that was there all along is not blamed, a worker
that ran within 15 s is not missed unless Redis kept its heartbeat, and the page shows
its grid when all is well and else nothing: `apiJson` makes null of a 503, so the
`catch` that is to restore the details
(`src/frontend/src/components/knowledge-base/tabs/HealthTab.vue:234`) is never reached. Redis is never
reported as failing: its commands wait until it is back, and the answer with them
(`health/health.service.ts:118`). A worker that died is not started again here.

## 7. Runs

| run | question | answer |
|---|---|---|
| `turn_paced` | does a client that waits for `conversation:start` get one agent, one synthesis, complete answers with their end after them, interrupts that arrive, no stranded sentence, no spinning drain? | yes |
| `turn_unpaced` | what is left when it does not wait? | every drain has a controller, and a fresh one; words never mix; aborted turns hand over nothing more |
| `turn_live` | does every input end and every running turn of a TTS session give the session back? | yes |
| `ingest` | is a completed task whole, in order, kept and switched; is a failed one quiet; is none stuck; does the task refine `IngestTask`? | yes, where the code ignored nothing; none is stuck but for section 4's four ways |
| `rag_turn` | section 5's questions, for all four profiles | yes |
| `components` | section 6's questions, one component per behaviour | yes, but for the exceptions named there |
| `one_agent` | is the previous answer always aborted, as `gateway/handlers/text.handler.ts:59` says? | no: not while it is in `onTurnStart` |
| `serial_speech` | is the speech of a digital human serial, as its class comment says? | no: a new turn starts a second drain |
| `speak_end` | is `digital-human:end` always sent, as `markFinalize` says? | no: a failed speech strands the queue |
| `no_leftover` | does a retry leave no rubbish behind, as `src/docs/backend.md:15` says? | no: a parse that fails after it created its document is retried on a second one |
| `budget_timeout` | is only the caller's cancellation an interruption? | no: the wall-clock timeout is an `AbortError` too |
| `acl_overflow` | does a change of rules reach the index, as the refresh says? | no: `acl_version` is a 32-bit column and `Date.now()` does not fit |

`acl_overflow` scales the column: TLC's integers have 32 bits themselves, so
`ColumnMax` is a small number, below the clock in that run and above it in
`components`.

`NeverSpins` is stated for TTS sessions: a text-direct drain has no signal, so a
disconnect with two sentences queued does make it spin. `CHECK_DEADLOCK FALSE`
is set because a client with no turns left, or one that has gone, rightly ends
the run, and so does a task that completed, a bound that is used up, or a page
nobody touches.

**The joined run.** A behaviour of `MCComponents` is one of one component; the
variables of the others stay empty. The components share no state, so nothing is lost
by it and nothing of their composition is claimed. Its bounds: two of everything that
races (readers, instances, writers, managers, callers, tabs, curators, parses, turns
of a conversation), since each property above is broken, or excepted, by a pair;
three samples, frames, answers or runs where a middle one matters; one fault where
the code handles faults one at a time, two where it retries; and the limits
(`ListLimit`, `WindowLimit`, `RerankLimit`, `SummaryAnswers`, `MemoryLimit`, `FailureLimit`) small enough to be met; `MaxTicks` is one
more than a heartbeat lives. A search has two bases or two queries over one, and two
chunks, of which a limit of one lets the bases together find too many (`crowded`) and a
limit of two shared by two queries a sub-query; the summary has room for two lines, of
which a full one keeps one, so that the third fold cuts. No symmetry is used. About
three million states, in less than four minutes.

## 8. Proofs

Out of the prover's reach, and checked by TLC only: liveness (`turn_live`) and what the
folds of `RetrievalOps` and `DashboardOps` compute for every input. The last part of
this section says what else stays with TLC. The one loop over data that a theorem depends on, the missing facts that
extend a plan, is a recursive function, and its induction is proved by hand (below).

`RealtimeTurn_proofs` proves, for any set of turns, any answer length, both speech
modes and any client:

* `TypeCorrect`: `[]TypeOK`;
* `SignalAvailable`: `[]RunOwnsSignal`;
* `ControllerFresh`: `[]FreshController`;
* `SilentOnceAborted`: the action property `AbortedStaysSilent`.

Assumptions: `NoTurn` and `DrainController` are no turns, `MaxTokens` is a natural
number, the modes are Booleans.

*The argument.* Each pipeline operator gets two lemmas: it keeps the session's type
(with the mode and its calls), and its effect on the fields the invariant speaks
of (a calm step leaves controller and turn alone; a step takes the turn off the
session only together with its controller; a call starts only for the turn that
owns the session, under the controller the session holds). `TypeInv` is `TypeOK`
and that a session uses one pipeline only. It is inductive but does not imply
`RunOwnsSignal`, which is about the controller: that needs `SignalInv`, which also
says that a session's controller belongs to a run and is not aborted, and that a
turn with a live claim on the pipeline has its controller there. `SafeInv` is
their conjunction; each action preserves it by the two lemmas of the operator it
applies, and the four theorems follow from it.

The second part of the module proves, under the same assumptions and for any client,

* `WordsAreOwn`: `[]OwnWords`.

*The argument.* What a turn was given to say is a sequence of tokens; `Piece` says
that a text holds tokens of one turn between two numbers, ascending, and `Chain` that
the queue is made of such pieces, each starting where the one before it ends. A turn's
words are in three places that follow each other: handed to the provider (`spoken`),
queued, and in the buffer. `WordsInv` says that what was spoken is a piece from the first token, and that
for the turn that owns the session queue and buffer go on from there up to the last
token emitted (`Words`). Each pipeline operator takes words to words: `push` and
`shift` of the chain, the buffer appended to the queue, the head handed to the provider
(`Conveys`). A turn that no longer owns the session, or whose synthesis failed, can
only lose text (`Loses`), which leaves a piece with gaps; `exact` tells the two kinds
apart, since the next part needs pieces without gaps.

The third part proves what `turn_paced` checks of a client that waits for
`conversation:start`. Every theorem has the hypothesis `Paced`, a constant of the
model; without it TLC refutes them (section 3):

* `AgentsAlone`: `[]OneAgent`; `AgentReached`: `[]InterruptReachesAgent`;
* `SynthesisSerial`: `[]SerialSynthesis`; `QueueDrained`: `[]QueueHasDrain`;
* `NoDrainSpins`: `[]NeverSpins`;
* `EndIsLast`: `[]EndedIsSilent`; `EndIsWhole`: `[]EndedIsComplete`.

*The argument.* None of the seven is inductive. `PacedInv` has four parts.
`ControlInv`: at most one turn is between its input and its start, it owns the session
and no agent runs beside it; an agent that nobody aborted is the owner's and the
session holds its controller; the flags `ttsStarted` and `ttsFinalizeRequested` are
the owner's. `TtsInv`: every call in flight carries the controller of its own turn; a
live one is the owner's and the drain is marked busy exactly as long as there is one,
so a queue that is not empty has it. The case that makes this hard is the abort that
nobody has noticed yet (`Pending`): until the provider rejects, an aborted call is
still in flight while the session may already have been reset. While that lasts the
session belongs to no turn or to one that has not started (`Fresh`), because a paced
client cannot get further and the next start waits for the event loop to settle.
`EndInv`: the owner has not ended, and what ended without an abort is past its agent.
`CompleteInv`: of a turn nothing failed for no token is missing (`Said` with pieces
that have no gaps), a turn that asked for its end has an empty buffer, and what ended
was handed over completely. A step of the pipeline preserves the four through its own
relations: whom the session belongs to afterwards (`Steers`), what it starts
(`Voices`, `Drains`) and what it conveys. Before the proof TLC checked `PacedInv` as
an invariant of the instance of `turn_paced`.

`DocumentTask_proofs` proves, for any number of requests, deliveries, documents,
batches and crashes:

* `TypeCorrect`: `[]TypeOK`;
* `TaskNeverStuck`: `[]NeverStuck`, with the four exceptions of section 4 and no other.

Assumptions: the base document and null are no new documents, requests and
deliveries are finitely many, the bounds are natural numbers.

*The argument.* `NeverStuck` is not inductive: it counts a run that has settled the
task and waits to be acknowledged. `OwnedInv` names the owners of an unsettled task:
a waiting job, a run that will still write the task (`Working`), or a request that is
about to publish a job (`Publishing`). A step of a run leaves it at work, settles the
task in the same statement, or is the step of a run that has settled it before
(`RunStepOwned`); a request hands over to the queue or fails the task; a crash puts
the jobs of the dead runs back, or some run had settled the task before; where the
queue gives a job up instead, or a failure is not saved, or a request stops too early,
`ignored` says so in the same step.

Its second part builds on that, under the same assumptions:

* `OneAtATime`: one at a time works on a task, be it a job, a run or a request;
* `FailedStaysQuiet`: `[]FailedIsQuiet`;
* `StepsFinishInOrder`: `[]StepsInOrder`;
* `WorkIsKept`: the action property `FinishedWorkKept`.

*The argument.* All four hold while nothing was ignored and no two workers overlap.
The model notes an overlap by counting the claims on the task (`Claims`); `OneInv`
says what the count means: at most one waiting job, one run at work, one request
about to publish, and only one of the three at a time. The cardinalities are met in
the two places that compare the count, a retry and a crash; every other step hands the
one claim over. So a run at work is alone: nobody completes a step behind its back,
and the statuses it read when it began (`skips`) are still those of the steps it has
not come to. `OrderInv` says this for each place of a run (`Placed`): in the parse no
later step is completed, in the index the parse is and the graph is not, and what
clears chunks runs only while the index step is not completed. With nothing written
before the first step rows are (`Unbegun`), this is inductive. `StepsInOrder` is part
of it; `FinishedWorkKept` follows statement by statement, as the only ones that take
chunks away are those of an index step, or a deletion by the user. For `FailedIsQuiet`, who
fails a task is alone and ends with that statement, and a run that comes later sets
the task running before anything else.

`DocumentTaskContent_proofs` goes on from there, under the same assumptions:

* `CompletedTaskIsWhole`: `[]CompletedIsWhole`.

*The argument.* The property speaks of a completed task only; what makes it true was
written many statements earlier, by this run or by one that died. `StatusInv` ties the
status to whoever works: a run that has begun finds the task running, a request what
it has read or written itself, so nobody else completes a task or resets its steps.
`ContentInv` says what the rows hold at every statement between: what each completed
step has stored (`Held`), and for a run at work that it names the document that was
parsed or none (`Names`) and how far it is (`Progress`). In the index step these are
the chunks of exactly the batches before its own, all under its own id, the same in
the database and in the index but for the one statement between the two. A clean-up
is what makes this true again after an attempt that died halfway, and skipping what is
completed is what keeps it. A document that the user deletes takes all of it away at
once: then the parse step names no document.

Its second part proves the two results that rest on all of it:

* `PromiseIsKept`: `KeepsPromise`, that `DocumentTask` implements `IngestTask`;
* `VersionIsCurrent`: `[]VersionSwitched`.

*The argument.* For the refinement every step maps to a step of `IngestTask` or to
none. What is ignored, an overlap or a deletion voids the promise (`Spoilt`), once and
for good. Otherwise only a request and a run set the status, `StatusInv` says from
which one, and the content of the document changes only while the task runs, since
only a run at work past its beginning writes; `CompletedIsWhole` makes the completion
a step of the promise. For the version, `VersionInv` says of a version that nobody has
retried: every waiting job and every run names the version group (only a retry's job
does not), every document there is belongs to that group, and at each of the four
statements of the switch the flags and the index are as far as the statements before
it have brought them (`SwitchHolds`). A crash between two of them puts back a job of
the same kind, whose run starts with the first statement again.

`RagGraph_proofs` proves, for any profiles, models, attempts and web searches:

* `SpecTyped`: `[]TypeOK`; `SpecReserves`: `[]AnswerReserved`;
* `SpecFits`: `[]NoRecursionError`;
* `SpecSearchesOnce`: `[]HopsDistinct`;
* `SpecAssesses`: `[]AssessedEvidence`;
* `SpecLateQuiet`: the action property `LateSearchesNothing`;
* `SpecKeepsPromise`: `RagGraph` implements `AgentRun`.

Assumptions: the profiles' numbers are naturals and their hops and calls positive;
a plan of the planner is a list that is not empty and names nothing twice
(`normalizeSubQuestions` passes it through a `Set`,
`agent/services/multi-hop-planner.service.ts:128`), and missing facts are a list; and
`3 * maxHops + 2 * MaxWeb + 6 < StepLimit` for every profile. The last is the
condition the code meets without saying so: the deepest profile has
`12 + 4 + 6 = 22`, under LangGraph's 25. One more hop would break it, and a
profile with five hops needs another limit.

*The argument.* `NoRecursionError` needs a measure: at each node, the supersteps so
far are at most a constant of the node plus three for each hop and two for each web
search (`StepsInv`), and a hop or a web search begins only where there is one left.
The case that spoils the simple measure is a budget that is found exhausted before a
hop: three supersteps that make no hop. `InHop` has it as its second disjunct, with
the exhaustion itself, which lasts, so that the evaluation that follows ends the
search. `CitedInv` says the client holds the evidence except between a hop and its
reranking; it makes the refinement's `Answer` step true. `AssessedInv` names what
each node after the evaluation knows. `SafeInv` is their conjunction with the type
invariant, and every action keeps it by a lemma of its own; the retries and the ways
to end a hop share one each.

`HopsDistinct` has an invariant of its own. `SearchedInv` says that the plan names
nothing twice and that the queries searched so far are its first entries, one for each
hop (`Begun`); `next` and `hop` are the same number. Only the evaluation changes a
plan under a run, and it appends. What it appends is `Additions`: `AdditionsFresh`
proves that these have keys that neither the plan nor the history has, each once,
whatever facts the model names. The library's induction theorems cannot be used for
that, so `UpTo` states induction for a set of numbers and proves it from its least
missing member, and `Iterates` builds the function that the recursion defines, step by
step. The theorem asks nothing of the text itself: two texts may share a key and still
differ, in a plan too.

### The components of section 6

Three modules hold the invariants of the components, a theorem for each of those that
are proved under the component's own specification; `Components_proofs` carries them into the joined run
and states what `components` checks, for every value of the constants:

| theorem of `Components_proofs` | property of the run | rests on |
|---|---|---|
| `ComponentsServeFresh` | `MCFreshResult` | `CacheServesFresh` |
| `ComponentsAbortTheirOwn` | `MCAbortIsOwn` | `CacheAbortIsOwn` |
| `ComponentsKeepSurvivors` | `MCSurvivorsKept` | `SearchKeepsSurvivors` |
| `ComponentsOrphanNothing` | `MCNothingOrphaned` | `ChatOrphansNothing` |
| `ComponentsMediaInStep` | `MCMediaInStep` | `MicrophoneMatchesState`, `PlaybackPlaysItsTurn`, `SpeechIsHeardOnce` |
| `ComponentsRememberOneStory` | `MCLogAndMemoryAgree` | `TalkLogAndMemory`, `RecordsKept`, `EvalEditsStand` |
| `ComponentsAgreeOnAccess` | `MCAccessAgrees` | `AccessIsTheSame`, `AccountsAsAsked` |

A step of `MCComponents` is a step of the component that was chosen at the start
(`CacheMoves` and its like), so the invariant of that component holds throughout.

Assumptions, named in the modules: bounds are natural numbers; the limits of a page,
a window or a list are positive where the code has them positive; `NoDoc` is no
document and `NoPersona` no persona; there is a user and chunks are finitely many
(`CacheSomebody`, `FoundIsFinite`); a full summary has room for what it keeps and what
it takes (`TalkCounts`); the limits of a search and the number of its bases and queries
are positive (`LimitsAreCounts`); who makes memories is a user (`MakersAreUsers`).

`Retrieval_proofs`. *The cache.* `FreshResult` speaks of an answer; why it holds is
older than the request. The danger is a result computed before a change, kept under a
tag that is still the present one after it. `CacheInv` therefore says what a tag
promises: a kept result or a shared search under the present revision holds nothing
that is hidden, and for every two requests, one of which may take the result of the
other (`PairsInv`), what the first must not see the second does not bring. A request
that has read the revision is promised the same of everything under it, before it
knows which of them it will take (`Past`). The exceptions are those the property
names: Redis that lost the counters, a clock that went back, two operators of a change
that crossed. `CacheAbortIsOwn` needs only who left a shared search. *One search.*
`KeptInv` follows what a channel returned through the stages: from the sub-queries
into what each base found, from there into the chunks of the answer; a failure takes
away the part of its own sub-query or base only. That a cut which has room for all
keeps all is a fact about finite sets, proved there; so is that a base which keeps no
more than its share keeps every channel of a chunk. The report of each base is tied to
who answered it in the same way.

`Conversation_proofs`. *The session.* `ChatInv` ties the handlers that run
(`HandlerInv`), the sockets and the index (`SocketInv`) together: a handler past its
first await has the session it will write into, and two handlers of one socket are
told apart unless the overlap was noted in `astray`. *The microphone.* `TakeOK` gives
each take one of its places, asked for, on or stopping, and `MicInv` adds the state of
the page: recording needs one of them (`Busy`), which every event must hand on. *Playback.* `AudioOK` splits the frames of a turn into those on
the wire, being decoded, queued, buffered, played and missed; `QueueOK` keeps the
queue ascending and past what was played, which is what makes "each once and in order"
inductive across turns. *Speech.* What was heard is what came before the WebSocket
was left, then the frames that came since, up to where the call is.
*Memory.* `ContentOK` says of a turn between its push and its trim that what will be
trimmed is in the summary or in its hand; `age` places each remembered message in the
summary counted from its end, which a fold shifts by what it takes and a cut leaves
for the last `KeepHead`; `NumbersOK` that two turns are not between
the read of a number and its insert, unless noted. *Long-term memories.* The ids in use
are `1..n`; a record leaves only under a delete that names it. That a list holds as
many as its limit allows needs a fact about finite sets, proved there: of a set with
distinct ranks exactly `n` rank below `n`.

`Records_proofs`. *Access.* `RulesInv` says what the metadata of the index holds of a
document's rules; that list, index and check then agree (`RulesAgree`) is a lemma
about the three predicates for every user, role and department. *Accounts.* `RowOK`:
a row differs from what was agreed only in the fields a save put back, and a save that
is under way (`RequestOK`) holds the row it read. *Evaluation.* `HandOK` says a
request writes the row it read, and a row that changed since is `behind` for it;
a case that runs is in someone's hand. *Health.* `HealthInv` ties what a probe has read
to the clock of the worker's heartbeat and to who was seen down since the check began.
*Sign-in.* `SignInv` follows the token from the answer of a sign-in through the storage
to the tabs; an answer under way belongs to the present sign-in or is `late`. *Uploads.*
`FileInStep` gives each file of a submission the stage that its loop has reached.

`HealthHonest`, `SignInShows`, `UploadsLandWhereSent` and, in `Retrieval_proofs`,
`EsReadsWhatItWrites` (the two aliases name one and the same version whatever instances
start, fail and retry and operators move) prove conjuncts of `MCStoresFollow` and
`MCPageShowsItsSession`, under the components' own specifications.

### What stays with TLC

* Liveness (`turn_live`), and the runs that expect a violation.
* `MCStepsMatchReference`: the operators of `RetrievalOps` and `DashboardOps` against
  their definitions. They are folds over sequences; for every input that is an
  induction over data.
* `MCStoresFollow` and `MCPageShowsItsSession`. Each joins five and six components, several of
  which (the graph store, the library, the console, the chat page) except what the
  code is known to leave behind by recording its whole history; their invariants have
  not been found.
* `ComponentsTypeOK` as a whole, for the same reason; of the components proved above
  the type is part of the invariant.

## 9. Not modelled

Prompts, provider protocols, the AI SDK's stream and the bodies of Elasticsearch
mappings are external: the models take their answers as they come. Extraction of
text from files, layout of pages, charts and digital-human rendering decide nothing
the properties tell apart. Left out although they keep state: notifications, the department tree, prompts, document filters of a search, the embedding cache, presigned URLs, hot questions and recent lists of the
dashboard. `PROJECT.json` gives the reason for each component.

Hazards the models meet in passing and no property states: the `turnId` of an
interrupted event is the client's (`gateway/handlers/interrupt.handler.ts:39`); a retry resets completed steps though the plan
says it skips them (`:312`); the last write of the index try may fail on a task
whose step is completed (`document-task-runner.service.ts:315`).
