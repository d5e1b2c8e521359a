---------------------------- MODULE DocumentTask ----------------------------
(***************************************************************************)
(* One ingest task of an uploaded file: the requests that create and retry *)
(* it, the queue, the worker's runs over the three steps parse, index and  *)
(* graph_sync, the document with its chunks and its index, a user who      *)
(* deletes the document, and crashes of the worker.                        *)
(*                                                                         *)
(* Every statement sent to the database or to the search index is an       *)
(* action, and so is the failure of one.  Nothing is atomic across two     *)
(* statements.  A stage or a progress percentage is not kept.              *)
(* A worker that dies is found out at once: it does not come back while     *)
(* the queue delivers its jobs to another.                                  *)
(***************************************************************************)
EXTENDS Naturals, FiniteSets

CONSTANTS
  Requests,     \* HTTP requests on the task: one creates it, others retry it
  Runs,         \* deliveries of its jobs to the worker
  Docs,         \* ids of the documents its runs may create
  Base,         \* the document that a version upload is based on
  NoDoc,        \* null
  Batches,      \* batches of chunks of the parsed file
  Concurrency,  \* DOCUMENT_QUEUE_CONCURRENCY
  MaxCrashes,   \* bound: crashes of the worker
  MaxDeletes,   \* bound: documents the user deletes
  MaxIgnored    \* bound: failures that the code logs and ignores

ASSUME NamesAssumption == Base \notin Docs /\ NoDoc \notin Docs \cup {Base}
ASSUME RunsAssumption == IsFiniteSet(Runs)
ASSUME RequestsAssumption == IsFiniteSet(Requests)
ASSUME BoundsAssumption ==
  /\ Batches \in Nat \ {0}
  /\ Concurrency \in Nat \ {0}
  /\ MaxCrashes \in Nat
  /\ MaxDeletes \in Nat
  /\ MaxIgnored \in Nat

VARIABLES
  task,       \* the document_task row
  steps,      \* the status of its document_task_step rows
  parsed,     \* document_id of the parse step
  documents,  \* the knowledge_document rows with what refers to them
  es,         \* the chunks of each document in the search index
  queue,      \* jobs waiting, by whether their data names a version group
  stalled,    \* how many of those were delivered before and stalled
  request,    \* where each request stands
  run,        \* where each run stands, and its local variables
  deleting,   \* the document whose index is clean and whose row goes next
  crashes,    \* crashes of the worker so far
  ignored     \* history: what was logged and ignored, or went out of order

vars == <<task, steps, parsed, documents, es, queue, stalled, request, run,
          deleting, crashes, ignored>>

Step == {"parse", "index", "graph_sync"}
StepStatus == {"absent", "pending", "running", "completed", "failed"}
TaskStatus == {"absent", "pending", "running", "completed", "failed"}
AllDocs == Docs \cup {Base}
Chunk == (Runs \cup {Base}) \X (1 .. Batches)

Document ==
  [row : {"absent", "present", "deleted"},
   status : {"processing", "completed", "failed"},
   assets : Nat,
   chunks : SUBSET Chunk,
   graph : {"pending", "indexed", "failed"},
   inGroup : BOOLEAN,
   current : BOOLEAN]

InTry == {"create", "clear assets", "save assets", "clear chunks", "clear es",
          "insert", "upsert", "publish", "pending graph",
          "sync graph", "finish", "bind"}
InCatch == {"catch document", "catch step", "catch task"}
OutsideTry == {"load task", "load steps", "begin", "start", "demote",
               "promote", "clear others", "reindex", "complete"}
Working == InTry \cup OutsideTry \cup InCatch \cup {"fail task"}
Ending == {"fail steps", "ack"}

Run == [at : Working \cup Ending \cup {"idle", "gone"},
        step : Step,
        documentId : Docs \cup {NoDoc},
        skips : SUBSET Step,
        batch : 1 .. Batches,
        versioned : BOOLEAN,
        again : BOOLEAN]

Request == [at : {"idle", "save steps", "reset task", "reset steps", "add",
                  "fail task", "fail steps", "done"},
            retries : BOOLEAN,
            versioned : BOOLEAN]

TypeOK ==
  /\ task \in [status : TaskStatus, documentId : Docs \cup {NoDoc}]
  /\ steps \in [Step -> StepStatus]
  /\ parsed \in Docs \cup {NoDoc}
  /\ documents \in [AllDocs -> Document]
  /\ es \in [AllDocs -> SUBSET Chunk]
  /\ queue \in [BOOLEAN -> Nat]
  /\ stalled \in [BOOLEAN -> Nat]
  /\ request \in [Requests -> Request]
  /\ run \in [Runs -> Run]
  /\ deleting \in Docs \cup {NoDoc}
  /\ crashes \in 0 .. MaxCrashes
  /\ ignored \subseteq {"steps", "register", "clean-up", "index", "overlap",
                         "abandoned", "unsaved", "stalled"}

NoDocument == [row |-> "absent", status |-> "processing", assets |-> 0,
               chunks |-> {}, graph |-> "pending", inGroup |-> FALSE,
               current |-> FALSE]
NoRun(at) == [at |-> at, step |-> "parse", documentId |-> NoDoc, skips |-> {},
              batch |-> 1, versioned |-> FALSE, again |-> FALSE]
BaseChunks == {Base} \X (1 .. Batches)

Init ==
  /\ task = [status |-> "absent", documentId |-> NoDoc]
  /\ steps = [s \in Step |-> "absent"]
  /\ parsed = NoDoc
  /\ documents = [d \in AllDocs |->
       IF d = Base THEN [row |-> "present", status |-> "completed", assets |-> 1,
                         chunks |-> BaseChunks, graph |-> "indexed",
                         inGroup |-> TRUE, current |-> TRUE]
                   ELSE NoDocument]
  /\ es = [d \in AllDocs |-> IF d = Base THEN BaseChunks ELSE {}]
  /\ queue = [v \in BOOLEAN |-> 0]
  /\ stalled = [v \in BOOLEAN |-> 0]
  /\ request = [q \in Requests |->
                  [at |-> "idle", retries |-> FALSE, versioned |-> FALSE]]
  /\ run = [r \in Runs |-> NoRun("idle")]
  /\ deleting = NoDoc
  /\ crashes = 0
  /\ ignored = {}

-----------------------------------------------------------------------------
Present(d) == d # NoDoc /\ documents[d].row = "present"
Active == {r \in Runs : run[r].at \notin {"idle", "gone"}}

(* Who is at work on the task: waiting jobs, runs that have not ended, and  *)
(* requests that are about to publish a job.  More than one is an overlap.  *)
Publishing == {"save steps", "reset task", "reset steps", "add", "fail task"}
Claims ==
  queue[TRUE] + queue[FALSE]
    + Cardinality({r \in Runs : run[r].at \in Working})
    + Cardinality({q \in Requests : request[q].at \in Publishing})

(* A failure is logged and ignored; the bound limits how many there are.    *)
Ignores(what) ==
  /\ Cardinality(ignored) < MaxIgnored
  /\ ignored' = ignored \cup {what}

NotesOverlap(claims) ==
  ignored' = IF claims > 1 THEN ignored \cup {"overlap"} ELSE ignored

(* DocumentTaskService.markTaskFailed, in two statements. *)
TaskFails == task' = [task EXCEPT !.status = "failed"]
RunningStepsFail ==
  steps' = [s \in Step |-> IF steps[s] = "running" THEN "failed" ELSE steps[s]]

-----------------------------------------------------------------------------
(* DocumentTaskService: the requests. *)

RequestAt(q, at) == request[q].at = at
RequestGoes(q, at) == request' = [request EXCEPT ![q].at = at]

(* createUploadIngestTask, once the file is in the object storage. *)
SaveTask(q, versioned) ==
  /\ RequestAt(q, "idle")
  /\ task.status = "absent"
  /\ task' = [task EXCEPT !.status = "pending"]
  /\ request' = [request EXCEPT ![q].at = "save steps",
                                ![q].versioned = versioned]
  /\ UNCHANGED <<steps, queue, ignored>>

SaveSteps(q) ==
  /\ RequestAt(q, "save steps")
  /\ steps' = [s \in Step |-> "pending"]
  /\ RequestGoes(q, "add")
  /\ UNCHANGED <<task, queue, ignored>>

(* Outside the try of the enqueue: the task stays pending, without a job. *)
WriteStepsFails(q) ==
  /\ request[q].at \in {"save steps", "reset steps"}
  /\ Ignores("steps")
  /\ RequestGoes(q, "done")
  /\ UNCHANGED <<task, steps, queue>>

(* Mutant: any task may be retried. *)
RetryAlways(q) ==
  /\ RequestAt(q, "idle")
  /\ task.status # "absent"
  /\ request' = [request EXCEPT ![q].at = "reset task", ![q].retries = TRUE]
  /\ NotesOverlap(Claims + 1)
  /\ UNCHANGED <<task, steps, queue>>

(* retryTask, on the status it has read. *)
RetryAllowed(q) ==
  /\ RequestAt(q, "idle")
  /\ task.status = "failed"
  /\ request' = [request EXCEPT ![q].at = "reset task", ![q].retries = TRUE]
  /\ NotesOverlap(Claims + 1)
  /\ UNCHANGED <<task, steps, queue>>

ResetTask(q) ==
  /\ RequestAt(q, "reset task")
  /\ task' = [task EXCEPT !.status = "pending"]
  /\ RequestGoes(q, "reset steps")
  /\ UNCHANGED <<steps, queue, ignored>>

(* Mutant: the retry starts over with the parse only. *)
ResetParse(q) ==
  /\ RequestAt(q, "reset steps")
  /\ steps' = [steps EXCEPT !["parse"] = "pending"]
  /\ RequestGoes(q, "add")
  /\ UNCHANGED <<task, queue, ignored>>

ResetSteps(q) ==
  /\ RequestAt(q, "reset steps")
  /\ steps' = [s \in Step |-> "pending"]
  /\ RequestGoes(q, "add")
  /\ UNCHANGED <<task, queue, ignored>>

(* enqueueParseAndIndexJob.  A retry sends metadata.upload, which names no  *)
(* version group.                                                           *)
AddJob(q) ==
  /\ RequestAt(q, "add")
  /\ queue' = [queue EXCEPT ![request[q].versioned] = @ + 1]
  /\ RequestGoes(q, "done")
  /\ UNCHANGED <<task, steps, ignored>>

AddJobFails(q) ==
  /\ RequestAt(q, "add")
  /\ RequestGoes(q, "fail task")
  /\ UNCHANGED <<task, steps, queue, ignored>>

(* The job is in the queue, but its id is not in the task: the request      *)
(* treats it as not published.                                              *)
RegisterJobFails(q) ==
  /\ RequestAt(q, "add")
  /\ Ignores("register")
  /\ queue' = [queue EXCEPT ![request[q].versioned] = @ + 1]
  /\ RequestGoes(q, "fail task")
  /\ UNCHANGED <<task, steps>>

(* The process dies, or a statement that nothing catches fails: the reset   *)
(* of a retry, or the marking of the task after a job was not published.    *)
RequestStops(q) ==
  /\ request[q].at \in Publishing \cup {"fail steps"}
  /\ IF request[q].at \in {"reset task", "fail steps"}
     THEN UNCHANGED ignored ELSE Ignores("abandoned")
  /\ RequestGoes(q, "done")
  /\ UNCHANGED <<task, steps, queue>>

RequestFailsTask(q) ==
  /\ RequestAt(q, "fail task")
  /\ TaskFails
  /\ RequestGoes(q, "fail steps")
  /\ UNCHANGED <<steps, queue, ignored>>

RequestFailsSteps(q) ==
  /\ RequestAt(q, "fail steps")
  /\ RunningStepsFail
  /\ RequestGoes(q, "done")
  /\ UNCHANGED <<task, queue, ignored>>

-----------------------------------------------------------------------------
(* DocumentTaskWorkerService and DocumentTaskRunnerService.                 *)

RunAt(r, at) == run[r].at = at
StepAt(r, step, at) == run[r].step = step /\ run[r].at = at
RunGoes(r, at) == run' = [run EXCEPT ![r].at = at]
(* Its local variables are not read again. *)
RunEnds(r, at) ==
  run' = [run EXCEPT ![r] = [NoRun(at) EXCEPT !.versioned = run[r].versioned,
                                              !.again = run[r].again]]

(* Of the variables a run writes, the statement changes these only.         *)
OnlyRun       == UNCHANGED <<task, steps, parsed, documents, es, queue, stalled, ignored>>
OnlyTask      == UNCHANGED <<steps, parsed, documents, es, queue, stalled, ignored>>
OnlySteps     == UNCHANGED <<task, parsed, documents, es, queue, stalled, ignored>>
OnlyDocuments == UNCHANGED <<task, steps, parsed, es, queue, stalled, ignored>>
OnlyEs        == UNCHANGED <<task, steps, parsed, documents, queue, stalled, ignored>>
OnlyIgnored   == UNCHANGED <<task, steps, parsed, documents, es, queue, stalled>>

(* Where the local state x of a run goes on: a completed step is skipped.   *)
EnterVersion(x) == [x EXCEPT !.at = IF x.versioned THEN "demote" ELSE "complete"]

EnterGraph(x) ==
  IF "graph_sync" \in x.skips
  THEN EnterVersion(x)
  ELSE [x EXCEPT !.step = "graph_sync", !.at = "start"]

(* Mutant: whatever was done before is done again. *)
EnterIndexAnyway(x) ==
  IF x.documentId = NoDoc
  THEN [x EXCEPT !.at = "fail task"]
  ELSE [x EXCEPT !.step = "index", !.at = "start"]

EnterIndex(x) ==
  CASE x.documentId = NoDoc -> [x EXCEPT !.at = "fail task"]
    [] x.documentId # NoDoc /\ "index" \in x.skips -> EnterGraph(x)
    [] OTHER -> [x EXCEPT !.step = "index", !.at = "start"]

EnterParse(x) ==
  IF "parse" \in x.skips
  THEN EnterIndex(x)
  ELSE [x EXCEPT !.step = "parse", !.at = "start"]

(* The job is a new one, or one that stalled before. *)
Deliver(r, versioned) ==
  /\ RunAt(r, "idle")
  /\ queue[versioned] > 0
  /\ Cardinality(Active) < Concurrency
  /\ queue' = [queue EXCEPT ![versioned] = @ - 1]
  /\ \E again \in BOOLEAN :
       /\ IF again THEN /\ stalled[versioned] > 0
                        /\ stalled' = [stalled EXCEPT ![versioned] = @ - 1]
                   ELSE stalled[versioned] < queue[versioned] /\ UNCHANGED stalled
       /\ run' = [run EXCEPT ![r].at = "load task", ![r].versioned = versioned,
                              ![r].again = again]
  /\ UNCHANGED <<task, steps, parsed, documents, es, ignored>>

LoadTask(r) ==
  /\ RunAt(r, "load task")
  /\ run' = [run EXCEPT ![r].at = "load steps", ![r].documentId = task.documentId]
  /\ OnlyRun

(* The statuses that decide what is skipped are read once, here; the        *)
(* document is that of a parse that is skipped.                             *)
LoadSteps(r) ==
  /\ RunAt(r, "load steps")
  /\ run' = [run EXCEPT ![r].at = "begin",
       ![r].skips = {s \in Step : steps[s] = "completed"},
       ![r].documentId = IF steps["parse"] = "completed" THEN parsed ELSE @]
  /\ OnlyRun

Begin(r) ==
  /\ RunAt(r, "begin")
  /\ task' = [task EXCEPT !.status = "running"]
  /\ run' = [run EXCEPT ![r] = EnterParse(@)]
  /\ OnlyTask

(* updateStep running, before the try of the step. *)
StartStep(r) ==
  /\ RunAt(r, "start")
  /\ steps' = [steps EXCEPT ![run[r].step] = "running"]
  /\ RunGoes(r, CASE run[r].step = "parse" -> "create"
                   [] run[r].step = "index" -> "clear chunks"
                   [] run[r].step = "graph_sync" -> "pending graph")
  /\ OnlySteps

(* An UPDATE finds nothing to do when the row is gone. *)
Updated(d, new) ==
  IF Present(d) THEN [documents EXCEPT ![d] = new] ELSE documents

(* A statement of a step on its document, of which only fields change.      *)
OnDocument(r, at, new, next) ==
  /\ RunAt(r, at)
  /\ documents' = Updated(run[r].documentId, new)
  /\ RunGoes(r, next)
  /\ OnlyDocuments

(* The file is parsed and its Markdown stored; createDocument unless the    *)
(* task names a document.                                                   *)
CreateDocument(r, d) ==
  /\ RunAt(r, "create")
  /\ run[r].documentId = NoDoc
  /\ documents[d].row = "absent"
  /\ documents' = [documents EXCEPT ![d] =
       [NoDocument EXCEPT !.row = "present", !.inGroup = run[r].versioned,
                          !.current = TRUE]]
  /\ run' = [run EXCEPT ![r].documentId = d, ![r].at = "clear assets"]
  /\ OnlyDocuments

(* A document without a version group is saved again with its own id as the *)
(* group: if that fails the run does not know of the document.              *)
NameGroupFails(r, d) ==
  /\ RunAt(r, "create")
  /\ run[r].documentId = NoDoc
  /\ ~run[r].versioned
  /\ documents[d].row = "absent"
  /\ documents' = [documents EXCEPT ![d] =
       [NoDocument EXCEPT !.row = "present", !.current = TRUE]]
  /\ RunGoes(r, "catch document")
  /\ OnlyDocuments

KeepDocument(r) ==
  /\ RunAt(r, "create")
  /\ run[r].documentId # NoDoc
  /\ RunGoes(r, "clear assets")
  /\ OnlyRun

MyDocument(r) == documents[run[r].documentId]

ClearAssets(r) ==
  OnDocument(r, "clear assets", [MyDocument(r) EXCEPT !.assets = 0], "save assets")

(* Refused by the foreign key once the document is deleted. *)
SaveAssets(r) ==
  /\ Present(run[r].documentId)
  /\ OnDocument(r, "save assets", [MyDocument(r) EXCEPT !.assets = @ + 1], "finish")

(* updateStep completed; the foreign key again.  The parse step takes the   *)
(* document with its status, the task learns of it in a later statement.    *)
FinishStep(r) ==
  /\ RunAt(r, "finish")
  /\ Present(run[r].documentId)
  /\ steps' = [steps EXCEPT ![run[r].step] = "completed"]
  /\ parsed' = IF run[r].step = "parse" THEN run[r].documentId ELSE parsed
  /\ run' = [run EXCEPT ![r] =
       IF run[r].step = "graph_sync" THEN EnterVersion(@)
                                     ELSE [@ EXCEPT !.at = "bind"]]
  /\ UNCHANGED <<task, documents, es, queue, stalled, ignored>>

(* updateTask with the checkpoint, the last statement of the try. *)
BindParse(r) ==
  /\ StepAt(r, "parse", "bind")
  /\ Present(run[r].documentId)
  /\ task' = [task EXCEPT !.documentId = run[r].documentId]
  /\ run' = [run EXCEPT ![r] = EnterIndex(@)]
  /\ OnlyTask

BindIndex(r) ==
  /\ StepAt(r, "index", "bind")
  /\ run' = [run EXCEPT ![r] = EnterGraph(@)]
  /\ OnlyRun

-----------------------------------------------------------------------------
(* KnowledgeDocumentService.indexDocumentChunks, in the try of index.       *)

(* Mutant: the chunks of an earlier attempt stay. *)
ClearNoChunks(r) ==
  /\ Present(run[r].documentId)
  /\ OnDocument(r, "clear chunks", MyDocument(r), "clear es")

(* findOneDocument has found the row. *)
ClearChunks(r) ==
  /\ Present(run[r].documentId)
  /\ OnDocument(r, "clear chunks", [MyDocument(r) EXCEPT !.chunks = {}], "clear es")

ClearEs(r) ==
  /\ RunAt(r, "clear es")
  /\ es' = [es EXCEPT ![run[r].documentId] = {}]
  /\ run' = [run EXCEPT ![r].at = "insert"]
  /\ OnlyEs

(* A failing clean-up is logged: the rest of it is skipped.                 *)
CleanUpFails(r) ==
  /\ run[r].at \in {"clear chunks", "clear es"}
  /\ Ignores("clean-up")
  /\ run' = [run EXCEPT ![r].at = "insert"]
  /\ OnlyIgnored

InsertBatch(r) ==
  /\ Present(run[r].documentId)
  /\ OnDocument(r, "insert",
       [MyDocument(r) EXCEPT !.chunks = @ \cup {<<r, run[r].batch>>}], "upsert")

AfterBatch(x) ==
  IF x.batch = Batches THEN [x EXCEPT !.at = "publish", !.batch = 1]
                       ELSE [x EXCEPT !.at = "insert", !.batch = @ + 1]

UpsertBatch(r) ==
  /\ RunAt(r, "upsert")
  /\ es' = [es EXCEPT ![run[r].documentId] = @ \cup {<<r, run[r].batch>>}]
  /\ run' = [run EXCEPT ![r] = AfterBatch(@)]
  /\ OnlyEs

UpsertFails(r) ==
  /\ RunAt(r, "upsert")
  /\ Ignores("index")
  /\ run' = [run EXCEPT ![r] = AfterBatch(@)]
  /\ OnlyIgnored

Publish(r) ==
  OnDocument(r, "publish", [MyDocument(r) EXCEPT !.status = "completed"], "finish")

(* syncGraphOnly: an extraction that fails is a result, not an error.       *)
PendingGraph(r) ==
  /\ Present(run[r].documentId)
  /\ OnDocument(r, "pending graph", [MyDocument(r) EXCEPT !.graph = "pending"],
                "sync graph")

SyncGraph(r, result) ==
  OnDocument(r, "sync graph", [MyDocument(r) EXCEPT !.graph = result], "finish")

-----------------------------------------------------------------------------
(* setCurrentDocumentVersion, outside any try of the runner. *)

GroupOf(d) ==
  IF documents[d].inGroup
  THEN {e \in AllDocs : Present(e) /\ documents[e].inGroup} ELSE {d}

(* Mutant: the others keep the flag. *)
DemoteNothing(r) ==
  /\ RunAt(r, "demote")
  /\ Present(run[r].documentId)
  /\ RunGoes(r, "promote")
  /\ UNCHANGED documents
  /\ OnlyDocuments

Demote(r) ==
  /\ RunAt(r, "demote")
  /\ Present(run[r].documentId)
  /\ documents' = [d \in AllDocs |->
       IF d \in GroupOf(run[r].documentId)
       THEN [documents[d] EXCEPT !.current = FALSE] ELSE documents[d]]
  /\ RunGoes(r, "promote")
  /\ OnlyDocuments

Promote(r) ==
  OnDocument(r, "promote", [MyDocument(r) EXCEPT !.current = TRUE], "clear others")

ClearOthers(r) ==
  /\ RunAt(r, "clear others")
  /\ es' = [d \in AllDocs |->
       IF d \in GroupOf(run[r].documentId) \ {run[r].documentId}
       THEN {} ELSE es[d]]
  /\ RunGoes(r, "reindex")
  /\ OnlyEs

(* Ends with a findOneByOrFail. *)
Reindex(r) ==
  /\ RunAt(r, "reindex")
  /\ Present(run[r].documentId)
  /\ es' = [es EXCEPT ![run[r].documentId] = @ \cup MyDocument(r).chunks]
  /\ RunGoes(r, "complete")
  /\ OnlyEs

(* What the search index refuses is logged. *)
SwitchIndexFails(r) ==
  /\ run[r].at \in {"clear others", "reindex"}
  /\ Ignores("index")
  /\ RunGoes(r, IF RunAt(r, "clear others") THEN "reindex" ELSE "complete")
  /\ OnlyIgnored

(* Mutant: a status that nobody knows. *)
CompleteOddly(r) ==
  /\ RunAt(r, "complete")
  /\ task' = [task EXCEPT !.status = "done"]
  /\ RunEnds(r, "ack")
  /\ OnlyTask

Complete(r) ==
  /\ RunAt(r, "complete")
  /\ task' = [task EXCEPT !.status = "completed"]
  /\ RunEnds(r, "ack")
  /\ OnlyTask

-----------------------------------------------------------------------------
(* Errors. *)

(* Parser, storage, embedding, foreign key or database: what is in the try  *)
(* of a step goes to its catch, the rest, and what fails in such a catch,   *)
(* to the catch of the worker.                                              *)
Throws(r) ==
  /\ run[r].at \in Working \ {"fail task"}
  /\ IF run[r].at \in InTry THEN RunGoes(r, "catch document")
                           ELSE RunEnds(r, "fail task")
  /\ OnlyRun

(* Mutant: the task fails before the step is marked. *)
CatchDocumentFailsTask(r) ==
  /\ RunAt(r, "catch document")
  /\ TaskFails
  /\ RunGoes(r, "catch step")
  /\ OnlyTask

(* markDocumentFailed, or markDocumentGraphFailed. *)
CatchDocument(r) ==
  /\ RunAt(r, "catch document")
  /\ documents' =
       Updated(run[r].documentId,
               IF run[r].step = "graph_sync"
               THEN [MyDocument(r) EXCEPT !.graph = "failed"]
               ELSE [MyDocument(r) EXCEPT !.status = "failed"])
  /\ RunGoes(r, "catch step")
  /\ OnlyDocuments

(* A failing graph_sync does not fail the task. *)
CatchStep(r) ==
  /\ RunAt(r, "catch step")
  /\ steps' = [steps EXCEPT ![run[r].step] = "failed"]
  /\ run' = [run EXCEPT ![r] =
       IF run[r].step = "graph_sync" THEN EnterVersion(@)
                                     ELSE [@ EXCEPT !.at = "catch task"]]
  /\ OnlySteps

(* Mutant: the task is left as it is. *)
CatchTaskSilently(r) ==
  /\ RunAt(r, "catch task")
  /\ UNCHANGED task
  /\ RunEnds(r, "ack")
  /\ OnlyTask

(* The runner returns: the queue takes the job for done. *)
CatchTask(r) ==
  /\ RunAt(r, "catch task")
  /\ TaskFails
  /\ RunEnds(r, "ack")
  /\ OnlyTask

RunFailsTask(r) ==
  /\ RunAt(r, "fail task")
  /\ TaskFails
  /\ RunEnds(r, "fail steps")
  /\ OnlyTask

RunFailsSteps(r) ==
  /\ RunAt(r, "fail steps")
  /\ RunningStepsFail
  /\ RunEnds(r, "ack")
  /\ OnlySteps

(* A write of markTaskFailed fails: the job fails, for the queue, and the   *)
(* task or its steps stay as they are.                                      *)
FailureUnsaved(r) ==
  /\ run[r].at \in {"fail task", "fail steps"}
  /\ IF RunAt(r, "fail steps") THEN UNCHANGED ignored ELSE Ignores("unsaved")
  /\ RunEnds(r, "ack")
  /\ OnlyIgnored

(* Completed or failed, the job leaves the queue: it has one attempt only.  *)
Acknowledge(r) ==
  /\ RunAt(r, "ack")
  /\ run' = [run EXCEPT ![r] = NoRun("gone")]
  /\ OnlyRun

(* The worker dies; the queue finds its jobs stalled.  It delivers them anew *)
(* but gives a job up that stalls a second time (maxStalledCount is 1).     *)
Recovered(v) == {r \in Active : run[r].versioned = v /\ ~run[r].again}
GivenUp == {r \in Active : run[r].again /\ run[r].at \in Working}
Crash ==
  /\ crashes < MaxCrashes
  /\ Active # {}
  /\ crashes' = crashes + 1
  /\ queue' = [v \in BOOLEAN |-> queue[v] + Cardinality(Recovered(v))]
  /\ stalled' = [v \in BOOLEAN |-> stalled[v] + Cardinality(Recovered(v))]
  /\ run' = [r \in Runs |->
       IF r \in Active THEN NoRun("gone") ELSE run[r]]
  /\ UNCHANGED <<task, steps, parsed, documents, es, request, deleting>>
  /\ ignored' = ignored \cup (IF Claims' > 1 THEN {"overlap"} ELSE {})
                         \cup (IF GivenUp # {} THEN {"stalled"} ELSE {})

(* KnowledgeDocumentService.deleteDocument, by a user, in two statements.   *)
DeleteFromIndex(d) ==
  /\ deleting = NoDoc
  /\ Present(d)
  /\ Cardinality({e \in Docs : documents[e].row = "deleted"}) < MaxDeletes
  /\ \/ es' = [es EXCEPT ![d] = {}] /\ UNCHANGED ignored
     \/ Ignores("index") /\ UNCHANGED es
  /\ deleting' = d
  /\ UNCHANGED <<task, steps, parsed, documents, queue, stalled, request, run, crashes>>

(* Chunks and assets go by cascade, references become null. *)
DeleteRow ==
  /\ deleting # NoDoc
  /\ documents' = [documents EXCEPT ![deleting] =
       [NoDocument EXCEPT !.row = "deleted",
                          !.inGroup = documents[deleting].inGroup]]
  /\ task' = [task EXCEPT !.documentId = IF @ = deleting THEN NoDoc ELSE @]
  /\ parsed' = IF parsed = deleting THEN NoDoc ELSE parsed
  /\ deleting' = NoDoc
  /\ UNCHANGED <<steps, es, queue, stalled, request, run, crashes, ignored>>

-----------------------------------------------------------------------------
RequestStep ==
  /\ UNCHANGED <<parsed, documents, es, stalled, run, deleting, crashes>>
  /\ \E q \in Requests :
     \/ \E versioned \in BOOLEAN : SaveTask(q, versioned)
     \/ SaveSteps(q) \/ WriteStepsFails(q)
     \/ RetryAllowed(q) \/ ResetTask(q) \/ ResetSteps(q)
     \/ AddJob(q) \/ AddJobFails(q) \/ RegisterJobFails(q)
     \/ RequestFailsTask(q) \/ RequestFailsSteps(q) \/ RequestStops(q)

RunStep ==
  /\ UNCHANGED <<request, deleting, crashes>>
  /\ \E r \in Runs :
     \/ \E versioned \in BOOLEAN : Deliver(r, versioned)
     \/ LoadTask(r) \/ LoadSteps(r) \/ Begin(r) \/ StartStep(r)
     \/ \E d \in Docs : CreateDocument(r, d) \/ NameGroupFails(r, d)
     \/ KeepDocument(r) \/ ClearAssets(r) \/ SaveAssets(r)
     \/ FinishStep(r) \/ BindParse(r) \/ BindIndex(r)
     \/ ClearChunks(r) \/ ClearEs(r) \/ CleanUpFails(r)
     \/ InsertBatch(r) \/ UpsertBatch(r) \/ UpsertFails(r) \/ Publish(r)
     \/ PendingGraph(r)
     \/ \E result \in {"indexed", "failed"} : SyncGraph(r, result)
     \/ Demote(r) \/ Promote(r) \/ ClearOthers(r) \/ Reindex(r)
     \/ SwitchIndexFails(r) \/ Complete(r)
     \/ Throws(r) \/ CatchDocument(r) \/ CatchStep(r) \/ CatchTask(r)
     \/ RunFailsTask(r) \/ RunFailsSteps(r) \/ FailureUnsaved(r) \/ Acknowledge(r)

UserStep == DeleteRow \/ \E d \in Docs : DeleteFromIndex(d)

Next == RequestStep \/ RunStep \/ UserStep \/ Crash

Spec == Init /\ [][Next]_vars

-----------------------------------------------------------------------------
(* Safety.  What the code ignores on purpose, and retries that overlap with *)
(* a job of the same task, are recorded in ignored and break the promise.   *)

Sound == ignored = {}

Whole(d) ==
  /\ Cardinality(documents[d].chunks) = Batches
  /\ {c[2] : c \in documents[d].chunks} = 1 .. Batches

(* A completed task has done its steps, and the document of its parse holds *)
(* every batch once, in the database and in the index, with its assets,     *)
(* whatever failed, crashed or was retried on the way.  The task names that *)
(* document or none: if the worker dies after the parse step is marked and  *)
(* before the task learns of the document, it never does.                   *)
CompletedIsWhole ==
  Sound /\ task.status = "completed" /\ Present(parsed) /\ parsed # deleting
    => /\ steps["parse"] = "completed" /\ steps["index"] = "completed"
       /\ steps["graph_sync"] \in {"completed", "failed"}
       /\ task.documentId \in {parsed, NoDoc}
       /\ documents[parsed].graph # "pending"
       /\ documents[parsed].assets = 1
       /\ Whole(parsed)
       /\ es[parsed] = documents[parsed].chunks

(* A step is completed only after those before it, at every crash point. *)
StepsInOrder ==
  Sound => /\ steps["index"] = "completed" => steps["parse"] = "completed"
           /\ steps["graph_sync"] = "completed" => steps["index"] = "completed"

(* A task that can be retried has no worker that will still work on it. *)
FailedIsQuiet ==
  Sound /\ task.status = "failed"
    => \A r \in Runs : run[r].at \in Working =>
         run[r].at \in {"load task", "load steps", "begin", "fail task"}

(* A task that neither completed nor failed, and so cannot be retried, has  *)
(* a request, a job or a run that will bring it there, in whatever order    *)
(* crashes, deliveries and overlapping retries come.  Four things leave it  *)
(* without: its steps could not be written, the request stopped before it   *)
(* published the job, the write of the failure itself failed, or the job    *)
(* stalled twice.  Nothing else the code ignores does.                      *)
Stranding == {"steps", "abandoned", "unsaved", "stalled"}
NeverStuck ==
  ignored \cap Stranding = {} /\ task.status \in {"pending", "running"}
    => \/ Active # {}
       \/ queue[TRUE] + queue[FALSE] > 0
       \/ \E q \in Requests : request[q].at \notin {"idle", "done"}

(* A version that went through without a retry ends as the only current one *)
(* of its group, alone in the index, even if the worker died between taking *)
(* the flag from the others and giving it to this one.                      *)
VersionSwitched ==
  \A q \in Requests :
    /\ Sound /\ request[q].versioned /\ task.status = "completed"
    /\ \A p \in Requests : ~request[p].retries
    /\ Present(parsed)
    => /\ {d \in AllDocs : Present(d) /\ documents[d].inGroup /\ documents[d].current}
             = {parsed}
       /\ \A d \in GroupOf(parsed) \ {parsed} : es[d] = {}

(* Work that is done is kept: unless a failed task is retried, a completed  *)
(* index step is not begun again and the chunks it wrote stay, through      *)
(* crashes and jobs that are delivered anew; only a user takes them away.   *)
(* The step may be marked failed when the checkpoint after it is not saved. *)
FinishedWorkKept ==
  [][Sound /\ steps["index"] = "completed" /\ (\A q \in Requests : ~ResetSteps(q))
       => /\ steps'["index"] \in {"completed", "failed"}
          /\ \A d \in Docs : documents'[d].row = "present"
                              => documents[d].chunks \subseteq documents'[d].chunks]_vars

(* What the user is promised, see IngestTask.  Nothing more is promised of  *)
(* a document the user deletes.                                             *)
Promise == INSTANCE IngestTask WITH
  status <- task.status,
  whole <- parsed # NoDoc /\ Whole(parsed),
  spoiled <- ~Sound \/ deleting # NoDoc
               \/ \E d \in Docs : documents[d].row = "deleted"

(* The task keeps that promise: only a failed task is retried, it completes *)
(* only on the whole content, and the content changes only while it runs.   *)
KeepsPromise == Promise!Spec

(* A retry leaves no other document behind. *)
NoLeftover ==
  task.status = "completed"
    => \A d \in Docs : Present(d) => d = task.documentId
=============================================================================
