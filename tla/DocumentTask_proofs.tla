------------------------- MODULE DocumentTask_proofs -------------------------
(* Proofs about DocumentTask, for every value of its constants. *)
EXTENDS DocumentTask, FiniteSetTheorems, TLAPS

-----------------------------------------------------------------------------
(* Proofs about DocumentTask, for every value of its constants. *)

(* Lemmas about the statements a run is made of. *)

Places == Working \cup Ending \cup {"idle", "gone"}
Kinds == {"steps", "register", "clean-up", "index", "overlap", "abandoned",
          "unsaved", "stalled"}

LEMMA NoRunTyped ==
  ASSUME NEW at \in Places
  PROVE  NoRun(at) \in Run
BY BoundsAssumption DEF NoRun, Run, Step, Places

LEMMA RunGoesTyped ==
  ASSUME run \in [Runs -> Run], NEW r \in Runs, NEW at \in Places, RunGoes(r, at)
  PROVE  run' \in [Runs -> Run]
<1>1. [run[r] EXCEPT !.at = at] \in Run
  BY DEF Run, Places
<1> QED BY <1>1 DEF RunGoes

LEMMA RunEndsTyped ==
  ASSUME run \in [Runs -> Run], NEW r \in Runs, NEW at \in Places, RunEnds(r, at)
  PROVE  run' \in [Runs -> Run]
<1>1. run[r].versioned \in BOOLEAN /\ run[r].again \in BOOLEAN
  BY DEF Run
<1>2. [NoRun(at) EXCEPT !.versioned = run[r].versioned,
                        !.again = run[r].again] \in Run
  BY <1>1, NoRunTyped DEF Run
<1> QED BY <1>2 DEF RunEnds

(* Skipping steps leaves a run where runs can be. *)
LEMMA EnterVersionTyped ==
  ASSUME NEW x \in Run
  PROVE  EnterVersion(x) \in Run
BY DEF EnterVersion, Run, Working, OutsideTry

LEMMA EnterGraphTyped ==
  ASSUME NEW x \in Run
  PROVE  EnterGraph(x) \in Run
<1>1. [x EXCEPT !.step = "graph_sync", !.at = "start"] \in Run
  BY DEF Run, Step, Working, OutsideTry
<1> QED BY <1>1, EnterVersionTyped DEF EnterGraph

LEMMA EnterIndexTyped ==
  ASSUME NEW x \in Run
  PROVE  EnterIndex(x) \in Run
<1>1. [x EXCEPT !.step = "index", !.at = "start"] \in Run
  BY DEF Run, Step, Working, OutsideTry
<1>2. [x EXCEPT !.at = "fail task"] \in Run
  BY DEF Run, Working
<1> QED BY <1>1, <1>2, EnterGraphTyped DEF EnterIndex

LEMMA EnterParseTyped ==
  ASSUME NEW x \in Run
  PROVE  EnterParse(x) \in Run
<1>1. [x EXCEPT !.step = "parse", !.at = "start"] \in Run
  BY DEF Run, Step, Working, OutsideTry
<1> QED BY <1>1, EnterIndexTyped DEF EnterParse

LEMMA AfterBatchTyped ==
  ASSUME NEW x \in Run
  PROVE  AfterBatch(x) \in Run
<1>1. {"publish", "insert"} \subseteq Working
  BY DEF Working, InTry
<1>2. CASE x.batch = Batches
  <2>1. 1 \in 1 .. Batches
    BY BoundsAssumption
  <2>2. [x EXCEPT !.at = "publish", !.batch = 1] \in Run
    BY <1>1, <2>1 DEF Run
  <2> QED BY <1>2, <2>2 DEF AfterBatch
<1>3. CASE x.batch # Batches
  <2>1. x.batch + 1 \in 1 .. Batches
    BY <1>3, BoundsAssumption DEF Run
  <2>2. [x EXCEPT !.at = "insert", !.batch = x.batch + 1] \in Run
    BY <1>1, <2>1 DEF Run
  <2> QED BY <1>3, <2>2 DEF AfterBatch
<1> QED BY <1>2, <1>3

(* A present document has an id. *)
LEMMA PresentHasId ==
  ASSUME TypeOK, NEW r \in Runs, Present(run[r].documentId)
  PROVE  /\ run[r].documentId \in Docs
         /\ MyDocument(r) \in Document
<1>1. run[r].documentId \in Docs \cup {NoDoc}
  BY DEF TypeOK, Run
<1> QED BY <1>1 DEF TypeOK, Present, MyDocument, AllDocs

LEMMA UpdatedTyped ==
  ASSUME TypeOK, NEW r \in Runs, NEW new,
         Present(run[r].documentId) => new \in Document
  PROVE  Updated(run[r].documentId, new) \in [AllDocs -> Document]
BY PresentHasId DEF TypeOK, Updated

LEMMA OnDocumentTyped ==
  ASSUME TypeOK, NEW r \in Runs, NEW at, NEW new, NEW next \in Places,
         Present(run[r].documentId) => new \in Document,
         OnDocument(r, at, new, next)
  PROVE  /\ documents' \in [AllDocs -> Document]
         /\ run' \in [Runs -> Run]
         /\ UNCHANGED <<task, steps, parsed, es, queue, stalled, ignored>>
<1>1. documents' \in [AllDocs -> Document]
  BY UpdatedTyped DEF OnDocument
<1>2. run' \in [Runs -> Run]
  BY RunGoesTyped DEF OnDocument, TypeOK
<1> QED BY <1>1, <1>2 DEF OnDocument, OnlyDocuments

(* The queue: what SMT cannot do with a function over BOOLEAN.              *)
LEMMA QueueEntry ==
  ASSUME NEW f \in [BOOLEAN -> Nat], NEW v \in BOOLEAN
  PROVE  f[v] \in Nat
BY Zenon

LEMMA QueueChanged ==
  ASSUME NEW f \in [BOOLEAN -> Nat], NEW v \in BOOLEAN, NEW n \in Nat
  PROVE  [f EXCEPT ![v] = n] \in [BOOLEAN -> Nat]
BY Zenon

LEMMA QueueLess ==
  ASSUME NEW f \in [BOOLEAN -> Nat], NEW v \in BOOLEAN, f[v] > 0
  PROVE  [f EXCEPT ![v] = @ - 1] \in [BOOLEAN -> Nat]
<1>1. \A n \in Nat : n > 0 => n - 1 \in Nat
  OBVIOUS
<1>2. f[v] - 1 \in Nat
  BY <1>1, QueueEntry
<1> QED BY <1>2, QueueChanged

LEMMA QueueMore ==
  ASSUME NEW f \in [BOOLEAN -> Nat], NEW v \in BOOLEAN
  PROVE  [f EXCEPT ![v] = @ + 1] \in [BOOLEAN -> Nat]
<1>1. \A n \in Nat : n + 1 \in Nat
  OBVIOUS
<1>2. f[v] + 1 \in Nat
  BY <1>1, QueueEntry
<1> QED BY <1>2, QueueChanged

-----------------------------------------------------------------------------
(* Every action of a run keeps the types. *)

Frame == UNCHANGED <<request, deleting, crashes>>

LEMMA StaysTyped ==
  ASSUME TypeOK, Frame, run' \in [Runs -> Run],
         task' \in [status : TaskStatus, documentId : Docs \cup {NoDoc}],
         steps' \in [Step -> StepStatus],
         parsed' \in Docs \cup {NoDoc},
         documents' \in [AllDocs -> Document],
         es' \in [AllDocs -> SUBSET Chunk],
         queue' \in [BOOLEAN -> Nat],
         stalled' \in [BOOLEAN -> Nat],
         ignored' = ignored \/ ignored' \subseteq Kinds
  PROVE  TypeOK'
BY DEF TypeOK, Frame, Kinds

LEMMA LoadingTyped ==
  ASSUME TypeOK, Frame, NEW r \in Runs,
         \/ \E versioned \in BOOLEAN : Deliver(r, versioned)
         \/ LoadTask(r) \/ LoadSteps(r) \/ Begin(r) \/ StartStep(r)
  PROVE  TypeOK'
<1> USE DEF TypeOK
<1>0. run[r] \in Run
  OBVIOUS
<1>1. ASSUME NEW versioned \in BOOLEAN, Deliver(r, versioned)
      PROVE  TypeOK'
  <2>1. PICK again \in BOOLEAN :
          /\ IF again THEN /\ stalled[versioned] > 0
                           /\ stalled' = [stalled EXCEPT ![versioned] = @ - 1]
                      ELSE stalled[versioned] < queue[versioned] /\ UNCHANGED stalled
          /\ run' = [run EXCEPT ![r].at = "load task", ![r].versioned = versioned,
                                ![r].again = again]
    BY <1>1 DEF Deliver
  <2>2. [run[r] EXCEPT !.at = "load task", !.versioned = versioned,
                       !.again = again] \in Run
    BY <1>0 DEF Run, Working, OutsideTry
  <2>3. run' \in [Runs -> Run]
    BY <2>1, <2>2
  <2>4. queue' \in [BOOLEAN -> Nat]
    BY <1>1, QueueLess DEF Deliver
  <2>5. stalled' \in [BOOLEAN -> Nat]
    <3>1. stalled \in [BOOLEAN -> Nat]
      OBVIOUS
    <3>2. CASE again
      <4>1. stalled[versioned] > 0 /\ stalled' = [stalled EXCEPT ![versioned] = @ - 1]
        BY <2>1, <3>2, Zenon
      <4> QED BY <3>1, <4>1, QueueLess
    <3>3. CASE ~again
      BY <2>1, <3>1, <3>3
    <3> QED BY <3>2, <3>3
  <2>6. ignored \subseteq Kinds
    BY DEF Kinds
  <2> QED BY <1>1, <2>3, <2>4, <2>5, <2>6, StaysTyped DEF Deliver
<1>2. CASE LoadTask(r)
  <2>1. [run[r] EXCEPT !.at = "load steps", !.documentId = task.documentId] \in Run
    BY <1>0 DEF Run, Working, OutsideTry
  <2>2. run' \in [Runs -> Run]
    BY <1>2, <2>1 DEF LoadTask
  <2> QED BY <1>2, <2>2, StaysTyped DEF LoadTask, OnlyRun
<1>3. CASE LoadSteps(r)
  <2> DEFINE d == IF steps["parse"] = "completed" THEN parsed ELSE run[r].documentId
             k == {s \in Step : steps[s] = "completed"}
  <2>1. d \in Docs \cup {NoDoc} /\ k \in SUBSET Step
    BY <1>0 DEF Run
  <2>2. [run[r] EXCEPT !.at = "begin", !.skips = k, !.documentId = d] \in Run
    <3> HIDE DEF d, k
    <3>1. "begin" \in Working \cup Ending \cup {"idle", "gone"}
      BY DEF Working, OutsideTry
    <3> QED BY <1>0, <2>1, <3>1 DEF Run
  <2>3. run' \in [Runs -> Run]
    BY <1>3, <2>2 DEF LoadSteps
  <2> QED BY <1>3, <2>3, StaysTyped DEF LoadSteps, OnlyRun
<1>4. CASE Begin(r)
  <2>1. run' \in [Runs -> Run]
    BY <1>0, <1>4, EnterParseTyped DEF Begin
  <2>2. task' \in [status : TaskStatus, documentId : Docs \cup {NoDoc}]
    BY <1>4 DEF Begin, TaskStatus
  <2> QED BY <1>4, <2>1, <2>2, StaysTyped DEF Begin, OnlyTask
<1>5. CASE StartStep(r)
  <2>1. run' \in [Runs -> Run]
    <3>1. run[r].step \in {"parse", "index", "graph_sync"}
      BY <1>0 DEF Run, Step
    <3>2. {"create", "clear chunks", "pending graph"} \subseteq Places
      BY DEF Places, Working, InTry
    <3> QED BY <1>5, <3>1, <3>2, RunGoesTyped DEF StartStep
  <2>2. steps' \in [Step -> StepStatus]
    BY <1>0, <1>5 DEF StartStep, StepStatus, Run
  <2> QED BY <1>5, <2>1, <2>2, StaysTyped DEF StartStep, OnlySteps
<1> QED BY <1>1, <1>2, <1>3, <1>4, <1>5

(* A statement on the document of the run. *)
LEMMA OnDocumentStays ==
  ASSUME TypeOK, Frame, NEW r \in Runs, NEW at, NEW new, NEW next \in Places,
         Present(run[r].documentId) => new \in Document,
         OnDocument(r, at, new, next)
  PROVE  TypeOK'
BY OnDocumentTyped, StaysTyped DEF TypeOK

LEMMA ParsingTyped ==
  ASSUME TypeOK, Frame, NEW r \in Runs,
         \/ \E d \in Docs : CreateDocument(r, d) \/ NameGroupFails(r, d)
         \/ KeepDocument(r) \/ ClearAssets(r) \/ SaveAssets(r)
         \/ FinishStep(r) \/ BindParse(r) \/ BindIndex(r)
  PROVE  TypeOK'
<1>0. /\ run \in [Runs -> Run]
      /\ run[r] \in Run
      /\ documents \in [AllDocs -> Document]
      /\ steps \in [Step -> StepStatus]
  BY DEF TypeOK
<1>p. {"clear assets", "save assets", "finish", "bind", "catch document"} \subseteq Places
  BY DEF Places, Working, InTry, InCatch
<1>1. ASSUME NEW d \in Docs, CreateDocument(r, d)
      PROVE  TypeOK'
  <2>1. [NoDocument EXCEPT !.row = "present", !.inGroup = run[r].versioned,
                           !.current = TRUE] \in Document
    BY <1>0 DEF NoDocument, Document, Run
  <2>2. [run[r] EXCEPT !.documentId = d, !.at = "clear assets"] \in Run
    BY <1>0, <1>p DEF Run, Places
  <2>3. run' \in [Runs -> Run]
    BY <1>0, <1>1, <2>2 DEF CreateDocument
  <2>4. documents' \in [AllDocs -> Document]
    BY <1>0, <1>1, <2>1 DEF CreateDocument, AllDocs
  <2> QED BY <1>1, <2>3, <2>4, StaysTyped DEF CreateDocument, OnlyDocuments, TypeOK
<1>2. ASSUME NEW d \in Docs, NameGroupFails(r, d)
      PROVE  TypeOK'
  <2>1. [NoDocument EXCEPT !.row = "present", !.current = TRUE] \in Document
    BY DEF NoDocument, Document
  <2>2. run' \in [Runs -> Run]
    BY <1>0, <1>p, <1>2, RunGoesTyped DEF NameGroupFails
  <2>3. documents' \in [AllDocs -> Document]
    BY <1>0, <1>2, <2>1 DEF NameGroupFails, AllDocs
  <2> QED BY <1>2, <2>2, <2>3, StaysTyped DEF NameGroupFails, OnlyDocuments, TypeOK
<1>3. CASE KeepDocument(r)
  BY <1>0, <1>p, <1>3, RunGoesTyped, StaysTyped DEF KeepDocument, OnlyRun, TypeOK
<1>4. CASE ClearAssets(r)
  <2>1. Present(run[r].documentId) => [MyDocument(r) EXCEPT !.assets = 0] \in Document
    BY PresentHasId DEF Document
  <2> QED BY <1>4, <1>p, <2>1, OnDocumentStays DEF ClearAssets
<1>5. CASE SaveAssets(r)
  <2>1. Present(run[r].documentId)
          => [MyDocument(r) EXCEPT !.assets = @ + 1] \in Document
    BY PresentHasId DEF Document
  <2> QED BY <1>5, <1>p, <2>1, OnDocumentStays DEF SaveAssets
<1>6. CASE FinishStep(r)
  <2>1. [run[r] EXCEPT !.at = "bind"] \in Run
    BY <1>0, <1>p DEF Run, Places
  <2>2. run' \in [Runs -> Run]
    BY <1>0, <1>6, <2>1, EnterVersionTyped DEF FinishStep
  <2>3. steps' \in [Step -> StepStatus]
    BY <1>0, <1>6 DEF FinishStep, StepStatus
  <2>4. parsed' \in Docs \cup {NoDoc}
    BY <1>6, PresentHasId DEF FinishStep, TypeOK
  <2> QED BY <1>6, <2>2, <2>3, <2>4, StaysTyped DEF FinishStep, TypeOK
<1>7. CASE BindParse(r)
  <2>1. run' \in [Runs -> Run]
    BY <1>0, <1>7, EnterIndexTyped DEF BindParse
  <2>2. task' \in [status : TaskStatus, documentId : Docs \cup {NoDoc}]
    BY <1>7, PresentHasId DEF BindParse, TypeOK
  <2> QED BY <1>7, <2>1, <2>2, StaysTyped DEF BindParse, OnlyTask, TypeOK
<1>8. CASE BindIndex(r)
  <2>1. run' \in [Runs -> Run]
    BY <1>0, <1>8, EnterGraphTyped DEF BindIndex
  <2> QED BY <1>8, <2>1, StaysTyped DEF BindIndex, OnlyRun, TypeOK
<1> QED BY <1>1, <1>2, <1>3, <1>4, <1>5, <1>6, <1>7, <1>8

(* The chunks a run writes, for a document with an id. *)
LEMMA ChunkTyped ==
  ASSUME TypeOK, NEW r \in Runs
  PROVE  <<r, run[r].batch>> \in Chunk
BY DEF TypeOK, Run, Chunk

LEMMA EsTyped ==
  ASSUME TypeOK, NEW d, NEW c \in SUBSET Chunk
  PROVE  [es EXCEPT ![d] = c] \in [AllDocs -> SUBSET Chunk]
BY DEF TypeOK

LEMMA IgnoresTyped ==
  ASSUME TypeOK, NEW w \in Kinds, Ignores(w)
  PROVE  ignored' \subseteq Kinds
BY DEF TypeOK, Ignores, Kinds

LEMMA IndexingTyped ==
  ASSUME TypeOK, Frame, NEW r \in Runs,
         \/ ClearChunks(r) \/ ClearEs(r) \/ CleanUpFails(r)
         \/ InsertBatch(r) \/ UpsertBatch(r) \/ UpsertFails(r) \/ Publish(r)
  PROVE  TypeOK'
<1>0. /\ run \in [Runs -> Run]
      /\ run[r] \in Run
      /\ es \in [AllDocs -> SUBSET Chunk]
  BY DEF TypeOK
<1>p. {"clear es", "insert", "upsert", "publish", "finish"} \subseteq Places
  BY DEF Places, Working, InTry
<1>g. run' = [run EXCEPT ![r].at = "insert"] => run' \in [Runs -> Run]
  BY <1>0, <1>p, RunGoesTyped DEF RunGoes
<1>1. CASE ClearChunks(r)
  <2>1. Present(run[r].documentId) => [MyDocument(r) EXCEPT !.chunks = {}] \in Document
    BY PresentHasId DEF Document
  <2> QED BY <1>1, <1>p, <2>1, OnDocumentStays DEF ClearChunks
<1>2. CASE ClearEs(r)
  <2>1. es' \in [AllDocs -> SUBSET Chunk]
    BY <1>2, EsTyped DEF ClearEs
  <2> QED BY <1>2, <1>g, <2>1, StaysTyped DEF ClearEs, OnlyEs, TypeOK
<1>3. CASE CleanUpFails(r)
  <2>1. ignored' \subseteq Kinds
    BY <1>3, IgnoresTyped DEF CleanUpFails, Kinds
  <2> QED BY <1>3, <1>g, <2>1, StaysTyped DEF CleanUpFails, OnlyIgnored, TypeOK
<1>4. CASE InsertBatch(r)
  <2>1. Present(run[r].documentId)
          => [MyDocument(r) EXCEPT !.chunks = @ \cup {<<r, run[r].batch>>}] \in Document
    BY PresentHasId, ChunkTyped DEF Document
  <2> QED BY <1>4, <1>p, <2>1, OnDocumentStays DEF InsertBatch
<1>a. run' = [run EXCEPT ![r] = AfterBatch(@)] => run' \in [Runs -> Run]
  BY <1>0, AfterBatchTyped
<1>5. CASE UpsertBatch(r)
  <2>1. es' \in [AllDocs -> SUBSET Chunk]
    BY <1>0, <1>5, ChunkTyped DEF UpsertBatch
  <2> QED BY <1>5, <1>a, <2>1, StaysTyped DEF UpsertBatch, OnlyEs, TypeOK
<1>6. CASE UpsertFails(r)
  <2>1. ignored' \subseteq Kinds
    BY <1>6, IgnoresTyped DEF UpsertFails, Kinds
  <2> QED BY <1>6, <1>a, <2>1, StaysTyped DEF UpsertFails, OnlyIgnored, TypeOK
<1>7. CASE Publish(r)
  <2>1. Present(run[r].documentId)
          => [MyDocument(r) EXCEPT !.status = "completed"] \in Document
    BY PresentHasId DEF Document
  <2> QED BY <1>7, <1>p, <2>1, OnDocumentStays DEF Publish
<1> QED BY <1>1, <1>2, <1>3, <1>4, <1>5, <1>6, <1>7

LEMMA FinishingTyped ==
  ASSUME TypeOK, Frame, NEW r \in Runs,
         \/ PendingGraph(r)
         \/ \E result \in {"indexed", "failed"} : SyncGraph(r, result)
         \/ Demote(r) \/ Promote(r) \/ ClearOthers(r) \/ Reindex(r)
         \/ SwitchIndexFails(r) \/ Complete(r)
  PROVE  TypeOK'
<1>0. /\ run \in [Runs -> Run]
      /\ run[r] \in Run
      /\ documents \in [AllDocs -> Document]
      /\ es \in [AllDocs -> SUBSET Chunk]
  BY DEF TypeOK
<1>p. {"sync graph", "finish", "promote", "clear others", "reindex", "complete",
       "ack"} \subseteq Places
  BY DEF Places, Working, InTry, OutsideTry, Ending
<1>1. CASE PendingGraph(r)
  <2>1. Present(run[r].documentId)
          => [MyDocument(r) EXCEPT !.graph = "pending"] \in Document
    BY PresentHasId DEF Document
  <2> QED BY <1>1, <1>p, <2>1, OnDocumentStays DEF PendingGraph
<1>2. ASSUME NEW result \in {"indexed", "failed"}, SyncGraph(r, result)
      PROVE  TypeOK'
  <2>1. Present(run[r].documentId)
          => [MyDocument(r) EXCEPT !.graph = result] \in Document
    BY PresentHasId DEF Document
  <2> QED BY <1>2, <1>p, <2>1, OnDocumentStays DEF SyncGraph
<1>3. CASE Demote(r)
  <2>1. \A d \in AllDocs : [documents[d] EXCEPT !.current = FALSE] \in Document
    BY <1>0 DEF Document
  <2>2. documents' \in [AllDocs -> Document]
    BY <1>0, <1>3, <2>1 DEF Demote
  <2>3. run' \in [Runs -> Run]
    BY <1>0, <1>p, <1>3, RunGoesTyped DEF Demote
  <2> QED BY <1>3, <2>2, <2>3, StaysTyped DEF Demote, OnlyDocuments, TypeOK
<1>4. CASE Promote(r)
  <2>1. Present(run[r].documentId)
          => [MyDocument(r) EXCEPT !.current = TRUE] \in Document
    BY PresentHasId DEF Document
  <2> QED BY <1>4, <1>p, <2>1, OnDocumentStays DEF Promote
<1>5. CASE ClearOthers(r)
  <2>1. es' \in [AllDocs -> SUBSET Chunk]
    BY <1>0, <1>5 DEF ClearOthers
  <2>2. run' \in [Runs -> Run]
    BY <1>0, <1>p, <1>5, RunGoesTyped DEF ClearOthers
  <2> QED BY <1>5, <2>1, <2>2, StaysTyped DEF ClearOthers, OnlyEs, TypeOK
<1>6. CASE Reindex(r)
  <2>1. MyDocument(r).chunks \subseteq Chunk
    BY <1>6, PresentHasId DEF Reindex, Document
  <2>2. es' \in [AllDocs -> SUBSET Chunk]
    BY <1>0, <1>6, <2>1 DEF Reindex
  <2>3. run' \in [Runs -> Run]
    BY <1>0, <1>p, <1>6, RunGoesTyped DEF Reindex
  <2> QED BY <1>6, <2>2, <2>3, StaysTyped DEF Reindex, OnlyEs, TypeOK
<1>7. CASE SwitchIndexFails(r)
  <2>1. ignored' \subseteq Kinds
    BY <1>7, IgnoresTyped DEF SwitchIndexFails, Kinds
  <2>2. run' \in [Runs -> Run]
    BY <1>0, <1>p, <1>7, RunGoesTyped DEF SwitchIndexFails
  <2> QED BY <1>7, <2>1, <2>2, StaysTyped DEF SwitchIndexFails, OnlyIgnored, TypeOK
<1>8. CASE Complete(r)
  <2>1. task' \in [status : TaskStatus, documentId : Docs \cup {NoDoc}]
    BY <1>8 DEF Complete, TypeOK, TaskStatus
  <2>2. run' \in [Runs -> Run]
    BY <1>0, <1>p, <1>8, RunEndsTyped DEF Complete
  <2> QED BY <1>8, <2>1, <2>2, StaysTyped DEF Complete, OnlyTask, TypeOK
<1> QED BY <1>1, <1>2, <1>3, <1>4, <1>5, <1>6, <1>7, <1>8

LEMMA FailingTyped ==
  ASSUME TypeOK, Frame, NEW r \in Runs,
         \/ Throws(r) \/ CatchDocument(r) \/ CatchStep(r) \/ CatchTask(r)
         \/ RunFailsTask(r) \/ RunFailsSteps(r) \/ FailureUnsaved(r) \/ Acknowledge(r)
  PROVE  TypeOK'
<1>0. /\ run \in [Runs -> Run]
      /\ run[r] \in Run
      /\ steps \in [Step -> StepStatus]
  BY DEF TypeOK
<1>p. {"catch document", "catch step", "catch task", "fail task", "fail steps",
       "ack", "gone"} \subseteq Places
  BY DEF Places, Working, InCatch, Ending
<1>t. TaskFails => task' \in [status : TaskStatus, documentId : Docs \cup {NoDoc}]
  BY DEF TaskFails, TypeOK, TaskStatus
<1>1. CASE Throws(r)
  <2>1. run' \in [Runs -> Run]
    BY <1>0, <1>p, <1>1, RunGoesTyped, RunEndsTyped DEF Throws
  <2> QED BY <1>1, <2>1, StaysTyped DEF Throws, OnlyRun, TypeOK
<1>2. CASE CatchDocument(r)
  <2>1. Present(run[r].documentId)
          => /\ [MyDocument(r) EXCEPT !.graph = "failed"] \in Document
             /\ [MyDocument(r) EXCEPT !.status = "failed"] \in Document
    BY PresentHasId DEF Document
  <2>2. documents' \in [AllDocs -> Document]
    BY <1>2, <2>1, UpdatedTyped DEF CatchDocument
  <2>3. run' \in [Runs -> Run]
    BY <1>0, <1>p, <1>2, RunGoesTyped DEF CatchDocument
  <2> QED BY <1>2, <2>2, <2>3, StaysTyped DEF CatchDocument, OnlyDocuments, TypeOK
<1>3. CASE CatchStep(r)
  <2>1. steps' \in [Step -> StepStatus]
    BY <1>0, <1>3 DEF CatchStep, StepStatus
  <2>2. [run[r] EXCEPT !.at = "catch task"] \in Run
    BY <1>0, <1>p DEF Run, Places
  <2>3. run' \in [Runs -> Run]
    BY <1>0, <1>3, <2>2, EnterVersionTyped DEF CatchStep
  <2> QED BY <1>3, <2>1, <2>3, StaysTyped DEF CatchStep, OnlySteps, TypeOK
<1>4. CASE CatchTask(r)
  <2>1. run' \in [Runs -> Run]
    BY <1>0, <1>p, <1>4, RunEndsTyped DEF CatchTask
  <2> QED BY <1>4, <1>t, <2>1, StaysTyped DEF CatchTask, OnlyTask, TypeOK
<1>5. CASE RunFailsTask(r)
  <2>1. run' \in [Runs -> Run]
    BY <1>0, <1>p, <1>5, RunEndsTyped DEF RunFailsTask
  <2> QED BY <1>5, <1>t, <2>1, StaysTyped DEF RunFailsTask, OnlyTask, TypeOK
<1>6. CASE RunFailsSteps(r)
  <2>1. steps' \in [Step -> StepStatus]
    BY <1>0, <1>6 DEF RunFailsSteps, FailureUnsaved, RunningStepsFail, StepStatus
  <2>2. run' \in [Runs -> Run]
    BY <1>0, <1>p, <1>6, RunEndsTyped DEF RunFailsSteps, FailureUnsaved
  <2> QED BY <1>6, <2>1, <2>2, StaysTyped DEF RunFailsSteps, FailureUnsaved, OnlySteps, TypeOK
<1>7. CASE Acknowledge(r)
  <2>1. run' \in [Runs -> Run]
    BY <1>0, <1>p, <1>7, NoRunTyped DEF Acknowledge
  <2> QED BY <1>7, <2>1, StaysTyped DEF Acknowledge, OnlyRun, TypeOK
<1>8. CASE FailureUnsaved(r)
  <2>1. run' \in [Runs -> Run]
    BY <1>0, <1>p, <1>8, RunEndsTyped DEF FailureUnsaved
  <2>2. ignored' \subseteq Kinds
    BY <1>8, IgnoresTyped DEF FailureUnsaved, Kinds, TypeOK
  <2> QED BY <1>8, <2>1, <2>2, StaysTyped DEF FailureUnsaved, OnlyIgnored, TypeOK
<1> QED BY <1>1, <1>2, <1>3, <1>4, <1>5, <1>6, <1>7, <1>8

LEMMA RunStepTyped ==
  ASSUME TypeOK, RunStep
  PROVE  TypeOK'
<1>1. Frame
  BY DEF RunStep, Frame
<1> QED BY <1>1, LoadingTyped, ParsingTyped, IndexingTyped, FinishingTyped,
           FailingTyped DEF RunStep
-----------------------------------------------------------------------------
(* Requests, the user and crashes keep the types. *)

LEMMA RequestStepTyped ==
  ASSUME TypeOK, RequestStep
  PROVE  TypeOK'
<1> DEFINE R == UNCHANGED <<parsed, documents, es, stalled, run, deleting, crashes>>
<1>1. PICK q \in Requests :
        \/ \E versioned \in BOOLEAN : SaveTask(q, versioned)
        \/ SaveSteps(q) \/ WriteStepsFails(q)
        \/ RetryAllowed(q) \/ ResetTask(q) \/ ResetSteps(q)
        \/ AddJob(q) \/ AddJobFails(q) \/ RegisterJobFails(q)
        \/ RequestFailsTask(q) \/ RequestFailsSteps(q) \/ RequestStops(q)
  BY DEF RequestStep
<1>2. R
  BY DEF RequestStep
<1>3. /\ task \in [status : TaskStatus, documentId : Docs \cup {NoDoc}]
      /\ steps \in [Step -> StepStatus]
      /\ queue \in [BOOLEAN -> Nat]
      /\ request \in [Requests -> Request]
      /\ request[q] \in Request
      /\ ignored \subseteq Kinds
  BY DEF TypeOK, Kinds
<1>t. ASSUME request' \in [Requests -> Request],
             task' \in [status : TaskStatus, documentId : Docs \cup {NoDoc}],
             steps' \in [Step -> StepStatus],
             queue' \in [BOOLEAN -> Nat],
             ignored' \subseteq Kinds
      PROVE  TypeOK'
  BY <1>2, <1>t DEF TypeOK, Kinds
<1>g. ASSUME NEW at \in {"save steps", "reset task", "reset steps", "add",
                         "fail task", "fail steps", "done"},
             RequestGoes(q, at)
      PROVE  request' \in [Requests -> Request]
  <2>1. [request[q] EXCEPT !.at = at] \in Request
    BY <1>3 DEF Request
  <2> QED BY <1>3, <1>g, <2>1 DEF RequestGoes
<1>q. queue' = [queue EXCEPT ![request[q].versioned] = @ + 1]
        => queue' \in [BOOLEAN -> Nat]
  <2>1. request[q].versioned \in BOOLEAN
    BY <1>3 DEF Request
  <2> QED BY <1>3, <2>1, QueueMore
<1>s. \A v \in {"pending", "failed"} :
        [task EXCEPT !.status = v] \in [status : TaskStatus,
                                        documentId : Docs \cup {NoDoc}]
  BY <1>3 DEF TaskStatus
<1>4. ASSUME NEW versioned \in BOOLEAN, SaveTask(q, versioned)
      PROVE  TypeOK'
  <2>1. [request[q] EXCEPT !.at = "save steps", !.versioned = versioned] \in Request
    BY <1>3 DEF Request
  <2>2. request' \in [Requests -> Request]
    BY <1>3, <1>4, <2>1 DEF SaveTask
  <2> QED BY <1>3, <1>4, <1>s, <1>t, <2>2 DEF SaveTask
<1>5. CASE SaveSteps(q) \/ ResetSteps(q)
  <2>1. steps' \in [Step -> StepStatus]
    BY <1>5 DEF SaveSteps, ResetSteps, StepStatus
  <2> QED BY <1>3, <1>5, <1>g, <1>t, <2>1 DEF SaveSteps, ResetSteps
<1>6. CASE WriteStepsFails(q)
  <2>1. ignored' \subseteq Kinds
    BY <1>6, IgnoresTyped DEF WriteStepsFails, Kinds
  <2> QED BY <1>3, <1>6, <1>g, <1>t, <2>1 DEF WriteStepsFails
<1>7. CASE RetryAllowed(q)
  <2>1. [request[q] EXCEPT !.at = "reset task", !.retries = TRUE] \in Request
    BY <1>3 DEF Request
  <2>2. request' \in [Requests -> Request]
    BY <1>3, <1>7, <2>1 DEF RetryAllowed
  <2>3. ignored' \subseteq Kinds
    BY <1>3, <1>7 DEF RetryAllowed, NotesOverlap, Kinds
  <2> QED BY <1>3, <1>7, <1>t, <2>2, <2>3 DEF RetryAllowed
<1>8. CASE ResetTask(q)
  BY <1>3, <1>8, <1>g, <1>s, <1>t DEF ResetTask
<1>9. CASE AddJob(q)
  BY <1>3, <1>9, <1>g, <1>q, <1>t DEF AddJob
<1>10. CASE AddJobFails(q)
  BY <1>3, <1>10, <1>g, <1>t DEF AddJobFails
<1>11. CASE RegisterJobFails(q)
  <2>1. ignored' \subseteq Kinds
    BY <1>11, IgnoresTyped DEF RegisterJobFails, Kinds
  <2> QED BY <1>3, <1>11, <1>g, <1>q, <1>t, <2>1 DEF RegisterJobFails
<1>12. CASE RequestFailsTask(q)
  BY <1>3, <1>12, <1>g, <1>s, <1>t DEF RequestFailsTask, TaskFails
<1>13. CASE RequestFailsSteps(q)
  <2>1. steps' \in [Step -> StepStatus]
    BY <1>3, <1>13 DEF RequestFailsSteps, RequestStops, RunningStepsFail, StepStatus
  <2> QED BY <1>3, <1>13, <1>g, <1>t, <2>1 DEF RequestFailsSteps, RequestStops
<1>14. CASE RequestStops(q)
  <2>1. ignored' \subseteq Kinds
    BY <1>3, <1>14, IgnoresTyped DEF RequestStops, Kinds
  <2> QED BY <1>3, <1>14, <1>g, <1>t, <2>1 DEF RequestStops
<1> QED BY <1>1, <1>4, <1>5, <1>6, <1>7, <1>8, <1>9, <1>10, <1>11, <1>12, <1>13, <1>14

LEMMA UserStepTyped ==
  ASSUME TypeOK, UserStep
  PROVE  TypeOK'
<1>1. CASE DeleteRow
  <2>1. deleting \in Docs
    BY <1>1 DEF TypeOK, DeleteRow
  <2>2. [NoDocument EXCEPT !.row = "deleted", !.inGroup = documents[deleting].inGroup]
          \in Document
    BY <2>1 DEF TypeOK, AllDocs, Document, NoDocument
  <2>3. documents' \in [AllDocs -> Document]
    BY <1>1, <2>1, <2>2 DEF TypeOK, AllDocs, DeleteRow
  <2>4. task' \in [status : TaskStatus, documentId : Docs \cup {NoDoc}]
    BY <1>1 DEF TypeOK, DeleteRow
  <2> QED BY <1>1, <2>3, <2>4 DEF TypeOK, DeleteRow
<1>2. ASSUME NEW d \in Docs, DeleteFromIndex(d)
      PROVE  TypeOK'
  <2>1. es' \in [AllDocs -> SUBSET Chunk]
    BY <1>2, EsTyped DEF TypeOK, DeleteFromIndex
  <2>2. ignored' \subseteq Kinds
    BY <1>2, IgnoresTyped DEF TypeOK, DeleteFromIndex, Kinds
  <2> QED BY <1>2, <2>1, <2>2 DEF TypeOK, DeleteFromIndex, Kinds
<1> QED BY <1>1, <1>2 DEF UserStep

LEMMA RecoveredFinite ==
  ASSUME NEW v
  PROVE  /\ IsFiniteSet(Recovered(v))
         /\ Cardinality(Recovered(v)) \in Nat
<1>1. Recovered(v) \subseteq Runs
  BY DEF Recovered, Active
<1> QED BY <1>1, RunsAssumption, FS_Subset, FS_CardinalityType

LEMMA QueueAdded ==
  ASSUME NEW f \in [BOOLEAN -> Nat]
  PROVE  [v \in BOOLEAN |-> f[v] + Cardinality(Recovered(v))] \in [BOOLEAN -> Nat]
<1>1. \A m, n \in Nat : m + n \in Nat
  OBVIOUS
<1> DEFINE g(v) == f[v] + Cardinality(Recovered(v))
<1>2. \A v \in BOOLEAN : g(v) \in Nat
  BY <1>1, QueueEntry, RecoveredFinite
<1> HIDE DEF g
<1>3. [v \in BOOLEAN |-> g(v)] \in [BOOLEAN -> Nat]
  BY <1>2, Zenon
<1> QED BY <1>3 DEF g

LEMMA CrashTyped ==
  ASSUME TypeOK, Crash
  PROVE  TypeOK'
<1>1. queue' \in [BOOLEAN -> Nat] /\ stalled' \in [BOOLEAN -> Nat]
  BY QueueAdded DEF TypeOK, Crash
<1>2. run' \in [Runs -> Run]
  <2>1. "gone" \in Places
    BY DEF Places
  <2> QED BY <2>1, NoRunTyped DEF TypeOK, Crash
<1>3. crashes' \in 0 .. MaxCrashes
  BY BoundsAssumption DEF TypeOK, Crash
<1>4. ignored' \subseteq Kinds
  BY DEF TypeOK, Crash, Kinds
<1> QED BY <1>1, <1>2, <1>3, <1>4 DEF TypeOK, Crash, Kinds

LEMMA NextTyped ==
  ASSUME TypeOK, [Next]_vars
  PROVE  TypeOK'
<1>1. CASE UNCHANGED vars
  BY <1>1 DEF TypeOK, vars
<1> QED BY <1>1, RequestStepTyped, RunStepTyped, UserStepTyped, CrashTyped DEF Next

LEMMA InitTyped == Init => TypeOK
<1> SUFFICES ASSUME Init PROVE TypeOK
  OBVIOUS
<1>1. documents \in [AllDocs -> Document]
  <2>1. NoDocument \in Document
    BY DEF NoDocument, Document
  <2>2. BaseChunks \subseteq Chunk
    BY DEF BaseChunks, Chunk
  <2>3. [row |-> "present", status |-> "completed", assets |-> 1,
         chunks |-> BaseChunks, graph |-> "indexed",
         inGroup |-> TRUE, current |-> TRUE] \in Document
    BY <2>2 DEF Document
  <2> QED BY <2>1, <2>3 DEF Init
<1>2. es \in [AllDocs -> SUBSET Chunk]
  BY DEF Init, BaseChunks, Chunk
<1>3. queue \in [BOOLEAN -> Nat] /\ stalled \in [BOOLEAN -> Nat]
  BY Zenon DEF Init
<1>4. run \in [Runs -> Run]
  <2>1. "idle" \in Places
    BY DEF Places
  <2> QED BY <2>1, NoRunTyped DEF Init
<1>5. request \in [Requests -> Request]
  BY DEF Init, Request
<1>6. task \in [status : TaskStatus, documentId : Docs \cup {NoDoc}]
  BY DEF Init, TaskStatus
<1>7. steps \in [Step -> StepStatus]
  BY DEF Init, StepStatus
<1>8. parsed = NoDoc /\ deleting = NoDoc /\ ignored = {}
  BY DEF Init
<1>9. crashes \in 0 .. MaxCrashes
  BY BoundsAssumption DEF Init
<1> QED BY <1>1, <1>2, <1>3, <1>4, <1>5, <1>6, <1>7, <1>8, <1>9 DEF TypeOK

(* Rows, steps, queue, requests and runs keep to their types, whatever the  *)
(* worker, the users and the crashes do in whatever order.                  *)
THEOREM TypeCorrect == Spec => []TypeOK
BY InitTyped, NextTyped, PTL DEF Spec
-----------------------------------------------------------------------------
(* A task that is pending or running has an owner: a waiting job, a run that *)
(* will still write the task, or a request that is about to publish a job.   *)

Waiting == \E v \in BOOLEAN : queue[v] > 0
Worked == \E r \in Runs : run[r].at \in Working
Published == \E q \in Requests : request[q].at \in Publishing
Kept == ignored \cap Stranding = {}
(* A request that has not reset the task yet has not made it pending. *)
WillPublish == \E q \in Requests : request[q].at \in Publishing \ {"reset task"}

OwnedInv ==
  Kept /\ task.status \in {"pending", "running"} => Waiting \/ Worked \/ WillPublish

(* Where a run is after it skipped steps, it will still write the task. *)
LEMMA EnterWorks ==
  ASSUME NEW x \in Run
  PROVE  /\ EnterVersion(x).at \in Working
         /\ EnterGraph(x).at \in Working
         /\ EnterIndex(x).at \in Working
         /\ EnterParse(x).at \in Working
<1>1. {"demote", "complete", "start", "fail task"} \subseteq Working
  BY DEF Working, OutsideTry
<1>2. \A y \in Run : EnterVersion(y).at \in Working
  BY <1>1 DEF EnterVersion, Run
<1>3. \A y \in Run : EnterGraph(y).at \in Working
  BY <1>1, <1>2 DEF EnterGraph, Run
<1>4. \A y \in Run : EnterIndex(y).at \in Working
  BY <1>1, <1>3 DEF EnterIndex, Run
<1>5. \A y \in Run : EnterParse(y).at \in Working
  BY <1>1, <1>4 DEF EnterParse, Run
<1> QED BY <1>2, <1>3, <1>4, <1>5

LEMMA DeliveredAt ==
  ASSUME run \in [Runs -> Run], NEW r \in Runs, NEW v \in BOOLEAN, Deliver(r, v)
  PROVE  /\ run'[r].at = "load task"
         /\ run'[r].versioned = v
         /\ run'[r].batch = run[r].batch
         /\ \A s \in Runs : s # r => run'[s] = run[s]
<1>1. PICK again \in BOOLEAN :
        run' = [run EXCEPT ![r].at = "load task", ![r].versioned = v, ![r].again = again]
  BY DEF Deliver
<1>2. run[r] \in Run
  OBVIOUS
<1>3. PICK x : x = [run[r] EXCEPT !.at = "load task", !.versioned = v, !.again = again]
  OBVIOUS
<1>4. run' = [run EXCEPT ![r] = x]
  BY <1>1, <1>3
<1>5. x.at = "load task" /\ x.versioned = v /\ x.batch = run[r].batch
  BY <1>2, <1>3 DEF Run
<1> QED BY <1>4, <1>5

LEMMA RunGoesWorks ==
  ASSUME run \in [Runs -> Run], NEW r \in Runs, NEW at \in Working, RunGoes(r, at)
  PROVE  run'[r].at \in Working
BY DEF RunGoes, Run

(* A step of a run leaves it at work, or settles the task, or is that of a  *)
(* run that has settled it before.                                          *)
LEMMA RunStepOwned ==
  ASSUME TypeOK, OwnedInv, RunStep
  PROVE  OwnedInv'
<1>1. PICK r \in Runs :
     \/ \E versioned \in BOOLEAN : Deliver(r, versioned)
     \/ LoadTask(r) \/ LoadSteps(r) \/ Begin(r) \/ StartStep(r)
     \/ \E d \in Docs : CreateDocument(r, d) \/ NameGroupFails(r, d)
     \/ KeepDocument(r) \/ ClearAssets(r) \/ SaveAssets(r)
     \/ FinishStep(r) \/ BindParse(r) \/ BindIndex(r)
     \/ ClearChunks(r) \/ ClearEs(r) \/ CleanUpFails(r)
     \/ InsertBatch(r) \/ UpsertBatch(r) \/ UpsertFails(r) \/ Publish(r)
     \/ PendingGraph(r)
     \/ \E result \in {"indexed", "failed"} : SyncGraph(r, result)
     \/ Demote(r) \/ Promote(r) \/ ClearOthers(r) \/ Reindex(r)
     \/ SwitchIndexFails(r) \/ Complete(r)
     \/ Throws(r) \/ CatchDocument(r) \/ CatchStep(r) \/ CatchTask(r)
     \/ RunFailsTask(r) \/ RunFailsSteps(r) \/ FailureUnsaved(r) \/ Acknowledge(r)
  BY DEF RunStep
<1>0. /\ run \in [Runs -> Run]
      /\ run[r] \in Run
      /\ UNCHANGED request
  BY DEF TypeOK, RunStep
<1>w. SUFFICES ASSUME ~(run'[r].at \in Working)
               PROVE  OwnedInv'
  BY DEF OwnedInv, Worked
<1>p. InTry \cup OutsideTry \cup InCatch \cup {"fail task"} \subseteq Working
  BY DEF Working
<1>e. \A x \in Run : /\ EnterVersion(x).at \in Working
                     /\ EnterGraph(x).at \in Working
                     /\ EnterIndex(x).at \in Working
                     /\ EnterParse(x).at \in Working
  BY EnterWorks
<1>g. \A at \in Working : ~RunGoes(r, at)
  BY <1>0, <1>w, RunGoesWorks
<1>2. ASSUME NEW versioned \in BOOLEAN, Deliver(r, versioned)
      PROVE  FALSE
  <2>1. run'[r].at = "load task"
    BY <1>0, <1>2, DeliveredAt
  <2> QED BY <1>p, <1>w, <2>1 DEF OutsideTry
<1>3. CASE LoadTask(r)
  <2>1. run'[r].at = "load steps"
    BY <1>0, <1>3 DEF LoadTask, Run
  <2> QED BY <1>p, <1>w, <2>1 DEF OutsideTry
<1>4. CASE LoadSteps(r)
  <2>1. run'[r].at = "begin"
    BY <1>0, <1>4 DEF LoadSteps, Run
  <2> QED BY <1>p, <1>w, <2>1 DEF OutsideTry
<1>5. CASE Begin(r) \/ BindParse(r) \/ BindIndex(r)
  BY <1>0, <1>5, <1>e, <1>w DEF Begin, BindParse, BindIndex
<1>6. CASE StartStep(r)
  <2>1. run[r].step \in {"parse", "index", "graph_sync"}
    BY <1>0 DEF Run, Step
  <2> QED BY <1>6, <1>g, <1>p, <2>1 DEF StartStep, InTry
<1>7. ASSUME NEW d \in Docs, CreateDocument(r, d) \/ NameGroupFails(r, d)
      PROVE  FALSE
  <2>1. CASE CreateDocument(r, d)
    BY <1>0, <1>p, <1>w, <2>1 DEF CreateDocument, InTry, Run
  <2>2. CASE NameGroupFails(r, d)
    BY <1>g, <1>p, <2>2 DEF NameGroupFails, InCatch
  <2> QED BY <1>7, <2>1, <2>2
<1>8. CASE KeepDocument(r) \/ ClearAssets(r) \/ SaveAssets(r)
  BY <1>8, <1>g, <1>p DEF KeepDocument, ClearAssets, SaveAssets, OnDocument, InTry
<1>9. CASE FinishStep(r)
  <2>1. run'[r] = IF run[r].step = "graph_sync" THEN EnterVersion(run[r])
                  ELSE [run[r] EXCEPT !.at = "bind"]
    BY <1>0, <1>9 DEF FinishStep
  <2>2. [run[r] EXCEPT !.at = "bind"].at \in Working
    BY <1>0, <1>p DEF InTry, Run
  <2> QED BY <1>0, <1>e, <1>w, <2>1, <2>2
<1>10. CASE ClearChunks(r) \/ InsertBatch(r) \/ Publish(r) \/ PendingGraph(r)
  BY <1>10, <1>g, <1>p DEF ClearChunks, InsertBatch, Publish, PendingGraph,
                           OnDocument, InTry
<1>11. CASE ClearEs(r) \/ CleanUpFails(r)
  <2>1. RunGoes(r, "insert")
    BY <1>11 DEF ClearEs, CleanUpFails, RunGoes
  <2> QED BY <1>g, <1>p, <2>1 DEF InTry
<1>12. CASE UpsertBatch(r) \/ UpsertFails(r)
  <2>1. run'[r] = AfterBatch(run[r])
    BY <1>0, <1>12 DEF UpsertBatch, UpsertFails
  <2>2. AfterBatch(run[r]).at \in {"publish", "insert"}
    BY <1>0 DEF AfterBatch, Run
  <2> QED BY <1>p, <1>w, <2>1, <2>2 DEF InTry
<1>13. ASSUME NEW result \in {"indexed", "failed"}, SyncGraph(r, result)
       PROVE  FALSE
  BY <1>13, <1>g, <1>p DEF SyncGraph, OnDocument, InTry
<1>14. CASE Demote(r) \/ Promote(r) \/ ClearOthers(r) \/ Reindex(r)
  BY <1>14, <1>g, <1>p DEF Demote, Promote, ClearOthers, Reindex, OnDocument,
                           OutsideTry
<1>15. CASE SwitchIndexFails(r)
  BY <1>15, <1>g, <1>p DEF SwitchIndexFails, OutsideTry
<1>16. CASE Complete(r)
  BY <1>16 DEF Complete, OwnedInv, TypeOK
<1>17. CASE CatchTask(r) \/ RunFailsTask(r)
  BY <1>17 DEF CatchTask, RunFailsTask, TaskFails, OwnedInv, TypeOK
<1>18. CASE Throws(r)
  <2>1. CASE RunGoes(r, "catch document")
    BY <1>g, <1>p, <2>1 DEF InCatch
  <2>2. CASE RunEnds(r, "fail task")
    <3>1. run'[r].at = "fail task"
      BY <1>0, <2>2 DEF RunEnds, NoRun
    <3> QED BY <1>p, <1>w, <3>1
  <2> QED BY <1>18, <2>1, <2>2 DEF Throws
<1>19. CASE CatchDocument(r)
  BY <1>19, <1>g, <1>p DEF CatchDocument, InCatch
<1>20. CASE CatchStep(r)
  <2>1. run'[r] = IF run[r].step = "graph_sync" THEN EnterVersion(run[r])
                  ELSE [run[r] EXCEPT !.at = "catch task"]
    BY <1>0, <1>20 DEF CatchStep
  <2>2. [run[r] EXCEPT !.at = "catch task"].at \in Working
    BY <1>0, <1>p DEF InCatch, Run
  <2> QED BY <1>0, <1>e, <1>w, <2>1, <2>2
<1>21. ASSUME \/ RunFailsSteps(r) \/ Acknowledge(r)
              \/ FailureUnsaved(r) /\ RunAt(r, "fail steps")
       PROVE  OwnedInv'
  <2>1. UNCHANGED <<task, queue, request, ignored>>
    BY <1>0, <1>21 DEF RunFailsSteps, FailureUnsaved, Acknowledge, FailureUnsaved, OnlySteps, OnlyRun,
                       OnlyIgnored
  <2>2. ~(run[r].at \in Working)
    BY <1>21 DEF RunFailsSteps, FailureUnsaved, Acknowledge, RunAt, Working, InTry, OutsideTry,
                 InCatch
  <2>3. \A s \in Runs : s # r => run'[s] = run[s]
    BY <1>0, <1>21 DEF RunFailsSteps, FailureUnsaved, Acknowledge, FailureUnsaved, RunEnds
  <2>4. Waiting' = Waiting /\ WillPublish' = WillPublish /\ Kept' = Kept
    BY <2>1 DEF Waiting, WillPublish, Kept
  <2>5. Worked => Worked'
    BY <2>2, <2>3 DEF Worked
  <2> QED BY <2>1, <2>4, <2>5 DEF OwnedInv
<1>22. CASE FailureUnsaved(r) /\ ~RunAt(r, "fail steps")
  BY <1>22 DEF FailureUnsaved, Ignores, OwnedInv, Kept, Stranding
<1> QED BY <1>1, <1>2, <1>3, <1>4, <1>5, <1>6, <1>7, <1>8, <1>9, <1>10, <1>11, <1>12,
           <1>13, <1>14, <1>15, <1>16, <1>17, <1>18, <1>19, <1>20, <1>21, <1>22

(* A step of a request publishes, hands over to the queue or fails the task. *)
LEMMA RequestStepOwned ==
  ASSUME TypeOK, OwnedInv, RequestStep
  PROVE  OwnedInv'
<1>1. PICK q \in Requests :
        \/ \E versioned \in BOOLEAN : SaveTask(q, versioned)
        \/ SaveSteps(q) \/ WriteStepsFails(q)
        \/ RetryAllowed(q) \/ ResetTask(q) \/ ResetSteps(q)
        \/ AddJob(q) \/ AddJobFails(q) \/ RegisterJobFails(q)
        \/ RequestFailsTask(q) \/ RequestFailsSteps(q) \/ RequestStops(q)
  BY DEF RequestStep
<1>0. /\ request \in [Requests -> Request]
      /\ request[q] \in Request
      /\ UNCHANGED run
      /\ queue \in [BOOLEAN -> Nat]
  BY DEF TypeOK, RequestStep
<1>g. ASSUME NEW at \in Publishing \ {"reset task"}, request'[q].at = at
      PROVE  OwnedInv'
  BY <1>g DEF OwnedInv, WillPublish
<1>2. ASSUME NEW versioned \in BOOLEAN, SaveTask(q, versioned)
      PROVE  OwnedInv'
  <2>1. request'[q].at = "save steps"
    BY <1>0, <1>2 DEF SaveTask, Request
  <2> QED BY <1>g, <2>1 DEF Publishing
<1>3. CASE \/ SaveSteps(q) \/ ResetTask(q) \/ ResetSteps(q) \/ AddJobFails(q)
           \/ RegisterJobFails(q)
  <2>1. \E at \in {"add", "reset steps", "fail task"} : RequestGoes(q, at)
    BY <1>3 DEF SaveSteps, ResetTask, ResetSteps, AddJobFails, RegisterJobFails
  <2>2. request'[q].at \in {"add", "reset steps", "fail task"}
    BY <1>0, <2>1 DEF RequestGoes, Request
  <2> QED BY <1>g, <2>2 DEF Publishing
<1>u. ASSUME UNCHANGED <<task, queue>>, Kept' => Kept,
             request[q].at \notin Publishing \ {"reset task"},
             \A p \in Requests : p # q => request'[p] = request[p]
      PROVE  OwnedInv'
  <2>1. WillPublish => WillPublish'
    BY <1>u DEF WillPublish
  <2>2. Waiting' = Waiting /\ Worked' = Worked
    BY <1>0, <1>u DEF Waiting, Worked
  <2> QED BY <1>u, <2>1, <2>2 DEF OwnedInv
<1>4. CASE RetryAllowed(q)
  BY <1>4 DEF RetryAllowed, OwnedInv
<1>5. CASE WriteStepsFails(q)
  BY <1>5 DEF WriteStepsFails, Ignores, OwnedInv, Kept, Stranding
<1>6. CASE AddJob(q)
  <2>1. request[q].versioned \in BOOLEAN
    BY <1>0 DEF Request
  <2>2. \A n \in Nat : n + 1 > 0
    OBVIOUS
  <2>3. queue[request[q].versioned] + 1 > 0
    BY <1>0, <2>1, <2>2, QueueEntry
  <2>4. queue'[request[q].versioned] = queue[request[q].versioned] + 1
    BY <1>0, <1>6, <2>1, Zenon DEF AddJob
  <2>5. Waiting'
    BY <2>1, <2>3, <2>4, Zenon DEF Waiting
  <2> QED BY <2>5 DEF OwnedInv
<1>7. CASE RequestFailsTask(q)
  BY <1>7 DEF RequestFailsTask, TaskFails, OwnedInv, TypeOK
<1>8. CASE RequestFailsSteps(q)
  BY <1>0, <1>8, <1>u DEF RequestFailsSteps, RequestStops, RequestAt, RequestGoes, Publishing, Kept
<1>9. CASE RequestStops(q) /\ request[q].at \in {"reset task", "fail steps"}
  BY <1>0, <1>9, <1>u DEF RequestStops, RequestGoes, Publishing, Kept
<1>10. CASE RequestStops(q) /\ request[q].at \notin {"reset task", "fail steps"}
  BY <1>10 DEF RequestStops, Ignores, OwnedInv, Kept, Stranding
<1> QED BY <1>1, <1>2, <1>3, <1>4, <1>5, <1>6, <1>7, <1>8, <1>9, <1>10

LEMMA UserStepOwned ==
  ASSUME TypeOK, OwnedInv, UserStep
  PROVE  OwnedInv'
<1>1. /\ UNCHANGED <<queue, request, run>>
      /\ task'.status = task.status
      /\ Kept' => Kept
  <2>1. CASE DeleteRow
    BY <2>1 DEF DeleteRow, Kept, TypeOK
  <2>2. ASSUME NEW d \in Docs, DeleteFromIndex(d)
        PROVE  UNCHANGED <<queue, request, run, task>> /\ (Kept' => Kept)
    BY <2>2 DEF DeleteFromIndex, Ignores, Kept
  <2> QED BY <2>1, <2>2 DEF UserStep
<1>2. Waiting' = Waiting /\ Worked' = Worked /\ WillPublish' = WillPublish
  BY <1>1 DEF Waiting, Worked, WillPublish
<1> QED BY <1>1, <1>2 DEF OwnedInv

(* The jobs of the runs that die wait again, unless one is given up. *)
LEMMA CrashOwned ==
  ASSUME TypeOK, OwnedInv, Crash
  PROVE  OwnedInv'
<1> SUFFICES ASSUME Kept', task.status \in {"pending", "running"}
             PROVE  Waiting' \/ WillPublish'
  BY DEF OwnedInv, Crash
<1>1. GivenUp = {} /\ Kept
  BY DEF Crash, Kept, Stranding
<1>a. queue \in [BOOLEAN -> Nat] /\ run \in [Runs -> Run]
  BY DEF TypeOK
<1>q. \A v \in BOOLEAN : queue'[v] = queue[v] + Cardinality(Recovered(v))
  BY Zenon DEF Crash
<1>2. CASE Waiting
  <2>1. PICK v \in BOOLEAN : queue[v] > 0
    BY <1>2, Zenon DEF Waiting
  <2>2. queue[v] \in Nat /\ Cardinality(Recovered(v)) \in Nat
    BY <1>a, QueueEntry, RecoveredFinite
  <2>3. \A m, n \in Nat : m > 0 => m + n > 0
    OBVIOUS
  <2>4. queue'[v] > 0
    BY <1>q, <2>1, <2>2, <2>3
  <2> QED BY <2>4, Zenon DEF Waiting
<1>3. CASE WillPublish
  BY <1>3 DEF WillPublish, Crash
<1>4. CASE Worked
  <2>1. PICK r \in Runs : run[r].at \in Working
    BY <1>4 DEF Worked
  <2>2. r \in Active
    BY <2>1 DEF Active, Working, InTry, OutsideTry, InCatch
  <2>3. ~run[r].again
    BY <1>1, <2>1, <2>2 DEF GivenUp
  <2>4. run[r].versioned \in BOOLEAN
    BY <1>a DEF Run
  <2>5. PICK v \in BOOLEAN : v = run[r].versioned
    BY <2>4
  <2>6. r \in Recovered(v)
    BY <2>2, <2>3, <2>5 DEF Recovered
  <2>7. Cardinality(Recovered(v)) \in Nat /\ Cardinality(Recovered(v)) # 0
    BY <2>6, RecoveredFinite, FS_EmptySet
  <2>8. queue[v] \in Nat
    BY <1>a, QueueEntry
  <2>9. \A m, n \in Nat : n # 0 => m + n > 0
    OBVIOUS
  <2>10. queue'[v] > 0
    BY <1>q, <2>7, <2>8, <2>9
  <2> QED BY <2>10, Zenon DEF Waiting
<1> QED BY <1>1, <1>2, <1>3, <1>4 DEF OwnedInv

LEMMA NextOwned ==
  ASSUME TypeOK, OwnedInv, [Next]_vars
  PROVE  OwnedInv'
<1>1. CASE UNCHANGED vars
  BY <1>1 DEF vars, OwnedInv, Waiting, Worked, WillPublish, Kept
<1> QED BY <1>1, RequestStepOwned, RunStepOwned, UserStepOwned, CrashOwned DEF Next

LEMMA OwnedNotStuck ==
  ASSUME TypeOK, OwnedInv
  PROVE  NeverStuck
<1>1. Waiting => queue[TRUE] + queue[FALSE] > 0
  <2>1. queue[TRUE] \in Nat /\ queue[FALSE] \in Nat
    BY QueueEntry DEF TypeOK
  <2>2. Waiting => queue[TRUE] > 0 \/ queue[FALSE] > 0
    BY Zenon DEF Waiting
  <2>3. \A m, n \in Nat : m > 0 \/ n > 0 => m + n > 0
    OBVIOUS
  <2> QED BY <2>1, <2>2, <2>3
<1>2. Worked => Active # {}
  BY DEF Worked, Active, Working, InTry, OutsideTry, InCatch
<1>3. WillPublish => \E q \in Requests : request[q].at \notin {"idle", "done"}
  BY DEF WillPublish, Publishing
<1> QED BY <1>1, <1>2, <1>3 DEF OwnedInv, NeverStuck, Kept

(* A task that is neither completed nor failed, and so cannot be retried,   *)
(* has a request, a job or a run that will bring it there, in whatever      *)
(* order errors, crashes and overlapping retries come, unless one of the    *)
(* four things in Stranding has happened to it.                             *)
THEOREM TaskNeverStuck == Spec => []NeverStuck
<1>1. Init => OwnedInv
  BY DEF Init, OwnedInv
<1>2. TypeOK /\ OwnedInv /\ [Next]_vars => OwnedInv'
  BY NextOwned
<1>3. TypeOK /\ OwnedInv => NeverStuck
  BY OwnedNotStuck
<1> QED BY <1>1, <1>2, <1>3, TypeCorrect, PTL DEF Spec

-----------------------------------------------------------------------------
(***************************************************************************)
(* Proofs about DocumentTask, for every value of its constants: one at a   *)
(* time works on a task, so a failed task is quiet, its steps complete in  *)
(* their order, and what the index step has written is kept.               *)
(***************************************************************************)

(* What a run does after its delivery, and what all of that leaves alone. *)

RunGoesOn(r) ==
  \/ LoadTask(r) \/ LoadSteps(r) \/ Begin(r) \/ StartStep(r)
  \/ \E d \in Docs : CreateDocument(r, d) \/ NameGroupFails(r, d)
  \/ KeepDocument(r) \/ ClearAssets(r) \/ SaveAssets(r)
  \/ FinishStep(r) \/ BindParse(r) \/ BindIndex(r)
  \/ ClearChunks(r) \/ ClearEs(r) \/ CleanUpFails(r)
  \/ InsertBatch(r) \/ UpsertBatch(r) \/ UpsertFails(r) \/ Publish(r)
  \/ PendingGraph(r)
  \/ \E result \in {"indexed", "failed"} : SyncGraph(r, result)
  \/ Demote(r) \/ Promote(r) \/ ClearOthers(r) \/ Reindex(r)
  \/ SwitchIndexFails(r) \/ Complete(r)
  \/ Throws(r) \/ CatchDocument(r) \/ CatchStep(r) \/ CatchTask(r)
  \/ RunFailsTask(r) \/ RunFailsSteps(r) \/ FailureUnsaved(r) \/ Acknowledge(r)

LEMMA RunStepIsOne ==
  ASSUME RunStep
  PROVE  /\ UNCHANGED request
         /\ \E r \in Runs : RunGoesOn(r) \/ \E v \in BOOLEAN : Deliver(r, v)
<1>1. UNCHANGED request
  BY DEF RunStep
<1>2. \E r \in Runs : RunGoesOn(r) \/ \E v \in BOOLEAN : Deliver(r, v)
  BY Zenon DEF RunStep, RunGoesOn
<1> QED BY <1>1, <1>2

(* A step of a run concerns no other run, puts nothing into the queue and   *)
(* is not one of a run that is over.                                        *)
LEMMA RunGoesOnAlone ==
  ASSUME TypeOK, NEW r \in Runs, RunGoesOn(r)
  PROVE  /\ UNCHANGED queue
         /\ Sound' => Sound
         /\ \A s \in Runs : s # r => run'[s] = run[s]
         /\ run[r].at \notin {"idle", "gone"}
<1>0. run \in [Runs -> Run] /\ run[r] \in Run
  BY DEF TypeOK
<1> USE <1>0
<1>1. CASE LoadTask(r) \/ LoadSteps(r) \/ Begin(r) \/ StartStep(r)
  BY <1>1 DEF LoadTask, LoadSteps, Begin, StartStep, RunAt, RunGoes, OnlyRun, OnlyTask,
              OnlySteps, Sound
<1>2. ASSUME NEW d \in Docs, CreateDocument(r, d) \/ NameGroupFails(r, d)
      PROVE  /\ UNCHANGED <<queue, ignored>> /\ run[r].at = "create"
             /\ \A s \in Runs : s # r => run'[s] = run[s]
  BY <1>2 DEF CreateDocument, NameGroupFails, RunAt, RunGoes, OnlyDocuments
<1>3. CASE KeepDocument(r) \/ ClearAssets(r) \/ SaveAssets(r)
  BY <1>3 DEF KeepDocument, ClearAssets, SaveAssets, OnDocument, RunAt, RunGoes, OnlyRun,
              OnlyDocuments, Sound
<1>4. CASE FinishStep(r) \/ BindParse(r) \/ BindIndex(r)
  BY <1>4 DEF FinishStep, BindParse, BindIndex, StepAt, RunAt, OnlyTask, OnlyRun, Sound
<1>5. CASE ClearChunks(r) \/ InsertBatch(r) \/ Publish(r) \/ PendingGraph(r)
  BY <1>5 DEF ClearChunks, InsertBatch, Publish, PendingGraph, OnDocument, RunAt, RunGoes,
              OnlyDocuments, Sound
<1>6. CASE ClearEs(r) \/ CleanUpFails(r) \/ UpsertBatch(r) \/ UpsertFails(r)
  BY <1>6 DEF ClearEs, CleanUpFails, UpsertBatch, UpsertFails, RunAt, OnlyEs, OnlyIgnored,
              Ignores, Sound
<1>7. ASSUME NEW result \in {"indexed", "failed"}, SyncGraph(r, result)
      PROVE  /\ UNCHANGED <<queue, ignored>> /\ run[r].at = "sync graph"
             /\ \A s \in Runs : s # r => run'[s] = run[s]
  BY <1>7 DEF SyncGraph, OnDocument, RunAt, RunGoes, OnlyDocuments
<1>8. CASE Demote(r) \/ Promote(r) \/ ClearOthers(r) \/ Reindex(r) \/ SwitchIndexFails(r)
  BY <1>8 DEF Demote, Promote, ClearOthers, Reindex, SwitchIndexFails, OnDocument, RunAt,
              RunGoes, OnlyDocuments, OnlyEs, OnlyIgnored, Ignores, Sound
<1>9. CASE Complete(r) \/ CatchTask(r) \/ RunFailsTask(r) \/ RunFailsSteps(r)
  BY <1>9 DEF Complete, CatchTask, RunFailsTask, RunFailsSteps, FailureUnsaved, RunAt, RunEnds, OnlyTask,
              OnlySteps, Sound
<1>10. CASE Throws(r)
  <2>1. UNCHANGED <<queue, ignored>>
    BY <1>10 DEF Throws, OnlyRun
  <2>2. run[r].at \in Working
    BY <1>10 DEF Throws
  <2>3. \A s \in Runs : s # r => run'[s] = run[s]
    BY <1>10 DEF Throws, RunGoes, RunEnds
  <2> QED BY <2>1, <2>2, <2>3 DEF Sound, Working, InTry, OutsideTry, InCatch
<1>11. CASE CatchDocument(r) \/ CatchStep(r) \/ Acknowledge(r)
  BY <1>11 DEF CatchDocument, CatchStep, Acknowledge, RunAt, RunGoes, OnlyDocuments,
               OnlySteps, OnlyRun, Sound
<1>13. CASE FailureUnsaved(r)
  BY <1>13 DEF FailureUnsaved, RunAt, RunEnds, OnlyIgnored, Ignores, Sound
<1>12. ASSUME UNCHANGED ignored PROVE Sound' => Sound
  BY <1>12 DEF Sound
<1> QED BY <1>1, <1>2, <1>3, <1>4, <1>5, <1>6, <1>7, <1>8, <1>9, <1>10, <1>11, <1>12,
           <1>13, Zenon DEF RunGoesOn

LEMMA RunEndsAt ==
  ASSUME run \in [Runs -> Run], NEW r \in Runs, NEW at, RunEnds(r, at)
  PROVE  run'[r].at = at
BY DEF RunEnds, NoRun

(* A run takes up no work again. *)
LEMMA RunGoesOnWorks ==
  ASSUME TypeOK, NEW r \in Runs, RunGoesOn(r), run'[r].at \in Working
  PROVE  run[r].at \in Working
<1>0. run \in [Runs -> Run] /\ run[r] \in Run
  BY DEF TypeOK
<1>1. ASSUME RunFailsSteps(r) \/ FailureUnsaved(r) \/ Acknowledge(r) PROVE FALSE
  <2>1. RunFailsSteps(r) => run'[r].at = "ack"
    BY <1>0, RunEndsAt DEF RunFailsSteps, FailureUnsaved
  <2>2. Acknowledge(r) => run'[r].at = "gone"
    BY <1>0 DEF Acknowledge, NoRun
  <2>3. FailureUnsaved(r) => run'[r].at = "ack"
    BY <1>0, RunEndsAt DEF FailureUnsaved
  <2> QED BY <1>1, <2>1, <2>2, <2>3 DEF Working, InTry, OutsideTry, InCatch
<1>2. InTry \cup OutsideTry \cup InCatch \cup {"fail task"} \subseteq Working
  BY DEF Working
<1>3. run[r].at \notin {"idle", "gone"}
  BY RunGoesOnAlone
<1>4. run[r].at \in Working \cup {"fail steps", "ack"}
  BY <1>0, <1>3 DEF Run, Ending
<1>5. ASSUME run[r].at \in {"fail steps", "ack"}
      PROVE  RunFailsSteps(r) \/ FailureUnsaved(r) \/ Acknowledge(r)
  <2>1. run[r].at \notin Working
    BY <1>5 DEF Working, InTry, OutsideTry, InCatch
  <2>2. \A at \in Working : ~RunAt(r, at)
    BY <2>1 DEF RunAt
  <2> QED
    BY <1>2, <1>5, <2>1, <2>2 DEF RunGoesOn, LoadTask, LoadSteps, Begin, StartStep,
       CreateDocument, NameGroupFails, KeepDocument, ClearAssets, SaveAssets, FinishStep,
       BindParse, BindIndex, StepAt, ClearChunks, ClearEs, CleanUpFails, InsertBatch,
       UpsertBatch, UpsertFails, Publish, PendingGraph, SyncGraph, Demote, Promote,
       ClearOthers, Reindex, SwitchIndexFails, Complete, Throws, CatchDocument, CatchStep,
       CatchTask, RunFailsTask, OnDocument, RunAt, InTry, OutsideTry, InCatch
<1> QED BY <1>1, <1>4, <1>5

LEMMA RunGoesOnTask ==
  ASSUME NEW r \in Runs, RunGoesOn(r),
         ~(Begin(r) \/ BindParse(r) \/ Complete(r) \/ CatchTask(r) \/ RunFailsTask(r))
  PROVE  UNCHANGED task
BY DEF RunGoesOn, LoadTask, LoadSteps, StartStep, CreateDocument, NameGroupFails,
   KeepDocument, ClearAssets, SaveAssets, FinishStep, BindIndex, ClearChunks, ClearEs,
   CleanUpFails, InsertBatch, UpsertBatch, UpsertFails, Publish, PendingGraph,
   SyncGraph, Demote, Promote, ClearOthers, Reindex, SwitchIndexFails, Throws,
   CatchDocument, CatchStep, RunFailsSteps, FailureUnsaved, Acknowledge,
   OnDocument, OnlyRun, OnlySteps, OnlyDocuments, OnlyEs, OnlyIgnored

(* The status of the task that a run leaves behind. *)
LEMMA RunGoesOnStatus ==
  ASSUME TypeOK, NEW r \in Runs, RunGoesOn(r)
  PROVE  /\ task'.status \in {task.status, "running", "completed", "failed"}
         /\ task'.status = "failed" /\ task.status # "failed"
              => run'[r].at \notin Working
<1>0. /\ run \in [Runs -> Run] /\ run[r] \in Run
      /\ task \in [status : TaskStatus, documentId : Docs \cup {NoDoc}]
  BY DEF TypeOK
<1>1. CASE Begin(r)
  BY <1>0, <1>1 DEF Begin
<1>2. CASE BindParse(r)
  BY <1>0, <1>2 DEF BindParse
<1>3. CASE Complete(r)
  BY <1>0, <1>3 DEF Complete
<1>4. CASE CatchTask(r) \/ RunFailsTask(r)
  <2>1. run'[r].at \in {"ack", "fail steps"}
    BY <1>0, <1>4, RunEndsAt DEF CatchTask, RunFailsTask
  <2>2. task'.status = "failed"
    BY <1>0, <1>4 DEF CatchTask, RunFailsTask, TaskFails
  <2> QED BY <2>1, <2>2 DEF Working, InTry, OutsideTry, InCatch
<1>5. CASE Begin(r) \/ BindParse(r) \/ Complete(r) \/ CatchTask(r) \/ RunFailsTask(r)
  BY <1>1, <1>2, <1>3, <1>4, <1>5
<1>6. CASE ~(Begin(r) \/ BindParse(r) \/ Complete(r) \/ CatchTask(r) \/ RunFailsTask(r))
  BY <1>6, RunGoesOnTask
<1> QED BY <1>5, <1>6

-----------------------------------------------------------------------------
(* One at a time works on the task: a waiting job, a run, or a request that *)
(* is about to publish a job.  A second one is an overlap, which is noted   *)
(* where a crash or a retry brings it about.                                *)

OneWorks ==
  /\ \A v, w \in BOOLEAN : queue[v] # 0 /\ queue[w] # 0 => v = w
  /\ \A v \in BOOLEAN : queue[v] \in {0, 1}
  /\ \A r, s \in Runs : run[r].at \in Working /\ run[s].at \in Working => r = s
  /\ \A p, q \in Requests :
       request[p].at \in Publishing /\ request[q].at \in Publishing => p = q
  /\ Waiting => ~Worked /\ ~Published
  /\ Worked => ~Published

OneInv ==
  Sound => /\ OneWorks
           /\ task.status = "absent" => Active = {} /\ ~Waiting /\ ~Published

LEMMA InitOne == Init => OneInv
<1> SUFFICES ASSUME Init PROVE OneInv
  OBVIOUS
<1>1. \A v \in BOOLEAN : queue[v] = 0
  BY Zenon DEF Init
<1>2. \A r \in Runs : run[r].at = "idle"
  BY DEF Init, NoRun
<1>3. \A q \in Requests : request[q].at = "idle"
  BY DEF Init
<1>4. ~Waiting
  BY <1>1 DEF Waiting
<1>5. ~Worked /\ Active = {}
  BY <1>2 DEF Worked, Active, Working, InTry, OutsideTry, InCatch
<1>6. ~Published
  BY <1>3 DEF Published, Publishing
<1>7. OneWorks
  BY <1>1, <1>4, <1>5, <1>6 DEF OneWorks, Worked, Published
<1> QED BY <1>4, <1>5, <1>6, <1>7 DEF OneInv

(* A job is handed to a run. *)
LEMMA DeliverOne ==
  ASSUME TypeOK, OneInv, NEW r \in Runs, NEW v \in BOOLEAN, Deliver(r, v),
         UNCHANGED request
  PROVE  OneInv'
<1> SUFFICES ASSUME Sound PROVE OneInv'
  BY DEF OneInv, Sound, Deliver
<1>0. /\ run \in [Runs -> Run] /\ queue \in [BOOLEAN -> Nat]
      /\ OneWorks
      /\ task.status = "absent" => ~Waiting
  BY DEF TypeOK, OneInv
<1>1. queue[v] > 0 /\ Waiting
  BY Zenon DEF Deliver, Waiting
<1>2. queue[v] = 1
  BY <1>0, <1>1 DEF OneWorks
<1>3. \A w \in BOOLEAN : queue'[w] = 0
  <2>1. queue'[v] = queue[v] - 1
    BY <1>0, Zenon DEF Deliver
  <2>2. \A w \in BOOLEAN : w # v => queue'[w] = queue[w]
    BY <1>0, Zenon DEF Deliver
  <2>3. queue[v] # 0
    BY <1>2
  <2>4. \A w \in BOOLEAN : w # v => queue[w] = 0
    BY <1>0, <2>3, Zenon DEF OneWorks
  <2>5. queue'[v] = 0
    BY <1>2, <2>1
  <2>6. ASSUME NEW w \in BOOLEAN
        PROVE  queue'[w] = 0
    <3>1. CASE w = v
      BY <2>5, <3>1, Zenon
    <3>2. CASE w # v
      BY <2>2, <2>4, <3>2, Zenon
    <3> QED BY <3>1, <3>2, Zenon
  <2> QED BY <2>6
<1>4. ~Waiting'
  BY <1>3 DEF Waiting
<1>5. \A s \in Runs : s # r => run'[s].at \notin Working
  BY <1>0, <1>1 DEF OneWorks, Worked, Deliver
<1>6. ~Published'
  BY <1>0, <1>1 DEF OneWorks, Published
<1>7. task'.status # "absent"
  BY <1>0, <1>1 DEF Deliver
<1>8. OneWorks'
  BY <1>3, <1>4, <1>5, <1>6 DEF OneWorks, Worked, Published
<1> QED BY <1>7, <1>8 DEF OneInv

(* A run goes on or ends; only one at work goes on. *)
LEMMA RunGoesOnOne ==
  ASSUME TypeOK, OneInv, NEW r \in Runs, RunGoesOn(r), UNCHANGED request
  PROVE  OneInv'
<1>1. /\ UNCHANGED queue
      /\ Sound' => Sound
      /\ \A s \in Runs : s # r => run'[s] = run[s]
      /\ run[r].at \notin {"idle", "gone"}
  BY RunGoesOnAlone
<1>2. \A s \in Runs : run'[s].at \in Working => run[s].at \in Working
  BY <1>1, RunGoesOnWorks
<1>3. Worked' => Worked
  BY <1>2 DEF Worked
<1>4. Waiting' = Waiting /\ Published' = Published
  BY <1>1 DEF Waiting, Published
<1>5. OneWorks => OneWorks'
  BY <1>1, <1>2, <1>3, <1>4 DEF OneWorks
<1>6. r \in Active
  BY <1>1 DEF Active
<1>7. Sound => task'.status # "absent"
  BY <1>6, RunGoesOnStatus DEF OneInv
<1> QED BY <1>1, <1>5, <1>7 DEF OneInv

LEMMA RunStepOne ==
  ASSUME TypeOK, OneInv, RunStep
  PROVE  OneInv'
BY RunStepIsOne, DeliverOne, RunGoesOnOne

(* Claims counts those at work. *)
RunsAtWork == Cardinality({r \in Runs : run[r].at \in Working})
RequestsAtWork == Cardinality({q \in Requests : request[q].at \in Publishing})
Counted ==
  /\ queue[TRUE] \in Nat /\ queue[FALSE] \in Nat
  /\ RunsAtWork \in Nat /\ (Worked <=> RunsAtWork # 0)
  /\ RequestsAtWork \in Nat /\ (Published <=> RequestsAtWork # 0)
  /\ Claims = queue[TRUE] + queue[FALSE] + RunsAtWork + RequestsAtWork

LEMMA ClaimsCount == TypeOK => Counted
<1> SUFFICES ASSUME TypeOK PROVE Counted
  OBVIOUS
<1> DEFINE R == {r \in Runs : run[r].at \in Working}
           Q == {q \in Requests : request[q].at \in Publishing}
<1>1. queue[TRUE] \in Nat /\ queue[FALSE] \in Nat
  BY QueueEntry DEF TypeOK
<1>2. IsFiniteSet(R) /\ IsFiniteSet(Q)
  BY RunsAssumption, RequestsAssumption, FS_Subset
<1>3. Cardinality(R) \in Nat /\ Cardinality(Q) \in Nat
  BY <1>2, FS_CardinalityType
<1>4. (Cardinality(R) = 0 <=> R = {}) /\ (Cardinality(Q) = 0 <=> Q = {})
  BY <1>2, FS_EmptySet
<1>5. (Worked <=> R # {}) /\ (Published <=> Q # {})
  BY DEF Worked, Published
<1> QED BY <1>1, <1>3, <1>4, <1>5 DEF Counted, Claims, RunsAtWork, RequestsAtWork

LEMMA NoClaims ==
  ASSUME TypeOK, ~(Claims + 1 > 1)
  PROVE  /\ \A v \in BOOLEAN : queue[v] = 0
         /\ ~Worked /\ ~Published
<1>1. Counted
  BY ClaimsCount
<1>2. \A a, b, c, d \in Nat :
        ~(a + b + c + d + 1 > 1) => a = 0 /\ b = 0 /\ c = 0 /\ d = 0
  OBVIOUS
<1>3. queue[TRUE] = 0 /\ queue[FALSE] = 0 /\ RunsAtWork = 0 /\ RequestsAtWork = 0
  BY <1>1, <1>2 DEF Counted
<1> QED BY <1>1, <1>3, Zenon DEF Counted

(* A retry begins when nobody else is at work, or is noted as an overlap.   *)
LEMMA RetryOne ==
  ASSUME TypeOK, OneInv, NEW q \in Requests, RetryAllowed(q), UNCHANGED run
  PROVE  OneInv'
<1> SUFFICES ASSUME Sound' PROVE OneInv'
  BY DEF OneInv
<1>1. ~(Claims + 1 > 1)
  BY DEF Sound, RetryAllowed, NotesOverlap
<1>2. (\A v \in BOOLEAN : queue'[v] = 0) /\ ~Worked' /\ ~Published
  BY <1>1, NoClaims DEF RetryAllowed, Worked
<1>3. \A p \in Requests : p # q => request'[p].at \notin Publishing
  BY <1>2 DEF TypeOK, RetryAllowed, Published
<1>4. ~Waiting'
  BY <1>2 DEF Waiting
<1>5. OneWorks'
  BY <1>2, <1>3, <1>4 DEF OneWorks, Worked
<1>6. task'.status # "absent"
  BY DEF RetryAllowed
<1> QED BY <1>5, <1>6 DEF OneInv

(* The creation of the task is the first to work on it. *)
LEMMA SaveTaskOne ==
  ASSUME TypeOK, OneInv, NEW q \in Requests, NEW versioned \in BOOLEAN,
         SaveTask(q, versioned), UNCHANGED run
  PROVE  OneInv'
<1> SUFFICES ASSUME Sound PROVE OneInv'
  BY DEF OneInv, Sound, SaveTask
<1>1. ~Waiting /\ ~Published /\ Active = {}
  BY DEF OneInv, SaveTask
<1>2. ~Worked
  BY <1>1 DEF Worked, Active, Working, InTry, OutsideTry, InCatch
<1>3. ~Waiting' /\ ~Worked'
  BY <1>1, <1>2 DEF SaveTask, Waiting, Worked
<1>4. \A p \in Requests : p # q => request'[p].at \notin Publishing
  BY <1>1 DEF TypeOK, SaveTask, Published
<1>5. OneWorks
  BY DEF OneInv
<1>6. OneWorks'
  BY <1>3, <1>4, <1>5 DEF OneWorks, Worked, SaveTask
<1>7. task'.status # "absent"
  BY DEF TypeOK, SaveTask
<1> QED BY <1>6, <1>7 DEF OneInv

(* A job is handed to the queue. *)
LEMMA AddJobOne ==
  ASSUME TypeOK, OneInv, NEW q \in Requests, AddJob(q), UNCHANGED run
  PROVE  OneInv'
<1> SUFFICES ASSUME Sound PROVE OneInv'
  BY DEF OneInv, Sound, AddJob
<1> DEFINE v == request[q].versioned
<1>0. /\ v \in BOOLEAN
      /\ queue \in [BOOLEAN -> Nat]
      /\ request \in [Requests -> Request]
      /\ OneWorks
  BY DEF TypeOK, Request, OneInv
<1>1. request[q].at \in Publishing /\ Published
  BY DEF AddJob, RequestAt, Publishing, Published
<1>2. ~Waiting /\ ~Worked
  BY <1>0, <1>1 DEF OneWorks
<1>3. \A w \in BOOLEAN : queue[w] = 0
  BY <1>0, <1>2, QueueEntry DEF Waiting, OneWorks
<1>4. \A w \in BOOLEAN : w # v => queue'[w] = 0
  BY <1>0, <1>3, Zenon DEF AddJob
<1>5. queue'[v] = 1
  <2>1. queue'[v] = queue[v] + 1
    BY <1>0, Zenon DEF AddJob
  <2> QED BY <1>0, <1>3, <2>1
<1>6. \A p \in Requests : request'[p].at \notin Publishing
  <2>1. request'[q].at = "done"
    BY <1>0 DEF AddJob, RequestGoes, Request
  <2>2. \A p \in Requests : p # q => request'[p] = request[p]
    BY <1>0 DEF AddJob, RequestGoes
  <2>3. \A p \in Requests : p # q => request[p].at \notin Publishing
    BY <1>0, <1>1 DEF OneWorks
  <2>4. "done" \notin Publishing
    BY DEF Publishing
  <2> QED BY <2>1, <2>2, <2>3, <2>4
<1>7. ~Worked' /\ ~Published'
  BY <1>2, <1>6 DEF Worked, Published
<1>8. \A w \in BOOLEAN : queue'[w] \in {0, 1}
  <2>1. ASSUME NEW w \in BOOLEAN
        PROVE  queue'[w] \in {0, 1}
    <3>1. CASE w = v
      BY <1>5, <3>1, Zenon
    <3>2. CASE w # v
      BY <1>4, <3>2, Zenon
    <3> QED BY <3>1, <3>2, Zenon
  <2> QED BY <2>1
<1>9. \A w, x \in BOOLEAN : queue'[w] # 0 /\ queue'[x] # 0 => w = x
  BY <1>4, Zenon
<1>10. OneWorks'
  BY <1>6, <1>7, <1>8, <1>9, Zenon DEF OneWorks, Worked
<1>11. task'.status # "absent"
  BY <1>1 DEF OneInv, AddJob
<1> QED BY <1>10, <1>11 DEF OneInv

(* The other statements of a request leave it at work or let it end. *)
LEMMA RequestGoesOnOne ==
  ASSUME TypeOK, OneInv, NEW q \in Requests, UNCHANGED run,
         \/ SaveSteps(q) \/ WriteStepsFails(q) \/ ResetTask(q) \/ ResetSteps(q)
         \/ AddJobFails(q) \/ RegisterJobFails(q)
         \/ RequestFailsTask(q) \/ RequestFailsSteps(q) \/ RequestStops(q)
  PROVE  OneInv'
<1>0. request \in [Requests -> Request]
  BY DEF TypeOK
<1>1. CASE WriteStepsFails(q) \/ RegisterJobFails(q)
  BY <1>1 DEF WriteStepsFails, RegisterJobFails, Ignores, OneInv, Sound
<1>3. CASE RequestStops(q) /\ request[q].at \notin {"reset task", "fail steps"}
  BY <1>3 DEF RequestStops, Ignores, OneInv, Sound
<1>2. CASE \/ SaveSteps(q) \/ ResetTask(q) \/ ResetSteps(q) \/ AddJobFails(q)
           \/ RequestFailsTask(q) \/ RequestFailsSteps(q) 
           \/ RequestStops(q) /\ request[q].at \in {"reset task", "fail steps"}
  <2> SUFFICES ASSUME Sound PROVE OneInv'
    BY <1>2 DEF OneInv, Sound, SaveSteps, ResetTask, ResetSteps, AddJobFails,
                RequestFailsTask, RequestFailsSteps, RequestStops
  <2>1. UNCHANGED queue
    BY <1>2 DEF SaveSteps, ResetTask, ResetSteps, AddJobFails, RequestFailsTask,
                RequestFailsSteps, RequestStops
  <2>2. \A p \in Requests : p # q => request'[p] = request[p]
    BY <1>0, <1>2 DEF SaveSteps, ResetTask, ResetSteps, AddJobFails, RequestFailsTask,
                      RequestFailsSteps, RequestStops, RequestGoes
  <2>3. request'[q].at \in Publishing => request[q].at \in Publishing
    <3>1. CASE RequestFailsSteps(q) \/ RequestStops(q)
      <4>1. request'[q].at = "done"
        BY <1>0, <3>1 DEF RequestFailsSteps, RequestStops, RequestGoes, Request
      <4> QED BY <4>1 DEF Publishing
    <3>2. CASE ~(RequestFailsSteps(q) \/ RequestStops(q))
      BY <1>2, <3>2 DEF SaveSteps, ResetTask, ResetSteps, AddJobFails, RequestFailsTask,
                        RequestAt, Publishing
    <3> QED BY <3>1, <3>2
  <2>4. Published' => Published
    BY <2>2, <2>3 DEF Published
  <2>5. Waiting' = Waiting /\ Worked' = Worked /\ Active' = Active
    BY <2>1 DEF Waiting, Worked, Active
  <2>6. OneWorks
    BY DEF OneInv
  <2>7. OneWorks'
    BY <2>1, <2>2, <2>3, <2>4, <2>5, <2>6 DEF OneWorks
  <2>8. task'.status = "absent" => task.status = "absent"
    BY <1>2 DEF TypeOK, SaveSteps, ResetTask, ResetSteps, AddJobFails, RequestFailsTask,
                RequestFailsSteps, RequestStops, TaskFails
  <2> QED BY <2>4, <2>5, <2>7, <2>8 DEF OneInv
<1> QED BY <1>1, <1>2, <1>3

LEMMA RequestStepOne ==
  ASSUME TypeOK, OneInv, RequestStep
  PROVE  OneInv'
<1>1. UNCHANGED run
  BY DEF RequestStep
<1> QED BY <1>1, SaveTaskOne, RetryOne, AddJobOne, RequestGoesOnOne DEF RequestStep

LEMMA UserStepOne ==
  ASSUME TypeOK, OneInv, UserStep
  PROVE  OneInv'
<1>1. /\ UNCHANGED <<queue, request, run>>
      /\ task'.status = task.status
      /\ Sound' => Sound
  <2>1. CASE DeleteRow
    BY <2>1 DEF DeleteRow, TypeOK, Sound
  <2>2. ASSUME NEW d \in Docs, DeleteFromIndex(d)
        PROVE  UNCHANGED <<queue, request, run, task>> /\ (Sound' => Sound)
    BY <2>2 DEF DeleteFromIndex, Ignores, Sound
  <2> QED BY <2>1, <2>2 DEF UserStep
<1> QED BY <1>1 DEF OneInv, OneWorks, Waiting, Worked, Published, Active

(* The jobs of the dead are counted again: more than one is an overlap.     *)
LEMMA CrashOne ==
  ASSUME TypeOK, OneInv, Crash
  PROVE  OneInv'
<1> SUFFICES ASSUME Sound' PROVE OneInv'
  BY DEF OneInv
<1>1. Sound /\ ~(Claims' > 1)
  BY DEF Sound, Crash, NotesOverlap
<1>2. \A r \in Runs : run'[r].at \notin Working
  BY DEF TypeOK, Crash, NoRun, Active, Working, InTry, OutsideTry, InCatch
<1>3. ~Worked'
  BY <1>2 DEF Worked
<1>4. TypeOK'
  BY CrashTyped
<1>5. Counted'
  BY <1>4, ClaimsCount, PTL
<1>7. \A a, b, c, d \in Nat : ~(a + b + c + d > 1)
        => /\ a \in {0, 1} /\ b \in {0, 1}
           /\ a = 0 \/ b = 0
           /\ d # 0 => a = 0 /\ b = 0
  OBVIOUS
<1>8. /\ queue'[TRUE] \in {0, 1} /\ queue'[FALSE] \in {0, 1}
      /\ queue'[TRUE] = 0 \/ queue'[FALSE] = 0
      /\ RequestsAtWork' # 0 => queue'[TRUE] = 0 /\ queue'[FALSE] = 0
  BY <1>1, <1>5, <1>7 DEF Counted
<1>9. \A v \in BOOLEAN : queue'[v] \in {0, 1}
  BY <1>8, Zenon
<1>10. \A v, w \in BOOLEAN : queue'[v] # 0 /\ queue'[w] # 0 => v = w
  BY <1>8, Zenon
<1>11. Waiting' => ~Published'
  <2>1. ASSUME Published' PROVE \A v \in BOOLEAN : queue'[v] = 0
    BY <1>5, <1>8, <2>1, Zenon DEF Counted
  <2> QED BY <2>1 DEF Waiting
<1>12. OneWorks'
  <2>1. \A p, s \in Requests :
          request'[p].at \in Publishing /\ request'[s].at \in Publishing => p = s
    BY <1>1 DEF OneInv, OneWorks, Crash
  <2> QED BY <1>2, <1>3, <1>9, <1>10, <1>11, <2>1, Zenon DEF OneWorks
<1>13. task'.status # "absent"
  BY <1>1 DEF OneInv, Crash
<1> QED BY <1>12, <1>13 DEF OneInv

LEMMA NextOne ==
  ASSUME TypeOK, OneInv, [Next]_vars
  PROVE  OneInv'
<1>1. CASE UNCHANGED vars
  BY <1>1 DEF vars, OneInv, OneWorks, Waiting, Worked, Published, Active, Sound
<1> QED BY <1>1, RequestStepOne, RunStepOne, UserStepOne, CrashOne DEF Next

(* Never do two work on one task at a time, be it a job, a run or a request *)
(* about to publish, unless the model has noted that they overlap.          *)
THEOREM OneAtATime == Spec => []OneInv
BY TypeCorrect, InitOne, NextOne, PTL DEF Spec
-----------------------------------------------------------------------------
(* A failed task has no worker that will still work on it: whoever fails it *)
(* was alone and ends, and a run of a job that comes later sets it running  *)
(* before it does anything else.                                            *)

Quiet == {"load task", "load steps", "begin", "fail task"}

LEMMA RunGoesOnQuiet ==
  ASSUME TypeOK, NEW r \in Runs, RunGoesOn(r), run[r].at \in Quiet,
         task'.status = "failed", run'[r].at \in Working
  PROVE  run'[r].at \in Quiet
<1>0. /\ run \in [Runs -> Run]
      /\ task \in [status : TaskStatus, documentId : Docs \cup {NoDoc}]
  BY DEF TypeOK
<1>1. CASE LoadTask(r)
  BY <1>0, <1>1 DEF LoadTask, Quiet, Run
<1>2. CASE LoadSteps(r)
  BY <1>0, <1>2 DEF LoadSteps, Quiet, Run
<1>3. CASE Begin(r)
  BY <1>0, <1>3 DEF Begin
<1>4. CASE Throws(r)
  <2>1. run[r].at \notin InTry
    BY DEF Quiet, InTry
  <2> QED BY <1>0, <1>4, <2>1, RunEndsAt DEF Throws, Quiet
<1>5. CASE RunFailsTask(r)
  BY <1>0, <1>5, RunEndsAt DEF RunFailsTask, Working, InTry, OutsideTry, InCatch
<1>6. CASE ~(\/ LoadTask(r) \/ LoadSteps(r) \/ Begin(r) \/ Throws(r)
             \/ RunFailsTask(r) \/ FailureUnsaved(r))
  BY <1>6 DEF RunGoesOn, StartStep, CreateDocument, NameGroupFails, KeepDocument,
     ClearAssets, SaveAssets, FinishStep, BindParse, BindIndex, StepAt, ClearChunks,
     ClearEs, CleanUpFails, InsertBatch, UpsertBatch, UpsertFails, Publish, PendingGraph,
     SyncGraph, Demote, Promote, ClearOthers, Reindex, SwitchIndexFails, Complete,
     CatchDocument, CatchStep, CatchTask, RunFailsSteps, Acknowledge, OnDocument,
     RunAt, Quiet
<1>7. CASE FailureUnsaved(r)
  BY <1>0, <1>7, RunEndsAt DEF FailureUnsaved, Working, InTry, OutsideTry, InCatch
<1> QED BY <1>1, <1>2, <1>3, <1>4, <1>5, <1>6, <1>7

LEMMA RunStepQuiet ==
  ASSUME TypeOK, OneInv, FailedIsQuiet, RunStep
  PROVE  FailedIsQuiet'
<1> SUFFICES ASSUME Sound', task'.status = "failed",
                    NEW s \in Runs, run'[s].at \in Working
             PROVE  run'[s].at \in Quiet
  BY DEF FailedIsQuiet, Quiet
<1>0. run \in [Runs -> Run]
  BY DEF TypeOK
<1>1. PICK r \in Runs : RunGoesOn(r) \/ \E v \in BOOLEAN : Deliver(r, v)
  BY RunStepIsOne
<1>2. ASSUME NEW v \in BOOLEAN, Deliver(r, v)
      PROVE  run'[s].at \in Quiet
  <2>0. /\ run'[r].at = "load task"
        /\ \A t \in Runs : t # r => run'[t] = run[t]
    BY <1>0, <1>2, DeliveredAt
  <2>1. task.status = "failed" /\ Sound
    BY <1>2 DEF Deliver, Sound
  <2>2. CASE s = r
    BY <2>0, <2>2 DEF Quiet
  <2>3. CASE s # r
    BY <2>0, <2>1, <2>3 DEF FailedIsQuiet, Quiet
  <2> QED BY <2>2, <2>3
<1>3. CASE RunGoesOn(r)
  <2>1. /\ Sound
        /\ \A t \in Runs : t # r => run'[t] = run[t]
    BY <1>3, RunGoesOnAlone
  <2>2. run[s].at \in Working
    BY <1>3, <2>1, RunGoesOnWorks
  <2>3. CASE task.status = "failed"
    <3>1. run[s].at \in Quiet
      BY <2>1, <2>2, <2>3 DEF FailedIsQuiet, Quiet
    <3> QED BY <1>3, <2>1, <3>1, RunGoesOnQuiet
  <2>4. CASE task.status # "failed"
    <3>1. run'[r].at \notin Working
      BY <1>3, <2>4, RunGoesOnStatus
    <3>2. s # r
      BY <3>1
    <3>3. run[r].at \notin Working
      BY <2>1, <2>2, <3>2 DEF OneInv, OneWorks
    <3>4. ~(CatchTask(r) \/ RunFailsTask(r) \/ Begin(r) \/ BindParse(r) \/ Complete(r))
      BY <3>3 DEF CatchTask, RunFailsTask, Begin, BindParse, Complete, StepAt, RunAt,
                  Working, InTry, OutsideTry, InCatch
    <3>5. task'.status = task.status
      BY <1>3, <3>4, RunGoesOnTask
    <3> QED BY <2>4, <3>5
  <2> QED BY <2>3, <2>4
<1> QED BY <1>1, <1>2, <1>3

LEMMA RequestStepQuiet ==
  ASSUME TypeOK, OneInv, FailedIsQuiet, RequestStep
  PROVE  FailedIsQuiet'
<1> SUFFICES ASSUME Sound', task'.status = "failed",
                    NEW s \in Runs, run'[s].at \in Working
             PROVE  run'[s].at \in Quiet
  BY DEF FailedIsQuiet, Quiet
<1>1. UNCHANGED run
  BY DEF RequestStep
<1>2. PICK q \in Requests :
        \/ \E versioned \in BOOLEAN : SaveTask(q, versioned)
        \/ SaveSteps(q) \/ WriteStepsFails(q)
        \/ RetryAllowed(q) \/ ResetTask(q) \/ ResetSteps(q)
        \/ AddJob(q) \/ AddJobFails(q) \/ RegisterJobFails(q)
        \/ RequestFailsTask(q) \/ RequestFailsSteps(q) \/ RequestStops(q)
  BY DEF RequestStep
<1>3. Sound
  BY <1>2 DEF Sound, SaveTask, SaveSteps, WriteStepsFails, RetryAllowed, ResetTask,
     ResetSteps, AddJob, AddJobFails, RegisterJobFails, RequestFailsTask,
     RequestFailsSteps, RequestStops, Ignores, NotesOverlap
<1>4. CASE RequestFailsTask(q)
  <2>1. Published /\ Worked
    BY <1>1, <1>4 DEF RequestFailsTask, RequestAt, Publishing, Published, Worked
  <2> QED BY <1>3, <2>1 DEF OneInv, OneWorks
<1>5. CASE ~RequestFailsTask(q)
  <2>1. task.status = "failed"
    BY <1>2, <1>5 DEF TypeOK, SaveTask, SaveSteps, WriteStepsFails, RetryAllowed,
       ResetTask, ResetSteps, AddJob, AddJobFails, RegisterJobFails, RequestFailsSteps, RequestStops
  <2> QED BY <1>1, <1>3, <2>1 DEF FailedIsQuiet, Quiet
<1> QED BY <1>4, <1>5

LEMMA NextQuiet ==
  ASSUME TypeOK, OneInv, FailedIsQuiet, [Next]_vars
  PROVE  FailedIsQuiet'
<1>1. CASE UNCHANGED vars
  BY <1>1 DEF vars, FailedIsQuiet, Sound
<1>2. CASE UserStep
  <2>1. CASE DeleteRow
    BY <2>1 DEF DeleteRow, TypeOK, FailedIsQuiet, Sound
  <2>2. ASSUME NEW d \in Docs, DeleteFromIndex(d)
        PROVE  FailedIsQuiet'
    BY <2>2 DEF DeleteFromIndex, Ignores, FailedIsQuiet, Sound
  <2> QED BY <1>2, <2>1, <2>2 DEF UserStep
<1>3. CASE Crash
  <2>1. \A r \in Runs : run'[r].at \notin Working
    BY <1>3 DEF TypeOK, Crash, NoRun, Active, Working, InTry, OutsideTry, InCatch
  <2> QED BY <2>1 DEF FailedIsQuiet
<1> QED BY <1>1, <1>2, <1>3, RunStepQuiet, RequestStepQuiet DEF Next

(* A task that has failed, and may be retried, is no longer worked on by    *)
(* any run but one that has just begun with a new job of it.                *)
THEOREM FailedStaysQuiet == Spec => []FailedIsQuiet
<1>1. Init => FailedIsQuiet
  <2>1. Init => task.status = "absent"
    BY DEF Init
  <2> QED BY <2>1 DEF FailedIsQuiet
<1> QED BY <1>1, TypeCorrect, OneAtATime, NextQuiet, PTL DEF Spec
-----------------------------------------------------------------------------
(* Steps complete in order.  A run skips what was completed when it began,  *)
(* alone as it is nothing completes behind its back, and while it is in a   *)
(* step no later one is completed.                                          *)

Done == {s \in Step : steps[s] = "completed"}
InStep == InTry \cup {"start", "catch document", "catch step"}
InIndex == {"clear chunks", "clear es", "insert", "upsert", "publish"}

Placed(x) ==
  /\ x.at = "begin" => x.skips = Done
  /\ x.at \in InStep =>
       /\ x.step = "parse" => /\ "index" \notin Done \cup x.skips
                              /\ "graph_sync" \notin Done \cup x.skips
       /\ x.step = "index" => /\ "parse" \in Done
                              /\ "graph_sync" \notin Done \cup x.skips
       /\ x.step = "graph_sync" => "index" \in Done
  /\ x.at = "bind" => x.step \in Done
  /\ x.at = "create" => x.step = "parse"
  /\ x.at \in InIndex \/ (x.at = "start" /\ x.step = "index") => "index" \notin Done

InOrder ==
  /\ "index" \in Done => "parse" \in Done
  /\ "graph_sync" \in Done => "index" \in Done

Unbegun == task.status = "absent" \/ \E q \in Requests : request[q].at = "save steps"

OrderInv ==
  Sound => /\ InOrder
           /\ \A r \in Runs : run[r].at \in Working => Placed(run[r])
           /\ Unbegun => Done = {}

(* Outside of the steps nothing is asked of a run. *)
LEMMA PlacedOutside ==
  ASSUME NEW x, x.at \notin InStep \cup {"begin"}
  PROVE  Placed(x)
BY DEF Placed, InStep, InTry, InIndex

(* Going on to the next step that was not skipped. *)
LEMMA EnterGraphPlaced ==
  ASSUME NEW x \in Run, "index" \in Done
  PROVE  Placed(EnterGraph(x))
<1>1. CASE "graph_sync" \in x.skips
  <2>1. EnterGraph(x).at \in {"demote", "complete"}
    BY <1>1 DEF EnterGraph, EnterVersion, Run
  <2> QED BY <2>1, PlacedOutside DEF InStep, InTry
<1>2. CASE "graph_sync" \notin x.skips
  <2>1. EnterGraph(x).at = "start" /\ EnterGraph(x).step = "graph_sync"
    BY <1>2 DEF EnterGraph, Run
  <2> QED BY <2>1 DEF Placed, InIndex
<1> QED BY <1>1, <1>2

LEMMA EnterIndexPlaced ==
  ASSUME NEW x \in Run, "parse" \in Done,
         "index" \in x.skips => "index" \in Done,
         "index" \notin x.skips => /\ "index" \notin Done
                                  /\ "graph_sync" \notin Done \cup x.skips
  PROVE  Placed(EnterIndex(x))
<1>1. CASE x.documentId = NoDoc
  <2>1. EnterIndex(x).at = "fail task"
    BY <1>1 DEF EnterIndex, Run
  <2> QED BY <2>1, PlacedOutside DEF InStep, InTry
<1>2. CASE x.documentId # NoDoc /\ "index" \in x.skips
  BY <1>2, EnterGraphPlaced DEF EnterIndex
<1>3. CASE x.documentId # NoDoc /\ "index" \notin x.skips
  <2>1. /\ EnterIndex(x).at = "start" /\ EnterIndex(x).step = "index"
        /\ EnterIndex(x).skips = x.skips
    BY <1>3 DEF EnterIndex, Run
  <2> QED BY <1>3, <2>1 DEF Placed, InIndex
<1> QED BY <1>1, <1>2, <1>3

LEMMA EnterParsePlaced ==
  ASSUME NEW x \in Run, InOrder, x.skips = Done
  PROVE  Placed(EnterParse(x))
<1>1. CASE "parse" \in x.skips
  BY <1>1, EnterIndexPlaced DEF EnterParse, InOrder
<1>2. CASE "parse" \notin x.skips
  <2>1. /\ EnterParse(x).at = "start" /\ EnterParse(x).step = "parse"
        /\ EnterParse(x).skips = x.skips
    BY <1>2 DEF EnterParse, Run
  <2> QED BY <1>2, <2>1 DEF Placed, InOrder, InIndex
<1> QED BY <1>1, <1>2

(* The statements that write no step. *)
LEMMA RunGoesOnSteps ==
  ASSUME NEW r \in Runs, RunGoesOn(r),
         ~(StartStep(r) \/ FinishStep(r) \/ CatchStep(r) \/ RunFailsSteps(r))
  PROVE  UNCHANGED steps
BY DEF RunGoesOn, LoadTask, LoadSteps, Begin, CreateDocument, NameGroupFails,
   KeepDocument, ClearAssets, SaveAssets, BindParse, BindIndex, ClearChunks, ClearEs,
   CleanUpFails, InsertBatch, UpsertBatch, UpsertFails, Publish, PendingGraph,
   SyncGraph, Demote, Promote, ClearOthers, Reindex, SwitchIndexFails, Complete, Throws,
   CatchDocument, CatchTask, RunFailsTask, FailureUnsaved, Acknowledge, OnDocument,
   OnlyRun, OnlyTask,   OnlyDocuments, OnlyEs, OnlyIgnored

LEMMA RunGoesTo ==
  ASSUME TypeOK, NEW r \in Runs, NEW at, RunGoes(r, at)
  PROVE  run'[r].at = at /\ run'[r].step = run[r].step /\ run'[r].skips = run[r].skips
BY DEF TypeOK, RunGoes, Run

(* What a run does that moves within a step. *)
LEMMA RunGoesOnWithin ==
  ASSUME TypeOK, NEW r \in Runs,
         \/ \E d \in Docs : CreateDocument(r, d) \/ NameGroupFails(r, d)
         \/ KeepDocument(r) \/ ClearAssets(r) \/ SaveAssets(r)
         \/ ClearChunks(r) \/ ClearEs(r) \/ CleanUpFails(r)
         \/ InsertBatch(r) \/ UpsertBatch(r) \/ UpsertFails(r) \/ Publish(r)
         \/ PendingGraph(r)
         \/ \E result \in {"indexed", "failed"} : SyncGraph(r, result)
         \/ CatchDocument(r)
  PROVE  /\ run[r].at \in InStep
         /\ run'[r].at \notin {"begin", "bind", "create", "start"}
         /\ run'[r].at \in InIndex => run[r].at \in InIndex
         /\ run'[r].step = run[r].step
         /\ run'[r].skips = run[r].skips
<1>0. run \in [Runs -> Run] /\ run[r] \in Run
  BY DEF TypeOK
<1> DEFINE Goes == /\ run[r].at \in InStep
                   /\ run'[r].at \notin {"begin", "bind", "create", "start"}
                   /\ run'[r].at \in InIndex => run[r].at \in InIndex
                   /\ run'[r].step = run[r].step
                   /\ run'[r].skips = run[r].skips
<1>1. ASSUME NEW d \in Docs, CreateDocument(r, d) \/ NameGroupFails(r, d)
      PROVE  Goes
  <2>1. CASE CreateDocument(r, d)
    BY <1>0, <2>1 DEF CreateDocument, RunAt, Run, InStep, InTry, InIndex
  <2>2. CASE NameGroupFails(r, d)
    BY <1>0, <2>2 DEF NameGroupFails, RunAt, RunGoes, Run, InStep, InTry, InIndex
  <2> QED BY <1>1, <2>1, <2>2
<1>2. CASE KeepDocument(r) \/ ClearAssets(r) \/ SaveAssets(r)
  <2>1. \E at \in {"clear assets", "save assets", "finish"} : RunGoes(r, at)
    BY <1>2 DEF KeepDocument, ClearAssets, SaveAssets, OnDocument
  <2>2. run[r].at \in InStep
    BY <1>2 DEF KeepDocument, ClearAssets, SaveAssets, OnDocument, RunAt, InStep, InTry, InIndex
  <2> QED BY <2>1, <2>2, RunGoesTo DEF InIndex
<1>3. CASE ClearChunks(r) \/ InsertBatch(r) \/ Publish(r) \/ PendingGraph(r)
  <2>1. \E at \in {"clear es", "upsert", "finish", "sync graph"} :
          RunGoes(r, at) /\ (at \in InIndex => run[r].at \in InIndex)
    BY <1>3 DEF ClearChunks, InsertBatch, Publish, PendingGraph, OnDocument, RunAt, InIndex
  <2>2. run[r].at \in InStep
    BY <1>3 DEF ClearChunks, InsertBatch, Publish, PendingGraph, OnDocument, RunAt, InStep,
                InTry, InIndex
  <2> QED BY <2>1, <2>2, RunGoesTo DEF InIndex
<1>4. CASE ClearEs(r) \/ CleanUpFails(r)
  <2>1. RunGoes(r, "insert")
    BY <1>4 DEF ClearEs, CleanUpFails, RunGoes
  <2>2. run[r].at \in InStep /\ run[r].at \in InIndex
    BY <1>4 DEF ClearEs, CleanUpFails, RunAt, InStep, InTry, InIndex
  <2>3. /\ run'[r].at = "insert"
        /\ run'[r].step = run[r].step /\ run'[r].skips = run[r].skips
    BY <2>1, RunGoesTo
  <2> QED BY <2>2, <2>3
<1>5. CASE UpsertBatch(r) \/ UpsertFails(r)
  <2>1. run'[r] = AfterBatch(run[r]) /\ run[r].at = "upsert"
    BY <1>0, <1>5 DEF UpsertBatch, UpsertFails, RunAt
  <2>2. /\ AfterBatch(run[r]).at \in {"publish", "insert"}
        /\ AfterBatch(run[r]).step = run[r].step
        /\ AfterBatch(run[r]).skips = run[r].skips
    BY <1>0 DEF AfterBatch, Run
  <2> QED BY <2>1, <2>2 DEF InStep, InTry, InIndex
<1>6. ASSUME NEW result \in {"indexed", "failed"}, SyncGraph(r, result)
      PROVE  Goes
  BY <1>0, <1>6 DEF SyncGraph, OnDocument, RunAt, RunGoes, Run, InStep, InTry, InIndex
<1>7. CASE CatchDocument(r)
  BY <1>0, <1>7 DEF CatchDocument, RunAt, RunGoes, Run, InStep, InTry, InIndex
<1> QED BY <1>1, <1>2, <1>3, <1>4, <1>5, <1>6, <1>7

(* Failing what is running leaves what is completed. *)
LEMMA FailingStepsKeepDone ==
  ASSUME TypeOK, RunningStepsFail
  PROVE  Done' = Done
BY DEF TypeOK, RunningStepsFail, Done

LEMMA StepCompleted ==
  ASSUME TypeOK, NEW step \in Step, steps' = [steps EXCEPT ![step] = "completed"]
  PROVE  Done' = Done \cup {step}
BY DEF TypeOK, Done

LEMMA StepOtherwise ==
  ASSUME TypeOK, NEW step \in Step, NEW status \in {"running", "failed"},
         steps' = [steps EXCEPT ![step] = status]
  PROVE  Done' = Done \ {step}
BY DEF TypeOK, Done

(* A statement of the run at work keeps the order. *)
LEMMA RunAtWorkOrder ==
  ASSUME TypeOK, NEW r \in Runs, RunGoesOn(r), run[r].at \in Working,
         InOrder, Placed(run[r])
  PROVE  InOrder' /\ (run'[r].at \in Working => Placed(run[r])')
<1>0. /\ run \in [Runs -> Run] /\ run[r] \in Run
      /\ steps \in [Step -> StepStatus]
      /\ run[r].step \in Step
  BY DEF TypeOK, Run
<1>u. ASSUME UNCHANGED steps
      PROVE  Done' = Done /\ InOrder'
  BY <1>u DEF Done, InOrder
<1>o. ASSUME run'[r].at \notin InStep \cup {"begin"}
      PROVE  Placed(run[r])'
  BY <1>o DEF Placed, InStep, InTry, InIndex
<1>1. CASE LoadTask(r)
  <2>1. run'[r].at = "load steps"
    BY <1>0, <1>1 DEF LoadTask, Run
  <2>2. UNCHANGED steps
    BY <1>1 DEF LoadTask, OnlyRun
  <2> QED BY <1>o, <1>u, <2>1, <2>2 DEF InStep, InTry
<1>2. CASE LoadSteps(r)
  <2>1. run'[r].at = "begin" /\ run'[r].skips = Done
    BY <1>0, <1>2 DEF LoadSteps, Run, Done
  <2>2. UNCHANGED steps
    BY <1>2 DEF LoadSteps, OnlyRun
  <2> QED BY <1>u, <2>1, <2>2 DEF Placed, InStep, InTry, InIndex
<1>3. CASE Begin(r)
  <2>1. run'[r] = EnterParse(run[r]) /\ run[r].at = "begin"
    BY <1>0, <1>3 DEF Begin, RunAt
  <2>2. Placed(EnterParse(run[r]))
    BY <1>0, <2>1, EnterParsePlaced DEF Placed
  <2>3. UNCHANGED steps
    BY <1>3 DEF Begin, OnlyTask
  <2> QED BY <1>u, <2>1, <2>2, <2>3 DEF Placed
<1>4. CASE StartStep(r)
  <2>1. Done' = Done \ {run[r].step}
    BY <1>0, <1>4, StepOtherwise DEF StartStep
  <2>2. run[r].at \in InStep
    BY <1>4 DEF StartStep, RunAt, InStep
  <2>3. \E at \in {"create", "clear chunks", "pending graph"} :
          /\ RunGoes(r, at)
          /\ at = "create" => run[r].step = "parse"
          /\ at = "clear chunks" => run[r].step = "index"
    BY <1>0, <1>4 DEF StartStep, Step
  <2>4. /\ run'[r].at \notin {"begin", "bind", "start"}
        /\ run'[r].at = "create" => run[r].step = "parse"
        /\ run'[r].at \in InIndex => run[r].step = "index"
        /\ run'[r].step = run[r].step /\ run'[r].skips = run[r].skips
    BY <2>3, RunGoesTo DEF InIndex
  <2>5. run[r].step \in {"parse", "index", "graph_sync"}
    BY <1>0 DEF Step
  <2> QED BY <2>1, <2>2, <2>4, <2>5 DEF Placed, InOrder
<1>5. CASE \/ \E d \in Docs : CreateDocument(r, d) \/ NameGroupFails(r, d)
           \/ KeepDocument(r) \/ ClearAssets(r) \/ SaveAssets(r)
           \/ ClearChunks(r) \/ ClearEs(r) \/ CleanUpFails(r)
           \/ InsertBatch(r) \/ UpsertBatch(r) \/ UpsertFails(r) \/ Publish(r)
           \/ PendingGraph(r)
           \/ \E result \in {"indexed", "failed"} : SyncGraph(r, result)
           \/ CatchDocument(r)
  <2>1. /\ run[r].at \in InStep
        /\ run'[r].at \notin {"begin", "bind", "create", "start"}
        /\ run'[r].at \in InIndex => run[r].at \in InIndex
        /\ run'[r].step = run[r].step /\ run'[r].skips = run[r].skips
    BY <1>5, RunGoesOnWithin
  <2>2. UNCHANGED steps
    BY <1>5 DEF CreateDocument, NameGroupFails, KeepDocument, ClearAssets, SaveAssets,
       ClearChunks, ClearEs, CleanUpFails, InsertBatch, UpsertBatch, UpsertFails, Publish,
       PendingGraph, SyncGraph, CatchDocument, OnDocument, OnlyRun, OnlyDocuments, OnlyEs,
       OnlyIgnored
  <2> QED BY <1>u, <2>1, <2>2 DEF Placed
<1>6. CASE FinishStep(r)
  <2>1. run[r].at \in InStep
    BY <1>6 DEF FinishStep, RunAt, InStep, InTry
  <2>2. Done' = Done \cup {run[r].step}
    BY <1>0, <1>6, StepCompleted DEF FinishStep
  <2>3. run[r].step \in {"parse", "index", "graph_sync"}
    BY <1>0 DEF Step
  <2>4. InOrder'
    BY <2>1, <2>2, <2>3 DEF Placed, InOrder
  <2>5. CASE run[r].step = "graph_sync"
    <3>1. run'[r].at \in {"demote", "complete"}
      BY <1>0, <1>6, <2>5 DEF FinishStep, EnterVersion, Run
    <3> QED BY <1>o, <2>4, <3>1 DEF InStep, InTry
  <2>6. CASE run[r].step # "graph_sync"
    <3>1. /\ run'[r].at = "bind" /\ run'[r].step = run[r].step
          /\ run'[r].skips = run[r].skips
      BY <1>0, <1>6, <2>6 DEF FinishStep, Run
    <3> QED BY <2>1, <2>2, <2>3, <2>4, <2>6, <3>1 DEF Placed, InIndex
  <2> QED BY <2>5, <2>6
<1>7. CASE BindParse(r)
  <2>1. /\ run'[r] = EnterIndex(run[r]) /\ run[r].at = "bind"
        /\ run[r].step = "parse"
    BY <1>0, <1>7 DEF BindParse, StepAt
  <2>2. Placed(EnterIndex(run[r]))
    BY <1>0, <2>1, EnterIndexPlaced DEF Placed, InStep, InTry
  <2>3. UNCHANGED steps
    BY <1>7 DEF BindParse, OnlyTask
  <2> QED BY <1>u, <2>1, <2>2, <2>3 DEF Placed
<1>8. CASE BindIndex(r)
  <2>1. /\ run'[r] = EnterGraph(run[r]) /\ run[r].at = "bind"
        /\ run[r].step = "index"
    BY <1>0, <1>8 DEF BindIndex, StepAt
  <2>2. Placed(EnterGraph(run[r]))
    BY <1>0, <2>1, EnterGraphPlaced DEF Placed
  <2>3. UNCHANGED steps
    BY <1>8 DEF BindIndex, OnlyRun
  <2> QED BY <1>u, <2>1, <2>2, <2>3 DEF Placed
<1>9. CASE Demote(r) \/ Promote(r) \/ ClearOthers(r) \/ Reindex(r) \/ SwitchIndexFails(r)
  <2>1. \E at \in {"promote", "clear others", "reindex", "complete"} : RunGoes(r, at)
    BY <1>9 DEF Demote, Promote, ClearOthers, Reindex, SwitchIndexFails, OnDocument
  <2>2. run'[r].at \notin InStep \cup {"begin"}
    BY <2>1, RunGoesTo DEF InStep, InTry
  <2>3. UNCHANGED steps
    BY <1>9 DEF Demote, Promote, ClearOthers, Reindex, SwitchIndexFails, OnDocument,
       OnlyDocuments, OnlyEs, OnlyIgnored
  <2> QED BY <1>o, <1>u, <2>2, <2>3
<1>10. CASE Complete(r) \/ CatchTask(r) \/ RunFailsTask(r)
  <2>1. run'[r].at \in {"ack", "fail steps"}
    BY <1>0, <1>10, RunEndsAt DEF Complete, CatchTask, RunFailsTask
  <2>2. UNCHANGED steps
    BY <1>10 DEF Complete, CatchTask, RunFailsTask, OnlyTask
  <2> QED BY <1>o, <1>u, <2>1, <2>2 DEF InStep, InTry
<1>11. CASE Throws(r)
  <2>1. UNCHANGED steps
    BY <1>11 DEF Throws, OnlyRun
  <2>2. CASE run[r].at \in InTry
    <3>1. RunGoes(r, "catch document")
      BY <1>11, <2>2 DEF Throws
    <3>2. /\ run'[r].at = "catch document"
          /\ run'[r].step = run[r].step /\ run'[r].skips = run[r].skips
      BY <3>1, RunGoesTo
    <3> QED BY <1>u, <2>1, <2>2, <3>2 DEF Placed, InStep, InIndex
  <2>3. CASE run[r].at \notin InTry
    <3>1. run'[r].at = "fail task"
      BY <1>0, <1>11, <2>3, RunEndsAt DEF Throws
    <3> QED BY <1>o, <1>u, <2>1, <3>1 DEF InStep, InTry
  <2> QED BY <2>2, <2>3
<1>12. CASE CatchStep(r)
  <2>1. run[r].at \in InStep
    BY <1>12 DEF CatchStep, RunAt, InStep
  <2>2. Done' = Done \ {run[r].step}
    BY <1>0, <1>12, StepOtherwise DEF CatchStep
  <2>3. run[r].step \in {"parse", "index", "graph_sync"}
    BY <1>0 DEF Step
  <2>4. InOrder'
    BY <2>1, <2>2, <2>3 DEF Placed, InOrder
  <2>5. run'[r].at \in {"demote", "complete", "catch task"}
    BY <1>0, <1>12 DEF CatchStep, EnterVersion, Run
  <2> QED BY <1>o, <2>4, <2>5 DEF InStep, InTry
<1>13. CASE RunFailsSteps(r) \/ Acknowledge(r)
  BY <1>13 DEF RunFailsSteps, Acknowledge, RunAt, Working, InTry, OutsideTry, InCatch
<1>14. CASE FailureUnsaved(r)
  <2>1. run'[r].at = "ack" /\ UNCHANGED steps
    BY <1>0, <1>14, RunEndsAt DEF FailureUnsaved, OnlyIgnored
  <2> QED BY <1>u, <2>1 DEF Working, InTry, OutsideTry, InCatch
<1> QED BY <1>1, <1>2, <1>3, <1>4, <1>5, <1>6, <1>7, <1>8, <1>9, <1>10, <1>11, <1>12,
           <1>13, <1>14, Zenon DEF RunGoesOn

LEMMA RunStepOrder ==
  ASSUME TypeOK, OneInv, OrderInv, RunStep
  PROVE  OrderInv'
<1> SUFFICES ASSUME Sound' PROVE OrderInv'
  BY DEF OrderInv
<1>0. UNCHANGED request
  BY RunStepIsOne
<1>1. PICK r \in Runs : RunGoesOn(r) \/ \E v \in BOOLEAN : Deliver(r, v)
  BY RunStepIsOne
<1>2. ASSUME NEW v \in BOOLEAN, Deliver(r, v)
      PROVE  OrderInv'
  <2>1. Sound /\ Done' = Done /\ InOrder'
    BY <1>2 DEF Deliver, Sound, Done, OrderInv, InOrder
  <2>0. run \in [Runs -> Run]
    BY DEF TypeOK
  <2>2. run'[r].at = "load task"
    BY <1>2, <2>0, DeliveredAt
  <2>3. \A s \in Runs : s # r => run'[s] = run[s]
    BY <1>2, <2>0, DeliveredAt
  <2>4. Placed(run[r])'
    BY <2>2 DEF Placed, InStep, InTry, InIndex
  <2>5. \A s \in Runs : s # r /\ run'[s].at \in Working => Placed(run[s])'
    BY <2>1, <2>3 DEF OrderInv, Placed
  <2>6. Unbegun' => Unbegun
    BY <1>0, <1>2 DEF Deliver, Unbegun
  <2> QED BY <2>1, <2>4, <2>5, <2>6 DEF OrderInv
<1>3. CASE RunGoesOn(r)
  <2>1. /\ Sound
        /\ \A s \in Runs : s # r => run'[s] = run[s]
        /\ r \in Active
    BY <1>3, RunGoesOnAlone DEF Active
  <2>4. task'.status # "absent"
    BY <1>3, <2>1, RunGoesOnStatus DEF OneInv
  <2>2. CASE run[r].at \in Working
    <3>1. InOrder' /\ (run'[r].at \in Working => Placed(run[r])')
      BY <1>3, <2>1, <2>2, RunAtWorkOrder DEF OrderInv
    <3>2. \A s \in Runs : s # r => run'[s].at \notin Working
      BY <2>1, <2>2 DEF OneInv, OneWorks
    <3>3. ~Unbegun'
      BY <1>0, <2>1, <2>2, <2>4 DEF OneInv, OneWorks, Unbegun, Worked, Published, Publishing
    <3> QED BY <3>1, <3>2, <3>3 DEF OrderInv
  <2>3. CASE run[r].at \notin Working
    <3>1. run'[r].at \notin Working
      BY <1>3, <2>3, RunGoesOnWorks
    <3>2. ~(StartStep(r) \/ FinishStep(r) \/ CatchStep(r))
      BY <2>3 DEF StartStep, FinishStep, CatchStep, RunAt, Working, InTry, OutsideTry,
                  InCatch
    <3>3. Done' = Done
      <4>1. CASE RunFailsSteps(r)
        BY <4>1, FailingStepsKeepDone DEF RunFailsSteps, FailureUnsaved
      <4>2. CASE ~RunFailsSteps(r)
        BY <1>3, <3>2, <4>2, RunGoesOnSteps DEF Done
      <4> QED BY <4>1, <4>2
    <3>4. Unbegun' => Unbegun
      BY <1>0, <2>4 DEF Unbegun
    <3> QED BY <2>1, <3>1, <3>3, <3>4 DEF OrderInv, InOrder, Placed
  <2> QED BY <2>2, <2>3
<1> QED BY <1>1, <1>2, <1>3

LEMMA RequestUnbegun ==
  ASSUME TypeOK, NEW q \in Requests,
         \/ \E versioned \in BOOLEAN : SaveTask(q, versioned)
         \/ WriteStepsFails(q) \/ RetryAllowed(q) \/ ResetTask(q)
         \/ AddJob(q) \/ AddJobFails(q) \/ RegisterJobFails(q)
         \/ RequestFailsTask(q) \/ RequestFailsSteps(q) \/ RequestStops(q),
         Unbegun'
  PROVE  Unbegun
<1>1. CASE \E versioned \in BOOLEAN : SaveTask(q, versioned)
  BY <1>1 DEF SaveTask, Unbegun
<1>2. CASE \/ WriteStepsFails(q) \/ RetryAllowed(q) \/ ResetTask(q)
           \/ AddJob(q) \/ AddJobFails(q) \/ RegisterJobFails(q)
           \/ RequestFailsTask(q) \/ RequestFailsSteps(q) \/ RequestStops(q)
  <2>1. task'.status = "absent" => task.status = "absent"
    BY <1>2 DEF TypeOK, WriteStepsFails, RetryAllowed, ResetTask, AddJob, AddJobFails,
       RegisterJobFails, RequestFailsTask, RequestFailsSteps, RequestStops, TaskFails
  <2>r. /\ request \in [Requests -> Request] /\ request[q] \in Request
    BY DEF TypeOK
  <2>2. /\ request'[q].at # "save steps"
        /\ \A p \in Requests : p # q => request'[p] = request[p]
    <3>1. CASE RetryAllowed(q)
      BY <2>r, <3>1 DEF RetryAllowed, Request
    <3>2. CASE ~RetryAllowed(q)
      <4>1. \E at \in {"done", "reset steps", "fail task", "fail steps"} : RequestGoes(q, at)
        BY <1>2, <3>2 DEF WriteStepsFails, ResetTask, AddJob, AddJobFails,
           RegisterJobFails, RequestFailsTask, RequestFailsSteps, RequestStops
      <4> QED BY <2>r, <4>1 DEF RequestGoes, Request
    <3> QED BY <3>1, <3>2
  <2>3. ASSUME NEW p \in Requests, request'[p].at = "save steps"
        PROVE  request[p].at = "save steps"
    BY <2>2, <2>3
  <2> QED BY <2>1, <2>3 DEF Unbegun
<1> QED BY <1>1, <1>2

LEMMA RequestStepOrder ==
  ASSUME TypeOK, OneInv, OrderInv, RequestStep
  PROVE  OrderInv'
<1> SUFFICES ASSUME Sound' PROVE OrderInv'
  BY DEF OrderInv
<1>1. UNCHANGED run
  BY DEF RequestStep
<1>2. PICK q \in Requests :
        \/ \E versioned \in BOOLEAN : SaveTask(q, versioned)
        \/ SaveSteps(q) \/ WriteStepsFails(q)
        \/ RetryAllowed(q) \/ ResetTask(q) \/ ResetSteps(q)
        \/ AddJob(q) \/ AddJobFails(q) \/ RegisterJobFails(q)
        \/ RequestFailsTask(q) \/ RequestFailsSteps(q) \/ RequestStops(q)
  BY DEF RequestStep
<1>3. Sound
  BY <1>2 DEF Sound, SaveTask, SaveSteps, WriteStepsFails, RetryAllowed, ResetTask,
     ResetSteps, AddJob, AddJobFails, RegisterJobFails, RequestFailsTask,
     RequestFailsSteps, RequestStops, Ignores, NotesOverlap
<1>4. CASE SaveSteps(q) \/ ResetSteps(q)
  <2>1. Done' = {}
    BY <1>4 DEF SaveSteps, ResetSteps, Done
  <2>2. Published
    BY <1>4 DEF SaveSteps, ResetSteps, RequestAt, Publishing, Published
  <2>3. ~Worked'
    BY <1>1, <1>3, <2>2 DEF OneInv, OneWorks, Worked
  <2> QED BY <2>1, <2>3 DEF OrderInv, InOrder, Worked
<1>5. CASE ~(SaveSteps(q) \/ ResetSteps(q))
  <2>2. Unbegun' => Unbegun
    BY <1>2, <1>5, RequestUnbegun
  <2>1. Done' = Done
    <3>1. CASE RequestFailsSteps(q)
      BY <3>1, FailingStepsKeepDone DEF RequestFailsSteps, RequestStops
    <3>2. CASE ~RequestFailsSteps(q)
      BY <1>2, <1>5, <3>2 DEF SaveTask, WriteStepsFails, RetryAllowed, ResetTask, AddJob,
         AddJobFails, RegisterJobFails, RequestFailsTask, RequestStops, Done
    <3> QED BY <3>1, <3>2
  <2> QED BY <1>1, <1>3, <2>1, <2>2 DEF OrderInv, InOrder, Placed
<1> QED BY <1>4, <1>5

LEMMA NextOrder ==
  ASSUME TypeOK, OneInv, OrderInv, [Next]_vars
  PROVE  OrderInv'
<1>1. ASSUME UNCHANGED <<steps, run, request>>, task'.status = task.status,
             Sound' => Sound
      PROVE  OrderInv'
  BY <1>1 DEF OrderInv, InOrder, Placed, Done, Unbegun
<1>2. CASE UNCHANGED vars
  BY <1>1, <1>2 DEF vars, Sound
<1>3. CASE UserStep
  <2>1. CASE DeleteRow
    BY <1>1, <2>1 DEF DeleteRow, Sound, TypeOK
  <2>2. ASSUME NEW d \in Docs, DeleteFromIndex(d)
        PROVE  OrderInv'
    BY <1>1, <2>2 DEF DeleteFromIndex, Ignores, Sound
  <2> QED BY <1>3, <2>1, <2>2 DEF UserStep
<1>4. CASE Crash
  <2>1. \A r \in Runs : run'[r].at \notin Working
    BY <1>4 DEF TypeOK, Crash, NoRun, Active, Working, InTry, OutsideTry, InCatch
  <2>2. Done' = Done /\ (Sound' => Sound)
    BY <1>4 DEF Crash, Done, NotesOverlap, Sound
  <2>3. Unbegun' => Unbegun
    BY <1>4 DEF Crash, Unbegun
  <2> QED BY <2>1, <2>2, <2>3 DEF OrderInv, InOrder
<1> QED BY <1>2, <1>3, <1>4, RunStepOrder, RequestStepOrder DEF Next

LEMMA OrderStays == Spec => []OrderInv
<1>1. Init => OrderInv
  <2>1. Init => Done = {} /\ \A r \in Runs : run[r].at = "idle"
    BY DEF Init, Done, NoRun
  <2> QED BY <2>1 DEF OrderInv, InOrder, Working, InTry, OutsideTry, InCatch
<1>2. TypeOK /\ OneInv /\ OrderInv /\ [Next]_vars => OrderInv'
  BY NextOrder
<1> QED BY <1>1, <1>2, TypeCorrect, OneAtATime, PTL DEF Spec

(* The index step is completed only after the parse step, and the graph     *)
(* after the index, at every point where the worker may crash, whatever is  *)
(* retried or delivered again.                                              *)
THEOREM StepsFinishInOrder == Spec => []StepsInOrder
<1>1. OrderInv => StepsInOrder
  BY DEF OrderInv, InOrder, StepsInOrder, Done, Step
<1> QED BY <1>1, OrderStays, PTL
-----------------------------------------------------------------------------
(* What an index step has written stays.  A run that works while the step   *)
(* is completed is not in a parse or an index step, and those alone clear   *)
(* chunks or bring a document about.                                        *)

IndexKept == steps'["index"] \in {"completed", "failed"}
ChunksKept ==
  \A d \in Docs : documents'[d].row = "present"
                    => documents[d].chunks \subseteq documents'[d].chunks

(* A statement on other fields of a document keeps its chunks. *)
LEMMA OnDocumentKeeps ==
  ASSUME TypeOK, NEW r \in Runs, NEW at, NEW new, NEW next,
         OnDocument(r, at, new, next),
         Present(run[r].documentId) => MyDocument(r).chunks \subseteq new.chunks
  PROVE  ChunksKept
<1>1. CASE Present(run[r].documentId)
  <2>1. documents' = [documents EXCEPT ![run[r].documentId] = new]
    BY <1>1 DEF OnDocument, Updated
  <2>2. Docs \subseteq DOMAIN documents
    BY DEF TypeOK, AllDocs
  <2> QED BY <1>1, <2>1, <2>2 DEF MyDocument, ChunksKept
<1>2. CASE ~Present(run[r].documentId)
  BY <1>2 DEF OnDocument, Updated, ChunksKept
<1> QED BY <1>1, <1>2

LEMMA MyDocumentTyped ==
  ASSUME TypeOK, NEW r \in Runs, Present(run[r].documentId)
  PROVE  MyDocument(r) \in Document
BY DEF TypeOK, Run, Present, MyDocument, AllDocs

(* The statements on a document outside of its parse and its index.         *)
LEMMA DocumentStepKeeps ==
  ASSUME TypeOK, NEW r \in Runs,
         \/ ClearAssets(r) \/ SaveAssets(r) \/ Publish(r) \/ PendingGraph(r)
         \/ \E result \in {"indexed", "failed"} : SyncGraph(r, result)
         \/ Promote(r) \/ CatchDocument(r)
  PROVE  ChunksKept
<1> DEFINE Mine == MyDocument(r)
<1>0. Present(run[r].documentId) => Mine \in Document
  BY MyDocumentTyped
<1>1. CASE ClearAssets(r)
  <2>1. Mine \in Document => [Mine EXCEPT !.assets = 0].chunks = Mine.chunks
    BY DEF Document
  <2> QED BY <1>0, <1>1, <2>1, OnDocumentKeeps DEF ClearAssets
<1>2. CASE SaveAssets(r)
  <2>1. Mine \in Document => [Mine EXCEPT !.assets = @ + 1].chunks = Mine.chunks
    BY DEF Document
  <2> QED BY <1>0, <1>2, <2>1, OnDocumentKeeps DEF SaveAssets
<1>3. CASE Publish(r)
  <2>1. Mine \in Document => [Mine EXCEPT !.status = "completed"].chunks = Mine.chunks
    BY DEF Document
  <2> QED BY <1>0, <1>3, <2>1, OnDocumentKeeps DEF Publish
<1>4. CASE PendingGraph(r)
  <2>1. Mine \in Document => [Mine EXCEPT !.graph = "pending"].chunks = Mine.chunks
    BY DEF Document
  <2> QED BY <1>0, <1>4, <2>1, OnDocumentKeeps DEF PendingGraph
<1>5. ASSUME NEW result \in {"indexed", "failed"}, SyncGraph(r, result)
      PROVE  ChunksKept
  <2>1. Mine \in Document => [Mine EXCEPT !.graph = result].chunks = Mine.chunks
    BY DEF Document
  <2> QED BY <1>0, <1>5, <2>1, OnDocumentKeeps DEF SyncGraph
<1>6. CASE Promote(r)
  <2>1. Mine \in Document => [Mine EXCEPT !.current = TRUE].chunks = Mine.chunks
    BY DEF Document
  <2> QED BY <1>0, <1>6, <2>1, OnDocumentKeeps DEF Promote
<1>7. CASE CatchDocument(r)
  <2> DEFINE New == IF run[r].step = "graph_sync"
                    THEN [Mine EXCEPT !.graph = "failed"]
                    ELSE [Mine EXCEPT !.status = "failed"]
  <2>1. Mine \in Document => New.chunks = Mine.chunks
    BY DEF Document
  <2>2. OnDocument(r, "catch document", New, "catch step")
    BY <1>7 DEF CatchDocument, OnDocument
  <2> QED BY <1>0, <2>1, <2>2, OnDocumentKeeps
<1> QED BY <1>1, <1>2, <1>3, <1>4, <1>5, <1>6, <1>7

LEMMA DemoteKeeps ==
  ASSUME TypeOK, NEW r \in Runs, Demote(r)
  PROVE  ChunksKept
<1> SUFFICES ASSUME NEW d \in Docs
             PROVE  documents'[d].chunks = documents[d].chunks
  BY DEF ChunksKept
<1>1. documents[d] \in Document /\ d \in AllDocs
  BY DEF TypeOK, AllDocs
<1>2. documents'[d] \in {documents[d], [documents[d] EXCEPT !.current = FALSE]}
  BY <1>1 DEF Demote
<1> QED BY <1>1, <1>2 DEF Document

(* The statements that write no document. *)
LEMMA OtherStepKeeps ==
  ASSUME NEW r \in Runs, RunGoesOn(r),
         ~\E d \in Docs : CreateDocument(r, d) \/ NameGroupFails(r, d),
         ~(ClearChunks(r) \/ InsertBatch(r) \/ Demote(r)),
         ~(\/ ClearAssets(r) \/ SaveAssets(r) \/ Publish(r) \/ PendingGraph(r)
           \/ \E result \in {"indexed", "failed"} : SyncGraph(r, result)
           \/ Promote(r) \/ CatchDocument(r))
  PROVE  UNCHANGED documents
BY DEF RunGoesOn, LoadTask, LoadSteps, Begin, StartStep, KeepDocument, FinishStep,
   BindParse, BindIndex, ClearEs, CleanUpFails, UpsertBatch, UpsertFails, ClearOthers,
   Reindex, SwitchIndexFails, Complete, Throws, CatchStep, CatchTask, RunFailsTask,
   RunFailsSteps, FailureUnsaved, Acknowledge, OnlyRun, OnlyTask, OnlySteps, OnlyEs, OnlyIgnored

(* A run at work while the index step is completed. *)
LEMMA RunGoesOnKeeps ==
  ASSUME TypeOK, NEW r \in Runs, RunGoesOn(r), "index" \in Done,
         run[r].at \in Working => Placed(run[r])
  PROVE  IndexKept /\ ChunksKept
<1>0. /\ steps \in [Step -> StepStatus] /\ steps["index"] = "completed"
      /\ run[r].step \in Step
  BY DEF TypeOK, Run, Done
<1>1. run[r].at \notin InIndex \cup {"create"}
  <2>1. InIndex \cup {"create"} \subseteq Working \cap InStep
    BY DEF InIndex, InStep, Working, InTry
  <2> QED BY <2>1 DEF Placed
<1>2. ~\E d \in Docs : CreateDocument(r, d) \/ NameGroupFails(r, d)
  BY <1>1 DEF CreateDocument, NameGroupFails, RunAt
<1>3. ~(ClearChunks(r) \/ InsertBatch(r))
  BY <1>1 DEF ClearChunks, InsertBatch, OnDocument, RunAt, InIndex
<1>4. ChunksKept
  <2>1. ASSUME UNCHANGED documents PROVE ChunksKept
    BY <2>1 DEF ChunksKept
  <2> QED BY <1>2, <1>3, <2>1, DocumentStepKeeps, DemoteKeeps, OtherStepKeeps
<1>5. IndexKept
  <2>1. CASE StartStep(r)
    <3>1. run[r].at = "start" /\ run[r].at \in Working
      BY <2>1 DEF StartStep, RunAt, Working, OutsideTry
    <3>2. run[r].step # "index"
      BY <3>1 DEF Placed
    <3>3. steps' = [steps EXCEPT ![run[r].step] = "running"]
      BY <2>1 DEF StartStep
    <3> QED BY <1>0, <3>2, <3>3 DEF IndexKept, Step
  <2>2. CASE FinishStep(r)
    BY <1>0, <2>2 DEF FinishStep, IndexKept
  <2>3. CASE CatchStep(r)
    <3>1. steps' = [steps EXCEPT ![run[r].step] = "failed"]
      BY <2>3 DEF CatchStep
    <3> QED BY <1>0, <3>1 DEF IndexKept, Step
  <2>4. CASE RunFailsSteps(r)
    BY <1>0, <2>4 DEF RunFailsSteps, FailureUnsaved, RunningStepsFail, IndexKept, Step
  <2>5. CASE ~(StartStep(r) \/ FinishStep(r) \/ CatchStep(r) \/ RunFailsSteps(r))
    BY <1>0, <2>5, RunGoesOnSteps DEF IndexKept
  <2> QED BY <2>1, <2>2, <2>3, <2>4, <2>5
<1> QED BY <1>4, <1>5

LEMMA RequestStepKeeps ==
  ASSUME TypeOK, OrderInv, Sound, "index" \in Done, RequestStep,
         \A q \in Requests : ~ResetSteps(q)
  PROVE  IndexKept /\ ChunksKept
<1>0. steps \in [Step -> StepStatus] /\ steps["index"] = "completed"
  BY DEF TypeOK, Done
<1>1. ChunksKept
  BY DEF RequestStep, ChunksKept
<1>2. PICK q \in Requests :
        \/ \E versioned \in BOOLEAN : SaveTask(q, versioned)
        \/ SaveSteps(q) \/ WriteStepsFails(q)
        \/ RetryAllowed(q) \/ ResetTask(q)
        \/ AddJob(q) \/ AddJobFails(q) \/ RegisterJobFails(q)
        \/ RequestFailsTask(q) \/ RequestFailsSteps(q) \/ RequestStops(q)
  BY DEF RequestStep
<1>3. ~SaveSteps(q)
  BY DEF OrderInv, Unbegun, SaveSteps, RequestAt
<1>4. CASE RequestFailsSteps(q)
  BY <1>0, <1>1, <1>4 DEF RequestFailsSteps, RequestStops, RunningStepsFail, IndexKept, Step
<1>5. CASE ~RequestFailsSteps(q)
  <2>1. UNCHANGED steps
    BY <1>2, <1>3, <1>5 DEF SaveTask, WriteStepsFails, RetryAllowed, ResetTask, AddJob,
       AddJobFails, RegisterJobFails, RequestFailsTask, RequestStops
  <2> QED BY <1>0, <1>1, <2>1 DEF IndexKept
<1> QED BY <1>4, <1>5

LEMMA NextKeeps ==
  ASSUME TypeOK, OrderInv, Sound, steps["index"] = "completed",
         \A q \in Requests : ~ResetSteps(q), Next
  PROVE  IndexKept /\ ChunksKept
<1>0. "index" \in Done
  BY DEF Done, Step
<1>1. CASE RunStep
  <2>1. PICK r \in Runs : RunGoesOn(r) \/ \E v \in BOOLEAN : Deliver(r, v)
    BY <1>1, RunStepIsOne
  <2>2. CASE RunGoesOn(r)
    BY <1>0, <2>2, RunGoesOnKeeps DEF OrderInv
  <2>3. CASE \E v \in BOOLEAN : Deliver(r, v)
    BY <2>3 DEF Deliver, IndexKept, ChunksKept
  <2> QED BY <2>1, <2>2, <2>3
<1>2. CASE RequestStep
  BY <1>0, <1>2, RequestStepKeeps
<1>3. CASE UserStep
  <2>1. CASE DeleteRow
    <3>1. documents \in [AllDocs -> Document] /\ Docs \subseteq AllDocs
          /\ deleting \in Docs
      BY <2>1 DEF TypeOK, AllDocs, DeleteRow
    <3>2. \A d \in Docs : d # deleting => documents'[d] = documents[d]
      BY <2>1, <3>1 DEF DeleteRow
    <3>3. documents'[deleting].row = "deleted"
      BY <2>1, <3>1 DEF DeleteRow, NoDocument
    <3>4. UNCHANGED steps
      BY <2>1 DEF DeleteRow
    <3> QED BY <3>2, <3>3, <3>4 DEF IndexKept, ChunksKept
  <2>2. CASE \E d \in Docs : DeleteFromIndex(d)
    BY <2>2 DEF DeleteFromIndex, IndexKept, ChunksKept
  <2> QED BY <1>3, <2>1, <2>2 DEF UserStep
<1>4. CASE Crash
  BY <1>4 DEF Crash, IndexKept, ChunksKept
<1> QED BY <1>1, <1>2, <1>3, <1>4 DEF Next

(* Unless a failed task is retried, a completed index step is not begun     *)
(* again, and the chunks it wrote stay as long as their document does,      *)
(* through crashes, failures and jobs that are delivered anew.              *)
THEOREM WorkIsKept == Spec => FinishedWorkKept
<1>1. TypeOK /\ OrderInv /\ [Next]_vars
        => [Sound /\ steps["index"] = "completed" /\ (\A q \in Requests : ~ResetSteps(q))
              => /\ steps'["index"] \in {"completed", "failed"}
                 /\ \A d \in Docs : documents'[d].row = "present"
                      => documents[d].chunks \subseteq documents'[d].chunks]_vars
  BY NextKeeps DEF IndexKept, ChunksKept
<1> QED BY <1>1, TypeCorrect, OrderStays, PTL DEF Spec, FinishedWorkKept

==============================================================================
