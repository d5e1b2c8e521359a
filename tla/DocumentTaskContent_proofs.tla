--------------------- MODULE DocumentTaskContent_proofs ----------------------
(* Proofs about what DocumentTask stores, for every value of its constants. *)
EXTENDS DocumentTask_proofs

-----------------------------------------------------------------------------
(***************************************************************************)
(* Proofs about DocumentTask, for every value of its constants: what the   *)
(* completed steps of a task have stored, and so what a completed task has.*)
(***************************************************************************)

(* The status of the task follows whoever works on it: a run that has begun *)
(* finds it running, a request what it has read or written itself.          *)
StatusInv ==
  Sound =>
    /\ \A r \in Runs : run[r].at \in Working \ Quiet => task.status = "running"
    /\ \A q \in Requests :
         /\ request[q].at = "reset task" => task.status = "failed"
         /\ request[q].at \in Publishing \ {"reset task"}
              => task.status = "pending"

(* A run that has just begun stays so until it sets the task running. *)
LEMMA QuietOrBegins ==
  ASSUME TypeOK, NEW r \in Runs, RunGoesOn(r), ~Begin(r), run[r].at \in Quiet,
         run'[r].at \in Working
  PROVE  run'[r].at \in Quiet
<1>0. run \in [Runs -> Run]
  BY DEF TypeOK
<1>1. CASE LoadTask(r)
  BY <1>0, <1>1 DEF LoadTask, Quiet, Run
<1>2. CASE LoadSteps(r)
  BY <1>0, <1>2 DEF LoadSteps, Quiet, Run
<1>3. CASE Throws(r)
  <2>1. run[r].at \notin InTry
    BY DEF Quiet, InTry
  <2>. QED BY <1>0, <1>3, <2>1, RunEndsAt DEF Throws, Quiet
<1>4. CASE RunFailsTask(r)
  BY <1>0, <1>4, RunEndsAt DEF RunFailsTask, Working, InTry, OutsideTry, InCatch
<1>6. CASE FailureUnsaved(r)
  BY <1>0, <1>6, RunEndsAt DEF FailureUnsaved, Working, InTry, OutsideTry, InCatch
<1>5. CASE ~(\/ LoadTask(r) \/ LoadSteps(r) \/ Throws(r) \/ RunFailsTask(r)
             \/ FailureUnsaved(r))
  BY <1>5 DEF RunGoesOn, StartStep, CreateDocument, NameGroupFails, KeepDocument,
     ClearAssets, SaveAssets, FinishStep, BindParse, BindIndex, StepAt, ClearChunks,
     ClearEs, CleanUpFails, InsertBatch, UpsertBatch, UpsertFails, Publish, PendingGraph,
     SyncGraph, Demote, Promote, ClearOthers, Reindex, SwitchIndexFails, Complete,
     CatchDocument, CatchStep, CatchTask, RunFailsSteps, Acknowledge, OnDocument, RunAt,
     Quiet
<1>. QED BY <1>1, <1>2, <1>3, <1>4, <1>5, <1>6

(* A run that stays at work without beginning leaves the status alone; one  *)
(* that is not at work, the whole row.                                      *)
LEMMA StatusStays ==
  ASSUME TypeOK, NEW r \in Runs, RunGoesOn(r)
  PROVE  /\ ~Begin(r) /\ run'[r].at \in Working => task'.status = task.status
         /\ run[r].at \notin Working => task' = task
<1>0. /\ run \in [Runs -> Run]
      /\ task \in [status : TaskStatus, documentId : Docs \cup {NoDoc}]
  BY DEF TypeOK
<1>1. CASE BindParse(r)
  BY <1>0, <1>1 DEF BindParse, StepAt, Working, InTry
<1>2. CASE Complete(r) \/ CatchTask(r) \/ RunFailsTask(r)
  <2>1. run'[r].at \in {"ack", "fail steps"}
    BY <1>0, <1>2, RunEndsAt DEF Complete, CatchTask, RunFailsTask
  <2>2. run[r].at \in Working
    BY <1>2 DEF Complete, CatchTask, RunFailsTask, RunAt, Working, OutsideTry, InCatch
  <2>. QED BY <2>1, <2>2 DEF Working, InTry, OutsideTry, InCatch
<1>3. CASE Begin(r)
  BY <1>3 DEF Begin, RunAt, Working, OutsideTry
<1>4. CASE ~(Begin(r) \/ BindParse(r) \/ Complete(r) \/ CatchTask(r) \/ RunFailsTask(r))
  BY <1>4, RunGoesOnTask
<1>. QED BY <1>1, <1>2, <1>3, <1>4

(* Every step keeps it: of a run,                                           *)
LEMMA RunStepStatus ==
  ASSUME TypeOK, OneInv, StatusInv, RunStep
  PROVE  StatusInv'
<1>. SUFFICES ASSUME Sound'
              PROVE  StatusInv'
  BY DEF StatusInv
<1>0. UNCHANGED request /\ run \in [Runs -> Run]
  BY RunStepIsOne DEF TypeOK
<1>1. PICK r \in Runs : RunGoesOn(r) \/ \E v \in BOOLEAN : Deliver(r, v)
  BY RunStepIsOne
<1>2. ASSUME NEW v \in BOOLEAN, Deliver(r, v)
      PROVE  StatusInv'
  <2>1. Sound /\ task' = task
    BY <1>2 DEF Deliver, Sound
  <2>2. run'[r].at \in Quiet /\ \A s \in Runs : s # r => run'[s] = run[s]
    BY <1>0, <1>2 DEF Deliver, Run, Quiet
  <2>. QED BY <1>0, <2>1, <2>2 DEF StatusInv
<1>3. CASE RunGoesOn(r)
  <2>1. Sound /\ \A s \in Runs : s # r => run'[s] = run[s]
    BY <1>3, RunGoesOnAlone
  <2>2. ASSUME NEW s \in Runs, run'[s].at \in Working \ Quiet
        PROVE  task'.status = "running"
    <3>1. CASE s # r
      <4>1. run[s].at \in Working /\ task.status = "running"
        BY <2>1, <2>2, <3>1 DEF StatusInv
      <4>2. run[r].at \notin Working
        BY <2>1, <3>1, <4>1 DEF OneInv, OneWorks
      <4>. QED BY <1>3, <4>1, <4>2, StatusStays
    <3>2. CASE s = r /\ Begin(r)
      BY <3>2 DEF Begin, TypeOK
    <3>3. CASE s = r /\ ~Begin(r)
      <4>1. run[r].at \in Working \ Quiet
        BY <1>3, <2>2, <3>3, RunGoesOnWorks, QuietOrBegins
      <4>. QED BY <1>3, <2>1, <2>2, <3>3, <4>1, StatusStays DEF StatusInv
    <3>. QED BY <3>1, <3>2, <3>3
  <2>3. ASSUME NEW q \in Requests, request[q].at \in Publishing
        PROVE  task' = task
    <3>1. run[r].at \notin Working
      BY <2>1, <2>3 DEF OneInv, OneWorks, Worked, Published
    <3>. QED BY <1>3, <3>1, StatusStays
  <2>4. "reset task" \in Publishing
    BY DEF Publishing
  <2>. QED BY <1>0, <2>1, <2>2, <2>3, <2>4 DEF StatusInv
<1>. QED BY <1>1, <1>2, <1>3

(* A request that moves on moves alone.                                     *)
LEMMA RequestGoesTo ==
  ASSUME TypeOK, NEW q \in Requests, NEW at, RequestGoes(q, at)
  PROVE  /\ request'[q].at = at
         /\ \A p \in Requests : p # q => request'[p] = request[p]
BY DEF TypeOK, RequestGoes, Request

(* ... of a request,                                                        *)
LEMMA RequestStepStatus ==
  ASSUME TypeOK, OneInv, StatusInv, RequestStep
  PROVE  StatusInv'
<1>. SUFFICES ASSUME Sound'
              PROVE  StatusInv'
  BY DEF StatusInv
<1>0. /\ UNCHANGED run /\ request \in [Requests -> Request]
      /\ task \in [status : TaskStatus, documentId : Docs \cup {NoDoc}]
  BY DEF RequestStep, TypeOK
<1>1. PICK q \in Requests :
        \/ \E versioned \in BOOLEAN : SaveTask(q, versioned)
        \/ SaveSteps(q) \/ WriteStepsFails(q)
        \/ RetryAllowed(q) \/ ResetTask(q) \/ ResetSteps(q)
        \/ AddJob(q) \/ AddJobFails(q) \/ RegisterJobFails(q)
        \/ RequestFailsTask(q) \/ RequestFailsSteps(q) \/ RequestStops(q)
  BY DEF RequestStep
<1>2. Sound
  BY <1>1 DEF Sound, SaveTask, SaveSteps, WriteStepsFails, RetryAllowed, ResetTask,
     ResetSteps, AddJob, AddJobFails, RegisterJobFails, RequestFailsTask,
     RequestFailsSteps, RequestStops, Ignores, NotesOverlap
<1>3. CASE \/ \E versioned \in BOOLEAN : SaveTask(q, versioned)
           \/ ResetTask(q) \/ RequestFailsTask(q)
  <2>1. /\ \A r \in Runs : run[r].at \notin Working
        /\ \A p \in Requests : p # q => request[p].at \notin Publishing
    <3>1. CASE \E versioned \in BOOLEAN : SaveTask(q, versioned)
      BY <1>2, <3>1 DEF SaveTask, OneInv, Published, Active, Working, InTry,
                        OutsideTry, InCatch
    <3>2. CASE ResetTask(q) \/ RequestFailsTask(q)
      <4>1. request[q].at \in Publishing
        BY <3>2 DEF ResetTask, RequestFailsTask, RequestAt, Publishing
      <4>. QED BY <1>2, <4>1 DEF OneInv, OneWorks, Published, Worked
    <3>. QED BY <1>3, <3>1, <3>2
  <2>2. \A p \in Requests : p # q => request'[p] = request[p]
    BY <1>0, <1>3 DEF SaveTask, ResetTask, RequestFailsTask, RequestGoes
  <2>3. /\ request'[q].at \in {"save steps", "reset steps"} => task'.status = "pending"
        /\ request'[q].at \in {"save steps", "reset steps", "fail steps"}
    <3>1. ASSUME NEW versioned \in BOOLEAN, SaveTask(q, versioned)
          PROVE  request'[q].at = "save steps" /\ task'.status = "pending"
      BY <1>0, <3>1 DEF SaveTask, Request
    <3>2. CASE ResetTask(q)
      BY <1>0, <3>2, RequestGoesTo DEF ResetTask
    <3>3. CASE RequestFailsTask(q)
      <4>1. request'[q].at = "fail steps"
        BY <3>3, RequestGoesTo DEF RequestFailsTask
      <4>. QED BY <4>1
    <3>. QED BY <1>3, <3>1, <3>2, <3>3
  <2>. QED BY <1>0, <2>1, <2>2, <2>3 DEF StatusInv, Publishing
<1>4. CASE \/ SaveSteps(q) \/ WriteStepsFails(q) \/ RetryAllowed(q) \/ ResetSteps(q)
           \/ AddJob(q) \/ AddJobFails(q) \/ RegisterJobFails(q)
           \/ RequestFailsSteps(q) \/ RequestStops(q)
  <2>1. task' = task
    BY <1>4 DEF SaveSteps, WriteStepsFails, RetryAllowed, ResetSteps, AddJob,
       AddJobFails, RegisterJobFails, RequestFailsSteps, RequestStops
  <2>2. \A p \in Requests : p # q => request'[p] = request[p]
    BY <1>0, <1>4 DEF SaveSteps, WriteStepsFails, RetryAllowed, ResetSteps, AddJob,
       AddJobFails, RegisterJobFails, RequestFailsSteps, RequestStops, RequestGoes
  <2>3. \/ request'[q].at = "reset task" /\ task.status = "failed"
        \/ request'[q].at = "done"
        \/ /\ request'[q].at \in Publishing \ {"reset task"}
           /\ request[q].at \in Publishing \ {"reset task"}
    <3>1. CASE RetryAllowed(q)
      BY <1>0, <3>1 DEF RetryAllowed, Request
    <3>2. CASE SaveSteps(q) \/ ResetSteps(q) \/ AddJobFails(q) \/ RegisterJobFails(q)
      <4>1. RequestGoes(q, "add") \/ RequestGoes(q, "fail task")
        BY <3>2 DEF SaveSteps, ResetSteps, AddJobFails, RegisterJobFails
      <4>2. request[q].at \in {"save steps", "reset steps", "add"}
        BY <3>2 DEF SaveSteps, ResetSteps, AddJobFails, RegisterJobFails, RequestAt
      <4>3. request'[q].at \in {"add", "fail task"}
        BY <4>1, RequestGoesTo
      <4>. QED BY <4>2, <4>3 DEF Publishing
    <3>3. CASE WriteStepsFails(q) \/ AddJob(q) \/ RequestFailsSteps(q) \/ RequestStops(q)
      <4>1. RequestGoes(q, "done")
        BY <3>3 DEF WriteStepsFails, AddJob, RequestFailsSteps, RequestStops
      <4>. QED BY <4>1, RequestGoesTo
    <3>. QED BY <1>4, <3>1, <3>2, <3>3
  <2>. QED BY <1>0, <1>2, <2>1, <2>2, <2>3 DEF StatusInv, Publishing
<1>. QED BY <1>1, <1>3, <1>4

(* ... and of the others, who set no status.                                *)
LEMMA NextStatus ==
  ASSUME TypeOK, OneInv, StatusInv, [Next]_vars
  PROVE  StatusInv'
<1>1. ASSUME UNCHANGED <<run, request>>, task'.status = task.status,
             Sound' => Sound
      PROVE  StatusInv'
  BY <1>1 DEF StatusInv
<1>2. CASE UNCHANGED vars
  BY <1>1, <1>2 DEF vars, Sound
<1>3. CASE UserStep
  <2>1. CASE DeleteRow
    BY <1>1, <2>1 DEF DeleteRow, Sound, TypeOK
  <2>2. ASSUME NEW d \in Docs, DeleteFromIndex(d)
        PROVE  StatusInv'
    BY <1>1, <2>2 DEF DeleteFromIndex, Ignores, Sound
  <2>. QED BY <1>3, <2>1, <2>2 DEF UserStep
<1>4. CASE Crash
  <2>1. \A r \in Runs : run'[r].at \notin Working
    BY <1>4 DEF TypeOK, Crash, NoRun, Active, Working, InTry, OutsideTry, InCatch
  <2>2. UNCHANGED <<task, request>> /\ (Sound' => Sound)
    BY <1>4 DEF Crash, NotesOverlap, Sound
  <2>. QED BY <2>1, <2>2 DEF StatusInv
<1>. QED BY <1>2, <1>3, <1>4, RunStepStatus, RequestStepStatus DEF Next

(* The status follows whoever works on the task, in every reachable state.  *)
LEMMA StatusInvariant == Spec => []StatusInv
<1>1. Init => StatusInv
  <2>1. Init => /\ \A r \in Runs : run[r].at = "idle"
                /\ \A q \in Requests : request[q].at = "idle"
    BY DEF Init, NoRun
  <2>. QED BY <2>1 DEF StatusInv, Working, InTry, OutsideTry, InCatch, Publishing
<1>2. TypeOK /\ OneInv /\ StatusInv /\ [Next]_vars => StatusInv'
  BY NextStatus
<1>. QED BY <1>1, <1>2, TypeCorrect, OneAtATime, PTL DEF Spec

-----------------------------------------------------------------------------
(* What the steps of a task have stored. *)

Deleted == \E d \in Docs : documents[d].row = "deleted"
Batched(r, n) == {<<r, i>> : i \in 1 .. n}

(* The parse step is completed together with the document it parsed, whose  *)
(* assets are stored once; only a user takes the document away.             *)
ParseHeld ==
  /\ parsed # NoDoc => Present(parsed)
  /\ "parse" \in Done => /\ parsed = NoDoc => Deleted
                         /\ task.documentId \in {parsed, NoDoc}
                         /\ parsed # NoDoc => documents[parsed].assets = 1

(* While the index step is completed the document holds the batches of one  *)
(* run, and so does the index until the user begins to delete.              *)
IndexHeld ==
  "index" \in Done /\ parsed # NoDoc
    => /\ \E r \in Runs : documents[parsed].chunks = Batched(r, Batches)
       /\ parsed # deleting => es[parsed] = documents[parsed].chunks

(* While the graph step is completed the graph of the document is settled.  *)
GraphHeld ==
  "graph_sync" \in Done /\ parsed # NoDoc => documents[parsed].graph # "pending"

Held == ParseHeld /\ IndexHeld /\ GraphHeld

(* All steps are done; a graph that could not be synchronised is accepted.  *)
Finished ==
  /\ "parse" \in Done /\ "index" \in Done
  /\ steps["graph_sync"] \in {"completed", "failed"}
  /\ parsed # NoDoc => documents[parsed].graph # "pending"

Switching == {"demote", "promote", "clear others", "reindex", "complete"}

(* A statement belongs to one step, which is not completed before its last. *)
InOwnStep(x) ==
  /\ x.at \in {"create", "clear assets", "save assets"} => x.step = "parse"
  /\ x.at \in InIndex => x.step = "index"
  /\ x.at \in {"pending graph", "sync graph"} => x.step = "graph_sync"
  /\ x.at = "bind" => x.step # "graph_sync"
  /\ x.at \in InTry \ {"bind"} => x.step \notin Done
  /\ x.at = "start" => x.step \notin x.skips
  /\ x.at \in InStep \cup {"begin"} => x.skips \subseteq Done
  /\ x.at \in Switching => Finished

(* d was parsed, unless it is gone since. *)
IsParsed(d) == parsed = d \/ (parsed = NoDoc /\ ~Present(d))

(* The document of a run is the one the task names, and from the end of the *)
(* parse on the one that was parsed, unless the user deleted it.            *)
Names(x) ==
  /\ x.at \in {"load steps", "begin"} \cup InStep \cup Switching
       => task.documentId \in {x.documentId, NoDoc}
  /\ (\/ x.at = "begin" /\ "parse" \in x.skips
      \/ x.at = "bind"
      \/ x.at \in InStep /\ x.step # "parse"
      \/ x.at \in Switching)
       => IsParsed(x.documentId)

(* How far a step has come with its document d: what it has written to the  *)
(* index and to the database.                                               *)
Written(d, indexed, stored) ==
  Present(d) => /\ documents[d].chunks = stored
                /\ d # deleting => es[d] = indexed

Progress(r, x) ==
  LET d == x.documentId
      before == Batched(r, x.batch - 1)
      all == Batched(r, Batches)
  IN /\ x.batch # 1 => x.step = "index" /\ x.at \in {"insert", "upsert"} \cup InCatch
     /\ x.at = "save assets" /\ Present(d) => documents[d].assets = 0
     /\ x.at = "finish" /\ x.step = "parse" /\ Present(d)
          => documents[d].assets = 1
     /\ x.at = "clear es" /\ Present(d) => documents[d].chunks = {}
     /\ x.at = "insert" => Written(d, before, before)
     /\ x.at = "upsert" => Written(d, before, Batched(r, x.batch))
     /\ x.at = "publish" \/ (x.at = "finish" /\ x.step = "index")
          => Written(d, all, all)
     /\ x.at \in {"finish", "catch step"} /\ x.step = "graph_sync" /\ Present(d)
          => documents[d].graph # "pending"

RunHolds(r) ==
  InOwnStep(run[r]) /\ Names(run[r]) /\ Progress(r, run[r])

ContentInv ==
  Sound =>
    /\ Held
    /\ task.status = "completed" => Finished
    /\ \A r \in Runs : run[r].at = "idle" => run[r].batch = 1
    /\ \A r \in Runs : run[r].at \in Working => RunHolds(r)

-----------------------------------------------------------------------------
(* How a statement moves its run and changes its document. *)

MovesTo(r, at) ==
  /\ run'[r].at = at
  /\ run'[r].step = run[r].step
  /\ run'[r].documentId = run[r].documentId
  /\ run'[r].skips = run[r].skips
  /\ run'[r].batch = run[r].batch

(* RunGoes changes only where the run stands.                               *)
LEMMA GoesMoves ==
  ASSUME TypeOK, NEW r \in Runs, NEW at, RunGoes(r, at)
  PROVE  MovesTo(r, at)
BY DEF TypeOK, RunGoes, Run, MovesTo

(* The document of r becomes new if it is still there, the others stay.     *)
Rewrites(r, new) ==
  /\ \A e \in AllDocs : Present(e)' <=> Present(e)
  /\ \A e \in AllDocs : e # run[r].documentId => documents'[e] = documents[e]
  /\ Present(run[r].documentId) => documents'[run[r].documentId] = new
  /\ \A e \in Docs : documents[e].row = "deleted" => documents'[e].row = "deleted"

(* An UPDATE of the run's document rewrites that row or none.               *)
LEMMA UpdateRewrites ==
  ASSUME TypeOK, NEW r \in Runs, NEW new,
         documents' = Updated(run[r].documentId, new),
         Present(run[r].documentId) => new.row = "present"
  PROVE  Rewrites(r, new)
<1> DEFINE d == run[r].documentId
<1>0. documents \in [AllDocs -> Document] /\ Docs \subseteq AllDocs
  BY DEF TypeOK, AllDocs
<1>1. CASE Present(d)
  <2>1. documents' = [documents EXCEPT ![d] = new] /\ d \in AllDocs /\ d # NoDoc
    BY <1>0, <1>1, PresentHasId DEF Updated, Present
  <2>2. documents'[d] = new /\ \A e \in AllDocs : e # d => documents'[e] = documents[e]
    BY <1>0, <2>1
  <2>. QED BY <1>0, <1>1, <2>1, <2>2 DEF Rewrites, Present
<1>2. CASE ~Present(d)
  BY <1>2 DEF Updated, Rewrites, Present
<1>. QED BY <1>1, <1>2

(* What was stored stays stored through a statement that takes nothing of   *)
(* it away while the step that wrote it is completed.                       *)
LEMMA HeldStays ==
  ASSUME Held, UNCHANGED <<parsed, deleting>>, Done' \subseteq Done,
         task'.documentId \in {task.documentId, parsed, NoDoc},
         \A e \in Docs : documents[e].row = "deleted" => documents'[e].row = "deleted",
         parsed # NoDoc =>
           /\ Present(parsed)'
           /\ "parse" \in Done' => documents'[parsed].assets = documents[parsed].assets
           /\ "index" \in Done' => /\ documents'[parsed].chunks = documents[parsed].chunks
                                   /\ parsed # deleting => es'[parsed] = es[parsed]
           /\ "graph_sync" \in Done'
                => \/ documents'[parsed].graph = documents[parsed].graph
                   \/ documents'[parsed].graph # "pending"
  PROVE  Held'
<1>1. ParseHeld'
  BY DEF Held, ParseHeld, Deleted
<1>2. IndexHeld'
  BY DEF Held, IndexHeld, Batched
<1>3. GraphHeld'
  BY DEF Held, GraphHeld
<1>. QED BY <1>1, <1>2, <1>3 DEF Held

(* Rewriting it keeps what the completed steps have stored, if it keeps     *)
(* the fields they are about.                                               *)
LEMMA RewriteHeld ==
  ASSUME TypeOK, Held, NEW r \in Runs, NEW new, Rewrites(r, new),
         UNCHANGED <<task, steps, parsed, es, deleting>>,
         Present(run[r].documentId) =>
           /\ "parse" \in Done => new.assets = MyDocument(r).assets
           /\ "index" \in Done => new.chunks = MyDocument(r).chunks
           /\ "graph_sync" \in Done
                => new.graph = MyDocument(r).graph \/ new.graph # "pending"
  PROVE  Held'
<1>1. parsed # NoDoc => Present(parsed) /\ parsed \in AllDocs
  BY DEF Held, ParseHeld, TypeOK, AllDocs
<1>2. Done' = Done
  BY DEF Done
<1>3. CASE parsed = run[r].documentId
  BY <1>1, <1>2, <1>3, HeldStays DEF Rewrites, MyDocument
<1>4. CASE parsed # run[r].documentId
  BY <1>1, <1>2, <1>4, HeldStays DEF Rewrites
<1>. QED BY <1>3, <1>4

(* A statement that writes neither documents nor the index nor a status.    *)
LEMMA AsideHeld ==
  ASSUME Held, UNCHANGED <<documents, es, parsed, deleting>>, Done' \subseteq Done,
         task'.documentId \in {task.documentId, parsed, NoDoc}
  PROVE  Held'
<1>1. parsed # NoDoc => Present(parsed)'
  BY DEF Held, ParseHeld, Present
<1>. QED BY <1>1, HeldStays

-----------------------------------------------------------------------------
(* The run at work, statement by statement. *)

AtWork(r) ==
  /\ TypeOK /\ InOrder /\ Held
  /\ run[r].at \in Working /\ Placed(run[r]) /\ RunHolds(r)
  /\ UNCHANGED deleting

Leaves(r) == Held' /\ (run'[r].at \in Working => RunHolds(r)')

(* Every statement of a run at work leaves what the invariant says:         *)
(* reading the task and its steps,                                          *)
LEMMA LoadingContent ==
  ASSUME NEW r \in Runs, AtWork(r), LoadTask(r) \/ LoadSteps(r)
  PROVE  Leaves(r)
<1>0. /\ run \in [Runs -> Run] /\ run[r] \in Run
      /\ task \in [status : TaskStatus, documentId : Docs \cup {NoDoc}]
  BY DEF AtWork, TypeOK
<1>1. UNCHANGED <<task, steps, parsed, documents, es, deleting>> /\ Done' = Done
  BY DEF LoadTask, LoadSteps, OnlyRun, AtWork, Done
<1>2. Held'
  BY <1>1, AsideHeld DEF AtWork
<1>3. run[r].batch = 1
  BY DEF AtWork, RunHolds, Progress, LoadTask, LoadSteps, RunAt, InCatch
<1>4. CASE LoadTask(r)
  <2>1. /\ run'[r].at = "load steps" /\ run'[r].documentId = task.documentId
        /\ run'[r].batch = run[r].batch
    BY <1>0, <1>4 DEF LoadTask, Run
  <2>2. InOwnStep(run[r])'
    BY <2>1 DEF InOwnStep, InIndex, InTry, InStep, Switching
  <2>3. Names(run[r])'
    BY <1>1, <2>1 DEF Names, InTry, InStep, Switching
  <2>4. Progress(r, run[r])'
    BY <1>3, <2>1 DEF Progress
  <2>. QED BY <1>2, <2>2, <2>3, <2>4 DEF Leaves, RunHolds
<1>5. CASE LoadSteps(r)
  <2>1. /\ run'[r].at = "begin" /\ run'[r].skips = Done
        /\ run'[r].documentId = IF "parse" \in Done THEN parsed ELSE run[r].documentId
        /\ run'[r].batch = run[r].batch
    BY <1>0, <1>5 DEF LoadSteps, Run, Done, Step
  <2>2. InOwnStep(run[r])'
    BY <1>1, <2>1 DEF InOwnStep, InIndex, InTry, InStep, Switching
  <2>3. Names(run[r])'
    BY <1>1, <1>5, <2>1 DEF Names, IsParsed, InTry, InStep, Switching, AtWork, RunHolds,
       LoadSteps, RunAt, Held, ParseHeld
  <2>4. Progress(r, run[r])'
    BY <1>3, <2>1 DEF Progress
  <2>. QED BY <1>2, <2>2, <2>3, <2>4 DEF Leaves, RunHolds
<1>. QED BY <1>4, <1>5

(* Going on with the next step that is not skipped keeps the rest of x.     *)
LEMMA EnterVersionKeeps ==
  ASSUME NEW x \in Run
  PROVE  /\ EnterVersion(x).at \in {"demote", "complete"}
         /\ EnterVersion(x).documentId = x.documentId
         /\ EnterVersion(x).batch = x.batch
         /\ EnterVersion(x).skips = x.skips
         /\ EnterVersion(x).step = x.step
         /\ EnterVersion(x).versioned = x.versioned
BY DEF EnterVersion, Run

(* Where a run goes on to, and that it takes its document and what it       *)
(* skips along.                                                             *)
LEMMA EnterGraphKeeps ==
  ASSUME NEW x \in Run
  PROVE  LET y == EnterGraph(x)
         IN /\ \/ y.at = "start" /\ y.step = "graph_sync" /\ y.step \notin x.skips
               \/ y.at \in {"demote", "complete"} /\ "graph_sync" \in x.skips
            /\ y.documentId = x.documentId
            /\ y.batch = x.batch
            /\ y.skips = x.skips
            /\ y.versioned = x.versioned
<1>1. CASE "graph_sync" \in x.skips
  BY <1>1, EnterVersionKeeps DEF EnterGraph
<1>2. CASE "graph_sync" \notin x.skips
  BY <1>2 DEF EnterGraph, Run
<1>. QED BY <1>1, <1>2

(* The same from the index step,                                            *)
LEMMA EnterIndexKeeps ==
  ASSUME NEW x \in Run
  PROVE  LET y == EnterIndex(x)
         IN /\ \/ y.at = "fail task"
               \/ y.at = "start" /\ y.step \in {"index", "graph_sync"} /\ y.step \notin x.skips
               \/ y.at \in {"demote", "complete"} /\ "graph_sync" \in x.skips
            /\ y.documentId = x.documentId
            /\ y.batch = x.batch
            /\ y.skips = x.skips
            /\ y.versioned = x.versioned
<1>1. CASE x.documentId = NoDoc
  BY <1>1 DEF EnterIndex, Run
<1>2. CASE x.documentId # NoDoc /\ "index" \in x.skips
  <2>1. EnterIndex(x) = EnterGraph(x)
    BY <1>2 DEF EnterIndex
  <2>. QED BY <2>1, EnterGraphKeeps
<1>3. CASE x.documentId # NoDoc /\ "index" \notin x.skips
  <2>1. EnterIndex(x) = [x EXCEPT !.step = "index", !.at = "start"]
    BY <1>3 DEF EnterIndex
  <2>. QED BY <1>3, <2>1 DEF Run
<1>. QED BY <1>1, <1>2, <1>3

(* ... and from the parse step, which alone the others may follow.          *)
LEMMA EnterParseKeeps ==
  ASSUME NEW x \in Run
  PROVE  LET y == EnterParse(x)
         IN /\ \/ y.at = "fail task"
               \/ /\ y.at = "start" /\ y.step \in {"parse", "index", "graph_sync"}
                  /\ y.step \notin x.skips
                  /\ y.step # "parse" => "parse" \in x.skips
               \/ /\ y.at \in {"demote", "complete"}
                  /\ "graph_sync" \in x.skips /\ "parse" \in x.skips
            /\ y.documentId = x.documentId
            /\ y.batch = x.batch
            /\ y.skips = x.skips
            /\ y.versioned = x.versioned
<1>1. CASE "parse" \in x.skips
  <2>1. EnterParse(x) = EnterIndex(x)
    BY <1>1 DEF EnterParse
  <2>. QED BY <1>1, <2>1, EnterIndexKeeps
<1>2. CASE "parse" \notin x.skips
  <2>1. EnterParse(x) = [x EXCEPT !.step = "parse", !.at = "start"]
    BY <1>2 DEF EnterParse
  <2>. QED BY <1>2, <2>1 DEF Run
<1>. QED BY <1>1, <1>2

(* What is to be shown of a run that enters a step, the switch or its end.  *)
LEMMA EnteredHolds ==
  ASSUME NEW r \in Runs,
         run'[r].at \in {"start", "fail task", "demote", "complete"},
         run'[r].batch = 1,
         run'[r].at # "fail task" => task'.documentId \in {run'[r].documentId, NoDoc},
         run'[r].at = "start" => /\ run'[r].skips \subseteq Done'
                                 /\ run'[r].step \notin run'[r].skips,
         run'[r].at \in {"demote", "complete"} => Finished',
         (\/ run'[r].at \in {"demote", "complete"}
          \/ run'[r].at = "start" /\ run'[r].step # "parse")
           => IsParsed(run[r].documentId)'
  PROVE  RunHolds(r)'
<1>1. InOwnStep(run[r])'
  BY DEF InOwnStep, InIndex, InTry, InStep, Switching
<1>2. Names(run[r])'
  BY DEF Names, InTry, InStep, Switching
<1>3. Progress(r, run[r])'
  BY DEF Progress, InCatch
<1>. QED BY <1>1, <1>2, <1>3 DEF RunHolds

(* With its last step the others are done. *)
LEMMA GraphIsLast ==
  ASSUME Held, InOrder, "graph_sync" \in Done
  PROVE  Finished
BY DEF Held, GraphHeld, InOrder, Finished, Done

(* A run that writes no chunks stands at the first batch.                   *)
LEMMA BatchIsOne ==
  ASSUME NEW r \in Runs, AtWork(r),
         run[r].at \notin {"insert", "upsert"} \cup InCatch \/ run[r].step # "index"
  PROVE  run[r].batch = 1
BY DEF AtWork, RunHolds, Progress

(* ... beginning, with the completed steps skipped,                         *)
LEMMA BeginContent ==
  ASSUME NEW r \in Runs, AtWork(r), Begin(r)
  PROVE  Leaves(r)
<1>0. /\ run \in [Runs -> Run] /\ run[r] \in Run
      /\ task \in [status : TaskStatus, documentId : Docs \cup {NoDoc}]
      /\ run[r].at = "begin"
  BY DEF AtWork, TypeOK, Begin, RunAt
<1>1. UNCHANGED <<steps, parsed, documents, es, deleting>> /\ Done' = Done
  BY DEF Begin, OnlyTask, AtWork, Done
<1>2. task'.documentId = task.documentId
  BY <1>0 DEF Begin
<1>3. Held'
  BY <1>1, <1>2, AsideHeld DEF AtWork
<1>4. run'[r] = EnterParse(run[r])
  BY <1>0 DEF Begin
<1>5. run[r].skips = Done
  BY <1>0 DEF AtWork, Placed
<1>6. run[r].batch = 1
  BY <1>0, BatchIsOne DEF InCatch
<1>7. /\ task.documentId \in {run[r].documentId, NoDoc}
      /\ "parse" \in Done => IsParsed(run[r].documentId)
  BY <1>0, <1>5 DEF AtWork, RunHolds, Names
<1>8. "graph_sync" \in Done => Finished'
  <2>1. "graph_sync" \in Done => Finished
    BY GraphIsLast DEF AtWork
  <2>. QED BY <1>1, <2>1 DEF Finished
<1>9. RunHolds(r)'
  <2>1. UNCHANGED <<parsed, documents>> /\ run'[r].documentId = run[r].documentId
    BY <1>0, <1>1, <1>4, EnterParseKeeps
  <2>2. IsParsed(run[r].documentId) => IsParsed(run[r].documentId)'
    BY <2>1 DEF IsParsed, Present
  <2>. QED BY <1>0, <1>1, <1>2, <1>4, <1>5, <1>6, <1>7, <1>8, <2>2, EnterParseKeeps,
              EnteredHolds
<1>. QED BY <1>3, <1>9 DEF Leaves

(* ... the checkpoints after parse and index,                               *)
LEMMA BindContent ==
  ASSUME NEW r \in Runs, AtWork(r), BindParse(r) \/ BindIndex(r)
  PROVE  Leaves(r)
<1>0. /\ run \in [Runs -> Run] /\ run[r] \in Run
      /\ task \in [status : TaskStatus, documentId : Docs \cup {NoDoc}]
      /\ run[r].at = "bind"
  BY DEF AtWork, TypeOK, BindParse, BindIndex, StepAt
<1>1. UNCHANGED <<steps, parsed, documents, es, deleting>> /\ Done' = Done
  BY DEF BindParse, BindIndex, OnlyTask, OnlyRun, AtWork, Done
<1>2. run[r].batch = 1 /\ run[r].skips \subseteq Done
  BY <1>0, BatchIsOne DEF InCatch, AtWork, RunHolds, InOwnStep, InStep, InTry
<1>3. /\ task.documentId \in {run[r].documentId, NoDoc}
      /\ IsParsed(run[r].documentId)
  BY <1>0 DEF AtWork, RunHolds, Names, InStep, InTry
<1>4. "graph_sync" \in Done => Finished'
  <2>1. "graph_sync" \in Done => Finished
    BY GraphIsLast DEF AtWork
  <2>. QED BY <1>1, <2>1 DEF Finished
<1>5. task'.documentId \in {run[r].documentId, NoDoc}
  BY <1>0, <1>3 DEF BindParse, BindIndex, OnlyRun
<1>6. Held'
  <2>1. CASE BindParse(r)
    <3>1. run[r].documentId # NoDoc /\ run[r].step \in Done
      BY <1>0, <2>1 DEF BindParse, Present, AtWork, Placed
    <3>2. "parse" \in Done
      BY <2>1, <3>1 DEF BindParse, StepAt
    <3>3. parsed = NoDoc => Deleted
      BY <3>2 DEF AtWork, Held, ParseHeld
    <3>4. parsed = run[r].documentId
      BY <1>3, <2>1 DEF BindParse, IsParsed
    <3>5. ParseHeld'
      BY <1>1, <1>5, <3>3, <3>4 DEF AtWork, Held, ParseHeld, Deleted, Present
    <3>. QED BY <1>1, <3>5 DEF AtWork, Held, IndexHeld, GraphHeld, Batched
  <2>2. CASE BindIndex(r)
    <3>1. task' = task
      BY <2>2 DEF BindIndex, OnlyRun
    <3>. QED BY <1>1, <3>1, AsideHeld DEF AtWork
  <2>. QED BY <2>1, <2>2
<1>7. RunHolds(r)'
  <2>0. run'[r].documentId = run[r].documentId => IsParsed(run[r].documentId)'
    BY <1>1, <1>3 DEF IsParsed, Present
  <2>1. CASE BindParse(r)
    <3>1. run'[r] = EnterIndex(run[r])
      BY <1>0, <2>1 DEF BindParse
    <3>. QED BY <1>0, <1>1, <1>2, <1>4, <1>5, <2>0, <3>1, EnterIndexKeeps, EnteredHolds
  <2>2. CASE BindIndex(r)
    <3>1. run'[r] = EnterGraph(run[r])
      BY <1>0, <2>2 DEF BindIndex
    <3>. QED BY <1>0, <1>1, <1>2, <1>4, <1>5, <2>0, <3>1, EnterGraphKeeps, EnteredHolds
  <2>. QED BY <2>1, <2>2
<1>. QED BY <1>6, <1>7 DEF Leaves

(* A statement within a step keeps to it, whatever it stores. *)
LEMMA StaysWithin ==
  ASSUME NEW r \in Runs, AtWork(r), run[r].at \in InStep,
         NEW at \in InStep \ {"start", "bind"}, MovesTo(r, at),
         UNCHANGED <<task, parsed>>,
         Present(run[r].documentId)' => Present(run[r].documentId),
         run[r].skips \subseteq Done',
         at \in {"create", "clear assets", "save assets"} => run[r].step = "parse",
         at \in InIndex => run[r].step = "index",
         at \in {"pending graph", "sync graph"} => run[r].step = "graph_sync",
         at \in InTry => run[r].step \notin Done'
  PROVE  InOwnStep(run[r])' /\ Names(run[r])'
<1>1. InOwnStep(run[r])'
  BY DEF MovesTo, InOwnStep, InStep, InTry, Switching
<1>2. /\ task.documentId \in {run[r].documentId, NoDoc}
      /\ run[r].step # "parse" => IsParsed(run[r].documentId)
  BY DEF AtWork, RunHolds, Names
<1>3. run[r].step # "parse" => IsParsed(run[r].documentId)'
  BY <1>2 DEF IsParsed, MovesTo
<1>4. Names(run[r])'
  BY <1>2, <1>3 DEF MovesTo, Names, Switching, InStep, InTry
<1>. QED BY <1>1, <1>4

(* ... the start of a step,                                                 *)
LEMMA StartContent ==
  ASSUME NEW r \in Runs, AtWork(r), StartStep(r)
  PROVE  Leaves(r)
<1>0. /\ run \in [Runs -> Run] /\ run[r] \in Run /\ run[r].step \in Step
      /\ run[r].at = "start"
  BY DEF AtWork, TypeOK, StartStep, RunAt, Run
<1>1. UNCHANGED <<task, parsed, documents, es, deleting>>
  BY DEF StartStep, OnlySteps, AtWork
<1>2. Done' = Done \ {run[r].step}
  BY <1>0, StepOtherwise DEF StartStep, AtWork
<1>3. Held'
  BY <1>1, <1>2, AsideHeld DEF AtWork
<1>4. PICK at \in {"create", "clear chunks", "pending graph"} :
        /\ RunGoes(r, at)
        /\ at = "create" => run[r].step = "parse"
        /\ at = "clear chunks" => run[r].step = "index"
        /\ at = "pending graph" => run[r].step = "graph_sync"
  BY <1>0 DEF StartStep, Step
<1>5. MovesTo(r, at)
  BY <1>4, GoesMoves DEF AtWork
<1>6. run[r].step \notin run[r].skips /\ run[r].skips \subseteq Done
  BY <1>0 DEF AtWork, RunHolds, InOwnStep, InStep
<1>7. InOwnStep(run[r])' /\ Names(run[r])'
  <2>1. /\ at \in InStep \ {"start", "bind"} /\ run[r].at \in InStep
        /\ at \in {"create", "clear assets", "save assets"} => run[r].step = "parse"
        /\ at \in InIndex => run[r].step = "index"
        /\ at \in {"pending graph", "sync graph"} => run[r].step = "graph_sync"
    BY <1>0, <1>4 DEF InStep, InTry, InIndex
  <2>2. Present(run[r].documentId)' => Present(run[r].documentId)
    BY <1>1, <1>5 DEF Present, MovesTo
  <2>3. run[r].skips \subseteq Done' /\ run[r].step \notin Done'
    BY <1>2, <1>6
  <2>. QED BY <1>1, <1>5, <2>1, <2>2, <2>3, StaysWithin
<1>8. run[r].batch = 1
  BY <1>0, BatchIsOne DEF InCatch
<1>9. Progress(r, run[r])'
  BY <1>5, <1>8 DEF MovesTo, Progress
<1>. QED BY <1>3, <1>7, <1>9 DEF Leaves, RunHolds

(* ... the creation of the document,                                        *)
LEMMA CreateContent ==
  ASSUME NEW r \in Runs, AtWork(r),
         NEW d \in Docs, CreateDocument(r, d) \/ NameGroupFails(r, d)
  PROVE  Leaves(r)
<1>0. /\ run \in [Runs -> Run] /\ run[r] \in Run
      /\ documents \in [AllDocs -> Document] /\ d \in AllDocs
      /\ run[r].at = "create" /\ run[r].documentId = NoDoc
      /\ documents[d].row = "absent"
      /\ parsed \in Docs \cup {NoDoc}
  BY DEF AtWork, TypeOK, CreateDocument, NameGroupFails, RunAt, AllDocs
<1>1. UNCHANGED <<task, steps, parsed, es, deleting>> /\ Done' = Done
  BY DEF CreateDocument, NameGroupFails, OnlyDocuments, AtWork, Done
<1>2. /\ documents'[d].row = "present"
      /\ \A e \in AllDocs : e # d => documents'[e] = documents[e]
  BY <1>0 DEF CreateDocument, NameGroupFails, NoDocument
<1>3. Held'
  <2>1. parsed # NoDoc => parsed # d /\ parsed \in AllDocs /\ Present(parsed)
    BY <1>0 DEF AtWork, Held, ParseHeld, Present, AllDocs
  <2>. QED BY <1>0, <1>1, <1>2, <2>1, HeldStays DEF AtWork, Present, AllDocs
<1>4. /\ run[r].step = "parse" /\ run[r].step \notin Done
      /\ run[r].skips \subseteq Done
      /\ task.documentId = NoDoc
  BY <1>0 DEF AtWork, RunHolds, InOwnStep, Names, InStep, InTry
<1>5. run[r].batch = 1
  BY <1>0, BatchIsOne DEF InCatch
<1>6. /\ run'[r].at \in {"clear assets", "catch document"}
      /\ run'[r].step = run[r].step /\ run'[r].skips = run[r].skips
      /\ run'[r].batch = run[r].batch
  <2>1. CASE CreateDocument(r, d)
    BY <1>0, <2>1 DEF CreateDocument, Run
  <2>2. CASE NameGroupFails(r, d)
    BY <1>0, <2>2 DEF NameGroupFails, RunGoes, Run
  <2>. QED BY <2>1, <2>2
<1>7. InOwnStep(run[r])'
  BY <1>1, <1>4, <1>6 DEF InOwnStep, InStep, InTry, InIndex, Switching
<1>8. Names(run[r])'
  BY <1>1, <1>4, <1>6 DEF Names, InStep, InTry, Switching
<1>9. Progress(r, run[r])'
  BY <1>5, <1>6 DEF Progress
<1>. QED BY <1>3, <1>7, <1>8, <1>9 DEF Leaves, RunHolds

(* A statement on the document of the run. *)
LEMMA OnDocumentMoves ==
  ASSUME NEW r \in Runs, AtWork(r), NEW at, NEW new, NEW next, OnDocument(r, at, new, next),
         Present(run[r].documentId) => new.row = "present"
  PROVE  /\ run[r].at = at /\ MovesTo(r, next) /\ Rewrites(r, new)
         /\ UNCHANGED <<task, steps, parsed, es, deleting>> /\ Done' = Done
         /\ Present(run[r].documentId)' <=> Present(run[r].documentId)
<1>1. run[r].at = at /\ MovesTo(r, next) /\ Rewrites(r, new)
  BY GoesMoves, UpdateRewrites DEF OnDocument, RunAt, AtWork
<1>2. UNCHANGED <<task, steps, parsed, es, deleting>> /\ Done' = Done
  BY DEF OnDocument, OnlyDocuments, AtWork, Done
<1>3. Present(run[r].documentId)' <=> Present(run[r].documentId)
  <2>1. MovesTo(r, next)
    BY <1>1
  <2>2. CASE run[r].documentId = NoDoc
    BY <2>1, <2>2 DEF Present, MovesTo
  <2>3. CASE run[r].documentId # NoDoc
    <3>1. run[r].documentId \in AllDocs
      BY <2>3 DEF AtWork, TypeOK, Run, AllDocs
    <3>. QED BY <1>1, <2>1, <3>1 DEF Rewrites, Present, MovesTo
  <2>. QED BY <2>2, <2>3
<1>. QED BY <1>1, <1>2, <1>3

(* ... its assets, cleared before they are saved,                           *)
LEMMA AssetsContent ==
  ASSUME NEW r \in Runs, AtWork(r), KeepDocument(r) \/ ClearAssets(r) \/ SaveAssets(r)
  PROVE  Leaves(r)
<1>0. run[r] \in Run /\ (Present(run[r].documentId) => MyDocument(r) \in Document)
  BY MyDocumentTyped DEF AtWork, TypeOK
<1>1. run[r].at \in {"create", "clear assets", "save assets"}
  BY DEF KeepDocument, ClearAssets, SaveAssets, OnDocument, RunAt
<1>2. /\ run[r].step = "parse" /\ run[r].step \notin Done
      /\ run[r].skips \subseteq Done
  BY <1>1 DEF AtWork, RunHolds, InOwnStep, InStep, InTry
<1>3. run[r].batch = 1
  BY <1>1, BatchIsOne DEF InCatch
<1>4. CASE KeepDocument(r)
  <2>1. MovesTo(r, "clear assets")
    BY <1>4, GoesMoves DEF KeepDocument, AtWork
  <2>2. UNCHANGED <<task, steps, parsed, documents, es, deleting>> /\ Done' = Done
    BY <1>4 DEF KeepDocument, OnlyRun, AtWork, Done
  <2>3. Held'
    BY <2>2, AsideHeld DEF AtWork
  <2>4. InOwnStep(run[r])' /\ Names(run[r])'
    BY <1>1, <1>2, <2>1, <2>2, StaysWithin DEF InStep, InTry, InIndex, Present, MovesTo
  <2>5. Progress(r, run[r])'
    BY <1>3, <2>1 DEF Progress, MovesTo
  <2>. QED BY <2>3, <2>4, <2>5 DEF Leaves, RunHolds
<1>5. ASSUME NEW at, NEW n, NEW next \in {"save assets", "finish"},
             OnDocument(r, at, [MyDocument(r) EXCEPT !.assets = n], next),
             next = "save assets" => n = 0,
             next = "finish" /\ Present(run[r].documentId) => n = 1
      PROVE  Leaves(r)
  <2> DEFINE new == [MyDocument(r) EXCEPT !.assets = n]
  <2>1. Present(run[r].documentId) =>
          /\ new.row = "present" /\ new.assets = n
          /\ new.chunks = MyDocument(r).chunks /\ new.graph = MyDocument(r).graph
    BY <1>0 DEF Document, Present, MyDocument
  <2>2. /\ MovesTo(r, next) /\ Rewrites(r, new)
        /\ UNCHANGED <<task, steps, parsed, es, deleting>> /\ Done' = Done
        /\ Present(run[r].documentId)' <=> Present(run[r].documentId)
    BY <1>5, <2>1, OnDocumentMoves
  <2>3. Held'
    BY <1>2, <2>1, <2>2, RewriteHeld DEF AtWork
  <2>4. InOwnStep(run[r])' /\ Names(run[r])'
    <3>1. next \in InStep \ {"start", "bind"} /\ run[r].at \in InStep /\ next \notin InIndex
      BY <1>1 DEF InStep, InTry, InIndex
    <3>. QED BY <1>2, <2>2, <3>1, StaysWithin
  <2>5. Present(run[r].documentId)' => documents'[run'[r].documentId].assets = n
    BY <2>1, <2>2 DEF MovesTo, Rewrites
  <2>6. Progress(r, run[r])'
    BY <1>2, <1>3, <1>5, <2>2, <2>5 DEF Progress, MovesTo
  <2>. QED BY <2>3, <2>4, <2>6 DEF Leaves, RunHolds
<1>6. CASE ClearAssets(r)
  BY <1>5, <1>6 DEF ClearAssets
<1>7. CASE SaveAssets(r)
  <2>1. Present(run[r].documentId) /\ run[r].at = "save assets"
    BY <1>7 DEF SaveAssets, OnDocument, RunAt
  <2>2. MyDocument(r).assets = 0
    <3>1. Progress(r, run[r])
      BY DEF AtWork, RunHolds
    <3>2. documents[run[r].documentId].assets = 0
      BY <2>1, <3>1 DEF Progress
    <3>. QED BY <3>2 DEF MyDocument
  <2>3. OnDocument(r, "save assets",
                   [MyDocument(r) EXCEPT !.assets = MyDocument(r).assets + 1], "finish")
    BY <1>7 DEF SaveAssets
  <2>4. MyDocument(r).assets + 1 = 1
    BY <2>2
  <2>. QED BY <1>5, <2>3, <2>4
<1>. QED BY <1>4, <1>6, <1>7

(* ... the end of a step, which makes completed what is stored,             *)
LEMMA FinishContent ==
  ASSUME NEW r \in Runs, AtWork(r), FinishStep(r)
  PROVE  Leaves(r)
<1> DEFINE d == run[r].documentId
<1>0. /\ run \in [Runs -> Run] /\ run[r] \in Run
      /\ run[r].step \in {"parse", "index", "graph_sync"}
      /\ run[r].at = "finish" /\ Present(d) /\ d # NoDoc
      /\ steps \in [Step -> StepStatus]
  BY DEF AtWork, TypeOK, FinishStep, RunAt, Run, Step, Present
<1>1. UNCHANGED <<task, documents, es, deleting>>
  BY DEF FinishStep, AtWork
<1>2. Done' = Done \cup {run[r].step}
  <2>1. run[r].step \in Step
    BY <1>0 DEF Step
  <2>. QED BY <2>1, StepCompleted DEF FinishStep, AtWork
<1>3. /\ task.documentId \in {d, NoDoc}
      /\ run[r].step # "parse" => parsed = d
      /\ run[r].skips \subseteq Done /\ run[r].step \notin Done
  BY <1>0 DEF AtWork, RunHolds, Names, IsParsed, InOwnStep, InStep, InTry
<1>4. /\ run[r].step = "parse" => "index" \notin Done /\ "graph_sync" \notin Done
      /\ run[r].step = "index" => "parse" \in Done /\ "graph_sync" \notin Done
      /\ run[r].step = "graph_sync" => "parse" \in Done /\ "index" \in Done
  BY <1>0 DEF AtWork, Placed, InOrder, InStep, InTry
<1>5. Progress(r, run[r])
  BY DEF AtWork, RunHolds
<1>6. parsed' = d /\ Present(parsed)'
  BY <1>0, <1>1, <1>3 DEF FinishStep, Present
<1>7. /\ run[r].step = "parse" => documents[d].assets = 1
      /\ run[r].step = "index" => Written(d, Batched(r, Batches), Batched(r, Batches))
      /\ run[r].step = "graph_sync" => documents[d].graph # "pending"
  BY <1>0, <1>5 DEF Progress
<1>8. Held'
  <2>1. ParseHeld'
    BY <1>0, <1>1, <1>2, <1>3, <1>4, <1>6, <1>7 DEF AtWork, Held, ParseHeld, Present
  <2>2. IndexHeld'
    <3>1. CASE run[r].step = "parse"
      BY <1>2, <1>4, <3>1 DEF IndexHeld
    <3>2. CASE run[r].step = "index"
      <4>1. /\ documents[d].chunks = Batched(r, Batches)
            /\ d # deleting => es[d] = documents[d].chunks
        BY <1>0, <1>7, <3>2 DEF Written
      <4>. QED BY <1>1, <1>6, <4>1 DEF IndexHeld, Batched
    <3>3. CASE run[r].step = "graph_sync"
      BY <1>1, <1>3, <1>4, <1>6, <3>3 DEF AtWork, Held, IndexHeld, Batched
    <3>. QED BY <1>0, <3>1, <3>2, <3>3
  <2>3. GraphHeld'
    BY <1>0, <1>1, <1>2, <1>4, <1>6, <1>7 DEF GraphHeld
  <2>. QED BY <2>1, <2>2, <2>3 DEF Held
<1>9. run[r].batch = 1
  BY <1>0, BatchIsOne DEF InCatch
<1>10. CASE run[r].step = "graph_sync"
  <2>1. run'[r] = EnterVersion(run[r])
    BY <1>0, <1>10 DEF FinishStep
  <2>2. steps'["graph_sync"] = "completed"
    BY <1>0, <1>10 DEF FinishStep, Step
  <2>3. Finished'
    BY <1>1, <1>2, <1>4, <1>6, <1>7, <1>10, <2>2 DEF Finished
  <2>4. /\ run'[r].at \in {"demote", "complete"} /\ run'[r].batch = 1
        /\ run'[r].documentId = d
    BY <1>0, <1>9, <2>1, EnterVersionKeeps
  <2>5. IsParsed(run[r].documentId)'
    BY <1>6, <2>4 DEF IsParsed
  <2>6. RunHolds(r)'
    BY <1>1, <1>3, <2>3, <2>4, <2>5, EnteredHolds
  <2>. QED BY <1>8, <2>6 DEF Leaves
<1>11. CASE run[r].step # "graph_sync"
  <2>1. /\ run'[r].at = "bind" /\ run'[r].step = run[r].step /\ run'[r].batch = 1
        /\ run'[r].documentId = d /\ run'[r].skips = run[r].skips
    BY <1>0, <1>9, <1>11 DEF FinishStep, Run
  <2>2. InOwnStep(run[r])'
    BY <1>2, <1>3, <1>11, <2>1 DEF InOwnStep, InStep, InIndex, InTry, Switching
  <2>3. Names(run[r])'
    BY <1>1, <1>3, <1>6, <2>1 DEF Names, IsParsed
  <2>4. Progress(r, run[r])'
    BY <2>1 DEF Progress
  <2>. QED BY <1>8, <2>2, <2>3, <2>4 DEF Leaves, RunHolds
<1>. QED BY <1>10, <1>11

(* A statement of a step on its document leaves the other steps' part of it. *)
LEMMA OnDocumentContent ==
  ASSUME NEW r \in Runs, AtWork(r), NEW at, NEW new, NEW next,
         OnDocument(r, at, new, next),
         at \in InStep, next \in InStep \ {"start", "bind"},
         next \in {"create", "clear assets", "save assets"} => run[r].step = "parse",
         next \in InIndex => run[r].step = "index",
         next \in {"pending graph", "sync graph"} => run[r].step = "graph_sync",
         next \in InTry => run[r].step \notin Done,
         Present(run[r].documentId) =>
           /\ new.row = "present"
           /\ "parse" \in Done => new.assets = MyDocument(r).assets
           /\ "index" \in Done => new.chunks = MyDocument(r).chunks
           /\ "graph_sync" \in Done
                => new.graph = MyDocument(r).graph \/ new.graph # "pending"
  PROVE  /\ MovesTo(r, next) /\ UNCHANGED <<task, steps, parsed, es, deleting>>
         /\ Present(run[r].documentId)' <=> Present(run[r].documentId)
         /\ Present(run[r].documentId) => documents'[run[r].documentId] = new
         /\ Held' /\ InOwnStep(run[r])' /\ Names(run[r])'
<1>1. /\ run[r].at = at /\ MovesTo(r, next) /\ Rewrites(r, new)
      /\ UNCHANGED <<task, steps, parsed, es, deleting>> /\ Done' = Done
      /\ Present(run[r].documentId)' <=> Present(run[r].documentId)
  BY OnDocumentMoves
<1>2. Held'
  BY <1>1, RewriteHeld DEF AtWork
<1>3. run[r].skips \subseteq Done'
  BY <1>1 DEF AtWork, RunHolds, InOwnStep
<1>4. InOwnStep(run[r])' /\ Names(run[r])'
  BY <1>1, <1>3, StaysWithin
<1>. QED BY <1>1, <1>2, <1>4 DEF Rewrites

(* The batches of a run up to a number, and the next one.                   *)
LEMMA BatchedNext ==
  ASSUME NEW r, NEW b \in 1 .. Batches
  PROVE  /\ Batched(r, b - 1) \cup {<<r, b>>} = Batched(r, b)
         /\ Batched(r, 0) = {}
<1>0. Batches \in Nat
  BY BoundsAssumption
<1>1. 1 .. b = (1 .. (b - 1)) \cup {b}
  BY <1>0
<1>2. 1 .. 0 = {}
  OBVIOUS
<1>. QED BY <1>1, <1>2 DEF Batched

(* ... the clean-up in the database,                                        *)
LEMMA ClearChunksContent ==
  ASSUME NEW r \in Runs, AtWork(r), ClearChunks(r)
  PROVE  Leaves(r)
<1> DEFINE new == [MyDocument(r) EXCEPT !.chunks = {}]
<1>1. OnDocument(r, "clear chunks", new, "clear es") /\ run[r].at = "clear chunks"
  BY DEF ClearChunks, OnDocument, RunAt
<1>2. run[r].step = "index" /\ run[r].step \notin Done
  BY <1>1 DEF AtWork, RunHolds, InOwnStep, InIndex, InTry
<1>3. Present(run[r].documentId) =>
        /\ new.row = "present" /\ new.assets = MyDocument(r).assets
        /\ new.chunks = {} /\ new.graph = MyDocument(r).graph
  BY MyDocumentTyped DEF AtWork, Document, Present, MyDocument
<1>4. /\ MovesTo(r, "clear es")
      /\ Present(run[r].documentId)' <=> Present(run[r].documentId)
      /\ Present(run[r].documentId) => documents'[run[r].documentId] = new
      /\ Held' /\ InOwnStep(run[r])' /\ Names(run[r])'
  <2>1. /\ "clear chunks" \in InStep /\ "clear es" \in InStep \ {"start", "bind"}
        /\ "clear es" \notin {"create", "clear assets", "save assets"}
        /\ "clear es" \notin {"pending graph", "sync graph"}
    BY DEF InStep, InTry
  <2>. QED BY <1>1, <1>2, <1>3, <2>1, OnDocumentContent
<1>5. run[r].batch = 1
  BY <1>1, BatchIsOne DEF InCatch
<1>6. Progress(r, run[r])'
  BY <1>2, <1>3, <1>4, <1>5 DEF Progress, MovesTo
<1>. QED BY <1>4, <1>6 DEF Leaves, RunHolds

(* A statement on the index of the document that is being indexed.          *)
LEMMA OnIndexContent ==
  ASSUME NEW r \in Runs, AtWork(r), run[r].at \in InIndex, NEW c,
         es' = [es EXCEPT ![run[r].documentId] = c],
         OnlyEs,
         run'[r].at \in {"insert", "publish"},
         run'[r].step = run[r].step, run'[r].documentId = run[r].documentId,
         run'[r].skips = run[r].skips
  PROVE  /\ UNCHANGED <<task, steps, parsed, documents, deleting>>
         /\ Present(run[r].documentId)' <=> Present(run[r].documentId)
         /\ Present(run[r].documentId) => es'[run[r].documentId] = c
         /\ Held' /\ InOwnStep(run[r])' /\ Names(run[r])'
<1>1. UNCHANGED <<task, steps, parsed, documents, deleting>> /\ Done' = Done
  BY DEF OnlyEs, AtWork, Done
<1>2. Present(run[r].documentId)' <=> Present(run[r].documentId)
  BY <1>1 DEF Present
<1>3. Present(run[r].documentId) => es'[run[r].documentId] = c
  BY PresentHasId DEF AtWork, TypeOK, AllDocs
<1>4. /\ run[r].step = "index" /\ run[r].step \notin Done
      /\ run[r].skips \subseteq Done
      /\ task.documentId \in {run[r].documentId, NoDoc} /\ IsParsed(run[r].documentId)
  BY DEF AtWork, RunHolds, InOwnStep, Names, InIndex, InTry, InStep
<1>5. Held'
  <2>1. parsed # NoDoc => Present(parsed)'
    BY <1>1 DEF AtWork, Held, ParseHeld, Present
  <2>. QED BY <1>1, <1>4, <2>1, HeldStays DEF AtWork
<1>6. InOwnStep(run[r])'
  BY <1>1, <1>4 DEF InOwnStep, InStep, InTry, InIndex, Switching
<1>7. Names(run[r])'
  BY <1>1, <1>2, <1>4 DEF Names, IsParsed
<1>. QED BY <1>1, <1>2, <1>3, <1>5, <1>6, <1>7

(* ... and in the index,                                                    *)
LEMMA ClearEsContent ==
  ASSUME NEW r \in Runs, AtWork(r), ClearEs(r)
  PROVE  Leaves(r)
<1> DEFINE d == run[r].documentId
<1>1. /\ run[r].at = "clear es" /\ run[r].at \in InIndex
      /\ es' = [es EXCEPT ![d] = {}] /\ OnlyEs
  BY DEF ClearEs, RunAt, InIndex
<1>2. MovesTo(r, "insert")
  BY GoesMoves DEF ClearEs, RunGoes, AtWork
<1>3. /\ UNCHANGED documents
      /\ Present(run[r].documentId)' <=> Present(run[r].documentId)
      /\ Present(run[r].documentId) => es'[run[r].documentId] = {}
      /\ Held' /\ InOwnStep(run[r])' /\ Names(run[r])'
  BY <1>1, <1>2, OnIndexContent DEF MovesTo
<1>4. run[r].batch = 1
  BY <1>1, BatchIsOne DEF InCatch
<1>5. Present(d) => documents[d].chunks = {}
  <2>1. Progress(r, run[r])
    BY DEF AtWork, RunHolds
  <2>. QED BY <1>1, <2>1 DEF Progress
<1>6. Batched(r, 0) = {}
  BY BatchedNext, BoundsAssumption
<1>7. Written(run[r].documentId, Batched(r, run[r].batch - 1), Batched(r, run[r].batch - 1))'
  BY <1>2, <1>3, <1>4, <1>5, <1>6 DEF Written, MovesTo, Batched
<1>8. Progress(r, run[r])'
  BY <1>2, <1>4, <1>7 DEF Progress, MovesTo
<1>. QED BY <1>3, <1>8 DEF Leaves, RunHolds

(* ... a batch into the database,                                           *)
LEMMA InsertContent ==
  ASSUME NEW r \in Runs, AtWork(r), InsertBatch(r)
  PROVE  Leaves(r)
<1> DEFINE b == run[r].batch
           new == [MyDocument(r) EXCEPT !.chunks = @ \cup {<<r, b>>}]
<1>1. /\ OnDocument(r, "insert", new, "upsert") /\ run[r].at = "insert"
      /\ Present(run[r].documentId)
  BY DEF InsertBatch, OnDocument, RunAt
<1>2. run[r].step = "index" /\ run[r].step \notin Done
  BY <1>1 DEF AtWork, RunHolds, InOwnStep, InIndex, InTry
<1>3. Written(run[r].documentId, Batched(r, b - 1), Batched(r, b - 1))
  <2>1. Progress(r, run[r])
    BY DEF AtWork, RunHolds
  <2>. QED BY <1>1, <2>1 DEF Progress
<1>4. b \in 1 .. Batches
  BY DEF AtWork, TypeOK, Run
<1>5. /\ new.row = "present" /\ new.assets = MyDocument(r).assets
      /\ new.chunks = Batched(r, b) /\ new.graph = MyDocument(r).graph
  <2>1. MyDocument(r) \in Document /\ MyDocument(r).row = "present"
    BY <1>1, MyDocumentTyped DEF AtWork, Present, MyDocument
  <2>2. MyDocument(r).chunks = Batched(r, b - 1)
    BY <1>1, <1>3 DEF Written, MyDocument
  <2>3. Batched(r, b - 1) \cup {<<r, b>>} = Batched(r, b)
    BY <1>4, BatchedNext
  <2>. QED BY <2>1, <2>2, <2>3 DEF Document
<1>6. /\ MovesTo(r, "upsert") /\ UNCHANGED <<es, deleting>>
      /\ documents'[run[r].documentId] = new
      /\ Held' /\ InOwnStep(run[r])' /\ Names(run[r])'
  <2>1. /\ "insert" \in InStep /\ "upsert" \in InStep \ {"start", "bind"}
        /\ "upsert" \notin {"create", "clear assets", "save assets"}
        /\ "upsert" \notin {"pending graph", "sync graph"}
    BY DEF InStep, InTry
  <2>. QED BY <1>1, <1>2, <1>5, <2>1, OnDocumentContent
<1>7. Written(run[r].documentId, Batched(r, run[r].batch - 1), Batched(r, run[r].batch))'
  <2>1. /\ documents'[run'[r].documentId].chunks = Batched(r, run'[r].batch)
        /\ run'[r].documentId # deleting'
             => es'[run'[r].documentId] = Batched(r, run'[r].batch - 1)
    BY <1>1, <1>3, <1>5, <1>6 DEF Written, MovesTo
  <2>. QED BY <2>1 DEF Written, Batched
<1>8. Progress(r, run[r])'
  BY <1>2, <1>6, <1>7 DEF Progress, MovesTo
<1>. QED BY <1>6, <1>8 DEF Leaves, RunHolds

(* ... and into the index,                                                  *)
LEMMA UpsertContent ==
  ASSUME NEW r \in Runs, AtWork(r), UpsertBatch(r)
  PROVE  Leaves(r)
<1> DEFINE b == run[r].batch
           c == es[run[r].documentId] \cup {<<r, b>>}
<1>0. /\ run \in [Runs -> Run] /\ run[r] \in Run
      /\ b \in 1 .. Batches /\ Batches \in Nat
  BY BoundsAssumption DEF AtWork, TypeOK, Run
<1>1. /\ run[r].at = "upsert" /\ run[r].at \in InIndex
      /\ es' = [es EXCEPT ![run[r].documentId] = c] /\ OnlyEs
  BY DEF UpsertBatch, RunAt, InIndex
<1>2. /\ \/ b = Batches /\ run'[r].at = "publish" /\ run'[r].batch = 1
         \/ b # Batches /\ run'[r].at = "insert" /\ run'[r].batch = b + 1
      /\ run'[r].step = run[r].step /\ run'[r].documentId = run[r].documentId
      /\ run'[r].skips = run[r].skips
  <2>1. run'[r] = AfterBatch(run[r])
    BY <1>0 DEF UpsertBatch
  <2>. QED BY <1>0, <2>1 DEF AfterBatch, Run
<1>3. /\ UNCHANGED <<documents, deleting>>
      /\ Present(run[r].documentId)' <=> Present(run[r].documentId)
      /\ Present(run[r].documentId) => es'[run[r].documentId] = c
      /\ Held' /\ InOwnStep(run[r])' /\ Names(run[r])'
  BY <1>1, <1>2, OnIndexContent
<1>4. Written(run[r].documentId, Batched(r, b - 1), Batched(r, b))
  <2>1. Progress(r, run[r])
    BY DEF AtWork, RunHolds
  <2>. QED BY <1>1, <2>1 DEF Progress
<1>5. Batched(r, b - 1) \cup {<<r, b>>} = Batched(r, b)
  BY <1>0, BatchedNext
<1>6. Present(run[r].documentId)' =>
        /\ documents'[run'[r].documentId].chunks = Batched(r, b)
        /\ run'[r].documentId # deleting' => es'[run'[r].documentId] = Batched(r, b)
  BY <1>2, <1>3, <1>4, <1>5 DEF Written
<1>7. run[r].step = "index"
  BY <1>1 DEF AtWork, RunHolds, InOwnStep
<1>8. CASE b = Batches
  <2>1. Written(run[r].documentId, Batched(r, Batches), Batched(r, Batches))'
    BY <1>6, <1>8 DEF Written, Batched
  <2>2. Progress(r, run[r])'
    BY <1>2, <1>8, <2>1 DEF Progress
  <2>. QED BY <1>3, <2>2 DEF Leaves, RunHolds
<1>9. CASE b # Batches
  <2>1. run'[r].batch - 1 = b
    BY <1>0, <1>2, <1>9
  <2>2. Written(run[r].documentId, Batched(r, run[r].batch - 1),
                Batched(r, run[r].batch - 1))'
    BY <1>6, <2>1 DEF Written, Batched
  <2>3. Progress(r, run[r])'
    BY <1>2, <1>7, <1>9, <2>2 DEF Progress
  <2>. QED BY <1>3, <2>3 DEF Leaves, RunHolds
<1>. QED BY <1>8, <1>9

(* ... the document as completed,                                           *)
LEMMA PublishContent ==
  ASSUME NEW r \in Runs, AtWork(r), Publish(r)
  PROVE  Leaves(r)
<1> DEFINE new == [MyDocument(r) EXCEPT !.status = "completed"]
<1>1. OnDocument(r, "publish", new, "finish") /\ run[r].at = "publish"
  BY DEF Publish, OnDocument, RunAt
<1>2. run[r].step = "index" /\ run[r].step \notin Done
  BY <1>1 DEF AtWork, RunHolds, InOwnStep, InIndex, InTry
<1>3. Present(run[r].documentId) =>
        /\ new.row = "present" /\ new.assets = MyDocument(r).assets
        /\ new.chunks = MyDocument(r).chunks /\ new.graph = MyDocument(r).graph
  BY MyDocumentTyped DEF AtWork, Document, Present, MyDocument
<1>4. /\ MovesTo(r, "finish") /\ UNCHANGED <<es, deleting>>
      /\ Present(run[r].documentId)' <=> Present(run[r].documentId)
      /\ Present(run[r].documentId) => documents'[run[r].documentId] = new
      /\ Held' /\ InOwnStep(run[r])' /\ Names(run[r])'
  <2>1. /\ "publish" \in InStep /\ "finish" \in InStep \ {"start", "bind"}
        /\ "finish" \notin {"create", "clear assets", "save assets"}
        /\ "finish" \notin {"pending graph", "sync graph"} /\ "finish" \notin InIndex
    BY DEF InStep, InTry, InIndex
  <2>. QED BY <1>1, <1>2, <1>3, <2>1, OnDocumentContent
<1>5. run[r].batch = 1
  BY <1>1, BatchIsOne DEF InCatch
<1>6. Written(run[r].documentId, Batched(r, Batches), Batched(r, Batches))
  <2>1. Progress(r, run[r])
    BY DEF AtWork, RunHolds
  <2>. QED BY <1>1, <2>1 DEF Progress
<1>7. Written(run[r].documentId, Batched(r, Batches), Batched(r, Batches))'
  <2>1. Present(run[r].documentId)' =>
          /\ documents'[run'[r].documentId].chunks = Batched(r, Batches)
          /\ run'[r].documentId # deleting'
               => es'[run'[r].documentId] = Batched(r, Batches)
    BY <1>3, <1>4, <1>6 DEF Written, MovesTo, MyDocument
  <2>. QED BY <2>1 DEF Written, Batched
<1>8. Progress(r, run[r])'
  BY <1>2, <1>4, <1>5, <1>7 DEF Progress, MovesTo
<1>. QED BY <1>4, <1>8 DEF Leaves, RunHolds

(* ... the graph, pending and then with its result,                         *)
LEMMA GraphContent ==
  ASSUME NEW r \in Runs, AtWork(r),
         PendingGraph(r) \/ \E result \in {"indexed", "failed"} : SyncGraph(r, result)
  PROVE  Leaves(r)
<1>0. Present(run[r].documentId) => MyDocument(r) \in Document
  BY MyDocumentTyped DEF AtWork
<1>1. ASSUME NEW at \in {"pending graph", "sync graph"}, NEW g,
             NEW next \in {"sync graph", "finish"}, next = "finish" => g # "pending",
             OnDocument(r, at, [MyDocument(r) EXCEPT !.graph = g], next)
      PROVE  Leaves(r)
  <2> DEFINE new == [MyDocument(r) EXCEPT !.graph = g]
  <2>1. run[r].at = at
    BY <1>1 DEF OnDocument, RunAt
  <2>2. run[r].step = "graph_sync" /\ run[r].step \notin Done
    BY <2>1 DEF AtWork, RunHolds, InOwnStep, InTry
  <2>3. Present(run[r].documentId) =>
          /\ new.row = "present" /\ new.assets = MyDocument(r).assets
          /\ new.chunks = MyDocument(r).chunks /\ new.graph = g
    BY <1>0 DEF Document, Present, MyDocument
  <2>4. /\ MovesTo(r, next)
        /\ Present(run[r].documentId)' <=> Present(run[r].documentId)
        /\ Present(run[r].documentId) => documents'[run[r].documentId] = new
        /\ Held' /\ InOwnStep(run[r])' /\ Names(run[r])'
    <3>1. /\ at \in InStep /\ next \in InStep \ {"start", "bind"}
          /\ next \notin {"create", "clear assets", "save assets"} /\ next \notin InIndex
      BY DEF InStep, InTry, InIndex
    <3>. QED BY <1>1, <2>2, <2>3, <3>1, OnDocumentContent
  <2>5. run[r].batch = 1
    BY <2>1, BatchIsOne DEF InCatch
  <2>6. Progress(r, run[r])'
    <3>1. Present(run[r].documentId)' /\ next = "finish"
            => documents'[run'[r].documentId].graph # "pending"
      BY <1>1, <2>3, <2>4 DEF MovesTo
    <3>. QED BY <2>2, <2>4, <2>5, <3>1 DEF Progress, MovesTo
  <2>. QED BY <2>4, <2>6 DEF Leaves, RunHolds
<1>2. CASE PendingGraph(r)
  BY <1>1, <1>2 DEF PendingGraph
<1>3. ASSUME NEW result \in {"indexed", "failed"}, SyncGraph(r, result)
      PROVE  Leaves(r)
  BY <1>1, <1>3 DEF SyncGraph
<1>. QED BY <1>2, <1>3

(* Making the document the current version changes no content of a document. *)
LEMMA SwitchingHolds ==
  ASSUME NEW r \in Runs, AtWork(r), run[r].at \in Switching,
         NEW next \in Switching, MovesTo(r, next),
         UNCHANGED <<task, steps, parsed>>,
         \A e \in AllDocs : /\ documents'[e].row = documents[e].row
                            /\ documents'[e].graph = documents[e].graph
  PROVE  RunHolds(r)'
<1>1. /\ Finished /\ IsParsed(run[r].documentId)
      /\ task.documentId \in {run[r].documentId, NoDoc}
  BY DEF AtWork, RunHolds, InOwnStep, Names
<1>2. Finished'
  BY <1>1 DEF Finished, Done, AtWork, TypeOK, AllDocs
<1>3. IsParsed(run[r].documentId)'
  <2>1. run[r].documentId # NoDoc => run[r].documentId \in AllDocs
    BY DEF AtWork, TypeOK, Run, AllDocs
  <2>. QED BY <1>1, <2>1 DEF IsParsed, Present, MovesTo
<1>4. run[r].batch = 1
  BY BatchIsOne DEF Switching, InCatch
<1>5. next \in {"demote", "complete"} \/ next \in {"promote", "clear others", "reindex"}
  BY DEF Switching
<1>6. InOwnStep(run[r])'
  BY <1>2, <1>5 DEF InOwnStep, MovesTo, InTry, InIndex, InStep
<1>7. Names(run[r])'
  BY <1>1, <1>3, <1>5 DEF Names, MovesTo
<1>8. Progress(r, run[r])'
  BY <1>4, <1>5 DEF Progress, MovesTo
<1>. QED BY <1>6, <1>7, <1>8 DEF RunHolds

(* ... the flags of the versions,                                           *)
LEMMA FlagsContent ==
  ASSUME NEW r \in Runs, AtWork(r), Demote(r) \/ Promote(r)
  PROVE  Leaves(r)
<1>0. documents \in [AllDocs -> Document]
  BY DEF AtWork, TypeOK
<1>1. /\ UNCHANGED <<task, steps, parsed, es, deleting>> /\ Done' = Done
      /\ run[r].at \in Switching
  BY DEF Demote, Promote, OnDocument, OnlyDocuments, AtWork, Done, RunAt, Switching
<1>2. \E next \in Switching : MovesTo(r, next)
  <2>1. RunGoes(r, "promote") \/ RunGoes(r, "clear others")
    BY DEF Demote, Promote, OnDocument
  <2>. QED BY <2>1, GoesMoves DEF AtWork, Switching
<1>3. \A e \in AllDocs :
        /\ documents'[e].row = documents[e].row
        /\ documents'[e].graph = documents[e].graph
        /\ documents'[e].chunks = documents[e].chunks
        /\ documents'[e].assets = documents[e].assets
  <2>1. CASE Demote(r)
    <3>1. ASSUME NEW e \in AllDocs
          PROVE  documents'[e] \in {documents[e], [documents[e] EXCEPT !.current = FALSE]}
      BY <2>1, <3>1 DEF Demote
    <3>2. documents[NoDoc] = documents[NoDoc]
      OBVIOUS
    <3>. QED BY <1>0, <3>1 DEF Document
  <2>2. CASE Promote(r)
    <3>1. documents' = Updated(run[r].documentId, [MyDocument(r) EXCEPT !.current = TRUE])
      BY <2>2 DEF Promote, OnDocument
    <3>2. CASE Present(run[r].documentId)
      <4>1. documents' = [documents EXCEPT ![run[r].documentId] =
                            [documents[run[r].documentId] EXCEPT !.current = TRUE]]
        BY <3>1, <3>2 DEF Updated, MyDocument
      <4>. QED BY <1>0, <4>1 DEF Document
    <3>3. CASE ~Present(run[r].documentId)
      BY <3>1, <3>3 DEF Updated
    <3>. QED BY <3>2, <3>3
  <2>. QED BY <2>1, <2>2
<1>4. Held'
  <2>1. parsed # NoDoc => Present(parsed) /\ parsed \in AllDocs
    BY DEF AtWork, Held, ParseHeld, TypeOK, AllDocs
  <2>2. Docs \subseteq AllDocs
    BY DEF AllDocs
  <2>. QED BY <1>1, <1>3, <2>1, <2>2, HeldStays DEF AtWork, Present
<1>5. RunHolds(r)'
  BY <1>1, <1>2, <1>3, SwitchingHolds
<1>. QED BY <1>4, <1>5 DEF Leaves

(* ... their chunks in the index,                                           *)
LEMMA SwitchIndexContent ==
  ASSUME NEW r \in Runs, AtWork(r), ClearOthers(r) \/ Reindex(r)
  PROVE  Leaves(r)
<1>0. es \in [AllDocs -> SUBSET Chunk]
  BY DEF AtWork, TypeOK
<1>1. /\ UNCHANGED <<task, steps, parsed, documents, deleting>> /\ Done' = Done
      /\ run[r].at \in Switching
  BY DEF ClearOthers, Reindex, OnlyEs, AtWork, Done, RunAt, Switching
<1>2. \E next \in Switching : MovesTo(r, next)
  <2>1. RunGoes(r, "reindex") \/ RunGoes(r, "complete")
    BY DEF ClearOthers, Reindex
  <2>. QED BY <2>1, GoesMoves DEF AtWork, Switching
<1>3. /\ "index" \in Done /\ IsParsed(run[r].documentId)
      /\ parsed # NoDoc => Present(parsed) /\ parsed \in AllDocs
  BY <1>1 DEF AtWork, RunHolds, InOwnStep, Names, Finished, Held, ParseHeld, TypeOK, AllDocs
<1>4. parsed # NoDoc /\ parsed # deleting => es'[parsed] = es[parsed]
  <2>1. CASE ClearOthers(r)
    BY <1>0, <1>3, <2>1 DEF ClearOthers, IsParsed
  <2>2. ASSUME Reindex(r), parsed # NoDoc, parsed # deleting
        PROVE  es'[parsed] = es[parsed]
    <3>1. parsed = run[r].documentId /\ es[parsed] = documents[parsed].chunks
      BY <1>3, <2>2 DEF AtWork, Held, IndexHeld, IsParsed
    <3>2. es'[parsed] = es[parsed] \cup documents[parsed].chunks
      BY <1>0, <1>3, <2>2, <3>1 DEF Reindex, MyDocument
    <3>. QED BY <3>1, <3>2
  <2>. QED BY <2>1, <2>2
<1>5. Held'
  BY <1>1, <1>3, <1>4, HeldStays DEF AtWork, Present
<1>6. RunHolds(r)'
  BY <1>1, <1>2, SwitchingHolds
<1>. QED BY <1>5, <1>6 DEF Leaves

(* ... the end of the run, with the task completed or failed,               *)
LEMMA EndsContent ==
  ASSUME NEW r \in Runs, AtWork(r), Complete(r) \/ CatchTask(r) \/ RunFailsTask(r)
  PROVE  Leaves(r)
<1>0. /\ run \in [Runs -> Run]
      /\ task \in [status : TaskStatus, documentId : Docs \cup {NoDoc}]
  BY DEF AtWork, TypeOK
<1>1. UNCHANGED <<steps, parsed, documents, es, deleting>> /\ Done' = Done
  BY DEF Complete, CatchTask, RunFailsTask, OnlyTask, AtWork, Done
<1>2. task'.documentId = task.documentId
  BY <1>0 DEF Complete, CatchTask, RunFailsTask, TaskFails
<1>3. run'[r].at \notin Working
  <2>1. run'[r].at \in {"ack", "fail steps"}
    BY <1>0, RunEndsAt DEF Complete, CatchTask, RunFailsTask
  <2>. QED BY <2>1 DEF Working, InTry, OutsideTry, InCatch
<1>4. Held'
  BY <1>1, <1>2, AsideHeld DEF AtWork
<1>. QED BY <1>3, <1>4 DEF Leaves

(* ... an error anywhere,                                                   *)
LEMMA ThrowsContent ==
  ASSUME NEW r \in Runs, AtWork(r), Throws(r)
  PROVE  Leaves(r)
<1>1. UNCHANGED <<task, steps, parsed, documents, es, deleting>> /\ Done' = Done
  BY DEF Throws, OnlyRun, AtWork, Done
<1>2. Held'
  BY <1>1, AsideHeld DEF AtWork
<1>3. CASE run[r].at \in InTry
  <2>1. MovesTo(r, "catch document") /\ run[r].at \in InStep
    BY <1>3, GoesMoves DEF Throws, AtWork, InStep
  <2>2. /\ "catch document" \in InStep \ {"start", "bind"}
        /\ "catch document" \notin InIndex /\ "catch document" \notin InTry
    BY DEF InStep, InIndex, InTry
  <2>3. Present(run[r].documentId)' => Present(run[r].documentId)
    BY <1>1, <2>1 DEF Present, MovesTo
  <2>4. run[r].skips \subseteq Done'
    BY <1>1, <2>1 DEF AtWork, RunHolds, InOwnStep
  <2>5. InOwnStep(run[r])' /\ Names(run[r])'
    BY <1>1, <2>1, <2>2, <2>3, <2>4, StaysWithin
  <2>6. Progress(r, run[r])'
    BY <2>1 DEF AtWork, RunHolds, Progress, MovesTo, InCatch
  <2>. QED BY <1>2, <2>5, <2>6 DEF Leaves, RunHolds
<1>4. CASE run[r].at \notin InTry
  <2>1. run'[r].at = "fail task" /\ run'[r].batch = 1
    <3>1. run'[r] = [NoRun("fail task") EXCEPT !.versioned = run[r].versioned,
                                               !.again = run[r].again]
      BY <1>4 DEF Throws, RunEnds, AtWork, TypeOK
    <3>. QED BY <3>1 DEF NoRun
  <2>2. RunHolds(r)'
    BY <2>1, EnteredHolds
  <2>. QED BY <1>2, <2>2 DEF Leaves
<1>. QED BY <1>3, <1>4

(* ... and the catch that marks the document,                               *)
LEMMA CatchDocumentContent ==
  ASSUME NEW r \in Runs, AtWork(r), CatchDocument(r)
  PROVE  Leaves(r)
<1> DEFINE new == IF run[r].step = "graph_sync"
                  THEN [MyDocument(r) EXCEPT !.graph = "failed"]
                  ELSE [MyDocument(r) EXCEPT !.status = "failed"]
<1>1. OnDocument(r, "catch document", new, "catch step") /\ run[r].at = "catch document"
  BY DEF CatchDocument, OnDocument, RunAt, OnlyDocuments
<1>2. Present(run[r].documentId) =>
        /\ new.row = "present" /\ new.assets = MyDocument(r).assets
        /\ new.chunks = MyDocument(r).chunks
        /\ new.graph = MyDocument(r).graph \/ new.graph = "failed"
        /\ run[r].step = "graph_sync" => new.graph = "failed"
  <2>1. Present(run[r].documentId)
          => MyDocument(r) \in Document /\ MyDocument(r).row = "present"
    BY MyDocumentTyped DEF AtWork, Present, MyDocument
  <2>2. CASE run[r].step = "graph_sync"
    BY <2>1, <2>2 DEF Document
  <2>3. CASE run[r].step # "graph_sync"
    BY <2>1, <2>3 DEF Document
  <2>. QED BY <2>2, <2>3
<1>3. /\ MovesTo(r, "catch step")
      /\ Present(run[r].documentId)' <=> Present(run[r].documentId)
      /\ Present(run[r].documentId) => documents'[run[r].documentId] = new
      /\ Held' /\ InOwnStep(run[r])' /\ Names(run[r])'
  <2>1. /\ "catch document" \in InStep /\ "catch step" \in InStep \ {"start", "bind"}
        /\ "catch step" \notin InTry /\ "catch step" \notin InIndex
        /\ "catch step" \notin {"create", "clear assets", "save assets"}
        /\ "catch step" \notin {"pending graph", "sync graph"}
    BY DEF InStep, InTry, InIndex
  <2>2. Present(run[r].documentId) =>
           /\ new.row = "present"
           /\ "parse" \in Done => new.assets = MyDocument(r).assets
           /\ "index" \in Done => new.chunks = MyDocument(r).chunks
           /\ "graph_sync" \in Done
                => new.graph = MyDocument(r).graph \/ new.graph # "pending"
    BY <1>2
  <2>. QED BY <1>1, <2>1, <2>2, OnDocumentContent
<1>4. Present(run[r].documentId)' /\ run[r].step = "graph_sync"
        => documents'[run'[r].documentId].graph = "failed"
  BY <1>2, <1>3 DEF MovesTo
<1>5. Progress(r, run[r])'
  BY <1>3, <1>4 DEF AtWork, RunHolds, Progress, MovesTo, InCatch
<1>. QED BY <1>3, <1>5 DEF Leaves, RunHolds

(* ... and the step.                                                        *)
LEMMA CatchStepContent ==
  ASSUME NEW r \in Runs, AtWork(r), CatchStep(r)
  PROVE  Leaves(r)
<1>0. /\ run \in [Runs -> Run] /\ run[r] \in Run /\ run[r].step \in Step
      /\ run[r].at = "catch step" /\ steps \in [Step -> StepStatus]
  BY DEF AtWork, TypeOK, CatchStep, RunAt, Run
<1>1. UNCHANGED <<task, parsed, documents, es, deleting>>
  BY DEF CatchStep, OnlySteps, AtWork
<1>2. Done' = Done \ {run[r].step}
  BY <1>0, StepOtherwise DEF CatchStep, AtWork
<1>3. Held'
  BY <1>1, <1>2, AsideHeld DEF AtWork
<1>4. Progress(r, run[r])
  BY DEF AtWork, RunHolds
<1>5. CASE run[r].step = "graph_sync"
  <2>1. run'[r] = EnterVersion(run[r])
    BY <1>0, <1>5 DEF CatchStep
  <2>2. run[r].batch = 1
    BY <1>4, <1>5 DEF Progress
  <2>3. /\ run'[r].at \in {"demote", "complete"} /\ run'[r].batch = 1
        /\ run'[r].documentId = run[r].documentId
    BY <1>0, <2>1, <2>2, EnterVersionKeeps
  <2>4. /\ IsParsed(run[r].documentId)
        /\ task.documentId \in {run[r].documentId, NoDoc}
    BY <1>0, <1>5 DEF AtWork, RunHolds, Names, InStep
  <2>5. IsParsed(run[r].documentId)'
    BY <1>1, <2>3, <2>4 DEF IsParsed, Present
  <2>6. "parse" \in Done /\ "index" \in Done
    BY <1>0, <1>5 DEF AtWork, Placed, InOrder, InStep
  <2>7. steps'["graph_sync"] = "failed"
    BY <1>0, <1>5 DEF CatchStep
  <2>8. parsed # NoDoc => documents[parsed].graph # "pending"
    <3>1. parsed # NoDoc => parsed = run[r].documentId /\ Present(parsed)
      BY <2>4 DEF AtWork, Held, ParseHeld, IsParsed
    <3>. QED BY <1>0, <1>4, <1>5, <3>1 DEF Progress
  <2>9. Finished'
    BY <1>1, <1>2, <1>5, <2>6, <2>7, <2>8 DEF Finished
  <2>10. RunHolds(r)'
    BY <1>1, <2>3, <2>4, <2>5, <2>9, EnteredHolds
  <2>. QED BY <1>3, <2>10 DEF Leaves
<1>6. CASE run[r].step # "graph_sync"
  <2>1. /\ run'[r].at = "catch task" /\ run'[r].step = run[r].step
        /\ run'[r].batch = run[r].batch
    BY <1>0, <1>6 DEF CatchStep, Run
  <2>2. InOwnStep(run[r])'
    BY <2>1 DEF InOwnStep, InStep, InTry, InIndex, Switching
  <2>3. Names(run[r])'
    BY <2>1 DEF Names, InStep, InTry, Switching
  <2>4. Progress(r, run[r])'
    BY <1>4, <2>1 DEF Progress, InCatch
  <2>. QED BY <1>3, <2>2, <2>3, <2>4 DEF Leaves, RunHolds
<1>. QED BY <1>5, <1>6

-----------------------------------------------------------------------------
(* What was stored stays what the statuses say, through every step.         *)

(* While nothing has gone wrong that the code ignores. *)
LEMMA WorkContent ==
  ASSUME NEW r \in Runs, AtWork(r), RunGoesOn(r), Sound'
  PROVE  Leaves(r)
<1>1. ~(CleanUpFails(r) \/ UpsertFails(r) \/ SwitchIndexFails(r))
  BY DEF CleanUpFails, UpsertFails, SwitchIndexFails, Ignores, Sound
<1>2. ~(RunFailsSteps(r) \/ FailureUnsaved(r) \/ Acknowledge(r))
  <2>1. run[r].at \notin {"fail steps", "ack"}
    BY DEF AtWork, Working, InTry, OutsideTry, InCatch
  <2>2. ~FailureUnsaved(r)
    BY <2>1 DEF FailureUnsaved, RunAt, Ignores, Sound
  <2>. QED BY <2>1, <2>2 DEF RunFailsSteps, Acknowledge, RunAt
<1>3. CASE LoadTask(r) \/ LoadSteps(r) \/ Begin(r) \/ StartStep(r)
  BY <1>3, LoadingContent, BeginContent, StartContent
<1>4. CASE \/ \E d \in Docs : CreateDocument(r, d) \/ NameGroupFails(r, d)
           \/ KeepDocument(r) \/ ClearAssets(r) \/ SaveAssets(r)
           \/ FinishStep(r) \/ BindParse(r) \/ BindIndex(r)
  BY <1>4, CreateContent, AssetsContent, FinishContent, BindContent
<1>5. CASE \/ ClearChunks(r) \/ ClearEs(r) \/ InsertBatch(r) \/ UpsertBatch(r)
           \/ Publish(r) \/ PendingGraph(r)
           \/ \E result \in {"indexed", "failed"} : SyncGraph(r, result)
  BY <1>5, ClearChunksContent, ClearEsContent, InsertContent, UpsertContent,
     PublishContent, GraphContent
<1>6. CASE Demote(r) \/ Promote(r) \/ ClearOthers(r) \/ Reindex(r) \/ Complete(r)
  BY <1>6, FlagsContent, SwitchIndexContent, EndsContent
<1>7. CASE Throws(r) \/ CatchDocument(r) \/ CatchStep(r) \/ CatchTask(r) \/ RunFailsTask(r)
  BY <1>7, ThrowsContent, CatchDocumentContent, CatchStepContent, EndsContent
<1>. QED BY <1>1, <1>2, <1>3, <1>4, <1>5, <1>6, <1>7 DEF RunGoesOn

(* A run that has ended leaves what is stored. *)
LEMMA EndedContent ==
  ASSUME TypeOK, NEW r \in Runs, RunGoesOn(r), run[r].at \notin Working,
         UNCHANGED deleting
  PROVE  /\ UNCHANGED <<task, parsed, documents, es>> /\ Done' = Done
         /\ Held => Held'
         /\ Finished => Finished'
         /\ run'[r].at \notin Working
<1>1. RunFailsSteps(r) \/ FailureUnsaved(r) \/ Acknowledge(r)
  BY DEF RunGoesOn, LoadTask, LoadSteps, Begin, StartStep, CreateDocument, NameGroupFails,
     KeepDocument, ClearAssets, SaveAssets, FinishStep, BindParse, BindIndex, StepAt,
     ClearChunks, ClearEs, CleanUpFails, InsertBatch, UpsertBatch, UpsertFails, Publish,
     PendingGraph, SyncGraph, Demote, Promote, ClearOthers, Reindex, SwitchIndexFails,
     Complete, Throws, CatchDocument, CatchStep, CatchTask, RunFailsTask, OnDocument, RunAt,
     Working, InTry, OutsideTry, InCatch
<1>2. UNCHANGED <<task, parsed, documents, es>>
  BY <1>1 DEF RunFailsSteps, FailureUnsaved, Acknowledge, OnlySteps, OnlyRun, OnlyIgnored
<1>3. /\ Done' = Done
      /\ steps["graph_sync"] \in {"completed", "failed"}
           => steps'["graph_sync"] = steps["graph_sync"]
  <2>1. CASE RunFailsSteps(r)
    BY <2>1, FailingStepsKeepDone DEF RunFailsSteps, FailureUnsaved, RunningStepsFail, TypeOK, Step
  <2>2. CASE Acknowledge(r) \/ FailureUnsaved(r)
    BY <2>2 DEF Acknowledge, FailureUnsaved, OnlyRun, OnlyIgnored, Done
  <2>. QED BY <1>1, <2>1, <2>2
<1>4. Held => Held'
  BY <1>2, <1>3, AsideHeld
<1>5. Finished => Finished'
  BY <1>2, <1>3 DEF Finished
<1>6. run'[r].at \notin Working
  BY RunGoesOnWorks
<1>. QED BY <1>2, <1>3, <1>4, <1>5, <1>6

(* A task completes only with every step done.                              *)
LEMMA CompletedFinished ==
  ASSUME TypeOK, NEW r \in Runs, RunGoesOn(r), Sound, StatusInv, ContentInv,
         UNCHANGED deleting, task'.status = "completed"
  PROVE  Finished'
<1>0. /\ task \in [status : TaskStatus, documentId : Docs \cup {NoDoc}]
      /\ task.status = "completed" => Finished
      /\ run[r].at \in Working \ Quiet => task.status = "running"
      /\ run[r].at \in Working => RunHolds(r)
  BY DEF TypeOK, ContentInv, StatusInv
<1>1. CASE run[r].at \notin Working
  BY <1>0, <1>1, EndedContent
<1>2. CASE Complete(r)
  <2>1. /\ run[r].at \in Working \cap Switching
        /\ UNCHANGED <<steps, parsed, documents>>
    BY <1>2 DEF Complete, RunAt, OnlyTask, Working, OutsideTry, Switching
  <2>2. Finished
    BY <1>0, <2>1 DEF RunHolds, InOwnStep
  <2>. QED BY <2>1, <2>2 DEF Finished, Done
<1>3. CASE run[r].at \in Working /\ ~Complete(r)
  <2>1. ~(Begin(r) \/ RunFailsTask(r) \/ CatchTask(r))
    BY <1>0 DEF Begin, RunFailsTask, CatchTask, TaskFails
  <2>2. task.status = "completed"
    <3>1. CASE BindParse(r)
      BY <1>0, <3>1 DEF BindParse
    <3>. QED BY <1>3, <2>1, <3>1, RunGoesOnTask
  <2>3. run[r].at \in Quiet
    BY <1>0, <1>3, <2>2
  <2>4. LoadTask(r) \/ LoadSteps(r) \/ Throws(r) \/ FailureUnsaved(r)
    BY <1>3, <2>1, <2>3 DEF RunGoesOn, StartStep, CreateDocument, NameGroupFails,
       KeepDocument, ClearAssets, SaveAssets, FinishStep, BindParse, BindIndex, StepAt,
       ClearChunks, ClearEs, CleanUpFails, InsertBatch, UpsertBatch, UpsertFails, Publish,
       PendingGraph, SyncGraph, Demote, Promote, ClearOthers, Reindex, SwitchIndexFails,
       CatchDocument, CatchStep, RunFailsSteps, Acknowledge, OnDocument, RunAt, Quiet
  <2>5. UNCHANGED <<steps, parsed, documents>>
    BY <2>4 DEF LoadTask, LoadSteps, Throws, FailureUnsaved, OnlyRun, OnlyIgnored
  <2>. QED BY <1>0, <2>2, <2>5 DEF Finished, Done
<1>. QED BY <1>1, <1>2, <1>3

(* No run waits for a job again. *)
LEMMA NeverIdleAgain ==
  ASSUME TypeOK, NEW r \in Runs, RunGoesOn(r)
  PROVE  run'[r].at # "idle"
<1>0. run \in [Runs -> Run] /\ run[r] \in Run
  BY DEF TypeOK
<1>1. CASE LoadTask(r) \/ LoadSteps(r)
  <2>1. CASE LoadTask(r)
    BY <1>0, <2>1 DEF LoadTask, Run
  <2>2. CASE LoadSteps(r)
    BY <1>0, <2>2 DEF LoadSteps, Run
  <2>. QED BY <1>1, <2>1, <2>2
<1>2. CASE Begin(r) \/ BindParse(r) \/ BindIndex(r)
  <2>1. run'[r] \in {EnterParse(run[r]), EnterIndex(run[r]), EnterGraph(run[r])}
    BY <1>0, <1>2 DEF Begin, BindParse, BindIndex
  <2>. QED BY <1>0, <2>1, EnterParseKeeps, EnterIndexKeeps, EnterGraphKeeps
<1>3. CASE StartStep(r)
  <2>1. run[r].step \in {"parse", "index", "graph_sync"}
    BY <1>0 DEF Run, Step
  <2>2. \E at \in {"create", "clear chunks", "pending graph"} : RunGoes(r, at)
    BY <1>3, <2>1 DEF StartStep
  <2>. QED BY <2>2, RunGoesTo
<1>4. CASE \/ \E d \in Docs : CreateDocument(r, d) \/ NameGroupFails(r, d)
           \/ KeepDocument(r) \/ ClearAssets(r) \/ SaveAssets(r)
           \/ ClearChunks(r) \/ ClearEs(r) \/ CleanUpFails(r)
           \/ InsertBatch(r) \/ UpsertBatch(r) \/ UpsertFails(r) \/ Publish(r)
           \/ PendingGraph(r)
           \/ \E result \in {"indexed", "failed"} : SyncGraph(r, result)
           \/ CatchDocument(r)
  <2>1. run[r].at \in InStep
    BY <1>4, RunGoesOnWithin
  <2>2. ASSUME NEW d \in Docs, CreateDocument(r, d)
        PROVE  run'[r].at # "idle"
    BY <1>0, <2>2 DEF CreateDocument, Run
  <2>3. CASE UpsertBatch(r) \/ UpsertFails(r)
    <3>1. run'[r] = AfterBatch(run[r])
      BY <1>0, <2>3 DEF UpsertBatch, UpsertFails
    <3>. QED BY <1>0, <3>1 DEF AfterBatch, Run
  <2>4. CASE ~((\E d \in Docs : CreateDocument(r, d)) \/ UpsertBatch(r) \/ UpsertFails(r))
    <3>1. \E at \in {"catch document", "clear assets", "save assets", "finish", "clear es",
                     "insert", "upsert", "sync graph", "catch step"} : RunGoes(r, at)
      BY <1>4, <2>4 DEF NameGroupFails, KeepDocument, ClearAssets, SaveAssets, ClearChunks,
         ClearEs, CleanUpFails, InsertBatch, Publish, PendingGraph, SyncGraph,
         CatchDocument, OnDocument, RunGoes
    <3>. QED BY <3>1, RunGoesTo
  <2>. QED BY <2>2, <2>3, <2>4
<1>5. CASE FinishStep(r) \/ CatchStep(r)
  <2>1. \/ run'[r] = EnterVersion(run[r])
        \/ run'[r].at \in {"bind", "catch task"}
    BY <1>0, <1>5 DEF FinishStep, CatchStep, Run
  <2>. QED BY <1>0, <2>1, EnterVersionKeeps
<1>6. CASE Demote(r) \/ Promote(r) \/ ClearOthers(r) \/ Reindex(r) \/ SwitchIndexFails(r)
  <2>1. \E at \in {"promote", "clear others", "reindex", "complete"} : RunGoes(r, at)
    BY <1>6 DEF Demote, Promote, ClearOthers, Reindex, SwitchIndexFails, OnDocument
  <2>. QED BY <2>1, RunGoesTo
<1>7. CASE Throws(r)
  <2>1. CASE RunGoes(r, "catch document")
    <3>1. run'[r].at = "catch document"
      BY <2>1, RunGoesTo
    <3>. QED BY <3>1
  <2>2. CASE RunEnds(r, "fail task")
    <3>1. run'[r].at = "fail task"
      BY <1>0, <2>2, RunEndsAt
    <3>. QED BY <3>1
  <2>. QED BY <1>7, <2>1, <2>2 DEF Throws
<1>8. CASE \/ Complete(r) \/ CatchTask(r) \/ RunFailsTask(r) \/ RunFailsSteps(r)
           \/ FailureUnsaved(r) \/ Acknowledge(r)
  <2>1. ASSUME NEW at \in {"ack", "fail steps"}, RunEnds(r, at)
        PROVE  run'[r].at # "idle"
    <3>1. run'[r].at = at
      BY <1>0, <2>1, RunEndsAt
    <3>. QED BY <3>1
  <2>2. CASE Acknowledge(r)
    BY <1>0, <2>2 DEF Acknowledge, NoRun
  <2>. QED BY <1>8, <2>1, <2>2 DEF Complete, CatchTask, RunFailsTask, RunFailsSteps, FailureUnsaved
<1>. QED BY <1>1, <1>2, <1>3, <1>4, <1>5, <1>6, <1>7, <1>8 DEF RunGoesOn

(* So every step keeps the invariant: of a run,                             *)
LEMMA RunStepContent ==
  ASSUME TypeOK, OneInv, OrderInv, StatusInv, ContentInv, RunStep
  PROVE  ContentInv'
<1>. SUFFICES ASSUME Sound'
              PROVE  ContentInv'
  BY DEF ContentInv
<1>0. UNCHANGED deleting /\ run \in [Runs -> Run]
  BY DEF RunStep, TypeOK
<1>1. PICK r \in Runs : RunGoesOn(r) \/ \E v \in BOOLEAN : Deliver(r, v)
  BY RunStepIsOne
<1>2. ASSUME NEW v \in BOOLEAN, Deliver(r, v)
      PROVE  ContentInv'
  <2>1. /\ Sound /\ UNCHANGED <<task, steps, parsed, documents, es>> /\ Done' = Done
        /\ Finished' = Finished
    BY <1>2 DEF Deliver, Sound, Done, Finished
  <2>2. Held'
    <3>1. Held
      BY <2>1 DEF ContentInv
    <3>. QED BY <1>0, <2>1, <3>1, AsideHeld
  <2>3. /\ run'[r].at = "load task" /\ run'[r].batch = run[r].batch
        /\ run[r].at = "idle" /\ run[r].batch = 1
        /\ \A s \in Runs : s # r => run'[s] = run[s]
    <3>1. run[r].at = "idle" /\ run[r].batch = 1
      BY <1>2, <2>1 DEF Deliver, RunAt, ContentInv
    <3>. QED BY <1>0, <1>2, <3>1, DeliveredAt
  <2>4. \A s \in Runs : s # r => run'[s].at \notin Working
    <3>1. ~Worked
      <4>1. Waiting
        BY <1>2, Zenon DEF Deliver, Waiting
      <4>. QED BY <2>1, <4>1 DEF OneInv, OneWorks
    <3>. QED BY <2>3, <3>1 DEF Worked
  <2>5. RunHolds(r)'
    <3>1. InOwnStep(run[r])'
      BY <2>3 DEF InOwnStep, InStep, InTry, InIndex, Switching
    <3>2. Names(run[r])'
      BY <2>3 DEF Names, InStep, InTry, Switching
    <3>3. Progress(r, run[r])'
      BY <2>3 DEF Progress, InCatch
    <3>. QED BY <3>1, <3>2, <3>3 DEF RunHolds
  <2>. QED BY <2>1, <2>2, <2>3, <2>4, <2>5 DEF ContentInv
<1>3. CASE RunGoesOn(r)
  <2>1. /\ Sound
        /\ \A s \in Runs : s # r => run'[s] = run[s]
    BY <1>3, RunGoesOnAlone
  <2>2. Held /\ OneWorks /\ InOrder
    BY <2>1 DEF ContentInv, OneInv, OrderInv
  <2>3. task'.status = "completed" => Finished'
    BY <1>0, <1>3, <2>1, CompletedFinished
  <2>4. ASSUME NEW s \in Runs, run'[s].at = "idle"
        PROVE  run'[s].batch = 1
    BY <1>3, <2>1, <2>4, NeverIdleAgain DEF ContentInv
  <2>5. CASE run[r].at \in Working
    <3>1. AtWork(r)
      BY <1>0, <2>1, <2>2, <2>5 DEF AtWork, ContentInv, OrderInv
    <3>2. Leaves(r)
      BY <1>3, <3>1, WorkContent
    <3>3. \A s \in Runs : s # r => run'[s].at \notin Working
      BY <2>1, <2>2, <2>5 DEF OneWorks
    <3>. QED BY <2>3, <2>4, <3>2, <3>3 DEF Leaves, ContentInv
  <2>6. CASE run[r].at \notin Working
    <3>1. /\ UNCHANGED <<task, parsed, documents, es>> /\ Done' = Done
          /\ Held' /\ (Finished => Finished')
          /\ run'[r].at \notin Working
      BY <1>0, <1>3, <2>2, <2>6, EndedContent
    <3>2. ASSUME NEW s \in Runs, run'[s].at \in Working
          PROVE  RunHolds(s)'
      <4>1. run'[s] = run[s] /\ run[s].at \in Working
        BY <2>1, <3>1, <3>2
      <4>2. InOwnStep(run[s]) /\ Names(run[s]) /\ Progress(s, run[s])
        BY <2>1, <4>1 DEF ContentInv, RunHolds
      <4>3. InOwnStep(run[s])'
        BY <3>1, <4>1, <4>2 DEF InOwnStep
      <4>4. Names(run[s])'
        BY <3>1, <4>1, <4>2 DEF Names, IsParsed, Present
      <4>5. Progress(s, run[s])'
        <5>1. /\ Present(run[s].documentId)' <=> Present(run[s].documentId)
              /\ documents' = documents /\ es' = es /\ deleting' = deleting
              /\ run'[s] = run[s]
          BY <1>0, <3>1, <4>1 DEF Present
        <5>2. Progress(s, run[s])
          BY <4>2
        <5>3. PICK x : x = run[s]
          OBVIOUS
        <5>4. Progress(s, x)
          BY <5>2, <5>3
        <5>5. Progress(s, x)'
          BY <5>1, <5>4 DEF Progress, Written, Present, Batched
        <5>6. x = run'[s]
          BY <5>1, <5>3
        <5>. QED BY <5>5, <5>6 DEF Progress, Written, Present, Batched
      <4>. QED BY <4>3, <4>4, <4>5 DEF RunHolds
    <3>. QED BY <2>3, <2>4, <3>1, <3>2 DEF ContentInv
  <2>. QED BY <2>5, <2>6
<1>. QED BY <1>1, <1>2, <1>3

(* Steps that leave what is stored, and the steps that are completed.       *)
LEMMA AsideContent ==
  ASSUME ContentInv, Sound' => Sound, UNCHANGED <<parsed, documents, es, run, deleting>>,
         task'.documentId = task.documentId,
         task'.status = "completed" => task.status = "completed",
         Done' = Done, Finished => Finished'
  PROVE  ContentInv'
<1>. SUFFICES ASSUME Sound'
              PROVE  ContentInv'
  BY DEF ContentInv
<1>1. Held'
  BY AsideHeld DEF ContentInv
<1>2. ASSUME NEW r \in Runs, run[r].at \in Working
      PROVE  RunHolds(r)'
  <2>1. InOwnStep(run[r]) /\ Names(run[r]) /\ Progress(r, run[r])
    BY <1>2 DEF ContentInv, RunHolds
  <2>2. InOwnStep(run[r])'
    BY <2>1 DEF InOwnStep
  <2>3. Names(run[r])'
    BY <2>1 DEF Names, IsParsed, Present
  <2>4. Progress(r, run[r])'
    BY <2>1 DEF Progress, Written, Present, Batched
  <2>. QED BY <2>2, <2>3, <2>4 DEF RunHolds
<1>. QED BY <1>1, <1>2 DEF ContentInv

(* ... of a request, which resets the steps only while no run is at work,   *)
LEMMA RequestStepContent ==
  ASSUME TypeOK, OneInv, StatusInv, ContentInv, RequestStep
  PROVE  ContentInv'
<1>. SUFFICES ASSUME Sound'
              PROVE  ContentInv'
  BY DEF ContentInv
<1>0. /\ UNCHANGED <<parsed, documents, es, run, deleting>>
      /\ task \in [status : TaskStatus, documentId : Docs \cup {NoDoc}]
  BY DEF RequestStep, TypeOK
<1>1. PICK q \in Requests :
        \/ \E versioned \in BOOLEAN : SaveTask(q, versioned)
        \/ SaveSteps(q) \/ WriteStepsFails(q)
        \/ RetryAllowed(q) \/ ResetTask(q) \/ ResetSteps(q)
        \/ AddJob(q) \/ AddJobFails(q) \/ RegisterJobFails(q)
        \/ RequestFailsTask(q) \/ RequestFailsSteps(q) \/ RequestStops(q)
  BY DEF RequestStep
<1>2. Sound
  BY <1>1 DEF Sound, SaveTask, SaveSteps, WriteStepsFails, RetryAllowed, ResetTask,
     ResetSteps, AddJob, AddJobFails, RegisterJobFails, RequestFailsTask,
     RequestFailsSteps, RequestStops, Ignores, NotesOverlap
<1>3. CASE SaveSteps(q) \/ ResetSteps(q)
  <2>1. /\ request[q].at \in Publishing \ {"reset task"} /\ task' = task
        /\ \A s \in Step : steps'[s] = "pending"
    BY <1>3 DEF SaveSteps, ResetSteps, RequestAt, Publishing
  <2>2. Done' = {} /\ task'.status # "completed"
    BY <1>2, <2>1 DEF Done, StatusInv
  <2>3. \A r \in Runs : run'[r].at \notin Working
    BY <1>0, <1>2, <2>1 DEF OneInv, OneWorks, Worked, Published
  <2>4. Held'
    <3>1. Held
      BY <1>2 DEF ContentInv
    <3>. QED BY <1>0, <2>1, <2>2, <3>1, AsideHeld
  <2>. QED BY <1>0, <1>2, <2>2, <2>3, <2>4 DEF ContentInv
<1>4. CASE RequestFailsSteps(q)
  <2>1. Done' = Done /\ task' = task
    BY <1>4, FailingStepsKeepDone DEF RequestFailsSteps, RequestStops
  <2>2. Finished => Finished'
    BY <1>0, <1>4, <2>1 DEF Finished, RequestFailsSteps, RequestStops, RunningStepsFail, TypeOK, Step
  <2>. QED BY <1>0, <1>2, <2>1, <2>2, AsideContent
<1>5. CASE \/ \E versioned \in BOOLEAN : SaveTask(q, versioned)
           \/ WriteStepsFails(q) \/ RetryAllowed(q) \/ ResetTask(q)
           \/ AddJob(q) \/ AddJobFails(q) \/ RegisterJobFails(q) \/ RequestFailsTask(q)
           \/ RequestStops(q)
  <2>1. steps' = steps
    BY <1>5 DEF SaveTask, WriteStepsFails, RetryAllowed, ResetTask, AddJob, AddJobFails,
       RegisterJobFails, RequestFailsTask, RequestStops
  <2>2. Done' = Done /\ Finished' = Finished
    BY <1>0, <2>1 DEF Done, Finished
  <2>3. \/ task' = task
        \/ task' = [task EXCEPT !.status = "pending"]
        \/ task' = [task EXCEPT !.status = "failed"]
    BY <1>5 DEF SaveTask, WriteStepsFails, RetryAllowed, ResetTask, AddJob, AddJobFails,
       RegisterJobFails, RequestFailsTask, RequestStops, TaskFails
  <2>4. /\ task'.documentId = task.documentId
        /\ task'.status = "completed" => task.status = "completed"
    BY <1>0, <2>3
  <2>. QED BY <1>0, <1>2, <2>2, <2>4, AsideContent
<1>. QED BY <1>1, <1>3, <1>4, <1>5

(* ... of a user who deletes the document, from the index,                  *)
LEMMA DeleteFromIndexContent ==
  ASSUME TypeOK, ContentInv, NEW d \in Docs, DeleteFromIndex(d)
  PROVE  ContentInv'
<1>. SUFFICES ASSUME Sound'
              PROVE  ContentInv'
  BY DEF ContentInv
<1>0. es \in [AllDocs -> SUBSET Chunk]
  BY DEF TypeOK
<1>1. /\ Sound /\ es' = [es EXCEPT ![d] = {}] /\ deleting' = d /\ deleting = NoDoc
      /\ UNCHANGED <<task, steps, parsed, documents, run>>
  BY DEF DeleteFromIndex, Ignores, Sound
<1>2. Done' = Done /\ Finished' = Finished
  BY <1>1 DEF Done, Finished
<1>3. \A e \in AllDocs : e # deleting' => es'[e] = es[e]
  BY <1>0, <1>1
<1>4. Held /\ (parsed # NoDoc => parsed \in AllDocs)
  BY <1>1 DEF ContentInv, TypeOK, AllDocs
<1>5. Held'
  <2>1. ParseHeld' /\ GraphHeld'
    BY <1>1, <1>2, <1>4 DEF Held, ParseHeld, GraphHeld, Deleted, Present
  <2>2. IndexHeld'
    BY <1>1, <1>2, <1>3, <1>4 DEF Held, IndexHeld, Batched
  <2>. QED BY <2>1, <2>2 DEF Held
<1>6. ASSUME NEW r \in Runs, run[r].at \in Working
      PROVE  RunHolds(r)'
  <2>1. InOwnStep(run[r]) /\ Names(run[r]) /\ Progress(r, run[r])
    BY <1>1, <1>6 DEF ContentInv, RunHolds
  <2>2. InOwnStep(run[r])'
    BY <1>1, <1>2, <2>1 DEF InOwnStep
  <2>3. Names(run[r])'
    BY <1>1, <2>1 DEF Names, IsParsed, Present
  <2>4. Progress(r, run[r])'
    <3>1. Present(run[r].documentId) => run[r].documentId \in AllDocs
      BY PresentHasId DEF AllDocs
    <3>2. deleting = NoDoc /\ UNCHANGED <<documents, run>>
      BY <1>1
    <3>. QED BY <1>3, <2>1, <3>1, <3>2 DEF Progress, Written, Present, Batched
  <2>. QED BY <2>2, <2>3, <2>4 DEF RunHolds
<1>. QED BY <1>1, <1>2, <1>5, <1>6 DEF ContentInv

(* ... and from the database,                                               *)
LEMMA DeleteRowContent ==
  ASSUME TypeOK, ContentInv, DeleteRow
  PROVE  ContentInv'
<1>. SUFFICES ASSUME Sound'
              PROVE  ContentInv'
  BY DEF ContentInv
<1>0. /\ documents \in [AllDocs -> Document] /\ deleting \in Docs
      /\ Docs \subseteq AllDocs /\ NoDoc \notin AllDocs
      /\ task \in [status : TaskStatus, documentId : Docs \cup {NoDoc}]
      /\ parsed \in Docs \cup {NoDoc}
  BY NamesAssumption DEF TypeOK, DeleteRow, AllDocs
<1>1. Sound /\ UNCHANGED <<steps, es, run>> /\ Done' = Done /\ deleting' = NoDoc
  BY DEF DeleteRow, Sound, Done
<1>2. /\ documents'[deleting].row = "deleted"
      /\ \A e \in AllDocs : e # deleting => documents'[e] = documents[e]
  BY <1>0 DEF DeleteRow, NoDocument
<1>3. /\ task'.status = task.status
      /\ task'.documentId = IF task.documentId = deleting THEN NoDoc ELSE task.documentId
      /\ parsed' = IF parsed = deleting THEN NoDoc ELSE parsed
  BY <1>0 DEF DeleteRow
<1>4. Held /\ (task.status = "completed" => Finished)
  BY <1>1 DEF ContentInv
<1>5. Held'
  <2>1. ParseHeld'
    <3>1. Deleted'
      BY <1>0, <1>2 DEF Deleted
    <3>2. parsed' # NoDoc
            => Present(parsed)' /\ documents'[parsed'].assets = documents[parsed].assets
                 /\ parsed' = parsed
      BY <1>0, <1>2, <1>3, <1>4 DEF Held, ParseHeld, Present
    <3>. QED BY <1>1, <1>3, <1>4, <3>1, <3>2 DEF Held, ParseHeld
  <2>2. parsed' # NoDoc
          => /\ parsed' = parsed /\ parsed # deleting
             /\ documents'[parsed] = documents[parsed]
    BY <1>0, <1>2, <1>3
  <2>3. IndexHeld'
    BY <1>1, <1>4, <2>2 DEF Held, IndexHeld, Batched
  <2>4. GraphHeld'
    BY <1>1, <1>4, <2>2 DEF Held, GraphHeld
  <2>. QED BY <2>1, <2>3, <2>4 DEF Held
<1>6. Finished => Finished'
  BY <1>0, <1>1, <1>2, <1>3 DEF Finished
<1>7. ASSUME NEW r \in Runs, run[r].at \in Working
      PROVE  RunHolds(r)'
  <2>1. InOwnStep(run[r]) /\ Names(run[r]) /\ Progress(r, run[r])
    BY <1>1, <1>7 DEF ContentInv, RunHolds
  <2>2. run[r].documentId \in Docs \cup {NoDoc}
    BY DEF TypeOK, Run
  <2>3. /\ Present(run[r].documentId)'
             => /\ Present(run[r].documentId) /\ run[r].documentId # deleting
                /\ documents'[run[r].documentId] = documents[run[r].documentId]
        /\ IsParsed(run[r].documentId) => IsParsed(run[r].documentId)'
    <3>1. Present(run[r].documentId)'
             => /\ Present(run[r].documentId) /\ run[r].documentId # deleting
                /\ documents'[run[r].documentId] = documents[run[r].documentId]
      BY <1>0, <1>1, <1>2, <2>2 DEF Present
    <3>. QED BY <1>1, <1>3, <3>1 DEF IsParsed
  <2>4. InOwnStep(run[r])'
    BY <1>1, <1>6, <2>1 DEF InOwnStep
  <2>5. Names(run[r])'
    <3>1. task.documentId \in {run[r].documentId, NoDoc}
            => task'.documentId \in {run[r].documentId, NoDoc}
      BY <1>3
    <3>. QED BY <1>1, <2>1, <2>3, <3>1 DEF Names
  <2>6. Progress(r, run[r])'
    BY <1>1, <2>1, <2>3 DEF Progress, Written, Batched
  <2>. QED BY <2>4, <2>5, <2>6 DEF RunHolds
<1>. QED BY <1>1, <1>3, <1>4, <1>5, <1>6, <1>7 DEF ContentInv

(* ... and of a crash, after which no run is at work.                       *)
LEMMA CrashContent ==
  ASSUME TypeOK, ContentInv, Crash
  PROVE  ContentInv'
<1>. SUFFICES ASSUME Sound'
              PROVE  ContentInv'
  BY DEF ContentInv
<1>1. /\ Sound /\ UNCHANGED <<task, steps, parsed, documents, es, deleting>>
      /\ Done' = Done /\ Finished' = Finished
  BY DEF Crash, NotesOverlap, Sound, Done, Finished
<1>2. \A r \in Runs : /\ run'[r].at \notin Working
                      /\ run'[r].at = "idle" => run'[r] = run[r]
  BY DEF TypeOK, Crash, NoRun, Active, Working, InTry, OutsideTry, InCatch
<1>3. Held'
  BY <1>1, AsideHeld DEF ContentInv
<1>. QED BY <1>1, <1>2, <1>3 DEF ContentInv

(* Every step keeps it.                                                     *)
LEMMA NextContent ==
  ASSUME TypeOK, OneInv, OrderInv, StatusInv, ContentInv, [Next]_vars
  PROVE  ContentInv'
<1>1. CASE UNCHANGED vars
  <2>1. /\ UNCHANGED <<parsed, documents, es, run, deleting, task>>
        /\ (Sound' => Sound) /\ Done' = Done /\ Finished' = Finished
    BY <1>1 DEF vars, Sound, Done, Finished
  <2>. QED BY <2>1, AsideContent
<1>2. CASE UserStep
  BY <1>2, DeleteFromIndexContent, DeleteRowContent DEF UserStep
<1>. QED BY <1>1, <1>2, RunStepContent, RequestStepContent, CrashContent DEF Next

(* Nothing is completed before the upload.                                  *)
LEMMA InitContent == Init => ContentInv
<1>. SUFFICES ASSUME Init
              PROVE  ContentInv
  OBVIOUS
<1>1. /\ \A r \in Runs : run[r].at = "idle" /\ run[r].batch = 1
      /\ parsed = NoDoc /\ task.status = "absent" /\ Done = {}
  BY DEF Init, NoRun, Done
<1>2. Held
  BY <1>1 DEF Held, ParseHeld, IndexHeld, GraphHeld
<1>. QED BY <1>1, <1>2 DEF ContentInv, Working, InTry, OutsideTry, InCatch

(* What the steps have stored is whole, in every reachable state.           *)
LEMMA ContentInvariant == Spec => []ContentInv
<1>1. TypeOK /\ OneInv /\ OrderInv /\ StatusInv /\ ContentInv /\ [Next]_vars => ContentInv'
  BY NextContent
<1>. QED BY <1>1, InitContent, TypeCorrect, OneAtATime, OrderStays, StatusInvariant, PTL
         DEF Spec

(* The batches of one run are the whole content, each of them once. *)
LEMMA BatchedIsWhole ==
  ASSUME NEW r, NEW d, documents[d].chunks = Batched(r, Batches)
  PROVE  Whole(d)
<1>0. Batches \in Nat
  BY BoundsAssumption
<1>1. /\ IsFiniteSet(1 .. Batches) /\ Cardinality(1 .. Batches) = Batches
  BY <1>0, FS_Interval
<1> DEFINE f == [i \in 1 .. Batches |-> <<r, i>>]
<1>2. f \in Bijection(1 .. Batches, Batched(r, Batches))
  BY DEF Bijection, Injection, Surjection, IsInjective, Batched
<1>3. Cardinality(Batched(r, Batches)) = Batches
  BY <1>1, <1>2, FS_Bijection DEF ExistsBijection
<1>4. {c[2] : c \in Batched(r, Batches)} = 1 .. Batches
  <2>1. ASSUME NEW c \in Batched(r, Batches)
        PROVE  c[2] \in 1 .. Batches
    BY DEF Batched
  <2>2. ASSUME NEW i \in 1 .. Batches
        PROVE  \E c \in Batched(r, Batches) : c[2] = i
    <3>1. <<r, i>> \in Batched(r, Batches) /\ <<r, i>>[2] = i
      BY DEF Batched
    <3>. QED BY <3>1
  <2>. QED BY <2>1, <2>2
<1>. QED BY <1>3, <1>4 DEF Whole

(* A completed task has done its steps, and its document holds every batch  *)
(* once, in the database and in the index, with its assets: knowledge-      *)
(* document.service.ts clears what an earlier attempt left before it        *)
(* writes, and the runner skips only what is completed.                     *)
THEOREM CompletedTaskIsWhole == Spec => []CompletedIsWhole
<1>1. ContentInv => CompletedIsWhole
  <2>. SUFFICES ASSUME ContentInv, Sound, task.status = "completed", Present(parsed),
                       parsed # deleting
                PROVE  /\ steps["parse"] = "completed" /\ steps["index"] = "completed"
                       /\ steps["graph_sync"] \in {"completed", "failed"}
                       /\ task.documentId \in {parsed, NoDoc}
                       /\ documents[parsed].graph # "pending"
                       /\ documents[parsed].assets = 1
                       /\ Whole(parsed)
                       /\ es[parsed] = documents[parsed].chunks
    BY DEF CompletedIsWhole
  <2>1. Held /\ Finished /\ parsed # NoDoc
    BY DEF ContentInv, Present
  <2>2. Whole(parsed) /\ es[parsed] = documents[parsed].chunks
    BY <2>1, BatchedIsWhole DEF Held, IndexHeld, Finished
  <2>. QED BY <2>1, <2>2 DEF Held, ParseHeld, Finished, Done
<1>. QED BY <1>1, ContentInvariant, PTL

-----------------------------------------------------------------------------
(***************************************************************************)
(* Proofs about DocumentTask, for every value of its constants: that the   *)
(* task keeps the promise of IngestTask, and which version of a document   *)
(* ends as the current one.                                                *)
(***************************************************************************)

(* The promise to the user: every step is one of IngestTask, or none. *)

Spoilt == ~Sound \/ deleting # NoDoc \/ Deleted
HoldsAll == parsed # NoDoc /\ Whole(parsed)

(* A statement of a run on its document keeps the row, its version group    *)
(* and, but for the one that promotes it, its flag.                         *)
OwnWrite(r, new) ==
  /\ documents' = Updated(run[r].documentId, new)
  /\ Present(run[r].documentId)
       => new.row = "present" /\ new.inGroup = MyDocument(r).inGroup

(* The statements of the steps write their own document and no flag.        *)
LEMMA WritesOwn ==
  ASSUME TypeOK, NEW r \in Runs,
         \/ ClearAssets(r) \/ SaveAssets(r) \/ Publish(r) \/ PendingGraph(r)
         \/ \E result \in {"indexed", "failed"} : SyncGraph(r, result)
         \/ CatchDocument(r) \/ ClearChunks(r) \/ InsertBatch(r)
  PROVE  \E new : /\ OwnWrite(r, new)
                  /\ Present(run[r].documentId) => new.current = MyDocument(r).current
<1> DEFINE Mine == MyDocument(r)
           Keeps(new) == /\ OwnWrite(r, new)
                         /\ Present(run[r].documentId) => new.current = Mine.current
<1>0. Present(run[r].documentId) => Mine \in Document /\ Mine.row = "present"
  BY MyDocumentTyped DEF Present, MyDocument
<1>1. ASSUME NEW n, \/ documents' = Updated(run[r].documentId, [Mine EXCEPT !.assets = n])
                     \/ documents' = Updated(run[r].documentId, [Mine EXCEPT !.status = n])
                     \/ documents' = Updated(run[r].documentId, [Mine EXCEPT !.graph = n])
                     \/ documents' = Updated(run[r].documentId, [Mine EXCEPT !.chunks = n])
      PROVE  \E new : Keeps(new)
  <2>1. Present(run[r].documentId) =>
          /\ LET new == [Mine EXCEPT !.assets = n]
             IN new.row = "present" /\ new.inGroup = Mine.inGroup /\ new.current = Mine.current
          /\ LET new == [Mine EXCEPT !.status = n]
             IN new.row = "present" /\ new.inGroup = Mine.inGroup /\ new.current = Mine.current
          /\ LET new == [Mine EXCEPT !.graph = n]
             IN new.row = "present" /\ new.inGroup = Mine.inGroup /\ new.current = Mine.current
          /\ LET new == [Mine EXCEPT !.chunks = n]
             IN new.row = "present" /\ new.inGroup = Mine.inGroup /\ new.current = Mine.current
    BY <1>0 DEF Document
  <2>2. \/ Keeps([Mine EXCEPT !.assets = n]) \/ Keeps([Mine EXCEPT !.status = n])
        \/ Keeps([Mine EXCEPT !.graph = n]) \/ Keeps([Mine EXCEPT !.chunks = n])
    BY <1>1, <2>1 DEF OwnWrite
  <2>. QED BY <2>2
<1>2. \E n : \/ documents' = Updated(run[r].documentId, [Mine EXCEPT !.assets = n])
             \/ documents' = Updated(run[r].documentId, [Mine EXCEPT !.status = n])
             \/ documents' = Updated(run[r].documentId, [Mine EXCEPT !.graph = n])
             \/ documents' = Updated(run[r].documentId, [Mine EXCEPT !.chunks = n])
  <2>1. CASE ClearAssets(r) \/ SaveAssets(r) \/ Publish(r) \/ PendingGraph(r)
    BY <2>1 DEF ClearAssets, SaveAssets, Publish, PendingGraph, OnDocument
  <2>2. CASE \/ \E result \in {"indexed", "failed"} : SyncGraph(r, result)
             \/ ClearChunks(r) \/ InsertBatch(r)
    BY <2>2 DEF SyncGraph, ClearChunks, InsertBatch, OnDocument
  <2>3. CASE CatchDocument(r)
    BY <2>3 DEF CatchDocument
  <2>. QED BY <2>1, <2>2, <2>3
<1>. QED BY <1>1, <1>2

(* The promotion writes the flag of its own document, and no other.         *)
LEMMA PromoteWrites ==
  ASSUME TypeOK, NEW r \in Runs, Promote(r)
  PROVE  /\ OwnWrite(r, [MyDocument(r) EXCEPT !.current = TRUE])
         /\ Present(run[r].documentId) => [MyDocument(r) EXCEPT !.current = TRUE].current = TRUE
<1>1. Present(run[r].documentId) => MyDocument(r) \in Document /\ MyDocument(r).row = "present"
  BY MyDocumentTyped DEF Present, MyDocument
<1>. QED BY <1>1 DEF Promote, OnDocument, OwnWrite, Document

(* The statements of a run, by what they do to the documents. *)
LEMMA RunWrites ==
  ASSUME TypeOK, NEW r \in Runs, RunGoesOn(r)
  PROVE  \/ UNCHANGED documents
         \/ \E new : OwnWrite(r, new)
         \/ \E e \in Docs : CreateDocument(r, e) \/ NameGroupFails(r, e)
         \/ Demote(r)
<1>1. CASE \/ ClearAssets(r) \/ SaveAssets(r) \/ Publish(r) \/ PendingGraph(r)
           \/ \E result \in {"indexed", "failed"} : SyncGraph(r, result)
           \/ CatchDocument(r) \/ ClearChunks(r) \/ InsertBatch(r)
  BY <1>1, WritesOwn
<1>2. CASE Promote(r)
  BY <1>2, PromoteWrites
<1>3. CASE Demote(r) \/ \E e \in Docs : CreateDocument(r, e) \/ NameGroupFails(r, e)
  BY <1>3
<1>. QED BY <1>1, <1>2, <1>3, OtherStepKeeps

(* A run deletes nothing and brings nothing back. *)
LEMMA RunKeepsRows ==
  ASSUME TypeOK, NEW r \in Runs, RunGoesOn(r)
  PROVE  Deleted' <=> Deleted
<1>0. documents \in [AllDocs -> Document] /\ Docs \subseteq AllDocs
  BY DEF TypeOK, AllDocs
<1>1. ASSUME NEW d \in Docs
      PROVE  documents'[d].row = "deleted" <=> documents[d].row = "deleted"
  <2>1. CASE UNCHANGED documents
    BY <2>1
  <2>2. ASSUME NEW new, OwnWrite(r, new)
        PROVE  documents'[d].row = "deleted" <=> documents[d].row = "deleted"
    <3>1. CASE Present(run[r].documentId)
      BY <1>0, <2>2, <3>1 DEF OwnWrite, Updated, Present
    <3>2. CASE ~Present(run[r].documentId)
      BY <2>2, <3>2 DEF OwnWrite, Updated
    <3>. QED BY <3>1, <3>2
  <2>3. ASSUME NEW e \in Docs, CreateDocument(r, e) \/ NameGroupFails(r, e)
        PROVE  documents'[d].row = "deleted" <=> documents[d].row = "deleted"
    <3>1. /\ documents[e].row = "absent" /\ documents'[e].row = "present"
          /\ d # e => documents'[d] = documents[d]
      BY <1>0, <2>3 DEF CreateDocument, NameGroupFails, NoDocument
    <3>. QED BY <3>1
  <2>4. CASE Demote(r)
    BY <1>0, <2>4 DEF Demote, Document
  <2>. QED BY <2>1, <2>2, <2>3, <2>4, RunWrites
<1>. QED BY <1>1 DEF Deleted

(* What was ignored once stays noted.                                       *)
LEMMA IgnoredStays ==
  ASSUME [Next]_vars
  PROVE  ignored \subseteq ignored'
<1>1. ASSUME NEW what, Ignores(what)
      PROVE  ignored \subseteq ignored'
  BY <1>1 DEF Ignores
<1>2. ASSUME NEW claims, NotesOverlap(claims)
      PROVE  ignored \subseteq ignored'
  BY <1>2 DEF NotesOverlap
<1>3. CASE UNCHANGED vars
  BY <1>3 DEF vars
<1>4. CASE RequestStep
  BY <1>1, <1>2, <1>4 DEF RequestStep, SaveTask, SaveSteps, WriteStepsFails, RetryAllowed,
     ResetTask, ResetSteps, AddJob, AddJobFails, RegisterJobFails, RequestFailsTask,
     RequestFailsSteps, RequestStops
<1>5. CASE RunStep
  <2>1. PICK r \in Runs : RunGoesOn(r) \/ \E v \in BOOLEAN : Deliver(r, v)
    BY <1>5, RunStepIsOne
  <2>2. CASE CleanUpFails(r) \/ UpsertFails(r) \/ SwitchIndexFails(r) \/ FailureUnsaved(r)
    BY <1>1, <2>2 DEF CleanUpFails, UpsertFails, SwitchIndexFails, FailureUnsaved
  <2>3. ASSUME NEW v \in BOOLEAN, Deliver(r, v)
        PROVE  ignored' = ignored
    BY <2>3 DEF Deliver
  <2>4. CASE /\ RunGoesOn(r)
             /\ ~(CleanUpFails(r) \/ UpsertFails(r) \/ SwitchIndexFails(r) \/ FailureUnsaved(r))
    BY <2>4 DEF RunGoesOn, LoadTask, LoadSteps, Begin, StartStep, CreateDocument,
       NameGroupFails, KeepDocument, ClearAssets, SaveAssets, FinishStep, BindParse,
       BindIndex, ClearChunks, ClearEs, InsertBatch, UpsertBatch, Publish, PendingGraph,
       SyncGraph, Demote, Promote, ClearOthers, Reindex, Complete, Throws, CatchDocument,
       CatchStep, CatchTask, RunFailsTask, RunFailsSteps, Acknowledge, OnDocument, OnlyRun,
       OnlyTask, OnlySteps, OnlyDocuments, OnlyEs
  <2>. QED BY <2>1, <2>2, <2>3, <2>4
<1>6. CASE UserStep
  BY <1>1, <1>6 DEF UserStep, DeleteRow, DeleteFromIndex
<1>7. CASE Crash
  BY <1>2, <1>7 DEF Crash
<1>. QED BY <1>3, <1>4, <1>5, <1>6, <1>7 DEF Next

(* So what voids the promise voids it for good.                             *)
LEMMA SpoiltStays ==
  ASSUME TypeOK, Spoilt, [Next]_vars
  PROVE  Spoilt'
<1>1. CASE ~Sound
  BY <1>1, IgnoredStays DEF Spoilt, Sound
<1>2. CASE deleting # NoDoc \/ Deleted
  <2>1. CASE DeleteRow
    <3>1. documents'[deleting].row = "deleted" /\ deleting \in Docs
      BY <2>1 DEF DeleteRow, NoDocument, TypeOK, AllDocs
    <3>. QED BY <3>1 DEF Spoilt, Deleted
  <2>2. CASE UNCHANGED <<documents, deleting>>
    BY <1>2, <2>2 DEF Spoilt, Deleted
  <2>3. ASSUME NEW d \in Docs, DeleteFromIndex(d)
        PROVE  Spoilt'
    <3>1. UNCHANGED documents /\ deleting = NoDoc
      BY <2>3 DEF DeleteFromIndex
    <3>. QED BY <1>2, <3>1 DEF Spoilt, Deleted
  <2>4. CASE RunStep
    <3>1. UNCHANGED deleting
      BY <2>4 DEF RunStep
    <3>2. PICK r \in Runs : RunGoesOn(r) \/ \E v \in BOOLEAN : Deliver(r, v)
      BY <2>4, RunStepIsOne
    <3>3. CASE \E v \in BOOLEAN : Deliver(r, v)
      BY <2>2, <3>1, <3>3 DEF Deliver
    <3>4. CASE RunGoesOn(r)
      BY <1>2, <3>1, <3>4, RunKeepsRows DEF Spoilt
    <3>. QED BY <3>2, <3>3, <3>4
  <2>5. CASE UNCHANGED vars \/ RequestStep \/ Crash
    BY <2>2, <2>5 DEF vars, RequestStep, Crash
  <2>. QED BY <2>1, <2>3, <2>4, <2>5 DEF Next, UserStep
<1>. QED BY <1>1, <1>2 DEF Spoilt

(* Whatever makes the promise void leaves the status and the content alone. *)
LEMMA SpoilingLeaves ==
  ASSUME TypeOK, ~Spoilt, Spoilt', [Next]_vars
  PROVE  UNCHANGED <<task, parsed, documents>>
<1>1. Sound /\ deleting = NoDoc /\ ~Deleted
  BY DEF Spoilt
<1>2. CASE UNCHANGED vars
  BY <1>2 DEF vars
<1>3. CASE UserStep
  BY <1>1, <1>3 DEF UserStep, DeleteRow, DeleteFromIndex
<1>4. CASE Crash
  BY <1>4 DEF Crash
<1>5. CASE RequestStep
  <2>1. UNCHANGED <<parsed, documents, deleting>>
    BY <1>5 DEF RequestStep
  <2>2. ignored' # ignored
    BY <1>1, <2>1 DEF Spoilt, Sound, Deleted
  <2>3. task' = task
    BY <1>5, <2>2 DEF RequestStep, SaveTask, SaveSteps, WriteStepsFails, RetryAllowed,
       ResetTask, ResetSteps, AddJob, AddJobFails, RegisterJobFails, RequestFailsTask,
       RequestFailsSteps, RequestStops
  <2>. QED BY <2>1, <2>3
<1>6. CASE RunStep
  <2>0. UNCHANGED deleting
    BY <1>6 DEF RunStep
  <2>1. PICK r \in Runs : RunGoesOn(r) \/ \E v \in BOOLEAN : Deliver(r, v)
    BY <1>6, RunStepIsOne
  <2>2. CASE CleanUpFails(r) \/ UpsertFails(r) \/ SwitchIndexFails(r) \/ FailureUnsaved(r)
    BY <2>2 DEF CleanUpFails, UpsertFails, SwitchIndexFails, FailureUnsaved, OnlyIgnored
  <2>3. ASSUME NEW v \in BOOLEAN, Deliver(r, v)
        PROVE  UNCHANGED <<task, parsed, documents>>
    BY <2>3 DEF Deliver
  <2>4. CASE /\ RunGoesOn(r)
             /\ ~(CleanUpFails(r) \/ UpsertFails(r) \/ SwitchIndexFails(r) \/ FailureUnsaved(r))
    <3>1. ignored' = ignored
      BY <2>4 DEF RunGoesOn, LoadTask, LoadSteps, Begin, StartStep, CreateDocument,
         NameGroupFails, KeepDocument, ClearAssets, SaveAssets, FinishStep, BindParse,
         BindIndex, ClearChunks, ClearEs, InsertBatch, UpsertBatch, Publish, PendingGraph,
         SyncGraph, Demote, Promote, ClearOthers, Reindex, Complete, Throws, CatchDocument,
         CatchStep, CatchTask, RunFailsTask, RunFailsSteps, Acknowledge, OnDocument,
         OnlyRun, OnlyTask, OnlySteps, OnlyDocuments, OnlyEs
    <3>2. ~Deleted'
      BY <1>1, <2>4, RunKeepsRows
    <3>. QED BY <1>1, <2>0, <3>1, <3>2 DEF Spoilt, Sound
  <2>. QED BY <2>1, <2>2, <2>3, <2>4
<1>. QED BY <1>2, <1>3, <1>4, <1>5, <1>6 DEF Next

(* While the promise stands and the content of the task does not change,    *)
(* the status goes one of the ways of IngestTask.                           *)
LEMMA StatusKeepsPromise ==
  ASSUME ~Spoilt, ~Spoilt', UNCHANGED <<parsed, documents>>,
         \/ task'.status = task.status
         \/ task.status = "absent" /\ task'.status = "pending"
         \/ task.status # "absent" /\ task'.status = "running"
         \/ task.status = "running" /\ HoldsAll /\ task'.status = "completed"
         \/ task.status \in {"pending", "running", "completed"} /\ task'.status = "failed"
         \/ task.status = "failed" /\ task'.status = "pending"
  PROVE  [Promise!Next]_(Promise!vars)
<1>1. HoldsAll' = HoldsAll /\ Spoilt' = Spoilt
  <2>1. Whole(parsed)' = Whole(parsed)
    BY DEF Whole
  <2>. QED BY <2>1 DEF HoldsAll, Spoilt
<1>. QED BY <1>1 DEF Promise!Next, Promise!Upload, Promise!Start, Promise!Finish,
            Promise!Fail, Promise!Retry, Promise!vars, HoldsAll, Spoilt, Deleted

(* Every step keeps the promise: of a request,                              *)
LEMMA RequestKeepsPromise ==
  ASSUME TypeOK, StatusInv, RequestStep, ~Spoilt, ~Spoilt'
  PROVE  [Promise!Next]_(Promise!vars)
<1>0. /\ UNCHANGED <<parsed, documents>> /\ Sound
      /\ task \in [status : TaskStatus, documentId : Docs \cup {NoDoc}]
  BY DEF RequestStep, TypeOK, Spoilt
<1>1. PICK q \in Requests :
        \/ \E versioned \in BOOLEAN : SaveTask(q, versioned)
        \/ SaveSteps(q) \/ WriteStepsFails(q)
        \/ RetryAllowed(q) \/ ResetTask(q) \/ ResetSteps(q)
        \/ AddJob(q) \/ AddJobFails(q) \/ RegisterJobFails(q)
        \/ RequestFailsTask(q) \/ RequestFailsSteps(q) \/ RequestStops(q)
  BY DEF RequestStep
<1>2. CASE \E versioned \in BOOLEAN : SaveTask(q, versioned)
  BY <1>0, <1>2, StatusKeepsPromise DEF SaveTask
<1>3. CASE ResetTask(q)
  <2>1. task.status = "failed" /\ task'.status = "pending"
    BY <1>0, <1>3 DEF ResetTask, RequestAt, StatusInv
  <2>. QED BY <1>0, <2>1, StatusKeepsPromise
<1>4. CASE RequestFailsTask(q)
  <2>1. task.status = "pending" /\ task'.status = "failed"
    BY <1>0, <1>4 DEF RequestFailsTask, RequestAt, TaskFails, StatusInv, Publishing
  <2>. QED BY <1>0, <2>1, StatusKeepsPromise
<1>5. CASE \/ SaveSteps(q) \/ WriteStepsFails(q) \/ RetryAllowed(q) \/ ResetSteps(q)
           \/ AddJob(q) \/ AddJobFails(q) \/ RegisterJobFails(q) \/ RequestFailsSteps(q)
           \/ RequestStops(q)
  <2>1. task' = task
    BY <1>5 DEF SaveSteps, WriteStepsFails, RetryAllowed, ResetSteps, AddJob, AddJobFails,
       RegisterJobFails, RequestFailsSteps, RequestStops
  <2>. QED BY <1>0, <2>1, StatusKeepsPromise
<1>. QED BY <1>1, <1>2, <1>3, <1>4, <1>5

(* ... of a run,                                                            *)
LEMMA RunKeepsPromise ==
  ASSUME TypeOK, OneInv, StatusInv, ContentInv, RunStep, ~Spoilt, ~Spoilt'
  PROVE  [Promise!Next]_(Promise!vars)
<1>0. /\ Sound /\ deleting' = deleting /\ ~Deleted
      /\ task \in [status : TaskStatus, documentId : Docs \cup {NoDoc}]
      /\ run \in [Runs -> Run]
  BY DEF RunStep, TypeOK, Spoilt
<1>1. PICK r \in Runs : RunGoesOn(r) \/ \E v \in BOOLEAN : Deliver(r, v)
  BY RunStepIsOne
<1>2. ASSUME NEW v \in BOOLEAN, Deliver(r, v)
      PROVE  [Promise!Next]_(Promise!vars)
  BY <1>2, StatusKeepsPromise DEF Deliver
<1>3. CASE RunGoesOn(r) /\ run[r].at \notin Working
  BY <1>0, <1>3, EndedContent, StatusKeepsPromise
<1>4. CASE RunGoesOn(r) /\ run[r].at \in Working
  <2>0. /\ task.status # "absent"
        /\ run[r].at \notin Quiet => task.status = "running"
        /\ RunHolds(r) /\ Held
    BY <1>0, <1>4, RunGoesOnAlone DEF OneInv, Active, StatusInv, ContentInv
  <2>1. CASE Begin(r)
    <3>1. task'.status = "running" /\ UNCHANGED <<parsed, documents>>
      BY <1>0, <2>1 DEF Begin, OnlyTask
    <3>. QED BY <2>0, <3>1, StatusKeepsPromise
  <2>2. CASE Complete(r)
    <3>1. /\ task'.status = "completed" /\ UNCHANGED <<parsed, documents>>
          /\ run[r].at = "complete"
      BY <1>0, <2>2 DEF Complete, RunAt, OnlyTask
    <3>2. task.status = "running" /\ Finished
      BY <2>0, <3>1 DEF Quiet, RunHolds, InOwnStep, Switching
    <3>3. HoldsAll
      BY <1>0, <2>0, <3>2, BatchedIsWhole DEF Finished, Held, ParseHeld, IndexHeld, HoldsAll
    <3>. QED BY <3>1, <3>2, <3>3, StatusKeepsPromise
  <2>3. CASE CatchTask(r) \/ RunFailsTask(r)
    <3>1. task'.status = "failed" /\ UNCHANGED <<parsed, documents>>
      BY <1>0, <2>3 DEF CatchTask, RunFailsTask, TaskFails, OnlyTask
    <3>2. task.status \in {"pending", "running", "completed", "failed"}
      BY <1>0, <2>0 DEF TaskStatus
    <3>. QED BY <3>1, <3>2, StatusKeepsPromise
  <2>4. CASE ~(Begin(r) \/ Complete(r) \/ CatchTask(r) \/ RunFailsTask(r))
    <3>1. task'.status = task.status
      <4>1. CASE BindParse(r)
        BY <1>0, <4>1 DEF BindParse
      <4>. QED BY <1>4, <2>4, <4>1, RunGoesOnTask
    <3>2. CASE run[r].at \in Quiet
      <4>1. LoadTask(r) \/ LoadSteps(r) \/ Throws(r) \/ FailureUnsaved(r)
        BY <1>4, <2>4, <3>2 DEF RunGoesOn, StartStep, CreateDocument, NameGroupFails,
           KeepDocument, ClearAssets, SaveAssets, FinishStep, BindParse, BindIndex, StepAt,
           ClearChunks, ClearEs, CleanUpFails, InsertBatch, UpsertBatch, UpsertFails,
           Publish, PendingGraph, SyncGraph, Demote, Promote, ClearOthers, Reindex,
           SwitchIndexFails, CatchDocument, CatchStep, RunFailsSteps, Acknowledge,
           OnDocument, RunAt, Quiet
      <4>2. UNCHANGED <<parsed, documents>>
        BY <4>1 DEF LoadTask, LoadSteps, Throws, FailureUnsaved, OnlyRun, OnlyIgnored
      <4>. QED BY <3>1, <4>2, StatusKeepsPromise
    <3>3. CASE run[r].at \notin Quiet
      <4>1. task.status = "running" /\ task'.status = "running" /\ HoldsAll' \in BOOLEAN
        BY <2>0, <3>1, <3>3 DEF HoldsAll, Whole
      <4>2. Spoilt' = Spoilt
        BY DEF Spoilt
      <4>. QED BY <4>1, <4>2 DEF Promise!Next, Promise!Work, HoldsAll, Spoilt, Deleted
    <3>. QED BY <3>2, <3>3
  <2>. QED BY <2>1, <2>2, <2>3, <2>4
<1>. QED BY <1>1, <1>2, <1>3, <1>4

(* ... and of the others; what voids it is a step of the promise too.       *)
LEMMA NextKeepsPromise ==
  ASSUME TypeOK, OneInv, StatusInv, ContentInv, [Next]_vars
  PROVE  [Promise!Next]_(Promise!vars)
<1>1. CASE Spoilt
  <2>1. Spoilt'
    BY <1>1, SpoiltStays
  <2>. QED BY <1>1, <2>1 DEF Promise!Next, Promise!Spoil, Spoilt, Deleted
<1>2. CASE ~Spoilt /\ Spoilt'
  <2>1. UNCHANGED <<task, parsed, documents>>
    BY <1>2, SpoilingLeaves
  <2>2. task'.status = task.status /\ HoldsAll' = HoldsAll
    BY <2>1 DEF HoldsAll, Whole
  <2>. QED BY <1>2, <2>2 DEF Promise!Next, Promise!Spoil, Spoilt, Deleted, HoldsAll
<1>3. CASE ~Spoilt /\ ~Spoilt'
  <2>1. CASE UNCHANGED vars
    BY <1>3, <2>1, StatusKeepsPromise DEF vars
  <2>2. CASE Crash
    BY <1>3, <2>2, StatusKeepsPromise DEF Crash
  <2>3. CASE UserStep
    <3>1. deleting = NoDoc /\ deleting' = NoDoc
      BY <1>3 DEF Spoilt
    <3>. QED BY <2>3, <3>1, NamesAssumption DEF UserStep, DeleteRow, DeleteFromIndex
  <2>. QED BY <1>3, <2>1, <2>2, <2>3, RequestKeepsPromise, RunKeepsPromise DEF Next
<1>. QED BY <1>1, <1>2, <1>3

(* Nothing is promised before the upload.                                   *)
LEMMA InitKeepsPromise == Init => Promise!Init
<1>. SUFFICES ASSUME Init
              PROVE  Promise!Init
  OBVIOUS
<1>1. task.status = "absent" /\ parsed = NoDoc /\ Sound /\ deleting = NoDoc
  BY DEF Init, Sound
<1>2. \A d \in Docs : documents[d].row # "deleted"
  BY DEF Init, AllDocs, NoDocument
<1>. QED BY <1>1, <1>2 DEF Promise!Init

(* The task keeps what is promised of an upload, see IngestTask: every step *)
(* of requests, runs, users and crashes is a step of that promise or none.  *)
THEOREM PromiseIsKept == Spec => KeepsPromise
<1>1. Init => Promise!Init
  BY InitKeepsPromise
<1>2. TypeOK /\ OneInv /\ StatusInv /\ ContentInv /\ [Next]_vars
        => [Promise!Next]_(Promise!vars)
  BY NextKeepsPromise
<1>. QED BY <1>1, <1>2, TypeCorrect, OneAtATime, StatusInvariant, ContentInvariant, PTL
         DEF Spec, KeepsPromise, Promise!Spec

-----------------------------------------------------------------------------
(* Which version ends as the current one. *)

(* The case of the property: a version was uploaded and nobody retries.     *)
Versioned == \E q \in Requests : request[q].versioned
Retried == \E q \in Requests : request[q].retries
Straight == Versioned /\ ~Retried

(* Before the upload no request has done anything; until one retries there  *)
(* is only the one that created the task.                                   *)
FirstRequest ==
  /\ task.status = "absent" => \A q \in Requests : request[q].at = "idle"
  /\ \A q \in Requests : request[q].at = "idle"
       => ~request[q].versioned /\ ~request[q].retries
  /\ ~Retried => \A p, q \in Requests :
                   request[p].at # "idle" /\ request[q].at # "idle" => p = q

(* Every document there is belongs to the version group.                    *)
Grouped == \A d \in AllDocs : Present(d) => documents[d].inGroup

(* d is the only current document, and the only one in the index. *)
Alone(d) == \A e \in AllDocs : Present(e) => (documents[e].current <=> e = d)
AloneInIndex(d) == \A e \in AllDocs : Present(e) /\ e # d => es[e] = {}

(* How far the run has come in making its document the current version.     *)
SwitchHolds(x) ==
  LET d == x.documentId
  IN Present(d) =>
       /\ x.at = "promote" => Alone(NoDoc)
       /\ x.at \in {"clear others", "reindex", "complete"} => Alone(d)
       /\ x.at \in {"reindex", "complete"} => AloneInIndex(d)

(* The switch is complete.                                                  *)
Switched == parsed # NoDoc => Alone(parsed) /\ AloneInIndex(parsed)

(* While it is straight, every job and run is one of the version, and the   *)
(* flags and the index are as far as the run at work has brought them.      *)
VersionInv ==
  Sound =>
    /\ FirstRequest
    /\ task.status = "absent" \/ Straight => Grouped
    /\ Straight => /\ queue[FALSE] = 0
                   /\ \A r \in Active : run[r].versioned
                   /\ \A r \in Runs : run[r].at \in Working => SwitchHolds(run[r])
                   /\ task.status = "completed" => Switched

(* A run keeps the kind of its upload as it moves,                          *)
LEMMA GoesVersioned ==
  ASSUME TypeOK, NEW r \in Runs, NEW at, RunGoes(r, at)
  PROVE  run'[r].versioned = run[r].versioned
BY DEF TypeOK, RunGoes, Run

(* ... and as it ends.                                                      *)
LEMMA EndsVersioned ==
  ASSUME TypeOK, NEW r \in Runs, NEW at, RunEnds(r, at)
  PROVE  run'[r].versioned = run[r].versioned
<1>1. run'[r] = [NoRun(at) EXCEPT !.versioned = run[r].versioned, !.again = run[r].again]
  BY DEF TypeOK, RunEnds
<1>. QED BY <1>1 DEF NoRun

(* A run keeps to the kind of upload its job names, and a run of a version  *)
(* goes through the switch one statement after the other.                   *)
Goes(r) ==
  /\ run'[r].versioned = run[r].versioned \/ run'[r].at = "gone"
  /\ run[r].versioned =>
       /\ run'[r].at = "promote" => Demote(r)
       /\ run'[r].at = "clear others" => Promote(r)
       /\ run'[r].at = "reindex" => ClearOthers(r)
       /\ run'[r].at = "complete" => Reindex(r)

(* Within a step a run comes nowhere near the switch.                       *)
LEMMA WithinVersioned ==
  ASSUME TypeOK, NEW r \in Runs,
         \/ \E d \in Docs : CreateDocument(r, d) \/ NameGroupFails(r, d)
         \/ KeepDocument(r) \/ ClearAssets(r) \/ SaveAssets(r)
         \/ ClearChunks(r) \/ ClearEs(r)
         \/ InsertBatch(r) \/ UpsertBatch(r) \/ Publish(r) \/ PendingGraph(r)
         \/ \E result \in {"indexed", "failed"} : SyncGraph(r, result)
         \/ CatchDocument(r)
  PROVE  Goes(r)
<1>0. run \in [Runs -> Run] /\ run[r] \in Run
  BY DEF TypeOK
<1>1. ASSUME NEW d \in Docs, CreateDocument(r, d)
      PROVE  Goes(r)
  <2>1. run'[r].at = "clear assets" /\ run'[r].versioned = run[r].versioned
    BY <1>0, <1>1 DEF CreateDocument, Run
  <2>. QED BY <2>1 DEF Goes
<1>2. CASE UpsertBatch(r)
  <2>1. run'[r] = AfterBatch(run[r])
    BY <1>0, <1>2 DEF UpsertBatch
  <2>2. run'[r].at \in {"publish", "insert"} /\ run'[r].versioned = run[r].versioned
    BY <1>0, <2>1 DEF AfterBatch, Run
  <2>. QED BY <2>2 DEF Goes
<1>3. CASE ~((\E d \in Docs : CreateDocument(r, d)) \/ UpsertBatch(r))
  <2>1. PICK at \in {"catch document", "clear assets", "save assets", "finish", "clear es",
                     "insert", "upsert", "sync graph", "catch step"} : RunGoes(r, at)
    BY <1>3 DEF NameGroupFails, KeepDocument, ClearAssets, SaveAssets, ClearChunks,
       ClearEs, InsertBatch, Publish, PendingGraph, SyncGraph, CatchDocument, OnDocument,
       RunGoes
  <2>2. run'[r].at = at /\ run'[r].versioned = run[r].versioned
    BY <2>1, RunGoesTo, GoesVersioned
  <2>. QED BY <2>1, <2>2 DEF Goes
<1>. QED BY <1>1, <1>2, <1>3

(* Every statement keeps the kind and the order of the switch.              *)
LEMMA RunGoesVersioned ==
  ASSUME TypeOK, NEW r \in Runs, RunGoesOn(r), Sound'
  PROVE  Goes(r)
<1>0. run \in [Runs -> Run] /\ run[r] \in Run /\ run[r].step \in {"parse", "index", "graph_sync"}
  BY DEF TypeOK, Run, Step
<1>a. ~(CleanUpFails(r) \/ UpsertFails(r) \/ SwitchIndexFails(r))
  BY DEF CleanUpFails, UpsertFails, SwitchIndexFails, Ignores, Sound
<1>1. CASE LoadTask(r)
  <2>1. run'[r].at = "load steps" /\ run'[r].versioned = run[r].versioned
    BY <1>0, <1>1 DEF LoadTask, Run
  <2>. QED BY <2>1 DEF Goes
<1>2. CASE LoadSteps(r)
  <2>1. run'[r].at = "begin" /\ run'[r].versioned = run[r].versioned
    BY <1>0, <1>2 DEF LoadSteps, Run
  <2>. QED BY <2>1 DEF Goes
<1>3. CASE StartStep(r)
  <2>1. PICK at \in {"create", "clear chunks", "pending graph"} : RunGoes(r, at)
    BY <1>0, <1>3 DEF StartStep
  <2>2. run'[r].at = at /\ run'[r].versioned = run[r].versioned
    BY <2>1, RunGoesTo, GoesVersioned
  <2>. QED BY <2>1, <2>2 DEF Goes
<1>4. ASSUME NEW y, y \in {EnterParse(run[r]), EnterIndex(run[r]), EnterGraph(run[r]),
                           EnterVersion(run[r])}
      PROVE  /\ y.versioned = run[r].versioned
             /\ y.at \notin {"promote", "clear others", "reindex"}
             /\ run[r].versioned => y.at # "complete"
  <2>1. LET z == EnterVersion(run[r])
        IN z.versioned = run[r].versioned /\ z.at \in {"demote", "complete"}
             /\ (run[r].versioned => z.at = "demote")
    BY <1>0 DEF EnterVersion, Run
  <2>2. EnterGraph(run[r]) = EnterVersion(run[r]) \/ EnterGraph(run[r]).at = "start"
    BY <1>0 DEF EnterGraph, Run
  <2>3. \/ EnterIndex(run[r]) = EnterGraph(run[r])
        \/ EnterIndex(run[r]).at \in {"start", "fail task"}
    BY <1>0 DEF EnterIndex, Run
  <2>4. EnterParse(run[r]) = EnterIndex(run[r]) \/ EnterParse(run[r]).at = "start"
    BY <1>0 DEF EnterParse, Run
  <2>5. y.versioned = run[r].versioned
    <3>1. EnterParse(run[r]).versioned = run[r].versioned
      BY <1>0, EnterParseKeeps
    <3>2. EnterIndex(run[r]).versioned = run[r].versioned
      BY <1>0, EnterIndexKeeps
    <3>3. EnterGraph(run[r]).versioned = run[r].versioned
      BY <1>0, EnterGraphKeeps
    <3>4. EnterVersion(run[r]).versioned = run[r].versioned
      BY <2>1
    <3>. QED BY <1>4, <3>1, <3>2, <3>3, <3>4, Zenon
  <2>6. y = EnterVersion(run[r]) \/ y.at \in {"start", "fail task"}
    <3> DEFINE Far(z) == z = EnterVersion(run[r]) \/ z.at \in {"start", "fail task"}
    <3>1. Far(EnterGraph(run[r]))
      BY <2>2
    <3>2. Far(EnterIndex(run[r]))
      BY <2>3, <3>1
    <3>3. Far(EnterParse(run[r]))
      BY <2>4, <3>2
    <3>4. Far(EnterVersion(run[r]))
      OBVIOUS
    <3> HIDE DEF Far
    <3>5. Far(y)
      BY <1>4, <3>1, <3>2, <3>3, <3>4
    <3>. QED BY <3>5 DEF Far
  <2>. QED BY <2>1, <2>5, <2>6
<1>5. CASE Begin(r) \/ BindParse(r) \/ BindIndex(r) \/ FinishStep(r) \/ CatchStep(r)
  <2>1. \/ run'[r] \in {EnterParse(run[r]), EnterIndex(run[r]), EnterGraph(run[r]),
                        EnterVersion(run[r])}
        \/ run'[r].at \in {"bind", "catch task"} /\ run'[r].versioned = run[r].versioned
    <3>1. CASE Begin(r) \/ BindParse(r) \/ BindIndex(r)
      BY <1>0, <3>1 DEF Begin, BindParse, BindIndex
    <3>2. CASE FinishStep(r)
      BY <1>0, <3>2 DEF FinishStep, Run
    <3>3. CASE CatchStep(r)
      BY <1>0, <3>3 DEF CatchStep, Run
    <3>. QED BY <1>5, <3>1, <3>2, <3>3
  <2>. QED BY <1>4, <2>1 DEF Goes
<1>6. CASE Demote(r) \/ Promote(r) \/ ClearOthers(r) \/ Reindex(r)
  <2>1. /\ Demote(r) => RunGoes(r, "promote")
        /\ Promote(r) => RunGoes(r, "clear others")
        /\ ClearOthers(r) => RunGoes(r, "reindex")
        /\ Reindex(r) => RunGoes(r, "complete")
    BY DEF Demote, Promote, ClearOthers, Reindex, OnDocument
  <2>2. ASSUME NEW at, RunGoes(r, at)
        PROVE  run'[r].at = at /\ run'[r].versioned = run[r].versioned
    BY <2>2, RunGoesTo, GoesVersioned
  <2>3. \/ Demote(r) /\ run'[r].at = "promote"
        \/ Promote(r) /\ run'[r].at = "clear others"
        \/ ClearOthers(r) /\ run'[r].at = "reindex"
        \/ Reindex(r) /\ run'[r].at = "complete"
    BY <1>6, <2>1, <2>2
  <2>4. run'[r].versioned = run[r].versioned
    BY <1>6, <2>1, <2>2
  <2>. QED BY <2>3, <2>4 DEF Goes
<1>7. CASE Throws(r)
  <2>1. RunGoes(r, "catch document") \/ RunEnds(r, "fail task")
    BY <1>7 DEF Throws
  <2>2. CASE RunGoes(r, "catch document")
    <3>1. run'[r].at = "catch document" /\ run'[r].versioned = run[r].versioned
      BY <2>2, RunGoesTo, GoesVersioned
    <3>. QED BY <3>1 DEF Goes
  <2>3. CASE RunEnds(r, "fail task")
    <3>1. run'[r].at = "fail task" /\ run'[r].versioned = run[r].versioned
      BY <1>0, <2>3, RunEndsAt, EndsVersioned
    <3>. QED BY <3>1 DEF Goes
  <2>. QED BY <2>1, <2>2, <2>3
<1>8. CASE \/ Complete(r) \/ CatchTask(r) \/ RunFailsTask(r) \/ RunFailsSteps(r)
           \/ FailureUnsaved(r)
  <2>1. PICK at \in {"ack", "fail steps"} : RunEnds(r, at)
    BY <1>8 DEF Complete, CatchTask, RunFailsTask, RunFailsSteps, FailureUnsaved
  <2>2. run'[r].at = at /\ run'[r].versioned = run[r].versioned
    BY <1>0, <2>1, RunEndsAt, EndsVersioned
  <2>. QED BY <2>1, <2>2 DEF Goes
<1>9. CASE Acknowledge(r)
  <2>1. run'[r].at = "gone"
    BY <1>0, <1>9 DEF Acknowledge, NoRun
  <2>. QED BY <2>1 DEF Goes
<1>. QED BY <1>a, <1>1, <1>2, <1>3, <1>5, <1>6, <1>7, <1>8, <1>9, WithinVersioned
         DEF RunGoesOn

(* A completed task stays untouched until something sets another status.    *)
LEMMA CompletedStep ==
  ASSUME TypeOK, NEW r \in Runs, RunGoesOn(r), Sound, StatusInv, UNCHANGED deleting,
         task'.status = "completed"
  PROVE  UNCHANGED <<parsed, documents, es>> /\ (task.status = "completed" \/ Complete(r))
<1>0. /\ task \in [status : TaskStatus, documentId : Docs \cup {NoDoc}]
      /\ run[r].at \in Working \ Quiet => task.status = "running"
  BY DEF TypeOK, StatusInv
<1>1. CASE run[r].at \notin Working
  BY <1>1, EndedContent
<1>2. CASE Complete(r)
  BY <1>2 DEF Complete, OnlyTask
<1>3. CASE run[r].at \in Working /\ ~Complete(r)
  <2>1. ~(Begin(r) \/ RunFailsTask(r) \/ CatchTask(r))
    BY <1>0 DEF Begin, RunFailsTask, CatchTask, TaskFails
  <2>2. task.status = "completed"
    <3>1. CASE BindParse(r)
      BY <1>0, <3>1 DEF BindParse
    <3>. QED BY <1>3, <2>1, <3>1, RunGoesOnTask
  <2>3. run[r].at \in Quiet
    BY <1>0, <1>3, <2>2
  <2>4. LoadTask(r) \/ LoadSteps(r) \/ Throws(r) \/ FailureUnsaved(r)
    BY <1>3, <2>1, <2>3 DEF RunGoesOn, StartStep, CreateDocument, NameGroupFails,
       KeepDocument, ClearAssets, SaveAssets, FinishStep, BindParse, BindIndex, StepAt,
       ClearChunks, ClearEs, CleanUpFails, InsertBatch, UpsertBatch, UpsertFails, Publish,
       PendingGraph, SyncGraph, Demote, Promote, ClearOthers, Reindex, SwitchIndexFails,
       CatchDocument, CatchStep, RunFailsSteps, Acknowledge, OnDocument, RunAt, Quiet
  <2>. QED BY <2>2, <2>4 DEF LoadTask, LoadSteps, Throws, FailureUnsaved, OnlyRun, OnlyIgnored
<1>. QED BY <1>1, <1>2, <1>3

(* A run of a version leaves no document outside the group.                 *)
LEMMA RunStepGrouped ==
  ASSUME TypeOK, NEW r \in Runs, RunGoesOn(r), Grouped, run[r].versioned
  PROVE  Grouped'
<1>0. documents \in [AllDocs -> Document]
  BY DEF TypeOK
<1>1. CASE UNCHANGED documents
  BY <1>1 DEF Grouped, Present
<1>2. ASSUME NEW new, OwnWrite(r, new)
      PROVE  Grouped'
  <2>1. CASE Present(run[r].documentId)
    BY <1>0, <1>2, <2>1 DEF OwnWrite, Updated, Grouped, Present, MyDocument
  <2>2. CASE ~Present(run[r].documentId)
    BY <1>2, <2>2 DEF OwnWrite, Updated, Grouped, Present
  <2>. QED BY <2>1, <2>2
<1>3. ASSUME NEW d \in Docs, CreateDocument(r, d)
      PROVE  Grouped'
  <2>1. /\ documents'[d].inGroup
        /\ \A e \in AllDocs : e # d => documents'[e] = documents[e]
    BY <1>0, <1>3 DEF CreateDocument, NoDocument, AllDocs
  <2>. QED BY <2>1 DEF Grouped, Present
<1>4. \A d \in Docs : ~NameGroupFails(r, d)
  BY DEF NameGroupFails
<1>5. CASE Demote(r)
  <2>1. \A e \in AllDocs : /\ documents'[e].row = documents[e].row
                           /\ documents'[e].inGroup = documents[e].inGroup
    BY <1>0, <1>5 DEF Demote, Document
  <2>. QED BY <2>1 DEF Grouped, Present
<1>. QED BY <1>1, <1>2, <1>3, <1>4, <1>5, RunWrites

(* Each statement of the switch brings it one further: all flags off,       *)
LEMMA DemoteSwitches ==
  ASSUME TypeOK, NEW r \in Runs, Demote(r), Grouped
  PROVE  SwitchHolds(run[r])'
<1>0. documents \in [AllDocs -> Document] /\ run \in [Runs -> Run]
      /\ NoDoc \notin AllDocs
  BY NamesAssumption DEF TypeOK, AllDocs
<1>1. /\ Present(run[r].documentId) /\ run[r].documentId \in AllDocs
      /\ run[r].documentId \in Docs
  BY PresentHasId DEF Demote, AllDocs
<1>2. GroupOf(run[r].documentId) = {e \in AllDocs : Present(e)}
  BY <1>1 DEF GroupOf, Grouped
<1>3. \A e \in AllDocs : /\ documents'[e].row = documents[e].row
                         /\ Present(e) => ~documents'[e].current
  BY <1>0, <1>2 DEF Demote, Document
<1>4. Alone(NoDoc)'
  BY <1>0, <1>3 DEF Alone, Present
<1>5. run'[r].at = "promote"
  BY RunGoesTo DEF Demote
<1>. QED BY <1>4, <1>5 DEF SwitchHolds

(* ... one flag on,                                                         *)
LEMMA PromoteSwitches ==
  ASSUME TypeOK, NEW r \in Runs, Promote(r), SwitchHolds(run[r])
  PROVE  SwitchHolds(run[r])'
<1>0. documents \in [AllDocs -> Document] /\ run \in [Runs -> Run]
      /\ NoDoc \notin AllDocs
  BY NamesAssumption DEF TypeOK, AllDocs
<1>1. run[r].at = "promote" /\ MovesTo(r, "clear others")
  BY GoesMoves DEF Promote, OnDocument, RunAt
<1>2. CASE Present(run[r].documentId)
  <2>1. run[r].documentId \in AllDocs
    BY <1>2, PresentHasId DEF AllDocs
  <2>2. /\ documents'[run[r].documentId].current = TRUE
        /\ \A e \in AllDocs : e # run[r].documentId => documents'[e] = documents[e]
    BY <1>0, <1>2, <2>1, PromoteWrites DEF OwnWrite, Updated
  <2>3. Alone(NoDoc)
    BY <1>1, <1>2 DEF SwitchHolds
  <2>4. \A e \in AllDocs : Present(e)' => (documents'[e].current <=> e = run[r].documentId)
    BY <1>0, <2>2, <2>3 DEF Alone, Present
  <2>5. Alone(run[r].documentId)'
    BY <1>1, <2>4 DEF Alone, MovesTo
  <2>. QED BY <1>1, <2>5 DEF SwitchHolds, MovesTo
<1>3. CASE ~Present(run[r].documentId)
  <2>1. documents' = documents
    BY <1>3, PromoteWrites DEF OwnWrite, Updated
  <2>2. ~Present(run[r].documentId)'
    BY <1>1, <1>3, <2>1 DEF Present, MovesTo
  <2>. QED BY <2>2 DEF SwitchHolds
<1>. QED BY <1>2, <1>3

(* ... the others out of the index and this one in.                         *)
LEMMA IndexSwitches ==
  ASSUME TypeOK, NEW r \in Runs, ClearOthers(r) \/ Reindex(r), Grouped,
         SwitchHolds(run[r])
  PROVE  SwitchHolds(run[r])'
<1>0. es \in [AllDocs -> SUBSET Chunk]
  BY DEF TypeOK
<1>1. /\ run[r].at \in {"clear others", "reindex"}
      /\ documents' = documents
      /\ run'[r].documentId = run[r].documentId
  <2>1. RunGoes(r, "reindex") \/ RunGoes(r, "complete")
    BY DEF ClearOthers, Reindex
  <2>2. run'[r].documentId = run[r].documentId
    BY <2>1, GoesMoves DEF MovesTo
  <2>. QED BY <2>2 DEF ClearOthers, Reindex, RunAt, OnlyEs
<1>2. Present(run[r].documentId)' => Present(run[r].documentId)
  BY <1>1 DEF Present
<1>3. SUFFICES ASSUME Present(run[r].documentId)
               PROVE  SwitchHolds(run[r])'
  BY <1>2 DEF SwitchHolds
<1>4. Alone(run[r].documentId)'
  <2>1. Alone(run[r].documentId)
    BY <1>1, <1>3 DEF SwitchHolds
  <2>. QED BY <1>1, <2>1 DEF Alone, Present
<1>5. AloneInIndex(run[r].documentId)'
  <2>1. CASE ClearOthers(r)
    <3>1. GroupOf(run[r].documentId) = {e \in AllDocs : Present(e)}
      <4>1. run[r].documentId \in AllDocs
        BY <1>3, PresentHasId DEF AllDocs
      <4>. QED BY <1>3, <4>1 DEF GroupOf, Grouped
    <3>2. \A e \in AllDocs : Present(e) /\ e # run[r].documentId => es'[e] = {}
      BY <2>1, <3>1 DEF ClearOthers
    <3>. QED BY <1>1, <3>2 DEF AloneInIndex, Present
  <2>2. CASE Reindex(r)
    <3>1. AloneInIndex(run[r].documentId)
      BY <1>3, <2>2 DEF SwitchHolds, Reindex, RunAt
    <3>2. \A e \in AllDocs : e # run[r].documentId => es'[e] = es[e]
      BY <1>0, <2>2 DEF Reindex
    <3>. QED BY <1>1, <3>1, <3>2 DEF AloneInIndex, Present
  <2>. QED BY <2>1, <2>2
<1>6. run'[r].at # "promote"
  <2>1. RunGoes(r, "reindex") \/ RunGoes(r, "complete")
    BY DEF ClearOthers, Reindex
  <2>2. CASE RunGoes(r, "reindex")
    <3>1. run'[r].at = "reindex"
      BY <2>2, RunGoesTo
    <3>. QED BY <3>1
  <2>3. CASE RunGoes(r, "complete")
    <3>1. run'[r].at = "complete"
      BY <2>3, RunGoesTo
    <3>. QED BY <3>1
  <2>. QED BY <2>1, <2>2, <2>3
<1>. QED BY <1>4, <1>5, <1>6 DEF SwitchHolds

(* Whatever a run of a version does next, the switch is as far as it says.  *)
LEMMA RunSwitches ==
  ASSUME TypeOK, NEW r \in Runs, RunGoesOn(r), Sound', run[r].versioned, Grouped,
         SwitchHolds(run[r])
  PROVE  SwitchHolds(run[r])'
<1>1. CASE Demote(r) \/ Promote(r) \/ ClearOthers(r) \/ Reindex(r)
  BY <1>1, DemoteSwitches, PromoteSwitches, IndexSwitches
<1>2. CASE ~(Demote(r) \/ Promote(r) \/ ClearOthers(r) \/ Reindex(r))
  <2>1. run'[r].at \notin {"promote", "clear others", "reindex", "complete"}
    BY <1>2, RunGoesVersioned DEF Goes
  <2>. QED BY <2>1 DEF SwitchHolds
<1>. QED BY <1>1, <1>2

(* A step that stores nothing leaves every switch where it is.              *)
LEMMA SwitchStays ==
  ASSUME UNCHANGED <<documents, es>>, NEW r \in Runs, run'[r] = run[r],
         SwitchHolds(run[r])
  PROVE  SwitchHolds(run[r])'
<1>1. Alone(NoDoc) => Alone(NoDoc)'
  BY DEF Alone, Present
<1>2. Alone(run[r].documentId) => Alone(run[r].documentId)'
  BY DEF Alone, Present
<1>3. AloneInIndex(run[r].documentId) => AloneInIndex(run[r].documentId)'
  BY DEF AloneInIndex, Present
<1>4. Present(run[r].documentId)' => Present(run[r].documentId)
  BY DEF Present
<1>. QED BY <1>1, <1>2, <1>3, <1>4 DEF SwitchHolds

(* Before the upload no run is on its way.                                  *)
LEMMA AbsentIsIdle ==
  ASSUME TypeOK, OneInv, Sound, NEW r \in Runs, run[r].at \notin {"idle", "gone"}
  PROVE  task.status # "absent"
BY DEF OneInv, Active

(* Every step keeps the invariant: of a run on its way,                     *)
LEMMA RunGoesOnVersion ==
  ASSUME TypeOK, OneInv, StatusInv, ContentInv, VersionInv, NEW r \in Runs,
         RunGoesOn(r), UNCHANGED <<request, deleting, crashes>>
  PROVE  VersionInv'
<1>. SUFFICES ASSUME Sound'
              PROVE  VersionInv'
  BY DEF VersionInv
<1>0. run \in [Runs -> Run] /\ run[r] \in Run
  BY DEF TypeOK
<1>1. /\ Sound /\ UNCHANGED <<queue, request>>
      /\ \A s \in Runs : s # r => run'[s] = run[s]
      /\ run[r].at \notin {"idle", "gone"}
  BY RunGoesOnAlone
<1>2. Straight' = Straight
  BY <1>1 DEF Straight, Versioned, Retried
<1>3. task.status # "absent" /\ task'.status # "absent"
  <2>1. task.status # "absent"
    BY <1>1, AbsentIsIdle
  <2>. QED BY <2>1, RunGoesOnStatus
<1>4. FirstRequest'
  <2>1. FirstRequest
    BY <1>1 DEF VersionInv
  <2>. QED BY <1>1, <1>3, <2>1 DEF FirstRequest, Retried
<1>5. SUFFICES ASSUME Straight
               PROVE  /\ Grouped'
                      /\ queue'[FALSE] = 0
                      /\ \A s \in Active' : run'[s].versioned
                      /\ \A s \in Runs : run'[s].at \in Working => SwitchHolds(run[s])'
                      /\ task'.status = "completed" => Switched'
  BY <1>2, <1>3, <1>4 DEF VersionInv
<1>6. /\ Grouped /\ queue[FALSE] = 0
      /\ \A s \in Active : run[s].versioned
      /\ \A s \in Runs : run[s].at \in Working => SwitchHolds(run[s])
      /\ task.status = "completed" => Switched
  BY <1>1, <1>5 DEF VersionInv
<1>7. run[r].versioned
  BY <1>1, <1>6 DEF Active
<1>8. Grouped'
  BY <1>6, <1>7, RunStepGrouped
<1>9. ASSUME NEW s \in Active'
      PROVE  run'[s].versioned
  <2>1. s \in Runs /\ run'[s].at \notin {"idle", "gone"}
    BY <1>9 DEF Active
  <2>2. CASE s # r
    <3>1. run'[s] = run[s]
      BY <1>1, <2>1, <2>2
    <3>2. s \in Active
      BY <2>1, <3>1 DEF Active
    <3>. QED BY <1>6, <3>1, <3>2
  <2>3. CASE s = r
    BY <1>7, <2>1, <2>3, RunGoesVersioned DEF Goes
  <2>. QED BY <2>2, <2>3
<1>10. ASSUME NEW s \in Runs, run'[s].at \in Working
       PROVE  SwitchHolds(run[s])'
  <2>1. CASE s = r
    <3>1. SwitchHolds(run[r])
      BY <1>6, <1>10, <2>1, RunGoesOnWorks
    <3>2. SwitchHolds(run[r])'
      BY <1>6, <1>7, <3>1, RunSwitches
    <3>. QED BY <2>1, <3>2
  <2>2. CASE s # r
    <3>1. run'[s] = run[s]
      BY <1>1, <2>2
    <3>2. SwitchHolds(run[s]) /\ run[s].at \in Working
      BY <1>6, <1>10, <3>1
    <3>3. run[r].at \notin Working
      BY <1>1, <2>2, <3>2 DEF OneInv, OneWorks
    <3>4. UNCHANGED <<documents, es>>
      BY <3>3, EndedContent
    <3>. QED BY <3>1, <3>2, <3>4, SwitchStays
  <2>. QED BY <2>1, <2>2
<1>11. ASSUME task'.status = "completed"
       PROVE  Switched'
  <2>1. /\ UNCHANGED <<parsed, documents, es>>
        /\ task.status = "completed" \/ Complete(r)
    BY <1>1, <1>11, CompletedStep
  <2>2. CASE Complete(r)
    <3>1. run[r].at = "complete" /\ run[r].at \in Working
      BY <2>2 DEF Complete, RunAt, Working, OutsideTry
    <3>2. SwitchHolds(run[r]) /\ Names(run[r]) /\ Held
      BY <1>1, <1>6, <3>1 DEF ContentInv, RunHolds
    <3>3. parsed # NoDoc => Present(parsed) /\ run[r].documentId = parsed
      BY <3>1, <3>2 DEF Held, ParseHeld, Names, IsParsed, Switching
    <3>4. Switched
      BY <3>1, <3>2, <3>3 DEF SwitchHolds, Switched
    <3>. QED BY <2>1, <3>4 DEF Switched, Alone, AloneInIndex, Present
  <2>3. CASE task.status = "completed"
    BY <1>6, <2>1, <2>3 DEF Switched, Alone, AloneInIndex, Present
  <2>. QED BY <2>1, <2>2, <2>3
<1>. QED BY <1>1, <1>6, <1>8, <1>9, <1>10, <1>11

(* ... the delivery of a job, which can only be one of the version,         *)
LEMMA DeliverVersion ==
  ASSUME TypeOK, OneInv, VersionInv, NEW r \in Runs, NEW v \in BOOLEAN, Deliver(r, v),
         UNCHANGED <<request, deleting, crashes>>
  PROVE  VersionInv'
<1>. SUFFICES ASSUME Sound'
              PROVE  VersionInv'
  BY DEF VersionInv
<1>0. run \in [Runs -> Run] /\ queue \in [BOOLEAN -> Nat]
  BY DEF TypeOK
<1>1. /\ Sound /\ UNCHANGED <<request, task, parsed, documents, es>>
      /\ run[r].at = "idle"
  BY DEF Deliver, Sound, RunAt
<1>2. run'[r].at = "load task" /\ run'[r].versioned = v
      /\ \A s \in Runs : s # r => run'[s] = run[s]
  BY <1>0, DeliveredAt
<1>3. task.status # "absent"
  <2>1. Waiting
    BY Zenon DEF Deliver, Waiting
  <2>. QED BY <1>1, <2>1 DEF OneInv
<1>4. FirstRequest' /\ Straight' = Straight
  BY <1>1 DEF VersionInv, FirstRequest, Straight, Versioned, Retried
<1>5. SUFFICES ASSUME Straight
               PROVE  /\ Grouped'
                      /\ queue'[FALSE] = 0
                      /\ \A s \in Active' : run'[s].versioned
                      /\ \A s \in Runs : run'[s].at \in Working => SwitchHolds(run[s])'
                      /\ task'.status = "completed" => Switched'
  BY <1>1, <1>3, <1>4 DEF VersionInv
<1>6. /\ Grouped /\ queue[FALSE] = 0
      /\ \A s \in Active : run[s].versioned
      /\ \A s \in Runs : run[s].at \in Working => SwitchHolds(run[s])
      /\ task.status = "completed" => Switched
  BY <1>1, <1>5 DEF VersionInv
<1>7. v = TRUE
  <2>1. v # FALSE
    <3>1. ~(0 > 0)
      OBVIOUS
    <3>2. queue[v] > 0
      BY DEF Deliver
    <3>. QED BY <1>6, <3>1, <3>2, Zenon
  <2>. QED BY <2>1, Zenon
<1>8. queue'[FALSE] = 0
  <2>1. queue'[FALSE] = queue[FALSE]
    BY <1>0, <1>7, Zenon DEF Deliver
  <2>. QED BY <1>6, <2>1
<1>9. \A s \in Active' : run'[s].versioned
  BY <1>2, <1>6, <1>7 DEF Active
<1>10. ASSUME NEW s \in Runs, run'[s].at \in Working
       PROVE  SwitchHolds(run[s])'
  <2>1. CASE s = r
    <3>1. run'[s].at = "load task"
      BY <1>2, <2>1
    <3>. QED BY <3>1 DEF SwitchHolds
  <2>2. CASE s # r
    <3>1. run'[s] = run[s] /\ SwitchHolds(run[s])
      BY <1>2, <1>6, <1>10, <2>2
    <3>. QED BY <1>1, <3>1, SwitchStays
  <2>. QED BY <2>1, <2>2
<1>11. Grouped' /\ (task'.status = "completed" => Switched')
  BY <1>1, <1>6 DEF Grouped, Switched, Alone, AloneInIndex, Present
<1>. QED BY <1>8, <1>9, <1>10, <1>11

(* ... the upload itself, which finds nothing at work,                      *)
LEMMA SaveTaskVersion ==
  ASSUME TypeOK, OneInv, VersionInv, NEW q \in Requests, NEW v \in BOOLEAN,
         SaveTask(q, v), UNCHANGED <<parsed, documents, es, run, deleting, crashes>>
  PROVE  VersionInv'
<1>. SUFFICES ASSUME Sound'
              PROVE  VersionInv'
  BY DEF VersionInv
<1>0. /\ request \in [Requests -> Request] /\ queue \in [BOOLEAN -> Nat]
      /\ task \in [status : TaskStatus, documentId : Docs \cup {NoDoc}]
  BY DEF TypeOK
<1>1. /\ Sound /\ UNCHANGED <<queue, documents, run>>
      /\ task.status = "absent" /\ task'.status = "pending"
  BY <1>0 DEF SaveTask, Sound
<1>2. FirstRequest /\ Grouped /\ Active = {} /\ ~Waiting
  BY <1>1 DEF VersionInv, OneInv
<1>3. \A p \in Requests : request[p].at = "idle" /\ ~request[p].versioned
                          /\ ~request[p].retries
  BY <1>1, <1>2 DEF FirstRequest
<1>4. /\ request'[q].at = "save steps" /\ request'[q].retries = request[q].retries
      /\ \A p \in Requests : p # q => request'[p] = request[p]
  BY <1>0 DEF SaveTask, Request
<1>5. FirstRequest'
  BY <1>1, <1>3, <1>4 DEF FirstRequest
<1>6. Grouped'
  BY <1>1, <1>2 DEF Grouped, Present
<1>7. queue'[FALSE] = 0
  <2>1. ~(queue[FALSE] > 0)
    BY <1>2, Zenon DEF Waiting
  <2>2. queue[FALSE] \in Nat
    BY <1>0, QueueEntry
  <2>3. \A n \in Nat : ~(n > 0) => n = 0
    OBVIOUS
  <2>4. queue[FALSE] = 0
    BY <2>1, <2>2, <2>3
  <2>. QED BY <1>1, <2>4
<1>8. Active' = {} /\ \A r \in Runs : run'[r].at \notin Working
  <2>1. \A r \in Runs : run[r].at \in {"idle", "gone"}
    BY <1>2 DEF Active
  <2>. QED BY <1>1, <2>1 DEF Active, Working, InTry, OutsideTry, InCatch
<1>. QED BY <1>1, <1>5, <1>6, <1>7, <1>8 DEF VersionInv

(* The other statements of a request that does not retry. *)
RequestGoesOn(q) ==
  \/ SaveSteps(q) \/ WriteStepsFails(q) \/ ResetTask(q) \/ ResetSteps(q)
  \/ AddJob(q) \/ AddJobFails(q) \/ RegisterJobFails(q)
  \/ RequestFailsTask(q) \/ RequestFailsSteps(q) \/ RequestStops(q)

(* ... the rest of its request, alone until one retries,                    *)
LEMMA RequestGoesOnVersion ==
  ASSUME TypeOK, OneInv, StatusInv, VersionInv, NEW q \in Requests, RequestGoesOn(q),
         UNCHANGED <<parsed, documents, es, run, deleting, crashes>>
  PROVE  VersionInv'
<1>. SUFFICES ASSUME Sound'
              PROVE  VersionInv'
  BY DEF VersionInv
<1>0. /\ request \in [Requests -> Request] /\ queue \in [BOOLEAN -> Nat]
      /\ task \in [status : TaskStatus, documentId : Docs \cup {NoDoc}]
  BY DEF TypeOK
<1>1. Sound /\ UNCHANGED <<parsed, documents, es, run>>
  BY DEF Sound, RequestGoesOn, SaveSteps, WriteStepsFails, ResetTask, ResetSteps, AddJob,
     AddJobFails, RegisterJobFails, RequestFailsTask, RequestFailsSteps, RequestStops, Ignores
<1>2. PICK at \in {"add", "done", "reset steps", "fail task", "fail steps"} :
        RequestGoes(q, at)
  BY DEF RequestGoesOn, SaveSteps, WriteStepsFails, ResetTask, ResetSteps, AddJob,
     AddJobFails, RegisterJobFails, RequestFailsTask, RequestFailsSteps, RequestStops
<1>3. /\ request'[q].at = at /\ request'[q].versioned = request[q].versioned
      /\ request'[q].retries = request[q].retries
      /\ \A p \in Requests : p # q => request'[p] = request[p]
  BY <1>0, <1>2 DEF RequestGoes, Request
<1>4. request[q].at # "idle"
  BY DEF RequestGoesOn, SaveSteps, WriteStepsFails, ResetTask, ResetSteps, AddJob,
     AddJobFails, RegisterJobFails, RequestFailsTask, RequestFailsSteps, RequestStops, RequestAt, Publishing
<1>5. /\ \A p \in Requests : /\ request'[p].versioned = request[p].versioned
                             /\ request'[p].retries = request[p].retries
                             /\ request'[p].at = "idle" <=> request[p].at = "idle"
      /\ Straight' = Straight /\ Retried' = Retried
  <2>1. at # "idle"
    BY <1>2
  <2>2. \A p \in Requests : /\ request'[p].versioned = request[p].versioned
                            /\ request'[p].retries = request[p].retries
                            /\ request'[p].at = "idle" <=> request[p].at = "idle"
    BY <1>3, <1>4, <2>1
  <2>. QED BY <2>2 DEF Straight, Versioned, Retried
<1>6. FirstRequest /\ task.status # "absent"
  BY <1>1, <1>4 DEF VersionInv, FirstRequest
<1>7. task'.status \in {task.status, "pending", "failed"}
  <2>1. \/ task' = task
        \/ task' = [task EXCEPT !.status = "pending"]
        \/ task' = [task EXCEPT !.status = "failed"]
    BY DEF RequestGoesOn, SaveSteps, WriteStepsFails, ResetTask, ResetSteps, AddJob,
       AddJobFails, RegisterJobFails, RequestFailsTask, RequestFailsSteps, RequestStops, TaskFails
  <2>. QED BY <1>0, <2>1
<1>8. FirstRequest'
  BY <1>5, <1>6, <1>7 DEF FirstRequest
<1>9. SUFFICES ASSUME Straight
               PROVE  VersionInv'
  BY <1>5, <1>6, <1>7, <1>8 DEF VersionInv
<1>10. /\ Grouped /\ queue[FALSE] = 0
       /\ task.status = "completed" => Switched
       /\ \A r \in Active : run[r].versioned
       /\ \A r \in Runs : run[r].at \in Working => SwitchHolds(run[r])
  BY <1>1, <1>9 DEF VersionInv
<1>11. queue'[FALSE] = 0
  <2>1. CASE AddJob(q) \/ RegisterJobFails(q)
    <3>1. PICK p \in Requests : request[p].versioned
      BY <1>9 DEF Straight, Versioned
    <3>2. request[p].at # "idle"
      BY <1>6, <3>1 DEF FirstRequest
    <3>3. p = q
      BY <1>4, <1>6, <1>9, <3>2 DEF FirstRequest, Straight
    <3>4. request[q].versioned = TRUE
      <4>1. request[q].versioned \in BOOLEAN
        BY <1>0 DEF Request
      <4>. QED BY <3>1, <3>3, <4>1, Zenon
    <3>5. queue'[FALSE] = queue[FALSE]
      BY <1>0, <2>1, <3>4, Zenon DEF AddJob, RegisterJobFails
    <3>. QED BY <1>10, <3>5
  <2>2. CASE ~(AddJob(q) \/ RegisterJobFails(q))
    <3>1. queue' = queue
      BY <2>2 DEF RequestGoesOn, SaveSteps, WriteStepsFails, ResetTask, ResetSteps,
         AddJobFails, RequestFailsTask, RequestFailsSteps, RequestStops
    <3>. QED BY <1>10, <3>1
  <2>. QED BY <2>1, <2>2
<1>12. Grouped' /\ (task'.status = "completed" => Switched')
  BY <1>1, <1>7, <1>10 DEF Grouped, Switched, Alone, AloneInIndex, Present
<1>13. \A r \in Active' : run'[r].versioned
  BY <1>1, <1>10 DEF Active
<1>14. ASSUME NEW r \in Runs, run'[r].at \in Working
       PROVE  SwitchHolds(run[r])'
  <2>1. run'[r] = run[r]
    BY <1>1
  <2>2. SwitchHolds(run[r])
    BY <1>10, <1>14, <2>1
  <2>. QED BY <1>1, <2>1, <2>2, SwitchStays
<1>. QED BY <1>8, <1>11, <1>12, <1>13, <1>14 DEF VersionInv

(* ... a retry, after which the version is not straight any more,           *)
LEMMA RequestStepVersion ==
  ASSUME TypeOK, OneInv, StatusInv, VersionInv, RequestStep
  PROVE  VersionInv'
<1>. SUFFICES ASSUME Sound'
              PROVE  VersionInv'
  BY DEF VersionInv
<1>1. UNCHANGED <<parsed, documents, es, run, deleting, crashes>>
  BY DEF RequestStep
<1>2. PICK q \in Requests : \/ \E versioned \in BOOLEAN : SaveTask(q, versioned)
                            \/ RetryAllowed(q)
                            \/ RequestGoesOn(q)
  BY DEF RequestStep, RequestGoesOn
<1>3. CASE RetryAllowed(q)
  <2>0. request \in [Requests -> Request]
    BY DEF TypeOK
  <2>1. /\ request'[q].at = "reset task" /\ request'[q].retries = TRUE
        /\ \A p \in Requests : p # q => request'[p] = request[p]
        /\ task' = task /\ task.status = "failed"
    BY <1>3, <2>0 DEF RetryAllowed, Request
  <2>2. Sound
    BY <1>3 DEF RetryAllowed, NotesOverlap, Sound
  <2>3. Retried'
    BY <2>1 DEF Retried
  <2>4. FirstRequest'
    BY <2>1, <2>2, <2>3 DEF VersionInv, FirstRequest
  <2>. QED BY <2>1, <2>3, <2>4 DEF VersionInv, Straight
<1>. QED BY <1>1, <1>2, <1>3, SaveTaskVersion, RequestGoesOnVersion

(* ... a step that only takes rows or chunks away,                          *)
LEMMA LessStaysVersion ==
  ASSUME TypeOK, VersionInv, Sound, UNCHANGED <<request, queue, run>>,
         task'.status = task.status, parsed' \in {parsed, NoDoc},
         \A e \in AllDocs : Present(e)' => Present(e) /\ documents'[e] = documents[e],
         \A e \in AllDocs : es'[e] \subseteq es[e]
  PROVE  VersionInv'
<1>1. FirstRequest' /\ Straight' = Straight
  BY DEF VersionInv, FirstRequest, Straight, Versioned, Retried
<1>2. Grouped => Grouped'
  BY DEF Grouped
<1>3. ASSUME NEW d
      PROVE  /\ Alone(d) => Alone(d)'
             /\ AloneInIndex(d) => AloneInIndex(d)'
  BY DEF Alone, AloneInIndex
<1>4. Switched => Switched'
  BY <1>3 DEF Switched
<1>5. ASSUME NEW r \in Runs, SwitchHolds(run[r])
      PROVE  SwitchHolds(run[r])'
  <2>1. PICK x : x = run[r]
    OBVIOUS
  <2>2. run'[r] = x
    BY <2>1
  <2>3. x.documentId \in AllDocs \cup {NoDoc}
    BY <2>1 DEF TypeOK, Run, AllDocs
  <2>4. Present(x.documentId)' => Present(x.documentId)
    BY <2>3 DEF Present
  <2>5. SwitchHolds(x)'
    BY <1>3, <1>5, <2>1, <2>4 DEF SwitchHolds
  <2>. QED BY <2>2, <2>5 DEF SwitchHolds
<1>6. Active' = Active
  BY DEF Active
<1>7. FirstRequest
  BY DEF VersionInv
<1>. QED BY <1>1, <1>2, <1>4, <1>5, <1>6 DEF VersionInv

(* ... which is all a user does,                                            *)
LEMMA UserStepVersion ==
  ASSUME TypeOK, VersionInv, UserStep, Sound'
  PROVE  VersionInv'
<1>0. documents \in [AllDocs -> Document] /\ es \in [AllDocs -> SUBSET Chunk]
      /\ task \in [status : TaskStatus, documentId : Docs \cup {NoDoc}]
  BY DEF TypeOK
<1>1. CASE DeleteRow
  <2>1. /\ Sound /\ UNCHANGED <<request, queue, run, es>>
        /\ task'.status = task.status /\ parsed' \in {parsed, NoDoc}
    BY <1>0, <1>1 DEF DeleteRow, Sound
  <2>2. \A e \in AllDocs : Present(e)' => Present(e) /\ documents'[e] = documents[e]
    BY <1>0, <1>1 DEF DeleteRow, Present, NoDocument
  <2>. QED BY <2>1, <2>2, LessStaysVersion
<1>2. ASSUME NEW d \in Docs, DeleteFromIndex(d)
      PROVE  VersionInv'
  <2>1. /\ Sound /\ UNCHANGED <<request, queue, run, documents, task, parsed>>
        /\ es' = [es EXCEPT ![d] = {}]
    BY <1>2 DEF DeleteFromIndex, Ignores, Sound
  <2>2. \A e \in AllDocs : es'[e] \subseteq es[e]
    BY <1>0, <2>1
  <2>3. \A e \in AllDocs : Present(e)' => Present(e) /\ documents'[e] = documents[e]
    BY <2>1 DEF Present
  <2>. QED BY <2>1, <2>2, <2>3, LessStaysVersion
<1>. QED BY <1>1, <1>2 DEF UserStep

(* ... and a crash, which puts back jobs of the version only.               *)
LEMMA CrashVersion ==
  ASSUME TypeOK, OneInv, VersionInv, Crash, Sound'
  PROVE  VersionInv'
<1>1. Sound /\ UNCHANGED <<task, parsed, documents, es, request>>
  BY DEF Crash, NotesOverlap, Sound
<1>2. \A r \in Runs : run'[r].at \in {"idle", "gone"}
  BY DEF TypeOK, Crash, NoRun, Active
<1>3. Active' = {} /\ \A r \in Runs : run'[r].at \notin Working
  BY <1>2 DEF Active, Working, InTry, OutsideTry, InCatch
<1>4. FirstRequest' /\ Straight' = Straight
  BY <1>1 DEF VersionInv, FirstRequest, Straight, Versioned, Retried
<1>5. /\ Grouped => Grouped'
      /\ Switched => Switched'
  BY <1>1 DEF Grouped, Switched, Alone, AloneInIndex, Present
<1>6. ASSUME Straight
      PROVE  queue'[FALSE] = 0
  <2>1. queue[FALSE] = 0 /\ \A r \in Active : run[r].versioned
    BY <1>1, <1>6 DEF VersionInv
  <2>2. Recovered(FALSE) = {}
    BY <2>1, Zenon DEF Recovered
  <2>3. queue'[FALSE] = queue[FALSE] + Cardinality(Recovered(FALSE))
    BY Zenon DEF Crash
  <2>4. Cardinality(Recovered(FALSE)) = 0
    BY <2>2, FS_EmptySet
  <2>5. queue[FALSE] + 0 = 0
    BY <2>1
  <2>. QED BY <2>3, <2>4, <2>5, Zenon
<1>. QED BY <1>1, <1>3, <1>4, <1>5, <1>6 DEF VersionInv

(* Every step keeps it.                                                     *)
LEMMA NextVersion ==
  ASSUME TypeOK, OneInv, StatusInv, ContentInv, VersionInv, [Next]_vars
  PROVE  VersionInv'
<1>. SUFFICES ASSUME Sound'
              PROVE  VersionInv'
  BY DEF VersionInv
<1>1. CASE RequestStep
  BY <1>1, RequestStepVersion
<1>2. CASE RunStep
  <2>1. UNCHANGED <<request, deleting, crashes>>
    BY <1>2 DEF RunStep
  <2>. QED BY <1>2, <2>1, RunStepIsOne, RunGoesOnVersion, DeliverVersion
<1>3. CASE UserStep
  BY <1>3, UserStepVersion
<1>4. CASE Crash
  BY <1>4, CrashVersion
<1>5. CASE UNCHANGED vars
  <2>1. Sound /\ UNCHANGED vars
    BY <1>5 DEF vars, Sound
  <2>. QED BY <2>1, LessStaysVersion DEF vars, Present
<1>. QED BY <1>1, <1>2, <1>3, <1>4, <1>5 DEF Next

(* Before the upload only the base document is there, in its group.         *)
LEMMA InitVersion == Init => VersionInv
<1>. SUFFICES ASSUME Init
              PROVE  VersionInv
  OBVIOUS
<1>1. task.status = "absent"
      /\ \A q \in Requests : request[q].at = "idle" /\ ~request[q].versioned
                             /\ ~request[q].retries
  BY DEF Init
<1>2. FirstRequest /\ ~Straight
  BY <1>1 DEF FirstRequest, Straight, Versioned
<1>3. Grouped
  BY DEF Init, Grouped, Present, NoDocument
<1>. QED BY <1>2, <1>3 DEF VersionInv

(* It holds in every reachable state.                                       *)
LEMMA VersionInvariant == Spec => []VersionInv
<1>1. TypeOK /\ OneInv /\ StatusInv /\ ContentInv /\ VersionInv /\ [Next]_vars
        => VersionInv'
  BY NextVersion
<1>. QED BY <1>1, InitVersion, TypeCorrect, OneAtATime, StatusInvariant, ContentInvariant,
         PTL DEF Spec

(* It gives the property: the group is every document there is.             *)
LEMMA VersionIsSwitched ==
  ASSUME TypeOK, VersionInv
  PROVE  VersionSwitched
<1>. SUFFICES ASSUME NEW q \in Requests, Sound, request[q].versioned,
                     task.status = "completed",
                     \A p \in Requests : ~request[p].retries, Present(parsed)
              PROVE  /\ {d \in AllDocs : Present(d) /\ documents[d].inGroup
                                          /\ documents[d].current} = {parsed}
                     /\ \A d \in GroupOf(parsed) \ {parsed} : es[d] = {}
  BY DEF VersionSwitched
<1>1. Straight
  BY DEF Straight, Versioned, Retried
<1>2. Grouped /\ Alone(parsed) /\ AloneInIndex(parsed)
  BY <1>1 DEF VersionInv, Switched, Present
<1>3. parsed \in AllDocs
  BY DEF TypeOK, Present, AllDocs
<1>4. documents[parsed].inGroup /\ documents[parsed].current
  BY <1>2, <1>3 DEF Grouped, Alone
<1>5. {d \in AllDocs : Present(d) /\ documents[d].inGroup /\ documents[d].current}
        = {parsed}
  BY <1>2, <1>3, <1>4 DEF Alone
<1>6. \A d \in GroupOf(parsed) \ {parsed} : es[d] = {}
  BY <1>2, <1>4 DEF GroupOf, AloneInIndex
<1>. QED BY <1>5, <1>6

(* A version that went through without a retry ends as the only current     *)
(* one of its group and alone in the index: setCurrentDocumentVersion       *)
(* takes the flag from all, gives it to one and then clears the index of    *)
(* the others, and a run delivered anew starts over with the first of       *)
(* these.                                                                   *)
THEOREM VersionIsCurrent == Spec => []VersionSwitched
<1>. QED BY VersionIsSwitched, VersionInvariant, TypeCorrect, PTL

==============================================================================
