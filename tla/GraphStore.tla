----------------------------- MODULE GraphStore -----------------------------
(***************************************************************************)
(* The knowledge graph of the documents (KnowledgeGraphService over Neo4j) *)
(* and everything that writes it: the graph step of a document task, the   *)
(* sync scheduled after an upload, the rebuild of a base, the switch of a  *)
(* version, a deletion, and the toggle of a chunk.  Every query is a step  *)
(* of its own, none is in a transaction, and no writer waits for another.  *)
(*                                                                         *)
(* A chunk stands for its heading and the relations extracted from it.     *)
(* The documents are the versions of one group.                            *)
(***************************************************************************)
EXTENDS Integers, FiniteSets

CONSTANTS Versions0, Pieces, OwnerOf, Writers, MaxGraphFaults, MaxGraphOps
ASSUME PiecesHaveOwners == OwnerOf \in [Pieces -> Versions0]

VARIABLES
  rows,    \* PostgreSQL: documents, current ones, enabled chunks, sync status
  graph,   \* Neo4j: document nodes, chunk nodes with flags, topics, relations
  graphWriter,  \* what each writer in flight is doing
  graphLeft,  \* faults and operations that may still happen
  torn     \* ghost: why the graph of a document may differ from its rows

graphVars == <<rows, graph, graphWriter, graphLeft, torn>>

GraphJobs == {"none", "task", "after", "rebuild", "clean", "remove", "toggle"}
GraphSteps == {"clean", "pending", "read", "delete", "chunks", "topics",
               "relations", "undo", "status", "row"}
Torn == {"overlap", "lost", "crash", "promoted", "absent"}
Status == {"unknown", "pending", "indexed", "skipped", "failed"}
NoGraphJob == [kind |-> "none", at |-> "read", part |-> 1, of |-> {}, on |-> {},
          shown |-> TRUE, alone |-> TRUE, result |-> "unknown"]

GraphTypeOK ==
  /\ rows \in [docs : SUBSET Versions0, current : SUBSET Versions0,
               enabled : SUBSET Pieces, status : [Versions0 -> Status]]
  /\ graph \in [docs : SUBSET Versions0, chunks : SUBSET Pieces, on : SUBSET Pieces,
                shown : SUBSET Pieces, topics : SUBSET Pieces, relations : SUBSET Pieces]
  /\ graphWriter \in [Writers -> [kind : GraphJobs, at : GraphSteps, part : 1..3,
                             of : SUBSET Versions0, on : SUBSET Pieces,
                             shown : BOOLEAN, alone : BOOLEAN, result : Status]]
  /\ graphLeft \in [faults : 0..MaxGraphFaults, ops : 0..MaxGraphOps]
  /\ torn \in [Versions0 -> SUBSET Torn]

GraphInit ==
  /\ \E d \in Versions0 :
       rows = [docs |-> Versions0, current |-> {d}, enabled |-> Pieces,
               status |-> [e \in Versions0 |-> "unknown"]]
  /\ graph = [docs |-> {}, chunks |-> {}, on |-> {}, shown |-> {}, topics |-> {},
              relations |-> {}]
  /\ graphWriter = [w \in Writers |-> NoGraphJob]
  /\ graphLeft = [faults |-> MaxGraphFaults, ops |-> MaxGraphOps]
  /\ torn = [d \in Versions0 |-> {}]

OwnedBy(owners) == {c \in Pieces : OwnerOf[c] \in owners}
Busy(d) == {w \in Writers : graphWriter[w].kind # "none" /\ d \in graphWriter[w].of}
\* A rebuild works on one document of its list at a time, the others wait.
DocumentOf(w) == CHOOSE d \in graphWriter[w].of : TRUE

\* The graph query of a retrieval; its chunks are checked against the rows later.
Retrieved == graph.chunks \cap graph.on \cap graph.shown
\* The chunks whose relations the graph pages show.
VisibleChunks == rows.enabled \cap OwnedBy(rows.docs \cap rows.current)
Listed == graph.relations \cap graph.chunks \cap graph.on \cap VisibleChunks

-----------------------------------------------------------------------------
\* A writer sets out on documents; those another writer is on are torn.
SetOut(w, job, because) ==
  LET shared == {d \in Versions0 : Busy(d) # {} /\ (d \in job.of \/ because[d] # {})}
  IN  /\ graphWriter[w].kind = "none" /\ graphLeft.ops > 0
      /\ graphLeft' = [graphLeft EXCEPT !.ops = @ - 1]
      /\ graphWriter' = [v \in Writers |->
                      IF v = w THEN (IF job.of = {} THEN NoGraphJob
                                     ELSE [job EXCEPT !.alone = shared \cap job.of = {}])
                      ELSE IF graphWriter[v].of \cap shared # {}
                      THEN [graphWriter[v] EXCEPT !.alone = FALSE] ELSE graphWriter[v]]
      /\ torn' = [d \in Versions0 |->
                    torn[d] \cup because[d] \cup (IF d \in shared THEN {"overlap"} ELSE {})]
Whole == [d \in Versions0 |-> {}]

\* The graph step of a task cleans first and says pending; the sync after an
\* upload and the rebuild of the current documents do not.
SyncGraphOnly(w) == \E d \in rows.docs :
  /\ SetOut(w, [NoGraphJob EXCEPT !.kind = "task", !.at = "clean", !.of = {d},
                             !.shown = d \in rows.current], Whole)
  /\ UNCHANGED <<rows, graph>>
SyncAfterUpload(w) == \E d \in rows.docs :
  /\ SetOut(w, [NoGraphJob EXCEPT !.kind = "after", !.of = {d}], Whole)
  /\ UNCHANGED <<rows, graph>>
RebuildGraph(w) ==
  /\ rows.docs \cap rows.current # {}
  /\ SetOut(w, [NoGraphJob EXCEPT !.kind = "rebuild", !.at = "clean",
                             !.of = rows.docs \cap rows.current], Whole)
  /\ UNCHANGED <<rows, graph>>
\* The other versions are cleaned; nothing writes the graph of the promoted one.
SwitchVersion(w) == \E d \in rows.docs \ rows.current :
  /\ rows' = [rows EXCEPT !.current = {d}]
  /\ SetOut(w, [NoGraphJob EXCEPT !.kind = "clean", !.at = "clean", !.of = rows.docs \ {d}],
            [Whole EXCEPT ![d] = {"promoted"}])
  /\ UNCHANGED graph
Archive(w) == \E d \in rows.docs \cap rows.current :
  /\ rows' = [rows EXCEPT !.current = @ \ {d}]
  /\ SetOut(w, [NoGraphJob EXCEPT !.kind = "clean", !.at = "clean", !.of = {d}], Whole)
  /\ UNCHANGED graph
RemoveDocument(w) == \E d \in rows.docs :
  /\ SetOut(w, [NoGraphJob EXCEPT !.kind = "remove", !.at = "clean", !.of = {d}], Whole)
  /\ UNCHANGED <<rows, graph>>
\* The row first; a chunk the graph does not hold is not added when enabled.
ToggleChunk(w) == \E c \in OwnedBy(rows.docs) :
  LET on == c \notin rows.enabled
  IN  /\ rows' = [rows EXCEPT !.enabled = IF on THEN @ \cup {c} ELSE @ \ {c}]
      /\ SetOut(w, [NoGraphJob EXCEPT !.kind = "toggle", !.at = "chunks", !.of = {OwnerOf[c]},
                                 !.on = {c}, !.shown = on],
                [Whole EXCEPT ![OwnerOf[c]] =
                   IF on /\ c \notin graph.chunks THEN {"absent"} ELSE {}])
      /\ UNCHANGED graph

-----------------------------------------------------------------------------
Goes(w, job) == graphWriter' = [graphWriter EXCEPT ![w] = job]
Next3(w, at) == Goes(w, [graphWriter[w] EXCEPT !.at = at, !.part = 1])
GraphFault == graphLeft.faults > 0 /\ graphLeft' = [graphLeft EXCEPT !.faults = @ - 1]

\* A document is done with: the next one of the list, or the writer is free.
Finished(w) ==
  LET left == graphWriter[w].of \ {DocumentOf(w)}
  IN  IF left = {} THEN NoGraphJob
      ELSE [graphWriter[w] EXCEPT !.of = left, !.at = "clean", !.part = 1, !.on = {},
                             !.alone = {d \in left : Busy(d) \ {w} # {}} = {}]

\* Relations, then the document, then its chunks.  Topics are shared and stay.
WithoutPart(d, part) ==
  CASE part = 1 -> [graph EXCEPT !.relations = @ \ OwnedBy({d})]
    [] part = 2 -> [graph EXCEPT !.docs = @ \ {d}]
    [] part = 3 -> [graph EXCEPT !.chunks = @ \ OwnedBy({d}), !.on = @ \ OwnedBy({d}),
                                 !.shown = @ \ OwnedBy({d})]
(* What a bug in the code would look like. *)
AfterDeleteKeepsGoing(w) ==
  LET j == graphWriter[w]
  IN  CASE j.at = "delete" -> [j EXCEPT !.at = "chunks"]
        [] j.at = "undo" -> [j EXCEPT !.at = "status", !.part = 1, !.result = "indexed"]
        [] j.at = "clean" /\ j.kind = "task" -> [j EXCEPT !.at = "pending", !.part = 1]
        [] j.at = "clean" /\ j.kind = "rebuild" -> [j EXCEPT !.at = "read", !.part = 1]
        [] j.at = "clean" /\ j.kind = "remove" -> [j EXCEPT !.at = "row", !.part = 1]
        [] OTHER -> Finished(w)
AfterDelete(w) ==
  LET j == graphWriter[w]
  IN  CASE j.at = "delete" -> [j EXCEPT !.at = "chunks"]
        [] j.at = "undo" -> [j EXCEPT !.at = "status", !.part = 1]
        [] j.at = "clean" /\ j.kind = "task" -> [j EXCEPT !.at = "pending", !.part = 1]
        [] j.at = "clean" /\ j.kind = "rebuild" -> [j EXCEPT !.at = "read", !.part = 1]
        [] j.at = "clean" /\ j.kind = "remove" -> [j EXCEPT !.at = "row", !.part = 1]
        [] OTHER -> Finished(w)
DeletePart(w) ==
  LET j == graphWriter[w]
  IN  /\ j.kind # "none" /\ j.at \in {"clean", "delete", "undo"}
      /\ graph' = WithoutPart(DocumentOf(w), j.part)
      /\ Goes(w, IF j.part < 3 THEN [j EXCEPT !.part = @ + 1] ELSE AfterDelete(w))
      /\ UNCHANGED <<rows, graphLeft, torn>>
\* A failing deletion is logged and passed over, except inside an upsert.
DeleteFails(w) ==
  LET j == graphWriter[w]
  IN  /\ j.kind # "none" /\ j.at \in {"clean", "delete", "undo"} /\ GraphFault
      /\ Goes(w, IF j.at = "delete" THEN [j EXCEPT !.at = "undo", !.part = 1,
                                                   !.result = "failed", !.on = {},
                                                   !.shown = TRUE]
                 ELSE AfterDelete(w))
      /\ torn' = [torn EXCEPT ![DocumentOf(w)] = @ \cup {"lost"}]
      /\ UNCHANGED <<rows, graph>>

MarkPending(w) ==
  /\ graphWriter[w].kind = "task" /\ graphWriter[w].at = "pending"
  /\ rows' = [rows EXCEPT !.status[DocumentOf(w)] = "pending"]
  /\ Next3(w, "read") /\ UNCHANGED <<graph, graphLeft, torn>>

\* A sync takes all chunks of the document, a rebuild the enabled ones.
ReadChunks(w) ==
  LET j == graphWriter[w]
      d == DocumentOf(w)
      here == OwnedBy({d} \cap rows.docs)
      chunks == IF j.kind = "rebuild" THEN here \cap rows.enabled ELSE here
      shown == IF j.kind = "after" THEN d \in rows.docs \cap rows.current ELSE j.shown
  IN  /\ j.kind \in {"task", "after", "rebuild"} /\ j.at = "read"
      /\ Goes(w, IF j.kind = "rebuild" /\ chunks = {}
                 THEN [j EXCEPT !.at = "status", !.result = "skipped"]
                 ELSE [j EXCEPT !.at = "delete", !.on = chunks, !.shown = shown,
                                !.result = "indexed"])
      /\ UNCHANGED <<rows, graph, graphLeft, torn>>

\* Chunks are written as enabled, whatever their rows say.
UpsertChunks(w) ==
  LET j == graphWriter[w]
  IN  /\ j.kind \in {"task", "after", "rebuild"} /\ j.at = "chunks"
      /\ graph' = [graph EXCEPT !.docs = @ \cup {DocumentOf(w)}, !.chunks = @ \cup j.on,
                                !.on = @ \cup j.on,
                                !.shown = IF j.shown THEN @ \cup j.on ELSE @ \ j.on]
      /\ Next3(w, "topics") /\ UNCHANGED <<rows, graphLeft, torn>>
UpsertNodes(w) ==
  /\ graphWriter[w].kind # "none" /\ graphWriter[w].at = "topics"
  /\ graph' = [graph EXCEPT !.topics = @ \cup graphWriter[w].on]
  /\ Next3(w, "relations") /\ UNCHANGED <<rows, graphLeft, torn>>
\* An edge is written between the nodes that are there.
UpsertEdges(w) ==
  /\ graphWriter[w].kind # "none" /\ graphWriter[w].at = "relations"
  /\ graph' = [graph EXCEPT !.relations = @ \cup (graphWriter[w].on \cap graph.topics)]
  /\ Goes(w, [graphWriter[w] EXCEPT !.at = "status", !.on = {}, !.shown = TRUE])
  /\ UNCHANGED <<rows, graphLeft, torn>>
\* A failing query leaves what is written and the half is cleaned up; the edges
\* are written by relation type, so some of them may be there.
UpsertFails(w) ==
  LET j == graphWriter[w]
  IN  /\ j.kind \in {"task", "after", "rebuild"}
      /\ j.at \in {"chunks", "topics", "relations"} /\ GraphFault
      /\ \E some \in IF j.at = "relations" THEN SUBSET (j.on \cap graph.topics) ELSE {{}} :
           graph' = [graph EXCEPT !.relations = @ \cup some]
      /\ Goes(w, [j EXCEPT !.at = "undo", !.part = 1, !.result = "failed",
                           !.on = {}, !.shown = TRUE])
      /\ UNCHANGED <<rows, torn>>

\* The outcome is written whatever others wrote since.
WriteStatus(w) ==
  LET j == graphWriter[w]
      d == DocumentOf(w)
  IN  /\ j.kind # "none" /\ j.at = "status"
      /\ rows' = IF d \in rows.docs THEN [rows EXCEPT !.status[d] = j.result] ELSE rows
      /\ torn' = IF j.result = "indexed" /\ j.alone
                 THEN [torn EXCEPT ![d] = {}] ELSE torn
      /\ Goes(w, Finished(w)) /\ UNCHANGED <<graph, graphLeft>>
DeleteRow(w) ==
  LET d == DocumentOf(w)
  IN  /\ graphWriter[w].kind = "remove" /\ graphWriter[w].at = "row"
      /\ rows' = [docs |-> rows.docs \ {d}, current |-> rows.current \ {d},
                  enabled |-> rows.enabled \ OwnedBy({d}),
                  status |-> [rows.status EXCEPT ![d] = "unknown"]]
      /\ Goes(w, Finished(w)) /\ UNCHANGED <<graph, graphLeft, torn>>
UpdateEnabled(w) ==
  LET j == graphWriter[w]
  IN  /\ j.kind = "toggle"
      /\ graph' = [graph EXCEPT !.on = IF j.shown THEN @ \cup (j.on \cap graph.chunks)
                                       ELSE @ \ j.on]
      /\ Goes(w, NoGraphJob) /\ UNCHANGED <<rows, graphLeft, torn>>
UpdateEnabledFails(w) ==
  /\ graphWriter[w].kind = "toggle" /\ GraphFault
  /\ torn' = [torn EXCEPT ![DocumentOf(w)] = @ \cup {"lost"}]
  /\ Goes(w, NoGraphJob) /\ UNCHANGED <<rows, graph>>
\* The process stops: nothing resumes what the writer was doing.
WriterStops(w) ==
  /\ graphWriter[w].kind # "none" /\ GraphFault
  /\ torn' = [d \in Versions0 |-> torn[d] \cup
                IF d \in graphWriter[w].of THEN {"crash"} ELSE {}]
  /\ Goes(w, NoGraphJob) /\ UNCHANGED <<rows, graph>>

GraphStep(w) ==
  \/ SyncGraphOnly(w) \/ SyncAfterUpload(w) \/ RebuildGraph(w) \/ SwitchVersion(w)
  \/ Archive(w) \/ RemoveDocument(w) \/ ToggleChunk(w) \/ DeletePart(w) \/ DeleteFails(w)
  \/ MarkPending(w) \/ ReadChunks(w) \/ UpsertChunks(w) \/ UpsertNodes(w)
  \/ UpsertEdges(w) \/ UpsertFails(w) \/ WriteStatus(w) \/ DeleteRow(w)
  \/ UpdateEnabled(w) \/ UpdateEnabledFails(w) \/ WriterStops(w)
GraphNext == \E w \in Writers : GraphStep(w)
GraphSpec == GraphInit /\ [][GraphNext]_graphVars

-----------------------------------------------------------------------------
(* A document nobody is writing and nothing has torn has the graph its row *)
(* tells of: reported as indexed, all its enabled chunks are found by a    *)
(* retrieval and shown with their relations; no longer current, none is    *)
(* retrieved; deleted, nothing of it is left (safeUpsertDocument,          *)
(* cleanupFailedUpsert and every caller together).                         *)
GraphFollowsRows == \A d \in Versions0 :
  Busy(d) = {} /\ torn[d] = {} =>
    /\ d \in rows.docs \cap rows.current /\ rows.status[d] = "indexed" =>
         OwnedBy({d}) \cap rows.enabled \subseteq Retrieved \cap Listed
    /\ d \notin rows.current => OwnedBy({d}) \cap Retrieved = {}
    /\ d \notin rows.docs =>
         d \notin graph.docs /\ OwnedBy({d}) \cap (graph.chunks \cup graph.relations) = {}

=============================================================================
