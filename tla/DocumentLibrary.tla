--------------------------- MODULE DocumentLibrary ---------------------------
(***************************************************************************)
(* The documents of a knowledge base as its users handle them: the routes  *)
(* of KnowledgeDocumentController with their permissions, and the version  *)
(* groups, rows and indexed chunks that KnowledgeDocumentService changes   *)
(* behind them, one statement at a time.                                   *)
(*                                                                         *)
(* An ingest task is one step here (DocumentTask has its steps).  All      *)
(* documents belong to the department "sales" of one base.  Rows of chunks *)
(* are numbers; the list of a document's chunks ends at ListLimit.         *)
(***************************************************************************)
EXTENDS Integers, FiniteSets

CONSTANTS Files,          \* documents
          Managers,       \* HTTP requests at work, or the worker for them
          ListLimit,      \* CHUNK_LIST_MAX_TAKE
          MaxPieces,      \* chunks of a document
          MaxLibraryOps, MaxLibraryFaults
ASSUME LibraryBounds == /\ {ListLimit, MaxPieces} \subseteq Nat \ {0}
                        /\ {MaxLibraryOps, MaxLibraryFaults} \subseteq Nat

VARIABLES
  files,        \* the document rows
  inEs,         \* their chunks in the search index
  manager,      \* where each request stands
  libraryLeft,  \* requests and faults the bounds leave
  strays,       \* ghost: by group, what the code does not repair
  published     \* ghost: by group, who may see it as an owner or an admin said

libraryVars == <<files, inEs, manager, libraryLeft, strays, published>>

People == {"ann", "bob", "carl", "boss"}
Department == [ann |-> "sales", bob |-> "sales", carl |-> "support", boss |-> "none"]
IsAdmin(u) == u = "boss"
\* The permissions of the roles the first migration writes.
May(u, code) == IsAdmin(u) \/ code \in {"view", "upload", "retry"}
Sights == {"private", "department", "company"}
Pieces0 == 1..MaxPieces
Groups == Files
Causes0 == {"overlap", "stopped", "cut", "revived", "lost", "base", "unfinished"}
ManagerAt == {"idle", "ingest", "clear", "set", "clean", "list", "embed", "sync",
              "complete", "leave", "remove"}

LibraryTypeOK ==
  /\ files \in [Files -> [row : BOOLEAN, owner : People \cup {"none"}, sight : Sights,
                          group : Groups, no : 0..MaxLibraryOps + 1,
                          current : BOOLEAN, archived : BOOLEAN,
                          status : {"none", "processing", "completed", "failed"},
                          pieces : 0..MaxPieces, count : 0..MaxPieces]]
  /\ inEs \in [Files -> SUBSET Pieces0]
  /\ manager \in [Managers -> [at : ManagerAt, kind : {"none", "version", "current",
                               "archive", "retry", "delete"},
                               file : Files, no : 0..MaxLibraryOps + 1,
                               sight : Sights, owner : People \cup {"none"}]]
  /\ libraryLeft \in [ops : 0..MaxLibraryOps, faults : 0..MaxLibraryFaults]
  /\ strays \in [Groups -> SUBSET Causes0] /\ published \in [Groups -> Sights]

NoFile(f) == [row |-> FALSE, owner |-> "none", sight |-> "private", group |-> f,
              no |-> 0, current |-> FALSE, archived |-> FALSE, status |-> "none",
              pieces |-> 0, count |-> 0]
NoManager == [at |-> "idle", kind |-> "none", file |-> CHOOSE f \in Files : TRUE,
              no |-> 0, sight |-> "private", owner |-> "none"]
LibraryInit ==
  \* ann has uploaded one
  /\ \E n \in Pieces0 : LET first == CHOOSE f \in Files : TRUE IN
       /\ files = [f \in Files |->
            IF f = first
            THEN [NoFile(f) EXCEPT !.row = TRUE, !.owner = "ann", !.no = 1, !.current = TRUE,
                    !.status = "completed", !.pieces = n, !.count = n]
            ELSE NoFile(f)]
       /\ inEs = [f \in Files |-> IF f = first THEN 1..n ELSE {}]
  /\ manager = [m \in Managers |-> NoManager]
  /\ libraryLeft = [ops |-> MaxLibraryOps, faults |-> MaxLibraryFaults]
  /\ strays = [g \in Groups |-> {}] /\ published = [g \in Groups |-> "private"]

-----------------------------------------------------------------------------
(* What a user is shown, and what a request on a document finds.            *)

InKnowledge(u, f) ==
  /\ files[f].row
  /\ IsAdmin(u) \/ CASE files[f].sight = "company" -> TRUE
                      [] files[f].sight = "department" -> Department[u] = "sales"
                      [] OTHER -> files[f].owner = u
Writable(u, f) == IsAdmin(u) \/ files[f].owner = u
GroupOf0(f) == {g \in Files : files[g].row /\ files[g].group = files[f].group}

\* What a user without the role of admin asks for is cut down to his department;
\* with no word on it an upload is private and a version like the one before.
NormalizedSight(u, asked, fallback) ==
  CASE asked # "unsaid" -> asked
    [] OTHER -> fallback
MayAsk(u, asked) ==
  IsAdmin(u) \/ /\ asked # "company"
                /\ asked = "department" => Department[u] # "none"

\* Files by kind and megabytes.
SizeLimit == [text |-> 10, pdf |-> 30, office |-> 30, image |-> 20, audio |-> 50,
              video |-> 100]
Supported(file) == file.kind \in DOMAIN SizeLimit
FitsLimit(file) == Supported(file) /\ file.size <= SizeLimit[file.kind]
AnyUpload == [kind : {"text", "video", "other"}, size : {10, 101}]

-----------------------------------------------------------------------------
(* Requests.  A request sets out when a slot is free; two on one group at   *)
(* once overlap.                                                            *)

OnGroup(g) == {m \in Managers : manager[m].at # "idle" /\ files[manager[m].file].group = g}
Stray(g, cause) == strays' = [strays EXCEPT ![g] = @ \cup {cause}]
\* Slots are alike: a request takes the first that is free.
Free(m) == /\ manager[m].at = "idle"
           /\ m = CHOOSE n \in Managers : manager[n].at = "idle"
SetsOut(m, kind, f, at) ==
  /\ Free(m) /\ libraryLeft.ops > 0
  /\ libraryLeft' = [libraryLeft EXCEPT !.ops = @ - 1]
  /\ manager' = [manager EXCEPT ![m] = [NoManager EXCEPT !.at = at, !.kind = kind,
                                                         !.file = f]]
GroupTaken(g) == strays' = IF OnGroup(g) = {} THEN strays
                           ELSE [strays EXCEPT ![g] = @ \cup {"overlap"}]
ManagerGoes(m, at) == manager' = [manager EXCEPT ![m].at = at]
ManagerEnds(m) == manager' = [manager EXCEPT ![m] = NoManager]
Wider(a, b) == IF "company" \in {a, b} THEN "company"
               ELSE IF "department" \in {a, b} THEN "department" ELSE "private"

\* A new document: its row, then its chunks.
UploadDocument(u, f, asked) ==
  /\ May(u, "upload") /\ MayAsk(u, asked) /\ \E file \in AnyUpload : FitsLimit(file)
  /\ libraryLeft.ops > 0 /\ libraryLeft' = [libraryLeft EXCEPT !.ops = @ - 1]
  /\ files[f].status = "none"
  /\ \E n \in Pieces0 :
       /\ files' = [files EXCEPT ![f] =
            [NoFile(f) EXCEPT !.row = TRUE, !.owner = u, !.no = 1, !.current = TRUE,
               !.sight = NormalizedSight(u, asked, IF IsAdmin(u) THEN "company" ELSE "private"),
               !.status = "completed", !.pieces = n, !.count = n]]
       /\ inEs' = [inEs EXCEPT ![f] = 1..n]
  /\ published' = [published EXCEPT ![f] = files'[f].sight]
  /\ UNCHANGED <<manager, strays>>

\* createUploadVersionTask: the next number and what to take over from the base
\* are read now and used when the file has been parsed.
UploadVersion(m, u, f, asked) ==
  /\ May(u, "upload") /\ MayAsk(u, asked)
  /\ InKnowledge(u, f) /\ Writable(u, f)
  /\ Free(m) /\ libraryLeft.ops > 0
  /\ libraryLeft' = [libraryLeft EXCEPT !.ops = @ - 1]
  /\ manager' = [manager EXCEPT ![m] =
       [NoManager EXCEPT !.at = "ingest", !.kind = "version", !.file = f, !.owner = u,
          !.sight = NormalizedSight(u, asked, files[f].sight),
          !.no = 1 + CHOOSE n \in {files[g].no : g \in GroupOf0(f)} :
                       \A g \in GroupOf0(f) : files[g].no <= n]]
  /\ published' = [published EXCEPT ![files[f].group] =
                     IF asked = "unsaid" THEN @ ELSE Wider(@, asked)]
  /\ GroupTaken(files[f].group)
  /\ UNCHANGED <<files, inEs>>

\* The task of the version: a row that is current at once and its chunks; or no
\* row, or one left failed (and current).
Ingested(m, f) ==
  /\ manager[m].at = "ingest" /\ files[f].status = "none"
  /\ LET g == files[manager[m].file].group IN \E n \in Pieces0 :
       /\ files' = [files EXCEPT ![f] =
            [NoFile(f) EXCEPT !.row = TRUE, !.owner = manager[m].owner, !.group = g,
               !.no = manager[m].no, !.current = TRUE, !.sight = manager[m].sight,
               !.status = "completed", !.pieces = n, !.count = n]]
       /\ inEs' = [inEs EXCEPT ![f] = 1..n]
  /\ manager' = [manager EXCEPT ![m].at = "clear", ![m].file = f]
  /\ UNCHANGED <<libraryLeft, strays, published>>
IngestFails(m, f) ==
  /\ manager[m].at = "ingest" /\ files[f].status = "none"
  /\ libraryLeft.faults > 0 /\ libraryLeft' = [libraryLeft EXCEPT !.faults = @ - 1]
  /\ LET g == files[manager[m].file].group IN
       \/ UNCHANGED <<files, strays>>
       \/ /\ files' = [files EXCEPT ![f] =
               [NoFile(f) EXCEPT !.row = TRUE, !.owner = manager[m].owner, !.group = g,
                  !.no = manager[m].no, !.current = TRUE, !.sight = manager[m].sight,
                  !.status = "failed"]]
          /\ Stray(g, "unfinished")
  /\ ManagerEnds(m)
  /\ UNCHANGED <<inEs, published>>

\* An archived version is refused.
CurrentAllowed(f) == ~files[f].archived
SetCurrentVersion0(m, u, f) ==
  /\ May(u, "version:set-current") /\ InKnowledge(u, f)
  /\ CurrentAllowed(f)
  /\ SetsOut(m, "current", f, "clear") /\ GroupTaken(files[f].group)
  /\ UNCHANGED <<files, inEs, published>>
ClearCurrent(m) ==
  /\ manager[m].at = "clear"
  /\ files' = [g \in Files |-> IF g \in GroupOf0(manager[m].file)
                               THEN [files[g] EXCEPT !.current = FALSE] ELSE files[g]]
  /\ ManagerGoes(m, "set") /\ UNCHANGED <<inEs, libraryLeft, strays, published>>
SetCurrent(m) ==
  /\ manager[m].at = "set"
  /\ files' = [files EXCEPT ![manager[m].file].current = files[manager[m].file].row]
  /\ ManagerGoes(m, "clean") /\ UNCHANGED <<inEs, libraryLeft, strays, published>>
\* cleanupNonCurrentVersionIndexes, or for an archive or a delete the document's.
Cleaned(m) ==
  LET f == manager[m].file
  IN  IF manager[m].kind \in {"version", "current"} THEN GroupOf0(f) \ {f} ELSE {f}
CleanIndex(m, ok) ==
  /\ manager[m].at = "clean"
  /\ \/ ok /\ UNCHANGED <<libraryLeft, strays>>
            /\ inEs' = [f \in Files |-> IF f \in Cleaned(m) THEN {} ELSE inEs[f]]
     \* a failure is logged and forgotten
     \/ /\ ~ok /\ libraryLeft.faults > 0 /\ UNCHANGED inEs
        /\ libraryLeft' = [libraryLeft EXCEPT !.faults = @ - 1]
        /\ Stray(files[manager[m].file].group, "lost")
  /\ IF manager[m].kind = "archive" THEN ManagerEnds(m)
     ELSE ManagerGoes(m, IF manager[m].kind = "delete" THEN "remove" ELSE "sync")
  /\ UNCHANGED <<files, published>>
\* Chunks are listed up to the limit and written to the index.
ListedPieces(f) == {n \in 1..files[f].pieces : n <= ListLimit}
SyncIndex(m) ==
  /\ manager[m].at = "sync"
  /\ LET f == manager[m].file IN
       /\ inEs' = [inEs EXCEPT ![f] = @ \cup ListedPieces(f)]
       /\ strays' = [strays EXCEPT ![files[f].group] = @ \cup
            (IF files[f].pieces > ListLimit THEN {"cut"} ELSE {})
            \cup IF files[f].current /\ ~files[f].archived THEN {} ELSE {"revived"}]
  /\ IF manager[m].kind = "retry" THEN ManagerGoes(m, "complete") ELSE ManagerEnds(m)
  /\ UNCHANGED <<files, libraryLeft, published>>

ArchiveDocument0(m, u, f) ==
  /\ May(u, "archive") /\ InKnowledge(u, f)
  /\ SetsOut(m, "archive", f, "clean") /\ GroupTaken(files[f].group)
  /\ files' = [files EXCEPT ![f].archived = TRUE, ![f].current = FALSE]
  /\ UNCHANGED <<inEs, published>>

\* Only its owner or an admin changes who sees a document.
UpdateGovernance0(u, f, asked) ==
  /\ May(u, "upload") /\ MayAsk(u, asked) /\ InKnowledge(u, f) /\ Writable(u, f)
  /\ libraryLeft.ops > 0 /\ libraryLeft' = [libraryLeft EXCEPT !.ops = @ - 1]
  /\ files' = [files EXCEPT ![f].sight = NormalizedSight(u, asked, @)]
  /\ published' = [published EXCEPT ![files[f].group] =
                     IF asked = "unsaid" THEN @ ELSE Wider(@, asked)]
  /\ UNCHANGED <<inEs, manager, strays>>

\* Only rows with chunks are retried, in whatever state; no check of its version.
RetryDocument(m, u, f) ==
  /\ May(u, "retry") /\ InKnowledge(u, f) /\ files[f].pieces > 0
  /\ SetsOut(m, "retry", f, "embed") /\ GroupTaken(files[f].group)
  /\ files' = [files EXCEPT ![f].status = "processing"]
  /\ UNCHANGED <<inEs, published>>
Embed(m) ==
  /\ manager[m].at = "embed" /\ ManagerGoes(m, "sync")
  /\ UNCHANGED <<files, inEs, libraryLeft, strays, published>>
CompleteRetry(m) ==
  /\ manager[m].at = "complete"
  /\ LET f == manager[m].file IN
       files' = IF files[f].row
                THEN [files EXCEPT ![f].status = "completed",
                                   ![f].count = Cardinality(ListedPieces(f))]
                ELSE files
  /\ ManagerEnds(m) /\ UNCHANGED <<inEs, libraryLeft, strays, published>>

DeleteDocument0(m, u, f) ==
  /\ May(u, "delete") /\ InKnowledge(u, f)
  /\ SetsOut(m, "delete", f, "clean") /\ GroupTaken(files[f].group)
  /\ UNCHANGED <<files, inEs, published>>
RemoveRow(m) ==
  /\ manager[m].at = "remove"
  /\ LET f == manager[m].file IN
     files' = [files EXCEPT ![f].row = FALSE, ![f].current = FALSE, ![f].pieces = 0]
  /\ ManagerEnds(m) /\ UNCHANGED <<inEs, libraryLeft, strays, published>>

\* KnowledgeService.remove: the rows go with the base, the index keeps them.
RemoveBase ==
  /\ libraryLeft.ops > 0 /\ libraryLeft' = [libraryLeft EXCEPT !.ops = 0]
  /\ \A m \in Managers : manager[m].at = "idle"
  /\ files' = [f \in Files |-> [files[f] EXCEPT !.row = FALSE, !.current = FALSE,
                                                !.pieces = 0]]
  /\ strays' = [g \in Groups |-> strays[g] \cup {"base"}]
  /\ UNCHANGED <<inEs, manager, published>>

\* A statement fails or the process stops: what was done stays as it is.
ManagerStops(m) ==
  /\ manager[m].at # "idle" /\ libraryLeft.faults > 0
  /\ libraryLeft' = [libraryLeft EXCEPT !.faults = @ - 1]
  /\ Stray(files[manager[m].file].group, "stopped")
  /\ ManagerEnds(m) /\ UNCHANGED <<files, inEs, published>>

ManagerStep(m) ==
  \/ ClearCurrent(m) \/ SetCurrent(m) \/ SyncIndex(m) \/ Embed(m) \/ CompleteRetry(m)
  \/ RemoveRow(m) \/ ManagerStops(m)
  \/ \E ok \in BOOLEAN : CleanIndex(m, ok)
  \/ \E f \in Files : Ingested(m, f) \/ IngestFails(m, f)
LibraryNext ==
  \/ RemoveBase
  \/ \E m \in Managers : ManagerStep(m)
  \/ libraryLeft.ops > 0 /\ \E u \in People, f \in Files :
       \/ \E asked \in Sights \cup {"unsaid"} :
            \/ UploadDocument(u, f, asked) \/ UpdateGovernance0(u, f, asked)
            \/ \E m \in Managers : UploadVersion(m, u, f, asked)
       \/ \E m \in Managers :
            \/ SetCurrentVersion0(m, u, f) \/ ArchiveDocument0(m, u, f)
            \/ RetryDocument(m, u, f) \/ DeleteDocument0(m, u, f)
LibrarySpec == LibraryInit /\ [][LibraryNext]_libraryVars

-----------------------------------------------------------------------------
(* At rest a group has one current version or, once one was archived or    *)
(* deleted, at most one; the index holds all chunks of the current version *)
(* and none of the others; the numbers of the versions differ, and the     *)
(* count shown is the number of chunks.  Nobody sees more of a group than  *)
(* its owners and admins ever said.  The exceptions: requests that overlap *)
(* or stop half-way, an index request that failed, a failed version (whose *)
(* row stays current), a document with more chunks than are listed, a      *)
(* retry of a version that is not current, and a base removed with its     *)
(* documents.                                                              *)
LibraryAgrees ==
  /\ \A f \in Files : files[f].row =>
       Wider(files[f].sight, published[files[f].group]) = published[files[f].group]
  /\ \A g \in Groups :
       LET versions == {f \in Files : files[f].row /\ files[f].group = g}
           current == {f \in versions : files[f].current}
       IN  strays[g] = {} /\ OnGroup(g) = {} =>
             /\ Cardinality(current) <= 1
             /\ (\A f \in Files : files[f].group = g /\ files[f].status # "none" =>
                                   f \in versions /\ ~files[f].archived)
                  => current # {} \/ versions = {}
             /\ \A f \in Files : files[f].group = g =>
                  inEs[f] = IF f \in current THEN 1..files[f].pieces ELSE {}
             /\ \A f, h \in versions : f # h => files[f].no # files[h].no
             /\ \A f \in versions : files[f].count = files[f].pieces
=============================================================================
