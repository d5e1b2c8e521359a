---------------------------- MODULE UploadDrawer ----------------------------
(***************************************************************************)
(* The upload drawer of the document list: the files that were chosen go   *)
(* to the server one after the other, each row of the queue follows the    *)
(* task its upload began.  The loop reads the base, the metadata and its   *)
(* row of the queue anew for every file, and the drawer can be closed,     *)
(* opened or turned to another base meanwhile.                             *)
(***************************************************************************)
EXTENDS Integers, FiniteSets

CONSTANTS Shelves, NoShelf, MaxSubmits, MaxSelected
ASSUME NoShelfIsNone == NoShelf \notin Shelves
ASSUME UploadBounds == {MaxSubmits, MaxSelected} \subseteq Nat

VARIABLES
  drawer,  \* open, the base selected, and whose rows the queue has
  loops,   \* by submission: the files, the base selected then, how far it is
  lines,   \* by submission and place: the row of the queue
  landed,  \* by submission and file: the base it was uploaded to
  turned   \* ghost: submissions the drawer was opened or turned during

uploadVars == <<drawer, loops, lines, landed, turned>>

Submits == 1..MaxSubmits
Places == Submits \X (1..MaxSelected)
RowStages == {"none", "pending", "running", "sent", "completed", "failed"}
NoLoop == [files |-> 0, base |-> NoShelf, at |-> 0, phase |-> "none"]

UploadTypeOK ==
  /\ drawer \in [open : BOOLEAN, base : Shelves \cup {NoShelf}, queue : 0..MaxSubmits]
  /\ loops \in [Submits -> [files : 0..MaxSelected, base : Shelves \cup {NoShelf},
                            at : 0..MaxSelected,
                            phase : {"none", "next", "uploading", "over", "dead"}]]
  /\ lines \in [Places -> RowStages]
  /\ landed \in [Places -> Shelves \cup {NoShelf}]
  /\ turned \subseteq Submits

UploadInit ==
  /\ drawer = [open |-> FALSE, base |-> NoShelf, queue |-> 0]
  /\ loops = [s \in Submits |-> NoLoop]
  /\ lines = [p \in Places |-> "none"]
  /\ landed = [p \in Places |-> NoShelf] /\ turned = {}

Uploading == {s \in Submits : loops[s].phase \in {"next", "uploading"}}
Disturbed == turned' = turned \cup Uploading

\* The drawer is emptied when it opens, whatever is under way.
OpenDrawer(b) ==
  /\ ~drawer.open /\ drawer' = [open |-> TRUE, base |-> b, queue |-> 0]
  /\ Disturbed /\ UNCHANGED <<loops, lines, landed>>
CloseDrawer ==
  /\ drawer.open /\ drawer' = [drawer EXCEPT !.open = FALSE]
  /\ UNCHANGED <<loops, lines, landed, turned>>
SelectShelf(b) ==
  /\ drawer.open /\ b # drawer.base /\ drawer' = [drawer EXCEPT !.base = b]
  /\ Disturbed /\ UNCHANGED <<loops, lines, landed>>

\* The button is off while a file is under way.
SubmitUpload(k) == \E s \in Submits :
  /\ drawer.open /\ drawer.base # NoShelf /\ Uploading = {}
  /\ loops[s].phase = "none" /\ \A r \in 1..s - 1 : loops[r].phase # "none"
  /\ loops' = [loops EXCEPT ![s] =
       [NoLoop EXCEPT !.files = k, !.base = drawer.base, !.phase = "next"]]
  /\ lines' = [p \in Places |->
                IF p[1] = s /\ p[2] <= k THEN "pending" ELSE lines[p]]
  /\ drawer' = [drawer EXCEPT !.queue = s]
  /\ UNCHANGED <<landed, turned>>

\* A queue without the row stops the loop for good.
NextFile(s) ==
  LET i == loops[s].at + 1
  IN  /\ loops[s].phase = "next" /\ i <= loops[s].files
      /\ IF drawer.queue # s
         THEN /\ loops' = [loops EXCEPT ![s].phase = "dead"]
              /\ UNCHANGED <<lines, landed>>
         ELSE /\ loops' = [loops EXCEPT ![s] = [@ EXCEPT !.at = i, !.phase = "uploading"]]
              /\ lines' = [lines EXCEPT ![<<s, i>>] = "running"]
              /\ landed' = [landed EXCEPT ![<<s, i>>] = drawer.base]
      /\ UNCHANGED <<drawer, turned>>
\* One file that fails does not stop the others.
UploadAnswers(s, ok) ==
  /\ loops[s].phase = "uploading"
  /\ loops' = [loops EXCEPT ![s].phase = "next"]
  /\ lines' = [lines EXCEPT ![<<s, loops[s].at>>] = IF ok THEN "sent" ELSE "failed"]
  /\ landed' = IF ok THEN landed ELSE [landed EXCEPT ![<<s, loops[s].at>>] = NoShelf]
  /\ UNCHANGED <<drawer, turned>>
AllSubmitted(s) ==
  /\ loops[s].phase = "next" /\ loops[s].at = loops[s].files
  /\ loops' = [loops EXCEPT ![s].phase = "over"]
  /\ UNCHANGED <<drawer, lines, landed, turned>>
\* A row asks thirty times for its task and then stays as it is.
PollUploadTask(p) == \E stage \in {"completed", "failed"} :
  /\ lines[p] = "sent" /\ lines' = [lines EXCEPT ![p] = stage]
  /\ UNCHANGED <<drawer, loops, landed, turned>>

UploadNext ==
  \/ \E b \in Shelves \cup {NoShelf} : OpenDrawer(b)
  \/ \E b \in Shelves : SelectShelf(b)
  \/ CloseDrawer
  \/ \E k \in 1..MaxSelected : SubmitUpload(k)
  \/ \E s \in Submits : \/ NextFile(s) \/ AllSubmitted(s)
                        \/ \E ok \in BOOLEAN : UploadAnswers(s, ok)
  \/ \E p \in Places : PollUploadTask(p)
UploadSpec == UploadInit /\ [][UploadNext]_uploadVars

-----------------------------------------------------------------------------
(* Every file lands once, in the base that was selected when it was        *)
(* submitted, and its row says whether it did; a submission ends with all  *)
(* of its files sent or failed.  Only opening the drawer again, or         *)
(* selecting another base, while files are under way takes files           *)
(* elsewhere or leaves them behind.                                        *)
UploadsLand == \A s \in Submits \ turned :
  /\ loops[s].phase # "dead"
  /\ \A i \in 1..loops[s].files :
       LET stage == lines[<<s, i>>]
       IN  /\ landed[<<s, i>>] \in {NoShelf, loops[s].base}
           /\ stage \in {"sent", "completed"} => landed[<<s, i>>] # NoShelf
           /\ loops[s].phase = "over" => stage \in {"sent", "completed", "failed"}
           /\ landed[<<s, i>>] = NoShelf => stage \in {"pending", "failed"}
=============================================================================
