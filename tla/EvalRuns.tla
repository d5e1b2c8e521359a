------------------------------ MODULE EvalRuns ------------------------------
(***************************************************************************)
(* The evaluation cases of a base (KnowledgeEvalCaseService).  Every       *)
(* operation reads whole rows and saves whole rows: one that was read      *)
(* before another was saved puts the columns back that it read, and the    *)
(* row itself when it is gone.  A run has its rows in hand for as long as  *)
(* the model takes, a batch those of all cases.                            *)
(***************************************************************************)
EXTENDS Integers, FiniteSets

CONSTANTS Cases, Curators, MaxEdits, MaxRuns

VARIABLES
  evalRows, \* the table
  inHand,   \* by client: what it is doing, the rows it read, how far it is
  wanted,   \* ghost: by case, what users last made of it
  behind,   \* ghost: by client, the cases another wrote since it read them
  overrun,  \* ghost: cases saved from behind, or left running by a crash
  edits, runs \* how many there were

evalVars == <<evalRows, inHand, wanted, behind, overrun, edits, runs>>

Reviews == {"unreviewed", "passed", "failed"}
UserColumns == [there : BOOLEAN, question : 0..MaxEdits, review : Reviews]
Row == [there : BOOLEAN, question : 0..MaxEdits, review : Reviews,
        status : {"unrun", "running", "success", "failed"}]
NoRow == [there |-> FALSE, question |-> 0, review |-> "unreviewed", status |-> "unrun"]
Fresh == [NoRow EXCEPT !.there = TRUE]
AtRest == [job |-> "none", read |-> [c \in Cases |-> NoRow], left |-> {}, on |-> {}]
OfUsers(row) == [there |-> row.there, question |-> row.question, review |-> row.review]

EvalTypeOK ==
  /\ evalRows \in [Cases -> Row] /\ edits \in 0..MaxEdits /\ runs \in 0..MaxRuns
  /\ inHand \in [Curators -> [job : {"none", "batch", "single", "update", "review", "remove"},
                             read : [Cases -> Row], left : SUBSET Cases,
                             on : SUBSET Cases]]
  /\ wanted \in [Cases -> UserColumns]
  /\ behind \in [Curators -> SUBSET Cases] /\ overrun \subseteq Cases

EvalInit ==
  /\ \E made \in SUBSET Cases :
       evalRows = [c \in Cases |-> IF c \in made THEN Fresh ELSE NoRow]
  /\ inHand = [k \in Curators |-> AtRest] /\ wanted = [c \in Cases |-> OfUsers(evalRows[c])]
  /\ behind = [k \in Curators |-> {}] /\ overrun = {} /\ edits = 0 /\ runs = 0

Doing(k, c, job) == inHand[k].job = job /\ c \in inHand[k].left
Others(k, c) == behind' = [j \in Curators |->
  CASE j = k /\ inHand'[k].job = "none" -> {}
    [] j # k /\ inHand[j].job # "none"  -> behind[j] \cup {c}
    [] OTHER                            -> behind[j]]
\* save: the row read, with what was changed in it, replaces the row there is.
Saved(k, c, row) ==
  /\ evalRows' = [evalRows EXCEPT ![c] = row] /\ Others(k, c)
  /\ overrun' = IF c \in behind[k] THEN overrun \cup {c} ELSE overrun
Released(k) == inHand' = [inHand EXCEPT ![k] = AtRest]

\* A row is looked for in its base before anything is done with it.
FindInKnowledge(k, c, job) ==
  /\ inHand[k].job = "none" /\ evalRows[c].there
  /\ inHand' = [inHand EXCEPT ![k] =
       [job |-> job, read |-> evalRows, left |-> {c}, on |-> {}]]
  /\ UNCHANGED <<evalRows, wanted, behind, overrun>>
BeginEdit(k, c, job) ==
  /\ edits < MaxEdits /\ edits' = edits + 1 /\ UNCHANGED runs
  /\ FindInKnowledge(k, c, job)

\* A new row has an id nobody has in hand.
Create(k, c) ==
  /\ inHand[k].job = "none" /\ edits < MaxEdits /\ edits' = edits + 1
  /\ evalRows[c] = NoRow /\ c \notin overrun /\ \A j \in Curators : ~inHand[j].read[c].there
  /\ evalRows' = [evalRows EXCEPT ![c] = [Fresh EXCEPT !.question = edits']]
  /\ wanted' = [wanted EXCEPT ![c] = OfUsers(evalRows'[c])]
  /\ UNCHANGED <<inHand, behind, overrun, runs>>
\* The results of the last run stay beside a question it was not asked.
Update(k, c) ==
  /\ Doing(k, c, "update") /\ Released(k)
  /\ wanted' = [wanted EXCEPT ![c].question = edits]
  /\ Saved(k, c, [inHand[k].read[c] EXCEPT !.question = edits])
  /\ UNCHANGED <<edits, runs>>
UpdateReviewStatus(k, c) == \E v \in Reviews :
  /\ Doing(k, c, "review") /\ Released(k)
  /\ wanted' = [wanted EXCEPT ![c].review = v]
  /\ Saved(k, c, [inHand[k].read[c] EXCEPT !.review = v])
  /\ UNCHANGED <<edits, runs>>
\* The row is deleted by its id, whatever it holds by then.
RemoveCase(k, c) ==
  /\ Doing(k, c, "remove") /\ Released(k)
  /\ evalRows' = [evalRows EXCEPT ![c].there = FALSE] /\ Others(k, c)
  /\ wanted' = [wanted EXCEPT ![c].there = FALSE]
  /\ UNCHANGED <<overrun, edits, runs>>

\* A run needs a persona the base is mounted to; the batch reads all rows once.
RunBatchEvaluation(k) ==
  /\ inHand[k].job = "none" /\ runs < MaxRuns /\ runs' = runs + 1
  /\ \E c \in Cases : evalRows[c].there
  /\ inHand' = [inHand EXCEPT ![k] =
       [job |-> "batch", read |-> evalRows, on |-> {},
        left |-> {c \in Cases : evalRows[c].there}]]
  /\ UNCHANGED <<evalRows, wanted, behind, overrun, edits>>
RunSingleEvaluation(k, c) ==
  /\ runs < MaxRuns /\ runs' = runs + 1 /\ UNCHANGED edits
  /\ FindInKnowledge(k, c, "single")
\* The case is marked, then retrieval and the model are asked.
MarkRunning(k, c) ==
  LET row == [inHand[k].read[c] EXCEPT !.status = "running"]
  IN  /\ inHand[k].job \in {"batch", "single"} /\ inHand[k].on = {} /\ c \in inHand[k].left
      /\ inHand' = [inHand EXCEPT ![k].on = {c}, ![k].left = @ \ {c}]
      /\ Saved(k, c, row) /\ UNCHANGED <<wanted, edits, runs>>
\* What fails is the case; the batch goes on with the next one.
CaseRun(k, c) == \E status \in {"success", "failed"} :
  /\ c \in inHand[k].on /\ inHand' = [inHand EXCEPT ![k].on = {}]
  /\ Saved(k, c, [inHand[k].read[c] EXCEPT !.status = status])
  /\ UNCHANGED <<wanted, edits, runs>>
RunEnds(k) ==
  /\ inHand[k].job \in {"batch", "single"} /\ inHand[k].left \cup inHand[k].on = {}
  /\ Released(k) /\ behind' = [behind EXCEPT ![k] = {}]
  /\ UNCHANGED <<evalRows, wanted, overrun, edits, runs>>
\* A save fails or the process stops: what was running stays marked.
RunDies(k) ==
  /\ inHand[k].job # "none" /\ Released(k) /\ behind' = [behind EXCEPT ![k] = {}]
  /\ overrun' = overrun \cup inHand[k].on
  /\ UNCHANGED <<evalRows, wanted, edits, runs>>

EvalNext == \E k \in Curators :
  \/ \E c \in Cases :
       \/ \E job \in {"update", "review", "remove"} : BeginEdit(k, c, job)
       \/ Create(k, c) \/ Update(k, c) \/ UpdateReviewStatus(k, c) \/ RemoveCase(k, c)
       \/ RunSingleEvaluation(k, c) \/ MarkRunning(k, c) \/ CaseRun(k, c)
  \/ RunBatchEvaluation(k) \/ RunEnds(k) \/ RunDies(k)
EvalSpec == EvalInit /\ [][EvalNext]_evalVars

-----------------------------------------------------------------------------
(* A case is as its users last made it, runs or not, unless a row read     *)
(* before another write of it was saved after; a case is marked running    *)
(* only while a run is at it.                                              *)
EditsStand == \A c \in Cases \ overrun :
  /\ OfUsers(evalRows[c]) = wanted[c]
  /\ (evalRows[c].there /\ evalRows[c].status = "running") =>
       \E k \in Curators : c \in inHand[k].on
=============================================================================
