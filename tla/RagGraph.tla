------------------------------ MODULE RagGraph ------------------------------
(***************************************************************************)
(* One run of the agent's LangGraph over a question: routing, planning,    *)
(* retrieval hops, reranking, evaluation of the evidence, web search,      *)
(* memory and generation, under the call budget and the wall clock of the  *)
(* turn's profile.                                                         *)
(*                                                                         *)
(* A node runs alone and is one action: its calls to models and to stores  *)
(* resolve to one of the outcomes the code tells apart.  The clock and the *)
(* user act between two nodes; a call that the clock cuts short is among   *)
(* the failures of its node.  A text is a pair of its normalised key and   *)
(* whether it ends in a question mark.  Of the local chunks only whether   *)
(* there are any is kept, and web pages are counted up to two, the most    *)
(* the evaluation tells apart.                                             *)
(***************************************************************************)
EXTENDS Naturals, Sequences, SequencesExt

CONSTANTS
  Profiles,       \* RAG_PROFILES
  Plans,          \* lists of sub-questions the planner's model may return
  Facts,          \* lists of missing facts the evaluator's model may return
  WebKeys,        \* keys of the web queries the evaluator's model may return
  MaxWeb,         \* DEFAULT_RAG_MAX_WEB_SEARCH_ATTEMPTS
  MaxAttempts,    \* RAG_DEPENDENCY_RETRY_MAX_ATTEMPTS
  MaxExpansions,  \* DEFAULT_QUERY_REWRITE_MAX_EXPANSIONS
  StepLimit       \* LangGraph's recursion limit

ASSUME ProfilesAssumption == \A p \in Profiles :
  p.maxHops \in Nat \ {0} /\ p.maxLlm \in Nat \ {0} /\ p.maxEmbed \in Nat
(* LangGraph's limit has room for every hop, every web search and the rest. *)
ASSUME StepsAssumption ==
  StepLimit \in Nat /\ \A p \in Profiles : 3 * p.maxHops + 2 * MaxWeb + 6 < StepLimit
ASSUME ExpansionsAssumption == MaxExpansions \in Nat
(* normalizeSubQuestions drops what is empty or named twice. *)
ASSUME PlansAssumption == \A plan \in Plans :
  plan \in Seq(Range(plan)) /\ Len(plan) > 0 /\ IsInjective(plan)
ASSUME FactsAssumption == \A facts \in Facts : facts \in Seq(Range(facts))
ASSUME AttemptsAssumption == MaxAttempts \in Nat \ {0} /\ MaxWeb \in Nat

Text == [key : Nat, mark : BOOLEAN]
Question == [key |-> 0, mark |-> FALSE]
VagueFact == [key |-> 99, mark |-> TRUE]   \* the fallback's only missing fact
NoWebQuery == 100                          \* an empty web query
Searching == {"route", "plan", "query_history", "retrieve", "rerank",
              "evaluate", "web_fallback", "load_context", "memory", "merge",
              "generate"}

VARIABLES
  profile,    \* the run's profile
  node,       \* the node that runs next, or how the run ended
  attempt,    \* of that node
  steps,      \* supersteps so far
  late,       \* the wall clock of the turn is used up
  llm, embed, \* calls charged to the budget
  state,      \* the graph state
  past,       \* retrievalHistory: the queries of the hops
  shown,      \* the citations last pushed to the client
  assessed    \* history: the evidence is the one last evaluated

vars == <<profile, node, attempt, steps, late, llm, embed, state, past, shown, assessed>>
budget == <<llm, embed>>

Evidence == [top |-> state.top, web |-> state.web]
NoEvidence == [top |-> FALSE, web |-> 0]

InitialState ==
  [strategy |-> "simple", plan |-> <<>>, next |-> 0, hop |-> 0,
   docs |-> FALSE, top |-> FALSE, web |-> 0, need |-> TRUE,
   allowWeb |-> profile.allowWeb, enough |-> "unknown", stop |-> "",
   webQuery |-> NoWebQuery, webTried |-> 0, webAsked |-> {}, webUsed |-> FALSE]

Init ==
  /\ profile \in Profiles
  /\ node = "route" /\ attempt = 1 /\ steps = 0 /\ late = FALSE
  /\ llm = 0 /\ embed = 0
  /\ past = <<>>
  /\ shown = NoEvidence /\ assessed = FALSE
  /\ state = InitialState

-----------------------------------------------------------------------------
(* The budget.                                                              *)

CanCallLlm == ~late /\ llm + 1 <= profile.maxLlm
(* An auxiliary call may take the call kept for the answer. *)
AuxAllowedToTheLast == CanCallLlm
AuxAllowed == CanCallLlm /\ llm + 1 <= profile.maxLlm - 1
Exhausted == late \/ llm >= profile.maxLlm \/ embed >= profile.maxEmbed
(* The budget is not asked before a hop or a web search. *)
ShouldStopNever == FALSE
ShouldStop == Exhausted

(* An auxiliary call to a model, when the mode asks for it: charged, or not *)
(* made.                                                                    *)
ChargeAux(wanted) == llm' = IF wanted /\ AuxAllowed THEN llm + 1 ELSE llm

(* A node returns a partial state and the graph goes on. *)
Goto(next) ==
  /\ node' = IF steps + 1 < StepLimit \/ next = "done" THEN next ELSE "failed"
  /\ steps' = steps + 1
  /\ attempt' = 1
  /\ UNCHANGED <<profile, late>>

At(n) == node = n

(* A failed dependency is tried until it answers. *)
RetryAllowedForever == TRUE
(* A dependency failed in a way that may pass: LangGraph runs the node once *)
(* more on the same state.  What the attempt charged stays charged.         *)
RetryAllowed == attempt < MaxAttempts
RunAgain == attempt' = attempt + 1 /\ UNCHANGED <<profile, node, steps, late>>

(* A run that throws leaves nothing but what was pushed. *)
End(how) ==
  /\ node' = how
  /\ state' = InitialState
  /\ past' = <<>>
  /\ llm' = 0 /\ embed' = 0 /\ steps' = 0 /\ attempt' = 1
  /\ UNCHANGED <<profile, late, shown, assessed>>

-----------------------------------------------------------------------------
(* Routing and planning.                                                    *)

RouteTarget(strategy) ==
  [none |-> "load_context", complex |-> "plan", simple |-> "query_history"][strategy]

(* A greeting is recognised without a model; the heuristic never says none. *)
Route ==
  /\ At("route")
  /\ \E strategy \in {"none", "simple", "complex"}, greeting \in BOOLEAN :
       /\ greeting => strategy = "none"
       /\ strategy = "none" => greeting \/ (profile.routeMode = "llm" /\ AuxAllowed)
       /\ ChargeAux(~greeting /\ profile.routeMode = "llm")
       /\ state' = [state EXCEPT !.strategy = strategy]
       /\ Goto(RouteTarget(strategy))
  /\ UNCHANGED <<embed, past, shown, assessed>>

FallbackPlan == <<Question>>

Plan ==
  /\ At("plan")
  /\ \E plan \in {FallbackPlan} \cup (IF AuxAllowed THEN Plans ELSE {}) :
       state' = [state EXCEPT !.plan = plan]
  /\ ChargeAux(TRUE)
  /\ Goto("query_history")
  /\ UNCHANGED <<embed, past, shown, assessed>>

(* A failure to read leaves the history empty. *)
LoadQueryHistory ==
  /\ At("query_history")
  /\ Goto("retrieve")
  /\ UNCHANGED <<budget, state, past, shown, assessed>>

-----------------------------------------------------------------------------
(* A retrieval hop.                                                         *)

Planned == IF state.plan = <<>> THEN <<Question>> ELSE state.plan

NextQuery == IF state.next < Len(Planned) THEN {Planned[state.next + 1]} ELSE {}

(* What the policy makes of the first query: a greeting needs no retrieval, *)
(* an exact lookup and the profiles without a model keep the one query.     *)
QueryKinds == {"greeting", "exact", "plain"}
Rewrites(kind) ==
  /\ kind = "plain"
  /\ state.strategy = "complex" /\ profile.useMultiQuery
  /\ profile.rewriteMode = "llm" /\ CanCallLlm

(* [need, allowWeb, queries] of the hop; later hops keep the strategy. *)
Policy(kind) ==
  IF state.hop > 0 THEN [need |-> state.need, allowWeb |-> state.allowWeb, queries |-> 1]
  ELSE [need |-> kind # "greeting",
        allowWeb |-> profile.allowWeb /\ kind # "greeting",
        queries |-> IF Rewrites(kind) /\ AuxAllowed THEN MaxExpansions ELSE 1]

Hop(query, policy) ==
  [state EXCEPT !.next = @ + 1, !.hop = @ + 1, !.top = FALSE,
                !.need = policy.need, !.allowWeb = policy.allowWeb]

(* Each query that no cache holds is embedded while the budget lasts. *)
Embeds(queries) ==
  \E missing \in {0, queries} :
    embed' = IF late \/ embed >= profile.maxEmbed THEN embed
             ELSE IF embed + missing > profile.maxEmbed THEN profile.maxEmbed
             ELSE embed + missing

RetrieveNothing ==
  /\ At("retrieve")
  /\ IF ShouldStop THEN state' = [state EXCEPT !.stop = "max_hops_reached"]
     ELSE NextQuery = {} /\ UNCHANGED state
  /\ Goto("rerank")
  /\ UNCHANGED <<budget, past, shown, assessed>>

Begins(kind, query) ==
  /\ At("retrieve") /\ ~ShouldStop
  /\ query \in NextQuery
  /\ state.hop > 0 => kind = "plain"

RetrieveSkipped(kind, query) ==
  /\ Begins(kind, query)
  /\ ~Policy(kind).need
  /\ state' = [Hop(query, Policy(kind)) EXCEPT !.stop = "retrieval_skipped"]
  /\ past' = Append(past, query)
  /\ Goto("rerank")
  /\ UNCHANGED <<budget, shown, assessed>>

Searches(kind, query) ==
  /\ Begins(kind, query)
  /\ Policy(kind).need
  /\ ChargeAux(state.hop = 0 /\ Rewrites(kind))
  /\ Embeds(Policy(kind).queries)
  /\ UNCHANGED <<shown, assessed>>

Retrieved(kind, query) ==
  /\ Searches(kind, query)
  /\ \E found \in BOOLEAN :
       state' = [Hop(query, Policy(kind)) EXCEPT !.docs = @ \/ found, !.stop = ""]
  /\ past' = Append(past, query)
  /\ Goto("rerank")

RetrieveAgain(kind, query) ==
  /\ Searches(kind, query)
  /\ RetryAllowed
  /\ RunAgain
  /\ UNCHANGED <<state, past>>

(* A lasting error, the clock, or the last attempt: the hop found nothing. *)
RetrieveFailed(kind, query) ==
  /\ Searches(kind, query)
  /\ state' = [Hop(query, Policy(kind)) EXCEPT !.stop = "max_hops_reached"]
  /\ past' = Append(past, query)
  /\ Goto("rerank")

(* Citations are not pushed when no local chunk is left. *)
RerankShowsSome(top) == IF top THEN [top |-> top, web |-> state.web] ELSE shown
RerankShows(top) == [top |-> top, web |-> state.web]

(* The final evidence is chosen anew from all candidates and pushed, even   *)
(* when none is left.                                                       *)
Rerank ==
  /\ At("rerank")
  /\ \E top \in BOOLEAN :
       /\ top => state.docs
       /\ state.docs /\ profile.rerankMode = "llm" /\ ~AuxAllowed => top
       /\ state' = [state EXCEPT !.top = top]
       /\ shown' = RerankShows(top)
  /\ assessed' = FALSE
  /\ ChargeAux(state.docs /\ profile.rerankMode = "llm")
  /\ Goto("evaluate")
  /\ UNCHANGED <<embed, past>>

-----------------------------------------------------------------------------
(* Evaluation of the evidence.                                              *)

Required == IF profile.id = "realtime_voice" THEN 1 ELSE 2

(* Without a model: enough when the local chunks that score well and the    *)
(* web pages suffice.                                                       *)
FallbackEvaluation(strong) ==
  LET enough == \/ strong >= Required
                \/ strong >= 1 /\ state.web >= 1
                \/ state.web >= 2
  IN [enough |-> enough,
      facts |-> IF enough THEN <<>> ELSE <<VagueFact>>,
      webQuery |-> IF state.web > 0 THEN NoWebQuery ELSE Question.key]

FallbackEvaluations ==
  {FallbackEvaluation(strong) : strong \in IF state.top THEN 0 .. 2 ELSE {0}}

ModelEvaluations ==
  IF profile.evaluateMode = "llm" /\ AuxAllowed
  THEN {[enough |-> TRUE, facts |-> <<>>, webQuery |-> NoWebQuery]} \cup
       [enough : {FALSE}, facts : Facts, webQuery : WebKeys \cup {NoWebQuery}]
  ELSE {}

KeysOf(texts) == {texts[i].key : i \in DOMAIN texts}

(* Missing facts are added without looking at what was asked. *)
ExtendedPlanBlindly(facts) ==
  IF Len(Planned) < profile.maxHops THEN Planned \o facts ELSE Planned
(* The missing facts that nobody asked yet, as far as there are slots.      *)
Additions(facts, seen, slots) ==
  LET among[n \in 0 .. Len(facts)] ==
        IF n = 0 THEN <<>>
        ELSE LET more == among[n - 1]
             IN IF Len(more) < slots /\ facts[n].key \notin seen \cup KeysOf(more)
                THEN Append(more, facts[n]) ELSE more
  IN among[Len(facts)]

(* They extend the plan up to maxHops. *)
ExtendedPlan(facts) ==
  LET slots == profile.maxHops - Len(Planned)
      more == Additions(facts, KeysOf(Planned) \cup KeysOf(past), slots)
  IN IF facts = <<>> THEN state.plan
     ELSE IF slots <= 0 THEN Planned
     ELSE IF more = <<>> THEN state.plan
     ELSE Planned \o more

(* The number of web searches is not bounded. *)
UsesWebForever(webQuery) == state.allowWeb /\ webQuery \notin state.webAsked
UsesWeb(webQuery) ==
  /\ state.allowWeb
  /\ state.webTried < MaxWeb
  /\ webQuery \notin state.webAsked

CanContinue(plan) ==
  /\ state.next < profile.maxHops
  /\ state.next < (IF plan = <<>> THEN 1 ELSE Len(plan))

EnoughReason ==
  IF state.webUsed THEN "web_fallback_enough"
  ELSE IF state.hop > 1 THEN "multi_hop_enough"
  ELSE "single_hop_enough"

(* The web query it looks at is the one of the last evaluation. *)
StopReason(plan) ==
  LET web == UsesWeb(state.webQuery) IN
  CASE state.webUsed /\ web -> "web_fallback_retry"
    [] state.webUsed /\ ~web -> "web_fallback_insufficient"
    [] OTHER ->
      IF state.webTried = 0 /\ ~state.allowWeb THEN "web_fallback_disabled"
      ELSE IF ~web /\ state.webTried > 0 /\ state.stop # "" THEN state.stop
      ELSE IF state.hop >= profile.maxHops THEN "max_hops_reached"
      ELSE IF state.next >= (IF plan = <<>> THEN 1 ELSE Len(plan))
        THEN IF state.strategy = "complex" THEN "sub_questions_exhausted"
             ELSE "single_hop_insufficient"
      ELSE IF state.strategy = "complex" \/ state.hop > 1
        THEN "multi_hop_insufficient" ELSE "single_hop_insufficient"

Judged(enough, stop) ==
  /\ state' = [state EXCEPT !.enough = enough, !.stop = stop, !.webQuery = NoWebQuery]
  /\ assessed' = TRUE
  /\ Goto("load_context")
  /\ UNCHANGED <<budget, past, shown>>

Skipped == ~state.need \/ state.stop = "retrieval_skipped"

EvaluateSkipped == At("evaluate") /\ Skipped /\ Judged("yes", "retrieval_skipped")

EvaluateStopped ==
  At("evaluate") /\ ~Skipped /\ ShouldStop /\ Judged("no", "max_hops_reached")

EvaluateTarget(enough, plan, webQuery) ==
  IF enough THEN "load_context"
  ELSE IF CanContinue(plan) THEN "retrieve"
  ELSE IF UsesWeb(webQuery) THEN "web_fallback"
  ELSE "load_context"

Evaluate ==
  /\ At("evaluate") /\ ~Skipped /\ ~ShouldStop
  /\ \E e \in FallbackEvaluations \cup ModelEvaluations :
       LET plan == ExtendedPlan(e.facts) IN
       /\ state' = [state EXCEPT
            !.plan = plan,
            !.enough = IF e.enough THEN "yes" ELSE "no",
            !.stop = IF e.enough THEN EnoughReason ELSE StopReason(plan),
            !.webQuery = e.webQuery]
       /\ Goto(EvaluateTarget(e.enough, plan, e.webQuery))
  /\ ChargeAux(profile.evaluateMode = "llm")
  /\ assessed' = TRUE
  /\ UNCHANGED <<embed, past, shown>>

-----------------------------------------------------------------------------
(* The web search.  Whether it is configured was asked by the evaluation.   *)

WebKey == IF state.webQuery = NoWebQuery THEN Question.key ELSE state.webQuery

Tried(stop) ==
  [state EXCEPT !.webTried = @ + 1, !.webAsked = @ \cup {WebKey},
                !.webQuery = WebKey, !.stop = stop]

WebStopped ==
  /\ At("web_fallback") /\ ShouldStop
  /\ state' = [state EXCEPT !.stop = "max_hops_reached"]
  /\ Goto("load_context")
  /\ UNCHANGED <<budget, past, shown, assessed>>

SearchesWeb == At("web_fallback") /\ ~ShouldStop /\ UNCHANGED <<budget, past>>

(* A page found on the web needs no evaluation. *)
WebFoundTargetAnswer == "load_context"
WebFoundTarget == "evaluate"

(* Pages already cited are not cited again. *)
WebFound ==
  /\ SearchesWeb
  /\ \E web \in {n \in 1 .. 2 : n >= state.web} :
       /\ state' = [Tried(state.stop) EXCEPT !.web = web, !.webUsed = TRUE]
       /\ shown' = [top |-> state.top, web |-> web]
  /\ assessed' = FALSE
  /\ Goto(WebFoundTarget)

WebEmpty ==
  /\ SearchesWeb
  /\ state' = Tried("web_fallback_empty")
  /\ Goto("load_context")
  /\ UNCHANGED <<shown, assessed>>

WebAgain == SearchesWeb /\ RetryAllowed /\ RunAgain /\ UNCHANGED <<state, shown, assessed>>

WebFailed ==
  /\ SearchesWeb
  /\ state' = Tried("web_fallback_failed")
  /\ Goto("load_context")
  /\ UNCHANGED <<shown, assessed>>

-----------------------------------------------------------------------------
(* Context, memory and the answer.                                          *)

(* The persona and the history; small talk skips the memory. *)
LoadContext ==
  /\ At("load_context")
  /\ Goto(IF state.strategy = "none" THEN "generate" ELSE "memory")
  /\ UNCHANGED <<budget, state, past, shown, assessed>>

LoadContextAgain ==
  /\ At("load_context")
  /\ RetryAllowed
  /\ RunAgain
  /\ UNCHANGED <<budget, state, past, shown, assessed>>

LoadContextFails == At("load_context") /\ End("failed")

(* Both memories are read at once; either one may fail and is then empty. *)
LoadMemory ==
  /\ At("memory")
  /\ Goto("merge")
  /\ UNCHANGED <<budget, state, past, shown, assessed>>

MergeMemory ==
  /\ At("merge")
  /\ Goto("generate")
  /\ UNCHANGED <<budget, state, past, shown, assessed>>

(* With a call left the model is asked; a refusal, an error or silence are  *)
(* answered with a fixed sentence.  Small talk has a prompt of its own.     *)
Answered(direct) ==
  /\ At("generate")
  /\ direct <=> state.strategy = "none"
  /\ llm' = IF CanCallLlm THEN llm + 1 ELSE llm
  /\ Goto("done")
  /\ UNCHANGED <<embed, state, past, shown, assessed>>

GenerateDirect == Answered(TRUE)
Generate == Answered(FALSE)

-----------------------------------------------------------------------------
(* The clock of the turn cuts the whole run short; so does its caller.      *)

Running == node \in Searching

Tick ==
  /\ Running /\ ~late
  /\ late' = TRUE
  /\ UNCHANGED <<profile, node, attempt, steps, budget, state, past, shown, assessed>>

TimeOut == Running /\ late /\ End("timed_out")

Abort == Running /\ End("aborted")

Ended == ~Running /\ UNCHANGED vars

Retrieve(kind, query) ==
  \/ RetrieveSkipped(kind, query)
  \/ Retrieved(kind, query)
  \/ RetrieveAgain(kind, query)
  \/ RetrieveFailed(kind, query)

Step ==
  \/ Route \/ Plan \/ LoadQueryHistory
  \/ RetrieveNothing
  \/ \E kind \in QueryKinds, query \in NextQuery : Retrieve(kind, query)
  \/ Rerank
  \/ EvaluateSkipped \/ EvaluateStopped \/ Evaluate
  \/ WebStopped \/ WebFound \/ WebEmpty \/ WebAgain \/ WebFailed
  \/ LoadContext \/ LoadContextAgain \/ LoadContextFails
  \/ LoadMemory \/ MergeMemory \/ GenerateDirect \/ Generate

Next == Step \/ Tick \/ TimeOut \/ Abort \/ Ended

Spec == Init /\ [][Next]_vars

-----------------------------------------------------------------------------
(* Properties.                                                              *)

TypeOK ==
  /\ profile \in Profiles
  /\ node \in Searching \cup {"done", "failed", "timed_out", "aborted"}
  /\ attempt \in 1 .. MaxAttempts
  /\ steps \in 0 .. StepLimit
  /\ late \in BOOLEAN
  /\ llm \in 0 .. profile.maxLlm
  /\ embed \in 0 .. profile.maxEmbed
  /\ state.web \in 0 .. 2 /\ (state.top => state.docs)

(* The calls made on the way to an answer never use up the one the answer   *)
(* needs (tryConsumeAuxiliaryLlm), however nodes are run again.             *)
AnswerReserved == Running => llm < profile.maxLlm

(* No query is searched twice in a run, and there are at most maxHops hops, *)
(* whatever the planner and the evaluator propose (getNextQuery,            *)
(* canContinueMultiHop, extendSubQuestionsWithMissingFacts).                *)
HopsDistinct ==
  /\ Len(past) <= profile.maxHops
  /\ \A i, j \in DOMAIN past : past[i] = past[j] => i = j

(* No run exceeds LangGraph's recursion limit: the hops, the web searches   *)
(* and the evaluations they call for fit together under it.                 *)
NoRecursionError == ~(node = "failed" /\ steps >= StepLimit)

(* The assessment an answer is generated with is of the evidence it is      *)
(* generated from: nothing changes the evidence after the last evaluation.  *)
AssessedEvidence ==
  node \in {"memory", "merge", "generate"} /\ state.strategy # "none" =>
    state.enough # "unknown" /\ assessed

(* Once the clock has run out, no hop and no web search starts.             *)
LateSearchesNothing ==
  [][late /\ node' \in Searching =>
       past' = past /\ state'.webTried = state.webTried]_vars

(* A run keeps the promise of AgentRun: the client's citations are those of *)
(* the result.                                                              *)
Phase == IF Running THEN "searching" ELSE IF node = "done" THEN "answered" ELSE "stopped"
Promise == INSTANCE AgentRun WITH
  phase <- Phase,
  shown <- shown,
  result <- IF node = "done" THEN Evidence ELSE NoEvidence
KeepsPromise == Promise!Spec

=============================================================================
