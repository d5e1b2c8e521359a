-------------------------- MODULE RagGraph_proofs --------------------------
(* Proofs about RagGraph, for every value of its constants that the         *)
(* assumptions of the module allow.                                         *)
EXTENDS RagGraph, SequenceTheorems, WellFoundedInduction, TLAPS

(* The graph state is a record of these fields and of no others. *)
Fields == {"strategy", "plan", "next", "hop", "docs", "top", "web", "need",
           "allowWeb", "enough", "stop", "webQuery", "webTried", "webAsked",
           "webUsed"}
Shaped == state = [f \in Fields |-> state[f]]

TypeInv ==
  /\ TypeOK
  /\ Shaped
  /\ state.hop \in Nat /\ state.next = state.hop
  /\ state.webTried \in Nat

(* How far the run can be at a node: three supersteps a hop, two a web      *)
(* search, and one hop more when the budget is found exhausted before it.   *)
Spent == 3 * state.hop + 2 * state.webTried
Reserve == 3 * profile.maxHops + 2 * MaxWeb
InHop(n) ==
  \/ steps <= n + Spent
  \/ ShouldStop /\ state.hop < profile.maxHops /\ steps <= n + 3 + Spent
StepsInv ==
  /\ state.hop <= profile.maxHops /\ state.webTried <= MaxWeb
  /\ node = "route" => steps = 0 /\ Spent = 0
  /\ node \in {"route", "plan"} => state.plan = <<>>
  /\ node = "plan" => steps <= 1 /\ Spent = 0
  /\ node = "query_history" => steps <= 2 /\ Spent = 0 /\ state.next < Len(Planned)
  /\ node = "retrieve" =>
       steps <= 3 + Spent /\ state.hop < profile.maxHops /\ state.next < Len(Planned)
  /\ node = "rerank" => InHop(1)
  /\ node = "evaluate" => InHop(2)
  /\ node = "web_fallback" => steps <= 3 + Spent /\ state.webTried < MaxWeb
  /\ node = "load_context" => steps <= 3 + Reserve
  /\ node = "memory" => steps <= 4 + Reserve
  /\ node = "merge" => steps <= 5 + Reserve
  /\ node = "generate" => steps <= 6 + Reserve
  /\ ~Running => steps <= 7 + Reserve
  /\ node = "failed" => steps = 0

(* The client holds the evidence, but between a hop and its reranking. *)
CitedInv == (Running /\ node # "rerank") \/ node = "done" => shown = Evidence

(* What follows the evaluation keeps it, and so do web searches in vain. *)
AssessedInv ==
  /\ node \in {"load_context", "memory", "merge", "generate"} /\ state.strategy # "none" =>
       state.enough # "unknown" /\ assessed
  /\ node = "web_fallback" => state.enough # "unknown" /\ assessed
  /\ node \in {"memory", "merge"} => state.strategy # "none"

SafeInv == TypeInv /\ AnswerReserved /\ StepsInv /\ CitedInv /\ AssessedInv

-----------------------------------------------------------------------------
(* The numbers and the pieces the actions are made of.                      *)

LEMMA ProfileNumbers ==
  ASSUME profile \in Profiles
  PROVE  /\ profile.maxHops \in Nat \ {0} /\ profile.maxLlm \in Nat \ {0}
         /\ profile.maxEmbed \in Nat /\ MaxWeb \in Nat /\ MaxAttempts \in Nat \ {0}
         /\ StepLimit \in Nat /\ Reserve \in Nat /\ 6 + Reserve < StepLimit
BY ProfilesAssumption, AttemptsAssumption, StepsAssumption DEF Reserve

LEMMA InitialShape ==
  /\ InitialState = [f \in Fields |-> InitialState[f]]
  /\ InitialState.hop = 0 /\ InitialState.next = 0 /\ InitialState.webTried = 0
  /\ InitialState.web = 0 /\ InitialState.top = FALSE /\ InitialState.docs = FALSE
  /\ InitialState.plan = <<>>
BY DEF InitialState, Fields

(* Going on from any node but the last one, or ending with the answer. *)
LEMMA GotoEffect ==
  ASSUME NEW next, Goto(next), steps + 1 < StepLimit \/ next = "done"
  PROVE  /\ node' = next /\ steps' = steps + 1 /\ attempt' = 1
         /\ profile' = profile /\ late' = late
BY DEF Goto

LEMMA ChargeEffect ==
  ASSUME TypeInv, AnswerReserved, Running, NEW wanted, ChargeAux(wanted)
  PROVE  llm' \in 0 .. profile.maxLlm /\ llm' < profile.maxLlm /\ llm' >= llm
BY ProfileNumbers DEF TypeInv, TypeOK, AnswerReserved, ChargeAux, AuxAllowed, CanCallLlm

LEMMA EmbedsEffect ==
  ASSUME TypeInv, NEW queries \in Nat, Embeds(queries)
  PROVE  embed' \in 0 .. profile.maxEmbed /\ embed' >= embed
BY ProfileNumbers DEF TypeInv, TypeOK, Embeds

(* A node that goes on has room under the limit. *)
LEMMA RoomAhead ==
  ASSUME SafeInv, Running
  PROVE  steps + 1 <= StepLimit /\ (node # "generate" => steps + 1 < StepLimit)
<1>1. /\ profile.maxHops \in Nat /\ StepLimit \in Nat /\ Reserve \in Nat
      /\ 6 + Reserve < StepLimit /\ MaxWeb \in Nat
  BY ProfileNumbers DEF SafeInv, TypeInv, TypeOK
<1>2. /\ state.hop \in Nat /\ state.webTried \in Nat /\ steps \in Nat
      /\ state.hop <= profile.maxHops /\ state.webTried <= MaxWeb
  BY DEF SafeInv, TypeInv, TypeOK, StepsInv
<1>3. Spent \in Nat /\ Spent <= Reserve /\ (state.hop < profile.maxHops => Spent + 3 <= Reserve)
      /\ (state.webTried < MaxWeb => Spent + 2 <= Reserve)
  BY <1>1, <1>2 DEF Spent, Reserve
<1>4. node # "generate" => steps <= 5 + Reserve
  BY <1>1, <1>2, <1>3 DEF SafeInv, StepsInv, InHop, Running, Searching
<1>5. node = "generate" => steps <= 6 + Reserve
  BY DEF SafeInv, StepsInv
<1> QED BY <1>1, <1>2, <1>4, <1>5

LEMMA InitSafe == Init => SafeInv
<1> SUFFICES ASSUME Init PROVE SafeInv
  OBVIOUS
<1>0. profile \in Profiles /\ state = InitialState
  BY DEF Init
<1>1. TypeInv
  <2>1. TypeOK
    <3>1. llm \in 0 .. profile.maxLlm /\ embed \in 0 .. profile.maxEmbed
      BY <1>0, ProfileNumbers DEF Init
    <3>2. steps \in 0 .. StepLimit /\ attempt \in 1 .. MaxAttempts
      BY <1>0, ProfileNumbers DEF Init
    <3>3. state.web \in 0 .. 2 /\ (state.top => state.docs)
      BY <1>0, InitialShape
    <3>4. node \in Searching /\ late \in BOOLEAN
      BY DEF Init, Searching
    <3> QED BY <1>0, <3>1, <3>2, <3>3, <3>4 DEF TypeOK
  <2>2. Shaped /\ state.hop \in Nat /\ state.next = state.hop /\ state.webTried \in Nat
    BY <1>0, InitialShape DEF Shaped
  <2> QED BY <2>1, <2>2 DEF TypeInv
<1>2. AnswerReserved
  BY <1>0, ProfileNumbers DEF Init, AnswerReserved
<1>3. StepsInv
  BY <1>0, ProfileNumbers, InitialShape DEF Init, StepsInv, Spent, Running, Searching
<1>4. CitedInv
  BY <1>0, InitialShape DEF Init, CitedInv, NoEvidence, Evidence
<1>5. AssessedInv
  BY DEF Init, AssessedInv
<1> QED BY <1>1, <1>2, <1>3, <1>4, <1>5 DEF SafeInv

-----------------------------------------------------------------------------
(* Every action keeps the invariant.                                        *)

(* Leaving a run early forgets all but what was pushed. *)
LEMMA EndSafe ==
  ASSUME SafeInv, NEW how \in {"failed", "timed_out", "aborted"}, End(how)
  PROVE  SafeInv'
<1>0. /\ node' = how /\ profile' = profile /\ late' = late /\ profile \in Profiles
      /\ llm' = 0 /\ embed' = 0 /\ steps' = 0 /\ attempt' = 1
      /\ state' = InitialState'
  BY DEF End, SafeInv, TypeInv, TypeOK, InitialState
<1>s. /\ state' = [f \in Fields |-> state'[f]]
      /\ state'.hop = 0 /\ state'.next = 0 /\ state'.webTried = 0
      /\ state'.web = 0 /\ state'.top = FALSE
  BY <1>0 DEF InitialState, Fields
<1>1. TypeInv'
  <2>1. llm' \in 0 .. profile'.maxLlm /\ embed' \in 0 .. profile'.maxEmbed
    BY <1>0, ProfileNumbers
  <2>2. steps' \in 0 .. StepLimit /\ attempt' \in 1 .. MaxAttempts
    BY <1>0, ProfileNumbers
  <2>3. late' \in BOOLEAN
    BY <1>0 DEF SafeInv, TypeInv, TypeOK
  <2>4. TypeOK'
    BY <1>0, <1>s, <2>1, <2>2, <2>3 DEF TypeOK
  <2> QED BY <1>s, <2>4 DEF TypeInv, Shaped
<1>2. ~Running'
  BY <1>0 DEF Running, Searching
<1>n. /\ profile.maxHops \in Nat /\ MaxWeb \in Nat /\ Reserve' \in Nat
  BY <1>0, ProfileNumbers DEF Reserve
<1>3. StepsInv'
  BY <1>0, <1>s, <1>n DEF StepsInv, Spent
<1>4. AnswerReserved' /\ CitedInv' /\ AssessedInv'
  BY <1>0, <1>2 DEF CitedInv, AssessedInv, AnswerReserved
<1> QED BY <1>1, <1>3, <1>4 DEF SafeInv

(* The graph state after a node, and what it says of the run so far. *)
StateOK ==
  /\ Shaped
  /\ state.hop \in Nat /\ state.next = state.hop /\ state.webTried \in Nat
  /\ state.web \in 0 .. 2 /\ (state.top => state.docs)

LEMMA OnwardType ==
  ASSUME SafeInv, Running, NEW next \in Searching \cup {"done"}, Goto(next),
         next = "done" => node = "generate", node = "generate" => next = "done",
         llm' \in 0 .. profile.maxLlm, embed' \in 0 .. profile.maxEmbed, StateOK'
  PROVE  /\ TypeInv' /\ node' = next /\ steps' = steps + 1
         /\ profile' = profile /\ late' = late
<1>1. /\ node' = next /\ steps' = steps + 1 /\ attempt' = 1
      /\ profile' = profile /\ late' = late
  BY RoomAhead, GotoEffect
<1>2. steps' \in 0 .. StepLimit /\ attempt' \in 1 .. MaxAttempts
  BY <1>1, RoomAhead, ProfileNumbers DEF SafeInv, TypeInv, TypeOK
<1>3. TypeOK'
  BY <1>1, <1>2 DEF SafeInv, TypeInv, TypeOK, StateOK
<1> QED BY <1>1, <1>3 DEF TypeInv, StateOK

LEMMA StateKept ==
  ASSUME SafeInv
  PROVE  StateOK
BY DEF SafeInv, TypeInv, TypeOK, StateOK

(* The numbers a step's count of supersteps is compared with. *)
LEMMA Numbers ==
  ASSUME SafeInv
  PROVE  /\ profile \in Profiles
         /\ profile.maxHops \in Nat \ {0} /\ profile.maxLlm \in Nat /\ profile.maxEmbed \in Nat
         /\ MaxWeb \in Nat /\ StepLimit \in Nat
         /\ state.hop \in Nat /\ state.webTried \in Nat /\ state.next = state.hop
         /\ steps \in Nat /\ llm \in Nat /\ embed \in Nat
         /\ Reserve = 3 * profile.maxHops + 2 * MaxWeb
         /\ Spent = 3 * state.hop + 2 * state.webTried
BY ProfileNumbers DEF SafeInv, TypeInv, TypeOK, Reserve, Spent

LEMMA NothingSpent ==
  ASSUME SafeInv, Spent = 0
  PROVE  state.hop = 0 /\ state.webTried = 0 /\ state.next = 0
<1> DEFINE h == state.hop
           w == state.webTried
<1>1. h \in Nat /\ w \in Nat /\ 3 * h + 2 * w = 0 /\ state.next = h
  BY Numbers
<1> HIDE DEF h, w
<1>2. h = 0 /\ w = 0
  BY <1>1
<1> QED BY <1>1, <1>2 DEF h, w

LEMMA RouteSafe == ASSUME SafeInv, Route PROVE SafeInv'
<1>1. PICK strategy \in {"none", "simple", "complex"}, greeting \in BOOLEAN :
        /\ ChargeAux(~greeting /\ profile.routeMode = "llm")
        /\ state' = [state EXCEPT !.strategy = strategy]
        /\ Goto(RouteTarget(strategy))
  BY DEF Route
<1>2. /\ node = "route" /\ Running
      /\ embed' = embed /\ past' = past /\ shown' = shown /\ assessed' = assessed
  BY DEF Route, At, Running, Searching
<1>3. llm' \in 0 .. profile.maxLlm /\ llm' < profile.maxLlm
  BY <1>1, <1>2, ChargeEffect DEF SafeInv
<1>4. /\ StateOK'
      /\ state'.hop = state.hop /\ state'.webTried = state.webTried /\ state'.plan = state.plan
      /\ state'.strategy = strategy /\ state'.next = state.next
      /\ state'.web = state.web /\ state'.top = state.top
  BY <1>1, StateKept DEF StateOK, Shaped, Fields
<1>5. /\ RouteTarget(strategy) \in {"load_context", "plan", "query_history"}
      /\ strategy = "none" <=> RouteTarget(strategy) = "load_context"
  BY DEF RouteTarget
<1>6. /\ TypeInv' /\ node' = RouteTarget(strategy) /\ steps' = steps + 1
      /\ profile' = profile /\ late' = late
  BY <1>1, <1>2, <1>3, <1>4, <1>5, OnwardType DEF SafeInv, TypeInv, TypeOK, Searching
<1>7. AnswerReserved'
  BY <1>3, <1>6 DEF AnswerReserved
<1>8. StepsInv'
  <2>1. steps = 0 /\ state.plan = <<>> /\ state.hop = 0 /\ state.webTried = 0 /\ state.next = 0
    BY <1>2, Numbers DEF SafeInv, StepsInv
  <2>0. profile.maxHops \in Nat /\ MaxWeb \in Nat
    BY Numbers
  <2>2. state'.hop = 0 /\ state'.webTried = 0 /\ state'.next = 0 /\ steps' = 1
    BY <2>1, <1>4, <1>6
  <2>5. Spent' = 0
    BY <2>2 DEF Spent
  <2>6. steps' <= 3 + Reserve'
    BY <2>0, <2>2, <1>6 DEF Reserve
  <2>7. Planned' = <<Question>>
    BY <2>1, <1>4 DEF Planned
  <2>3. state'.next < Len(Planned')
    BY <2>2, <2>7
  <2>4. Running'
    BY <1>5, <1>6 DEF Running, Searching
  <2>8. state'.hop <= profile'.maxHops /\ state'.webTried <= MaxWeb /\ state'.plan = <<>>
    BY <2>0, <2>1, <2>2, <1>4, <1>6
  <2>a. CASE node' = "load_context"
    BY <2>a, <2>0, <2>2, <2>4, <2>6, <2>8 DEF StepsInv
  <2>b. CASE node' = "plan"
    BY <2>b, <2>2, <2>4, <2>5, <2>8 DEF StepsInv
  <2>c. CASE node' = "query_history"
    BY <2>c, <2>2, <2>3, <2>4, <2>5, <2>8 DEF StepsInv
  <2> QED BY <1>5, <1>6, <2>a, <2>b, <2>c
<1>9. CitedInv' /\ AssessedInv'
  BY <1>2, <1>4, <1>5, <1>6 DEF SafeInv, CitedInv, AssessedInv, Evidence
<1> QED BY <1>6, <1>7, <1>8, <1>9 DEF SafeInv

(* A node that leaves the graph state as it is. *)
LEMMA SameState ==
  ASSUME SafeInv, state' = state
  PROVE  StateOK'
BY StateKept DEF StateOK, Shaped

(* Neither a hop nor a web search: the same numbers. *)
LEMMA SameNumbers ==
  ASSUME SafeInv, profile' = profile,
         state'.hop = state.hop, state'.webTried = state.webTried
  PROVE  /\ Reserve' = Reserve /\ Spent' = Spent /\ Reserve \in Nat /\ Spent \in Nat
         /\ state'.hop <= profile'.maxHops /\ state'.webTried <= MaxWeb
         /\ Spent <= Reserve /\ (state.hop < profile.maxHops => Spent + 3 <= Reserve)
         /\ (state.webTried < MaxWeb => Spent + 2 <= Reserve)
<1>1. state.hop <= profile.maxHops /\ state.webTried <= MaxWeb
  BY DEF SafeInv, StepsInv
<1>2. Reserve' = Reserve /\ Spent' = Spent
  BY DEF Reserve, Spent
<1>3. /\ Reserve \in Nat /\ Spent \in Nat /\ Spent <= Reserve
      /\ (state.hop < profile.maxHops => Spent + 3 <= Reserve)
      /\ (state.webTried < MaxWeb => Spent + 2 <= Reserve)
  BY <1>1, Numbers
<1> QED BY <1>1, <1>2, <1>3

LEMMA PlanSafe == ASSUME SafeInv, Plan PROVE SafeInv'
<1>1. PICK plan \in {FallbackPlan} \cup Plans : state' = [state EXCEPT !.plan = plan]
  BY DEF Plan
<1>2. /\ node = "plan" /\ Running /\ Goto("query_history") /\ ChargeAux(TRUE)
      /\ embed' = embed /\ past' = past /\ shown' = shown /\ assessed' = assessed
  BY DEF Plan, At, Running, Searching
<1>3. llm' \in 0 .. profile.maxLlm /\ llm' < profile.maxLlm
  BY <1>2, ChargeEffect DEF SafeInv
<1>4. /\ StateOK'
      /\ state'.hop = state.hop /\ state'.webTried = state.webTried /\ state'.plan = plan
      /\ state'.next = state.next
      /\ state'.web = state.web /\ state'.top = state.top
  BY <1>1, StateKept DEF StateOK, Shaped, Fields
<1>6. /\ TypeInv' /\ node' = "query_history" /\ steps' = steps + 1
      /\ profile' = profile /\ late' = late
  BY <1>2, <1>3, <1>4, OnwardType DEF SafeInv, TypeInv, TypeOK, Searching
<1>7. AnswerReserved'
  BY <1>3, <1>6 DEF AnswerReserved
<1>8. StepsInv'
  <2>1. steps <= 1 /\ Spent = 0 /\ steps \in Nat
    BY <1>2, Numbers DEF SafeInv, StepsInv
  <2>2. Spent' = 0 /\ steps' <= 2 /\ state'.hop <= profile'.maxHops /\ state'.webTried <= MaxWeb
    BY <2>1, <1>4, <1>6, SameNumbers
  <2>3. state'.next = 0
    BY <2>1, <1>4, NothingSpent
  <2>4. Len(Planned') > 0
    <3>1. CASE plan = <<>>
      BY <3>1, <1>4 DEF Planned
    <3>2. CASE plan # <<>>
      BY <3>2, <1>4, PlansAssumption DEF Planned, FallbackPlan
    <3> QED BY <3>1, <3>2
  <2> QED BY <2>2, <2>3, <2>4, <1>6 DEF StepsInv, Running, Searching
<1>9. CitedInv' /\ AssessedInv'
  BY <1>2, <1>4, <1>6 DEF SafeInv, CitedInv, AssessedInv, Evidence
<1> QED BY <1>6, <1>7, <1>8, <1>9 DEF SafeInv

LEMMA LoadQueryHistorySafe == ASSUME SafeInv, LoadQueryHistory PROVE SafeInv'
<1>1. /\ node = "query_history" /\ Running /\ Goto("retrieve") /\ state' = state
      /\ llm' = llm /\ embed' = embed
      /\ past' = past /\ shown' = shown /\ assessed' = assessed
  BY DEF LoadQueryHistory, At, Running, Searching, budget
<1>2. /\ TypeInv' /\ node' = "retrieve" /\ steps' = steps + 1
      /\ profile' = profile /\ late' = late
  BY <1>1, SameState, OnwardType DEF SafeInv, TypeInv, TypeOK, Searching
<1>3. AnswerReserved'
  BY <1>1, <1>2 DEF AnswerReserved, SafeInv
<1>4. StepsInv'
  <2>1. steps <= 2 /\ Spent = 0 /\ state.next < Len(Planned)
    BY <1>1 DEF SafeInv, StepsInv
  <2>2. state.hop = 0 /\ steps \in Nat /\ profile.maxHops > 0
    BY <2>1, Numbers, NothingSpent
  <2>3. /\ steps' <= 3 + Spent' /\ state'.hop < profile'.maxHops
        /\ state'.hop <= profile'.maxHops /\ state'.webTried <= MaxWeb
    BY <2>1, <2>2, <1>1, <1>2, SameNumbers
  <2>4. state'.next < Len(Planned')
    BY <2>1, <1>1 DEF Planned
  <2> QED BY <2>3, <2>4, <1>2 DEF StepsInv, Running, Searching
<1>5. CitedInv' /\ AssessedInv'
  BY <1>1, <1>2 DEF SafeInv, CitedInv, AssessedInv, Evidence, Running, Searching
<1> QED BY <1>2, <1>3, <1>4, <1>5 DEF SafeInv

(* The end of a hop, whatever it found: the numbers at the reranking. *)
LEMMA HopSteps ==
  ASSUME SafeInv, node = "retrieve", node' = "rerank", steps' = steps + 1,
         profile' = profile, state'.hop = state.hop + 1, state'.webTried = state.webTried
  PROVE  StepsInv'
<1>1. steps <= 3 + Spent /\ state.hop < profile.maxHops /\ state.webTried <= MaxWeb
  BY DEF SafeInv, StepsInv
<1>2. state'.hop <= profile'.maxHops /\ state'.webTried <= MaxWeb
  BY <1>1, Numbers
<1>3. Spent' = Spent + 3
  BY Numbers DEF Spent
<1>4. steps' <= 1 + Spent'
  BY <1>1, <1>3, Numbers
<1>5. InHop(1)'
  BY <1>4 DEF InHop
<1> QED BY <1>2, <1>5 DEF StepsInv, Running, Searching

(* What the four ways to end a hop have in common. *)
LEMMA HopSafe ==
  ASSUME SafeInv, node = "retrieve", Goto("rerank"), StateOK',
         state'.hop = state.hop + 1, state'.webTried = state.webTried,
         llm' \in 0 .. profile.maxLlm, llm' < profile.maxLlm,
         embed' \in 0 .. profile.maxEmbed
  PROVE  SafeInv'
<1>1. /\ TypeInv' /\ node' = "rerank" /\ steps' = steps + 1
      /\ profile' = profile /\ late' = late
  BY OnwardType DEF Running, Searching
<1>2. StepsInv'
  BY <1>1, HopSteps
<1>3. AnswerReserved' /\ CitedInv' /\ AssessedInv'
  BY <1>1 DEF AnswerReserved, CitedInv, AssessedInv
<1> QED BY <1>1, <1>2, <1>3 DEF SafeInv

LEMMA RetrieveNothingSafe == ASSUME SafeInv, RetrieveNothing PROVE SafeInv'
<1>1. /\ node = "retrieve" /\ Running /\ Goto("rerank")
      /\ llm' = llm /\ embed' = embed /\ llm < profile.maxLlm
  BY DEF RetrieveNothing, At, Running, Searching, budget, SafeInv, AnswerReserved
<1>2. NextQuery # {}
  BY <1>1 DEF SafeInv, StepsInv, NextQuery
<1>3. ShouldStop /\ state' = [state EXCEPT !.stop = "max_hops_reached"]
  BY <1>2 DEF RetrieveNothing
<1>4. /\ StateOK'
      /\ state'.hop = state.hop /\ state'.webTried = state.webTried
  BY <1>3, StateKept DEF StateOK, Shaped, Fields
<1>5. /\ TypeInv' /\ node' = "rerank" /\ steps' = steps + 1
      /\ profile' = profile /\ late' = late
  BY <1>1, <1>4, OnwardType DEF SafeInv, TypeInv, TypeOK, Searching
<1>6. StepsInv'
  <2>1. steps <= 3 + Spent /\ state.hop < profile.maxHops
    BY <1>1 DEF SafeInv, StepsInv
  <2>2. /\ steps' <= 1 + 3 + Spent' /\ state'.hop < profile'.maxHops
        /\ state'.hop <= profile'.maxHops /\ state'.webTried <= MaxWeb
    BY <2>1, <1>4, <1>5, Numbers, SameNumbers
  <2>3. ShouldStop'
    BY <1>1, <1>3, <1>5 DEF ShouldStop, Exhausted
  <2>4. InHop(1)'
    BY <2>2, <2>3 DEF InHop
  <2> QED BY <2>2, <2>4, <1>5 DEF StepsInv, Running, Searching
<1>7. AnswerReserved' /\ CitedInv' /\ AssessedInv'
  BY <1>1, <1>5 DEF AnswerReserved, CitedInv, AssessedInv
<1> QED BY <1>5, <1>6, <1>7 DEF SafeInv

(* The graph state at the end of a hop. *)
LEMMA HopState ==
  ASSUME SafeInv, NEW query, NEW policy, NEW docs \in BOOLEAN, NEW stop,
         \/ state' = [Hop(query, policy) EXCEPT !.docs = @ \/ docs, !.stop = stop]
         \/ state' = [Hop(query, policy) EXCEPT !.stop = stop]
  PROVE  StateOK' /\ state'.hop = state.hop + 1 /\ state'.webTried = state.webTried
<1> DEFINE h == Hop(query, policy)
<1>1. /\ h = [f \in Fields |-> h[f]]
      /\ h.hop = state.hop + 1 /\ h.next = state.next + 1
      /\ h.webTried = state.webTried /\ h.web = state.web /\ h.top = FALSE
  BY DEF Hop, SafeInv, TypeInv, Shaped, Fields
<1>2. \/ state' = [h EXCEPT !.docs = @ \/ docs, !.stop = stop]
      \/ state' = [h EXCEPT !.stop = stop]
  OBVIOUS
<1> HIDE DEF h
<1>3. /\ state' = [f \in Fields |-> state'[f]]
      /\ state'.hop = h.hop /\ state'.next = h.next /\ state'.webTried = h.webTried
      /\ state'.web = h.web /\ state'.top = h.top
  <2>1. CASE state' = [h EXCEPT !.stop = stop]
    BY <2>1, <1>1 DEF Fields
  <2>2. CASE state' = [h EXCEPT !.docs = @ \/ docs, !.stop = stop]
    BY <2>2, <1>1 DEF Fields
  <2> QED BY <1>2, <2>1, <2>2
<1> QED BY <1>1, <1>3, Numbers, StateKept DEF StateOK, Shaped

LEMMA SearchesEffect ==
  ASSUME SafeInv, NEW kind, NEW query, Searches(kind, query)
  PROVE  /\ node = "retrieve" /\ ~ShouldStop /\ shown' = shown /\ assessed' = assessed
         /\ llm' \in 0 .. profile.maxLlm /\ llm' < profile.maxLlm
         /\ embed' \in 0 .. profile.maxEmbed
<1>1. /\ node = "retrieve" /\ Running /\ ~ShouldStop
      /\ shown' = shown /\ assessed' = assessed
  BY DEF Searches, Begins, At, Running, Searching
<1>2. Policy(kind).queries \in Nat
  BY ExpansionsAssumption DEF Policy
<1>3. PICK wanted : ChargeAux(wanted)
  BY DEF Searches
<1>4. Embeds(Policy(kind).queries)
  BY DEF Searches
<1> QED BY <1>1, <1>2, <1>3, <1>4, ChargeEffect, EmbedsEffect DEF SafeInv

LEMMA RetrieveSkippedSafe ==
  ASSUME SafeInv, NEW kind, NEW query, RetrieveSkipped(kind, query)
  PROVE  SafeInv'
<1>1. /\ node = "retrieve" /\ Running /\ Goto("rerank")
      /\ llm' = llm /\ embed' = embed /\ llm < profile.maxLlm
      /\ state' = [Hop(query, Policy(kind)) EXCEPT !.stop = "retrieval_skipped"]
  BY DEF RetrieveSkipped, Begins, At, Running, Searching, budget, SafeInv, AnswerReserved
<1>2. StateOK' /\ state'.hop = state.hop + 1 /\ state'.webTried = state.webTried
  BY <1>1, HopState
<1> QED BY <1>1, <1>2, HopSafe DEF SafeInv, TypeInv, TypeOK

LEMMA RetrievedSafe ==
  ASSUME SafeInv, NEW kind, NEW query, Retrieved(kind, query)
  PROVE  SafeInv'
<1>1. PICK found \in BOOLEAN :
        state' = [Hop(query, Policy(kind)) EXCEPT !.docs = @ \/ found, !.stop = ""]
  BY DEF Retrieved
<1>2. StateOK' /\ state'.hop = state.hop + 1 /\ state'.webTried = state.webTried
  BY <1>1, HopState
<1> QED BY <1>2, SearchesEffect, HopSafe DEF Retrieved

LEMMA RetrieveFailedSafe ==
  ASSUME SafeInv, NEW kind, NEW query, RetrieveFailed(kind, query)
  PROVE  SafeInv'
<1>1. state' = [Hop(query, Policy(kind)) EXCEPT !.stop = "max_hops_reached"]
  BY DEF RetrieveFailed
<1>2. StateOK' /\ state'.hop = state.hop + 1 /\ state'.webTried = state.webTried
  BY <1>1, HopState
<1> QED BY <1>2, SearchesEffect, HopSafe DEF RetrieveFailed

(* A node that is run again: the same node, with more calls charged. *)
LEMMA AgainSafe ==
  ASSUME SafeInv, Running, RetryAllowed, RunAgain, state' = state,
         shown' = shown, assessed' = assessed,
         llm' \in 0 .. profile.maxLlm, llm' < profile.maxLlm,
         embed' \in 0 .. profile.maxEmbed,
         node \notin {"rerank", "evaluate"}
  PROVE  SafeInv'
<1>1. /\ attempt' = attempt + 1 /\ profile' = profile /\ node' = node
      /\ steps' = steps /\ late' = late
  BY DEF RunAgain
<1>2. attempt' \in 1 .. MaxAttempts
  BY <1>1, ProfileNumbers DEF RetryAllowed, SafeInv, TypeInv, TypeOK
<1>3. TypeOK'
  BY <1>1, <1>2 DEF SafeInv, TypeInv, TypeOK
<1>4. TypeInv'
  BY <1>3 DEF SafeInv, TypeInv, Shaped
<1>5. Reserve' = Reserve /\ Spent' = Spent /\ Planned' = Planned /\ Running'
  BY <1>1 DEF Reserve, Spent, Planned, Running
<1>6. StepsInv'
  BY <1>1, <1>5 DEF SafeInv, StepsInv
<1>7. AnswerReserved' /\ CitedInv' /\ AssessedInv'
  BY <1>1, <1>5 DEF SafeInv, AnswerReserved, CitedInv, AssessedInv, Evidence
<1> QED BY <1>4, <1>6, <1>7 DEF SafeInv

LEMMA RetrieveAgainSafe ==
  ASSUME SafeInv, NEW kind, NEW query, RetrieveAgain(kind, query)
  PROVE  SafeInv'
<1>1. /\ node = "retrieve" /\ Running /\ RetryAllowed /\ RunAgain /\ state' = state
  BY SearchesEffect DEF RetrieveAgain, Running, Searching
<1> QED BY <1>1, SearchesEffect, AgainSafe DEF RetrieveAgain

LEMMA RerankSafe == ASSUME SafeInv, Rerank PROVE SafeInv'
<1>1. PICK top \in BOOLEAN :
        /\ top => state.docs
        /\ state' = [state EXCEPT !.top = top]
        /\ shown' = [top |-> top, web |-> state.web]
  BY DEF Rerank, RerankShows
<1>2. /\ node = "rerank" /\ Running /\ Goto("evaluate") /\ embed' = embed
  BY DEF Rerank, At, Running, Searching
<1>3. llm' \in 0 .. profile.maxLlm /\ llm' < profile.maxLlm /\ llm' >= llm
  <2>1. PICK wanted : ChargeAux(wanted)
    BY DEF Rerank
  <2> QED BY <2>1, <1>2, ChargeEffect DEF SafeInv
<1>4. /\ StateOK' /\ state'.top = top /\ state'.web = state.web
      /\ state'.hop = state.hop /\ state'.webTried = state.webTried
  BY <1>1, StateKept DEF StateOK, Shaped, Fields
<1>5. /\ TypeInv' /\ node' = "evaluate" /\ steps' = steps + 1
      /\ profile' = profile /\ late' = late
  BY <1>2, <1>3, <1>4, OnwardType DEF SafeInv, TypeInv, TypeOK, Searching
<1>6. StepsInv'
  <2>1. Spent' = Spent /\ state'.hop <= profile'.maxHops /\ state'.webTried <= MaxWeb
    BY <1>4, <1>5, SameNumbers
  <2>2. InHop(1)
    BY <1>2 DEF SafeInv, StepsInv
  <2>3. ShouldStop => ShouldStop'
    BY <1>2, <1>3, <1>5, Numbers DEF ShouldStop, Exhausted
  <2>4. InHop(2)'
    <3>1. CASE steps <= 1 + Spent
      <4>1. steps' <= 2 + Spent'
        BY <3>1, <1>5, <2>1, Numbers
      <4> QED BY <4>1 DEF InHop
    <3>2. CASE ShouldStop /\ state.hop < profile.maxHops /\ steps <= 1 + 3 + Spent
      <4>1. steps' <= 2 + 3 + Spent' /\ state'.hop < profile'.maxHops
        BY <3>2, <1>4, <1>5, <2>1, Numbers
      <4> QED BY <3>2, <4>1, <2>3 DEF InHop
    <3> QED BY <2>2, <3>1, <3>2 DEF InHop
  <2> QED BY <2>1, <2>4, <1>5 DEF StepsInv, Running, Searching
<1>7. AnswerReserved' /\ CitedInv' /\ AssessedInv'
  BY <1>1, <1>3, <1>4, <1>5 DEF AnswerReserved, CitedInv, AssessedInv, Evidence
<1> QED BY <1>5, <1>6, <1>7 DEF SafeInv

(* The evaluation of a run that stops, or that never searched. *)
LEMMA JudgedSafe ==
  ASSUME SafeInv, node = "evaluate", NEW enough \in {"yes", "no"}, NEW stop,
         Judged(enough, stop)
  PROVE  SafeInv'
<1>1. /\ state' = [state EXCEPT !.enough = enough, !.stop = stop, !.webQuery = NoWebQuery]
      /\ assessed' = TRUE /\ Goto("load_context") /\ Running
      /\ llm' = llm /\ embed' = embed /\ shown' = shown
  BY DEF Judged, budget, Running, Searching
<1>2. /\ StateOK' /\ state'.top = state.top /\ state'.web = state.web
      /\ state'.hop = state.hop /\ state'.webTried = state.webTried /\ state'.enough = enough
  BY <1>1, StateKept DEF StateOK, Shaped, Fields
<1>3. /\ TypeInv' /\ node' = "load_context" /\ steps' = steps + 1
      /\ profile' = profile /\ late' = late
  BY <1>1, <1>2, OnwardType DEF SafeInv, TypeInv, TypeOK, Searching
<1>4. StepsInv'
  <2>1. InHop(2)
    BY DEF SafeInv, StepsInv
  <2>2. /\ Reserve' = Reserve /\ Spent <= Reserve
        /\ (state.hop < profile.maxHops => Spent + 3 <= Reserve)
        /\ state'.hop <= profile'.maxHops /\ state'.webTried <= MaxWeb
        /\ Reserve \in Nat /\ Spent \in Nat
    BY <1>2, <1>3, SameNumbers
  <2>3. steps <= 2 + Reserve
    BY <2>1, <2>2, Numbers DEF InHop
  <2>4. steps' <= 3 + Reserve'
    BY <2>2, <2>3, <1>3, Numbers
  <2> QED BY <2>2, <2>4, <1>3 DEF StepsInv, Running, Searching
<1>5. AnswerReserved' /\ CitedInv' /\ AssessedInv'
  BY <1>1, <1>2, <1>3 DEF SafeInv, AnswerReserved, CitedInv, AssessedInv, Evidence
<1> QED BY <1>3, <1>4, <1>5 DEF SafeInv

LEMMA EvaluateSafe == ASSUME SafeInv, Evaluate PROVE SafeInv'
<1>1. PICK e \in FallbackEvaluations \cup ModelEvaluations :
        LET plan == ExtendedPlan(e.facts) IN
        /\ state' = [state EXCEPT
             !.plan = plan,
             !.enough = IF e.enough THEN "yes" ELSE "no",
             !.stop = IF e.enough THEN EnoughReason ELSE StopReason(plan),
             !.webQuery = e.webQuery]
        /\ Goto(EvaluateTarget(e.enough, plan, e.webQuery))
  BY DEF Evaluate
<1> DEFINE plan == ExtendedPlan(e.facts)
           stop == IF e.enough THEN EnoughReason ELSE StopReason(plan)
           judged == IF e.enough THEN "yes" ELSE "no"
           target == EvaluateTarget(e.enough, plan, e.webQuery)
<1>2. /\ state' = [state EXCEPT !.plan = plan, !.enough = judged, !.stop = stop,
                                !.webQuery = e.webQuery]
      /\ Goto(target)
  BY <1>1
<1>3. judged \in {"yes", "no"}
  OBVIOUS
<1>4. /\ target \in {"load_context", "retrieve", "web_fallback"}
      /\ target = "retrieve" => CanContinue(plan)
      /\ target = "web_fallback" => state.webTried < MaxWeb
  BY DEF EvaluateTarget, UsesWeb
<1> HIDE DEF plan, stop, judged, target
<1>5. /\ node = "evaluate" /\ Running /\ ~ShouldStop /\ assessed' = TRUE
      /\ embed' = embed /\ shown' = shown
  BY DEF Evaluate, At, Running, Searching
<1>6. llm' \in 0 .. profile.maxLlm /\ llm' < profile.maxLlm
  <2>1. PICK wanted : ChargeAux(wanted)
    BY DEF Evaluate
  <2> QED BY <2>1, <1>5, ChargeEffect DEF SafeInv
<1>7. /\ StateOK' /\ state'.top = state.top /\ state'.web = state.web
      /\ state'.hop = state.hop /\ state'.webTried = state.webTried
      /\ state'.next = state.next /\ state'.plan = plan /\ state'.enough = judged
  BY <1>2, StateKept DEF StateOK, Shaped, Fields
<1>8. /\ TypeInv' /\ node' = target /\ steps' = steps + 1
      /\ profile' = profile /\ late' = late
  BY <1>2, <1>4, <1>5, <1>6, <1>7, OnwardType DEF SafeInv, TypeInv, TypeOK, Searching
<1>9. StepsInv'
  <2>1. steps <= 2 + Spent
    BY <1>5 DEF SafeInv, StepsInv, InHop
  <2>2. /\ Reserve' = Reserve /\ Spent' = Spent /\ Spent <= Reserve
        /\ state'.hop <= profile'.maxHops /\ state'.webTried <= MaxWeb
        /\ Reserve \in Nat /\ Spent \in Nat
    BY <1>7, <1>8, SameNumbers
  <2>3. steps' <= 3 + Spent' /\ steps' <= 3 + Reserve'
    BY <2>1, <2>2, <1>8, Numbers
  <2>4. CASE target = "load_context"
    BY <2>2, <2>3, <2>4, <1>8 DEF StepsInv, Running, Searching
  <2>5. CASE target = "retrieve"
    <3>1. state'.hop < profile'.maxHops
      BY <2>5, <1>4, <1>7, <1>8, Numbers DEF CanContinue
    <3>2. state'.next < Len(Planned')
      <4>1. CASE plan = <<>>
        BY <4>1, <2>5, <1>4, <1>7 DEF CanContinue, Planned
      <4>2. CASE plan # <<>>
        BY <4>2, <2>5, <1>4, <1>7 DEF CanContinue, Planned
      <4> QED BY <4>1, <4>2
    <3> QED BY <2>2, <2>3, <2>5, <3>1, <3>2, <1>8 DEF StepsInv, Running, Searching
  <2>6. CASE target = "web_fallback"
    <3>1. state'.webTried < MaxWeb
      BY <2>6, <1>4, <1>7
    <3> QED BY <2>2, <2>3, <2>6, <3>1, <1>8 DEF StepsInv, Running, Searching
  <2> QED BY <1>4, <2>4, <2>5, <2>6
<1>a. AnswerReserved' /\ CitedInv' /\ AssessedInv'
  BY <1>3, <1>4, <1>5, <1>6, <1>7, <1>8 DEF SafeInv, AnswerReserved, CitedInv, AssessedInv, Evidence
<1> QED BY <1>8, <1>9, <1>a DEF SafeInv

LEMMA WebStoppedSafe == ASSUME SafeInv, WebStopped PROVE SafeInv'
<1>1. /\ state' = [state EXCEPT !.stop = "max_hops_reached"]
      /\ node = "web_fallback" /\ Goto("load_context") /\ Running
      /\ llm' = llm /\ embed' = embed /\ shown' = shown /\ assessed' = assessed
  BY DEF WebStopped, At, budget, Running, Searching
<1>2. /\ StateOK' /\ state'.top = state.top /\ state'.web = state.web
      /\ state'.hop = state.hop /\ state'.webTried = state.webTried
      /\ state'.enough = state.enough
  BY <1>1, StateKept DEF StateOK, Shaped, Fields
<1>3. /\ TypeInv' /\ node' = "load_context" /\ steps' = steps + 1
      /\ profile' = profile /\ late' = late
  BY <1>1, <1>2, OnwardType DEF SafeInv, TypeInv, TypeOK, Searching
<1>4. StepsInv'
  <2>1. steps <= 3 + Spent /\ state.webTried < MaxWeb
    BY <1>1 DEF SafeInv, StepsInv
  <2>2. /\ Reserve' = Reserve /\ Spent + 2 <= Reserve
        /\ state'.hop <= profile'.maxHops /\ state'.webTried <= MaxWeb
        /\ Reserve \in Nat /\ Spent \in Nat
    BY <2>1, <1>2, <1>3, SameNumbers
  <2>3. steps' <= 3 + Reserve'
    BY <2>1, <2>2, <1>3, Numbers
  <2> QED BY <2>2, <2>3, <1>3 DEF StepsInv, Running, Searching
<1>5. AnswerReserved' /\ CitedInv' /\ AssessedInv'
  BY <1>1, <1>2, <1>3 DEF SafeInv, AnswerReserved, CitedInv, AssessedInv, Evidence
<1> QED BY <1>3, <1>4, <1>5 DEF SafeInv

(* A web search that was made. *)
LEMMA TriedState ==
  ASSUME SafeInv, NEW stop, NEW web \in 0 .. 2,
         \/ state' = [Tried(stop) EXCEPT !.web = web, !.webUsed = TRUE]
         \/ state' = Tried(stop) /\ web = state.web
  PROVE  /\ StateOK' /\ state'.top = state.top /\ state'.web = web
         /\ state'.hop = state.hop /\ state'.webTried = state.webTried + 1
         /\ state'.enough = state.enough
<1> DEFINE t == Tried(stop)
<1>1. /\ t = [f \in Fields |-> t[f]]
      /\ t.hop = state.hop /\ t.next = state.next /\ t.webTried = state.webTried + 1
      /\ t.web = state.web /\ t.top = state.top /\ t.docs = state.docs
      /\ t.enough = state.enough
  BY DEF Tried, SafeInv, TypeInv, Shaped, Fields
<1>2. \/ state' = [t EXCEPT !.web = web, !.webUsed = TRUE]
      \/ state' = t /\ web = state.web
  OBVIOUS
<1> HIDE DEF t
<1>3. /\ state' = [f \in Fields |-> state'[f]]
      /\ state'.hop = t.hop /\ state'.next = t.next /\ state'.webTried = t.webTried
      /\ state'.web = web /\ state'.top = t.top /\ state'.docs = t.docs
      /\ state'.enough = t.enough
  <2>1. CASE state' = t /\ web = state.web
    BY <2>1, <1>1
  <2>2. CASE state' = [t EXCEPT !.web = web, !.webUsed = TRUE]
    BY <2>2, <1>1 DEF Fields
  <2> QED BY <1>2, <2>1, <2>2
<1> QED BY <1>1, <1>3, Numbers, StateKept DEF StateOK, Shaped

LEMMA TriedNumbers ==
  ASSUME SafeInv, node = "web_fallback", profile' = profile, steps' = steps + 1,
         state'.hop = state.hop, state'.webTried = state.webTried + 1
  PROVE  /\ state'.hop <= profile'.maxHops /\ state'.webTried <= MaxWeb
         /\ steps' <= 2 + Spent' /\ steps' <= 3 + Reserve'
<1>1. /\ steps <= 3 + Spent /\ state.webTried < MaxWeb /\ state.hop <= profile.maxHops
  BY DEF SafeInv, StepsInv
<1>2. state'.hop <= profile'.maxHops /\ state'.webTried <= MaxWeb
  BY <1>1, Numbers
<1>3. Spent' = Spent + 2 /\ Spent \in Nat
  BY Numbers DEF Spent
<1>4. Reserve' = Reserve /\ Spent + 2 <= Reserve
  <2>1. Reserve' = Reserve
    BY DEF Reserve
  <2>2. Spent + 2 <= Reserve
    BY <1>1, Numbers
  <2> QED BY <2>1, <2>2
<1>5. Reserve \in Nat
  BY Numbers
<1> QED BY <1>1, <1>2, <1>3, <1>4, <1>5, Numbers

LEMMA WebFoundSafe == ASSUME SafeInv, WebFound PROVE SafeInv'
<1>1. PICK web \in 1 .. 2 :
        /\ state' = [Tried(state.stop) EXCEPT !.web = web, !.webUsed = TRUE]
        /\ shown' = [top |-> state.top, web |-> web]
  BY DEF WebFound
<1>2. /\ node = "web_fallback" /\ Goto("evaluate") /\ Running
      /\ llm' = llm /\ embed' = embed
  BY DEF WebFound, WebFoundTarget, SearchesWeb, At, budget, Running, Searching
<1>3. /\ StateOK' /\ state'.top = state.top /\ state'.web = web
      /\ state'.hop = state.hop /\ state'.webTried = state.webTried + 1
  <2>1. PICK stop : stop = state.stop
    OBVIOUS
  <2>2. web \in 0 .. 2
    OBVIOUS
  <2>3. state' = [Tried(stop) EXCEPT !.web = web, !.webUsed = TRUE]
    BY <1>1, <2>1
  <2> QED BY <2>2, <2>3, TriedState
<1>4. /\ TypeInv' /\ node' = "evaluate" /\ steps' = steps + 1
      /\ profile' = profile /\ late' = late
  BY <1>2, <1>3, OnwardType DEF SafeInv, TypeInv, TypeOK, Searching
<1>5. StepsInv'
  <2>1. /\ state'.hop <= profile'.maxHops /\ state'.webTried <= MaxWeb /\ InHop(2)'
    BY <1>2, <1>3, <1>4, TriedNumbers DEF InHop
  <2> QED BY <2>1, <1>4 DEF StepsInv, Running, Searching
<1>6. AnswerReserved' /\ CitedInv' /\ AssessedInv'
  BY <1>1, <1>2, <1>3, <1>4 DEF SafeInv, AnswerReserved, CitedInv, AssessedInv, Evidence
<1> QED BY <1>4, <1>5, <1>6 DEF SafeInv

(* A web search in vain, by its stop reason. *)
LEMMA WebVainSafe ==
  ASSUME SafeInv, NEW stop, SearchesWeb, state' = Tried(stop), Goto("load_context"),
         shown' = shown, assessed' = assessed
  PROVE  SafeInv'
<1>1. /\ node = "web_fallback" /\ Running /\ llm' = llm /\ embed' = embed
  BY DEF SearchesWeb, At, budget, Running, Searching
<1>2. state.web \in 0 .. 2
  BY DEF SafeInv, TypeInv, TypeOK
<1>3. /\ StateOK' /\ state'.top = state.top /\ state'.web = state.web
      /\ state'.hop = state.hop /\ state'.webTried = state.webTried + 1
      /\ state'.enough = state.enough
  BY <1>2, TriedState
<1>4. /\ TypeInv' /\ node' = "load_context" /\ steps' = steps + 1
      /\ profile' = profile /\ late' = late
  BY <1>1, <1>3, OnwardType DEF SafeInv, TypeInv, TypeOK, Searching
<1>5. StepsInv'
  <2>1. state'.hop <= profile'.maxHops /\ state'.webTried <= MaxWeb /\ steps' <= 3 + Reserve'
    BY <1>1, <1>3, <1>4, TriedNumbers
  <2> QED BY <2>1, <1>4 DEF StepsInv, Running, Searching
<1>6. AnswerReserved' /\ CitedInv' /\ AssessedInv'
  BY <1>1, <1>3, <1>4 DEF SafeInv, AnswerReserved, CitedInv, AssessedInv, Evidence
<1> QED BY <1>4, <1>5, <1>6 DEF SafeInv

LEMMA WebSafe ==
  ASSUME SafeInv, WebStopped \/ WebFound \/ WebEmpty \/ WebAgain \/ WebFailed
  PROVE  SafeInv'
<1>1. CASE WebStopped
  BY <1>1, WebStoppedSafe
<1>2. CASE WebFound
  BY <1>2, WebFoundSafe
<1>3. CASE WebEmpty
  BY <1>3, WebVainSafe DEF WebEmpty
<1>4. CASE WebFailed
  BY <1>4, WebVainSafe DEF WebFailed
<1>5. CASE WebAgain
  <2>1. /\ node = "web_fallback" /\ Running /\ llm' = llm /\ embed' = embed
        /\ RetryAllowed /\ RunAgain /\ state' = state /\ shown' = shown /\ assessed' = assessed
    BY <1>5 DEF WebAgain, SearchesWeb, At, budget, Running, Searching
  <2> QED BY <2>1, AgainSafe DEF SafeInv, TypeInv, TypeOK, AnswerReserved
<1> QED BY <1>1, <1>2, <1>3, <1>4, <1>5

(* After the evaluation: the nodes that read and the answer. *)
LEMMA TailSafe ==
  ASSUME SafeInv, NEW next, Goto(next), state' = state,
         shown' = shown, assessed' = assessed, embed' = embed,
         llm' \in 0 .. profile.maxLlm, next # "done" => llm' < profile.maxLlm,
         \/ node = "load_context" /\ next = "generate" /\ state.strategy = "none"
         \/ node = "load_context" /\ next = "memory" /\ state.strategy # "none"
         \/ node = "memory" /\ next = "merge"
         \/ node = "merge" /\ next = "generate"
         \/ node = "generate" /\ next = "done"
  PROVE  SafeInv'
<1>1. Running /\ next \in {"generate", "memory", "merge", "done"}
  BY DEF Running, Searching
<1>2. /\ TypeInv' /\ node' = next /\ steps' = steps + 1
      /\ profile' = profile /\ late' = late
  BY <1>1, SameState, OnwardType DEF SafeInv, TypeInv, TypeOK, Searching
<1>3. StepsInv'
  <2>1. /\ Reserve' = Reserve /\ Reserve \in Nat
        /\ state'.hop <= profile'.maxHops /\ state'.webTried <= MaxWeb
    BY <1>2, SameNumbers
  <2>2. CASE next = "memory"
    <3>1. steps <= 3 + Reserve
      BY <2>2 DEF SafeInv, StepsInv
    <3>2. steps' <= 4 + Reserve'
      BY <3>1, <2>1, <1>2, Numbers
    <3> QED BY <2>1, <2>2, <3>2, <1>2 DEF StepsInv, Running, Searching
  <2>3. CASE next = "merge"
    <3>1. steps <= 4 + Reserve
      BY <2>3 DEF SafeInv, StepsInv
    <3>2. steps' <= 5 + Reserve'
      BY <3>1, <2>1, <1>2, Numbers
    <3> QED BY <2>1, <2>3, <3>2, <1>2 DEF StepsInv, Running, Searching
  <2>4. CASE next = "generate"
    <3>1. steps <= 3 + Reserve \/ steps <= 5 + Reserve
      BY <2>4 DEF SafeInv, StepsInv
    <3>2. steps' <= 6 + Reserve'
      BY <3>1, <2>1, <1>2, Numbers
    <3> QED BY <2>1, <2>4, <3>2, <1>2 DEF StepsInv, Running, Searching
  <2>5. CASE next = "done"
    <3>1. steps <= 6 + Reserve
      BY <2>5 DEF SafeInv, StepsInv
    <3>2. steps' <= 7 + Reserve'
      BY <3>1, <2>1, <1>2, Numbers
    <3> QED BY <2>1, <2>5, <3>2, <1>2 DEF StepsInv, Running, Searching
  <2> QED BY <1>1, <2>2, <2>3, <2>4, <2>5
<1>4. AnswerReserved'
  BY <1>2 DEF AnswerReserved, Running, Searching
<1>5. CitedInv' /\ AssessedInv'
  BY <1>1, <1>2 DEF SafeInv, CitedInv, AssessedInv, Evidence, Running, Searching
<1> QED BY <1>2, <1>3, <1>4, <1>5 DEF SafeInv

LEMMA ContextSafe ==
  ASSUME SafeInv,
         \/ LoadContext \/ LoadContextAgain \/ LoadContextFails
         \/ LoadMemory \/ MergeMemory \/ GenerateDirect \/ Generate
  PROVE  SafeInv'
<1>0. Running => llm \in 0 .. profile.maxLlm /\ llm < profile.maxLlm
  BY DEF SafeInv, TypeInv, TypeOK, AnswerReserved
<1>1. CASE LoadContext
  <2>1. /\ node = "load_context" /\ Running /\ llm' = llm /\ embed' = embed
        /\ state' = state /\ shown' = shown /\ assessed' = assessed
        /\ Goto(IF state.strategy = "none" THEN "generate" ELSE "memory")
    BY <1>1 DEF LoadContext, At, budget, Running, Searching
  <2>2. CASE state.strategy = "none"
    BY <2>1, <2>2, <1>0, TailSafe
  <2>3. CASE state.strategy # "none"
    BY <2>1, <2>3, <1>0, TailSafe
  <2> QED BY <2>2, <2>3
<1>2. CASE LoadContextAgain
  <2>1. /\ node = "load_context" /\ Running /\ llm' = llm /\ embed' = embed
        /\ RetryAllowed /\ RunAgain /\ state' = state /\ shown' = shown /\ assessed' = assessed
    BY <1>2 DEF LoadContextAgain, At, budget, Running, Searching
  <2> QED BY <2>1, <1>0, AgainSafe DEF SafeInv, TypeInv, TypeOK
<1>3. CASE LoadContextFails
  BY <1>3, EndSafe DEF LoadContextFails
<1>4. CASE LoadMemory
  <2>1. /\ node = "memory" /\ Running /\ llm' = llm /\ embed' = embed
        /\ state' = state /\ shown' = shown /\ assessed' = assessed /\ Goto("merge")
    BY <1>4 DEF LoadMemory, At, budget, Running, Searching
  <2> QED BY <2>1, <1>0, TailSafe
<1>5. CASE MergeMemory
  <2>1. /\ node = "merge" /\ Running /\ llm' = llm /\ embed' = embed
        /\ state' = state /\ shown' = shown /\ assessed' = assessed /\ Goto("generate")
    BY <1>5 DEF MergeMemory, At, budget, Running, Searching
  <2> QED BY <2>1, <1>0, TailSafe
<1>6. CASE GenerateDirect \/ Generate
  <2>1. PICK direct : Answered(direct)
    BY <1>6 DEF GenerateDirect, Generate
  <2>2. /\ node = "generate" /\ Running /\ embed' = embed
        /\ state' = state /\ shown' = shown /\ assessed' = assessed /\ Goto("done")
    BY <2>1 DEF Answered, At, Running, Searching
  <2>3. llm' \in 0 .. profile.maxLlm
    BY <2>1, <2>2, <1>0, Numbers DEF Answered, CanCallLlm
  <2> QED BY <2>2, <2>3, TailSafe
<1> QED BY <1>1, <1>2, <1>3, <1>4, <1>5, <1>6

(* Letting time pass, or doing nothing. *)
LEMMA StillSafe ==
  ASSUME SafeInv, Tick \/ UNCHANGED vars
  PROVE  SafeInv'
<1>1. /\ profile' = profile /\ node' = node /\ attempt' = attempt /\ steps' = steps
      /\ llm' = llm /\ embed' = embed /\ state' = state /\ shown' = shown
      /\ assessed' = assessed /\ late' \in BOOLEAN /\ (late => late')
  BY DEF Tick, vars, budget, SafeInv, TypeInv, TypeOK
<1>2. TypeInv'
  BY <1>1 DEF SafeInv, TypeInv, TypeOK, Shaped
<1>3. /\ Reserve' = Reserve /\ Spent' = Spent /\ Planned' = Planned
      /\ Running' = Running /\ (ShouldStop => ShouldStop')
  BY <1>1 DEF Reserve, Spent, Planned, Running, ShouldStop, Exhausted
<1>4. (InHop(1) => InHop(1)') /\ (InHop(2) => InHop(2)')
  BY <1>1, <1>3 DEF InHop
<1>5. StepsInv'
  BY <1>1, <1>3, <1>4 DEF SafeInv, StepsInv
<1>6. AnswerReserved' /\ CitedInv' /\ AssessedInv'
  BY <1>1, <1>3 DEF SafeInv, AnswerReserved, CitedInv, AssessedInv, Evidence
<1> QED BY <1>2, <1>5, <1>6 DEF SafeInv

LEMMA SafeInductive == SafeInv /\ [Next]_vars => SafeInv'
<1> SUFFICES ASSUME SafeInv, [Next]_vars PROVE SafeInv'
  OBVIOUS
<1>1. CASE Route
  BY <1>1, RouteSafe
<1>2. CASE Plan
  BY <1>2, PlanSafe
<1>3. CASE LoadQueryHistory
  BY <1>3, LoadQueryHistorySafe
<1>4. CASE RetrieveNothing
  BY <1>4, RetrieveNothingSafe
<1>5. CASE \E kind \in QueryKinds, query \in NextQuery : Retrieve(kind, query)
  <2>1. PICK kind \in QueryKinds, query \in NextQuery : Retrieve(kind, query)
    BY <1>5
  <2> QED BY <2>1, RetrieveSkippedSafe, RetrievedSafe, RetrieveAgainSafe, RetrieveFailedSafe
          DEF Retrieve
<1>6. CASE Rerank
  BY <1>6, RerankSafe
<1>7. CASE EvaluateSkipped \/ EvaluateStopped
  BY <1>7, JudgedSafe DEF EvaluateSkipped, EvaluateStopped, At
<1>8. CASE Evaluate
  BY <1>8, EvaluateSafe
<1>9. CASE WebStopped \/ WebFound \/ WebEmpty \/ WebAgain \/ WebFailed
  BY <1>9, WebSafe
<1>a. CASE \/ LoadContext \/ LoadContextAgain \/ LoadContextFails
           \/ LoadMemory \/ MergeMemory \/ GenerateDirect \/ Generate
  BY <1>a, ContextSafe
<1>b. CASE TimeOut \/ Abort
  BY <1>b, EndSafe DEF TimeOut, Abort
<1>c. CASE Tick \/ Ended \/ UNCHANGED vars
  BY <1>c, StillSafe DEF Ended
<1> QED
  BY <1>1, <1>2, <1>3, <1>4, <1>5, <1>6, <1>7, <1>8, <1>9, <1>a, <1>b, <1>c DEF Next, Step

-----------------------------------------------------------------------------
(* The theorems.                                                            *)

LEMMA SafeAlways == Spec => []SafeInv
<1>1. Init => SafeInv
  BY InitSafe
<1>2. SafeInv /\ [Next]_vars => SafeInv'
  BY SafeInductive
<1> QED BY <1>1, <1>2, PTL DEF Spec

(* Every reachable state is well typed: the supersteps stay within         *)
(* LangGraph's limit and the calls within the profile's budget.             *)
THEOREM SpecTyped == Spec => []TypeOK
<1>1. SafeInv => TypeOK
  BY DEF SafeInv, TypeInv
<1> QED BY <1>1, SafeAlways, PTL

(* Whatever the run has charged before the answer, one call to the model is *)
(* left for it (tryConsumeAuxiliaryLlm).                                    *)
THEOREM SpecReserves == Spec => []AnswerReserved
<1>1. SafeInv => AnswerReserved
  BY DEF SafeInv
<1> QED BY <1>1, SafeAlways, PTL

(* With room for three supersteps a hop, two a web search and seven for the *)
(* rest, no run meets LangGraph's recursion limit, whatever the models say. *)
THEOREM SpecFits == Spec => []NoRecursionError
<1>1. SafeInv => NoRecursionError
  BY Numbers, ProfileNumbers DEF SafeInv, StepsInv, NoRecursionError
<1> QED BY <1>1, SafeAlways, PTL

(* The answer is generated from the evidence that was last evaluated. *)
THEOREM SpecAssesses == Spec => []AssessedEvidence
<1>1. SafeInv => AssessedEvidence
  BY DEF SafeInv, AssessedInv, AssessedEvidence
<1> QED BY <1>1, SafeAlways, PTL

(* Once the turn's clock has run out, no hop and no web search starts. *)
THEOREM SpecLateQuiet == Spec => LateSearchesNothing
<1> DEFINE Quiet == late /\ node' \in Searching =>
                      past' = past /\ state'.webTried = state.webTried
<1>1. ASSUME SafeInv, [Next]_vars PROVE [Quiet]_vars
  <2> SUFFICES ASSUME Next, late, node' \in Searching
               PROVE  past' = past /\ state'.webTried = state.webTried
    BY <1>1
  <2>0. ShouldStop
    BY DEF ShouldStop, Exhausted
  <2>1. CASE Route
    BY <2>1, <1>1 DEF Route, SafeInv, TypeInv, Shaped, Fields
  <2>2. CASE Plan
    BY <2>2, <1>1 DEF Plan, SafeInv, TypeInv, Shaped, Fields
  <2>3. CASE LoadQueryHistory \/ LoadContext \/ LoadContextAgain \/ LoadMemory \/ MergeMemory
             \/ GenerateDirect \/ Generate \/ Ended
    BY <2>3 DEF LoadQueryHistory, LoadContext, LoadContextAgain, LoadMemory, MergeMemory,
                GenerateDirect, Generate, Answered, Ended, vars
  <2>4. CASE RetrieveNothing
    BY <2>4, <1>1 DEF RetrieveNothing, SafeInv, TypeInv, Shaped, Fields
  <2>5. CASE \E kind \in QueryKinds, query \in NextQuery : Retrieve(kind, query)
    BY <2>5, <2>0 DEF Retrieve, RetrieveSkipped, Retrieved, RetrieveAgain, RetrieveFailed,
                      Searches, Begins
  <2>6. CASE Rerank
    BY <2>6, <1>1 DEF Rerank, SafeInv, TypeInv, Shaped, Fields
  <2>7. CASE EvaluateSkipped \/ EvaluateStopped
    BY <2>7, <1>1 DEF EvaluateSkipped, EvaluateStopped, Judged, SafeInv, TypeInv, Shaped, Fields
  <2>8. CASE Evaluate
    BY <2>8, <2>0 DEF Evaluate
  <2>9. CASE WebStopped
    BY <2>9, <1>1 DEF WebStopped, SafeInv, TypeInv, Shaped, Fields
  <2>a. CASE WebFound \/ WebEmpty \/ WebAgain \/ WebFailed
    BY <2>a, <2>0 DEF WebFound, WebEmpty, WebAgain, WebFailed, SearchesWeb
  <2>b. CASE LoadContextFails \/ TimeOut \/ Abort
    BY <2>b DEF LoadContextFails, TimeOut, Abort, End, Searching
  <2>c. CASE Tick
    BY <2>c DEF Tick
  <2> QED
    BY <2>1, <2>2, <2>3, <2>4, <2>5, <2>6, <2>7, <2>8, <2>9, <2>a, <2>b, <2>c DEF Next, Step
<1> QED BY <1>1, SafeAlways, PTL DEF Spec, LateSearchesNothing

LEMMA GotoRuns ==
  ASSUME SafeInv, Running, node # "generate", NEW next \in Searching, Goto(next)
  PROVE  Running'
BY RoomAhead, GotoEffect DEF Running

(* A step goes on searching, answers, or leaves the run early. *)
LEMMA StepKinds ==
  ASSUME SafeInv, Next
  PROVE  \/ Running /\ Running'
         \/ /\ node = "generate" /\ node' = "done"
            /\ state' = state /\ shown' = shown
         \/ /\ Running /\ node' \in {"failed", "timed_out", "aborted"}
            /\ shown' = shown
         \/ UNCHANGED vars
<1>1. CASE Route
  <2>1. PICK strategy \in {"none", "simple", "complex"} : Goto(RouteTarget(strategy))
    BY <1>1 DEF Route
  <2>2. RouteTarget(strategy) \in Searching
    BY DEF RouteTarget, Searching
  <2>3. Running /\ node # "generate"
    BY <1>1 DEF Route, At, Running, Searching
  <2> QED BY <2>1, <2>2, <2>3, GotoRuns
<1>2. CASE Plan \/ LoadQueryHistory
  <2>1. Running /\ node # "generate" /\ (Goto("query_history") \/ Goto("retrieve"))
    BY <1>2 DEF Plan, LoadQueryHistory, At, Running, Searching
  <2> QED BY <2>1, GotoRuns DEF Searching
<1>3. CASE RetrieveNothing \/ \E kind \in QueryKinds, query \in NextQuery : Retrieve(kind, query)
  <2>1. Running /\ node # "generate"
    BY <1>3 DEF RetrieveNothing, Retrieve, RetrieveSkipped, Retrieved, RetrieveAgain,
                RetrieveFailed, Searches, Begins, At, Running, Searching
  <2>2. Goto("rerank") \/ RunAgain
    BY <1>3 DEF RetrieveNothing, Retrieve, RetrieveSkipped, Retrieved, RetrieveAgain,
                RetrieveFailed
  <2> QED BY <2>1, <2>2, GotoRuns DEF Searching, RunAgain, Running
<1>4. CASE Rerank \/ EvaluateSkipped \/ EvaluateStopped
  <2>1. Running /\ node # "generate" /\ (Goto("evaluate") \/ Goto("load_context"))
    BY <1>4 DEF Rerank, EvaluateSkipped, EvaluateStopped, Judged, At, Running, Searching
  <2> QED BY <2>1, GotoRuns DEF Searching
<1>5. CASE Evaluate
  <2>1. PICK e \in FallbackEvaluations \cup ModelEvaluations :
          Goto(EvaluateTarget(e.enough, ExtendedPlan(e.facts), e.webQuery))
    BY <1>5 DEF Evaluate
  <2>2. EvaluateTarget(e.enough, ExtendedPlan(e.facts), e.webQuery) \in Searching
    BY DEF EvaluateTarget, Searching
  <2>3. Running /\ node # "generate"
    BY <1>5 DEF Evaluate, At, Running, Searching
  <2> QED BY <2>1, <2>2, <2>3, GotoRuns
<1>6. CASE WebStopped \/ WebFound \/ WebEmpty \/ WebAgain \/ WebFailed
  <2>1. Running /\ node # "generate"
    BY <1>6 DEF WebStopped, WebFound, WebEmpty, WebAgain, WebFailed, SearchesWeb, At,
                Running, Searching
  <2>2. Goto("load_context") \/ Goto("evaluate") \/ RunAgain
    BY <1>6 DEF WebStopped, WebFound, WebFoundTarget, WebEmpty, WebAgain, WebFailed
  <2> QED BY <2>1, <2>2, GotoRuns DEF Searching, RunAgain, Running
<1>7. CASE LoadContext \/ LoadContextAgain \/ LoadMemory \/ MergeMemory
  <2>1. Running /\ node # "generate"
    BY <1>7 DEF LoadContext, LoadContextAgain, LoadMemory, MergeMemory, At, Running, Searching
  <2>2. Goto("generate") \/ Goto("memory") \/ Goto("merge") \/ RunAgain
    BY <1>7 DEF LoadContext, LoadContextAgain, LoadMemory, MergeMemory
  <2> QED BY <2>1, <2>2, GotoRuns DEF Searching, RunAgain, Running
<1>8. CASE GenerateDirect \/ Generate
  BY <1>8, GotoEffect DEF GenerateDirect, Generate, Answered, At
<1>9. CASE LoadContextFails \/ TimeOut \/ Abort
  BY <1>9 DEF LoadContextFails, TimeOut, Abort, End, At, Running, Searching
<1>a. CASE Tick \/ Ended
  BY <1>a DEF Tick, Ended, Running
<1> QED
  BY <1>1, <1>2, <1>3, <1>4, <1>5, <1>6, <1>7, <1>8, <1>9, <1>a DEF Next, Step

(* A run shows its caller what AgentRun promises: the result carries the    *)
(* citations that were pushed last, and a run that ends without an answer   *)
(* carries none.                                                            *)
THEOREM SpecKeepsPromise == Spec => KeepsPromise
<1> DEFINE result == IF node = "done" THEN Evidence ELSE NoEvidence
<1>1. Init => Promise!Init
  BY DEF Init, Promise!Init, Phase, Running, Searching
<1>2. ASSUME SafeInv, [Next]_vars PROVE [Promise!Next]_(Promise!vars)
  <2>1. CASE Running /\ Running'
    BY <2>1 DEF Promise!Next, Promise!Show, Phase, Running, Searching
  <2>2. CASE node = "generate" /\ node' = "done" /\ state' = state /\ shown' = shown
    <3>1. shown = Evidence
      BY <2>2, <1>2 DEF SafeInv, CitedInv, Running, Searching
    <3>2. Phase = "searching" /\ Phase' = "answered" /\ result' = shown
      BY <2>2, <3>1 DEF Phase, Running, Searching, Evidence
    <3> QED BY <2>2, <3>2 DEF Promise!Next, Promise!Answer
  <2>3. CASE Running /\ node' \in {"failed", "timed_out", "aborted"} /\ shown' = shown
    <3>1. Phase = "searching" /\ Phase' = "stopped" /\ result' = result
      BY <2>3 DEF Phase, Running, Searching
    <3> QED BY <2>3, <3>1 DEF Promise!Next, Promise!Stop
  <2>4. CASE UNCHANGED vars
    <3>1. Phase' = Phase /\ result' = result /\ shown' = shown
      BY <2>4 DEF vars, Phase, Running, Evidence
    <3> QED BY <3>1 DEF Promise!vars
  <2> QED BY <1>2, <2>1, <2>2, <2>3, <2>4, StepKinds
<1> QED BY <1>1, <1>2, SafeAlways, PTL DEF Spec, KeepsPromise, Promise!Spec

-----------------------------------------------------------------------------
(* The queries of the hops.  What the evaluation adds to the plan is        *)
(* computed fact by fact, so the facts about it go by induction on their    *)
(* number, told of a set of numbers and its least member.                   *)

(* A set of numbers that is not empty has a least one. *)
LEMMA LeastOf ==
  ASSUME NEW T, T \subseteq Nat, T # {}
  PROVE  \E m \in T : \A k \in T : ~(k < m)
<1>1. \E m \in T : \A k \in T : ~(<<k, m>> \in OpToRel(<, Nat))
  BY NatLessThanWellFounded, WFMin
<1>. QED BY <1>1 DEF OpToRel

(* What holds of 0 and passes from each number to the next holds up to N. *)
LEMMA UpTo ==
  ASSUME NEW G, NEW N \in Nat, 0 \in G,
         \A n \in 1 .. N : n - 1 \in G => n \in G
  PROVE  \A n \in 0 .. N : n \in G
<1>. SUFFICES ASSUME NEW n \in 0 .. N, n \notin G
              PROVE  FALSE
  OBVIOUS
<1>. DEFINE T == {m \in 0 .. N : m \notin G}
<1>1. PICK m \in T : \A k \in T : ~(k < m)
  <2>1. T \subseteq Nat /\ T # {}
    OBVIOUS
  <2>. QED BY <2>1, LeastOf
<1>2. m # 0 /\ m - 1 \in 0 .. N /\ m - 1 < m
  OBVIOUS
<1>3. m - 1 \in G
  BY <1>1, <1>2
<1>. QED BY <1>1, <1>2, <1>3

(* The functions that start at base and take N steps. *)
Steps(N, S) == [(1 .. N) \X S -> S]
Iterations(N, S, base, step) ==
  {g \in [0 .. N -> S] : /\ g[0] = base
                         /\ \A n \in 1 .. N : g[n] = step[<<n, g[n - 1]>>]}

(* There is one. *)
LEMMA Iterates ==
  ASSUME NEW S, NEW base \in S, NEW N \in Nat, NEW step \in Steps(N, S)
  PROVE  \E g : g \in Iterations(N, S, base, step)
<1>. DEFINE Follows(g, n) == /\ g \in [0 .. n -> S]
                             /\ g[0] = base
                             /\ \A i \in 1 .. n : g[i] = step[<<i, g[i - 1]>>]
            G == {n \in 0 .. N : \E g : Follows(g, n)}
<1>1. 0 \in G
  <2>. DEFINE g == [i \in 0 .. 0 |-> base]
  <2>1. g \in [0 .. 0 -> S] /\ g[0] = base
    OBVIOUS
  <2>. HIDE DEF g
  <2>2. Follows(g, 0)
    BY <2>1
  <2>. QED BY <2>2
<1>2. ASSUME NEW n \in 1 .. N, n - 1 \in G
      PROVE  n \in G
  <2>1. PICK g : Follows(g, n - 1)
    BY <1>2
  <2>2. /\ g \in [0 .. n - 1 -> S] /\ g[0] = base
        /\ \A i \in 1 .. n - 1 : g[i] = step[<<i, g[i - 1]>>]
    BY <2>1
  <2>3. step[<<n, g[n - 1]>>] \in S
    <3>1. n - 1 \in 0 .. n - 1
      OBVIOUS
    <3>2. g[n - 1] \in S
      BY <2>2, <3>1
    <3>. QED BY <3>2 DEF Steps
  <2>. DEFINE h == [i \in 0 .. n |-> IF i = n THEN step[<<n, g[n - 1]>>] ELSE g[i]]
  <2>4. \A i \in 0 .. n - 1 : h[i] = g[i]
    OBVIOUS
  <2>5. h[n] = step[<<n, g[n - 1]>>]
    OBVIOUS
  <2>6. h \in [0 .. n -> S]
    <3>1. \A i \in 0 .. n : i # n => i \in 0 .. n - 1
      OBVIOUS
    <3>. QED BY <2>2, <2>3, <3>1
  <2>7. 0 \in 0 .. n - 1 /\ n - 1 \in 0 .. n - 1
    OBVIOUS
  <2>. HIDE DEF h
  <2>8. h[0] = base
    BY <2>2, <2>4, <2>7
  <2>9. ASSUME NEW i \in 1 .. n
        PROVE  h[i] = step[<<i, h[i - 1]>>]
    <3>1. CASE i = n
      BY <2>4, <2>5, <2>7, <3>1
    <3>2. CASE i # n
      <4>1. i \in 1 .. n - 1 /\ i \in 0 .. n - 1 /\ i - 1 \in 0 .. n - 1
        BY <3>2
      <4>. QED BY <2>2, <2>4, <4>1
    <3>. QED BY <3>1, <3>2
  <2>10. Follows(h, n)
    BY <2>6, <2>8, <2>9
  <2>. QED BY <2>10
<1>. HIDE DEF G
<1>3. N \in G
  <2>1. \A n \in 0 .. N : n \in G
    BY <1>1, <1>2, UpTo
  <2>. QED BY <2>1
<1>. QED BY <1>3 DEF G, Iterations

(* A fact is added when there is a slot and nobody asked it yet. *)
Asked(more, fact, seen, slots) ==
  IF Len(more) < slots /\ fact.key \notin seen \cup KeysOf(more)
  THEN Append(more, fact) ELSE more

(* The facts that extendSubQuestionsWithMissingFacts adds were not seen yet, *)
(* and it adds none twice.                                                   *)
LEMMA AdditionsFresh ==
  ASSUME NEW T, NEW facts \in Seq(T), NEW seen, NEW slots
  PROVE  LET more == Additions(facts, seen, slots)
         IN /\ more \in Seq(T)
            /\ KeysOf(more) \cap seen = {}
            /\ IsInjective(more)
<1>. DEFINE N == Len(facts)
            S == Seq(T)
            step == [p \in (1 .. N) \X S |-> Asked(p[2], facts[p[1]], seen, slots)]
            Law(g) == g = [n \in 0 .. N |-> IF n = 0 THEN <<>>
                             ELSE Asked(g[n - 1], facts[n], seen, slots)]
            among == CHOOSE g : Law(g)
            Fresh(s) == /\ s \in S /\ KeysOf(s) \cap seen = {} /\ IsInjective(s)
            G == {n \in 0 .. N : Fresh(among[n])}
<1>0. N \in Nat /\ <<>> \in S
  OBVIOUS
<1>1. ASSUME NEW n \in 1 .. N, NEW s \in S
      PROVE  Asked(s, facts[n], seen, slots) \in S
  <2>1. facts[n] \in T
    OBVIOUS
  <2>. QED BY <2>1 DEF Asked
<1>2. step \in [(1 .. N) \X S -> S]
  BY <1>1
<1>3. PICK g \in [0 .. N -> S] : /\ g[0] = <<>>
                                 /\ \A n \in 1 .. N : g[n] = step[<<n, g[n - 1]>>]
  <2>. HIDE DEF step, N, S
  <2>1. step \in Steps(N, S)
    BY <1>2 DEF Steps
  <2>2. PICK g : g \in Iterations(N, S, <<>>, step)
    BY <1>0, <2>1, Iterates
  <2>. QED BY <2>2 DEF Iterations
<1>4. \A n \in 1 .. N : g[n] = Asked(g[n - 1], facts[n], seen, slots)
  <2>. SUFFICES ASSUME NEW n \in 1 .. N
                PROVE  g[n] = Asked(g[n - 1], facts[n], seen, slots)
    OBVIOUS
  <2>1. n - 1 \in 0 .. N /\ g[n - 1] \in S
    BY <1>0
  <2>. QED BY <1>3, <2>1
<1>5. Law(g)
  <2>1. g = [n \in 0 .. N |-> g[n]]
    OBVIOUS
  <2>2. \A n \in 0 .. N : g[n] = IF n = 0 THEN <<>>
                                 ELSE Asked(g[n - 1], facts[n], seen, slots)
    BY <1>0, <1>3, <1>4
  <2>. QED BY <2>1, <2>2
<1>6. Law(among)
  BY <1>5
<1>7. Additions(facts, seen, slots) = among[N]
  BY DEF Additions, Asked
<1>. HIDE DEF among, step
<1>8. among[0] = <<>>
      /\ \A n \in 1 .. N : among[n] = Asked(among[n - 1], facts[n], seen, slots)
  BY <1>0, <1>6
<1>. HIDE DEF Law
<1>9. 0 \in G
  <2>1. KeysOf(<<>>) = {} /\ IsInjective(<<>>)
    BY DEF KeysOf, IsInjective
  <2>2. among[0] = <<>> /\ 0 \in 0 .. N
    BY <1>0, <1>8
  <2>. HIDE DEF N
  <2>3. Fresh(among[0])
    BY <1>0, <2>1, <2>2
  <2>. QED BY <2>2, <2>3
<1>10. ASSUME NEW n \in 1 .. N, n - 1 \in G
       PROVE  n \in G
  <2>1. PICK s : s = among[n - 1]
    OBVIOUS
  <2>2. Fresh(s) /\ among[n] = Asked(s, facts[n], seen, slots)
    BY <1>8, <1>10, <2>1
  <2>3. facts[n] \in T /\ n \in 0 .. N
    OBVIOUS
  <2>4. CASE Len(s) < slots /\ facts[n].key \notin seen \cup KeysOf(s)
    <3>1. among[n] = Append(s, facts[n])
      BY <2>2, <2>4 DEF Asked
    <3>2. Fresh(Append(s, facts[n]))
      <4>1. Append(s, facts[n]) \in S
        BY <2>2, <2>3
      <4>2. /\ DOMAIN Append(s, facts[n]) = 1 .. Len(s) + 1
            /\ Append(s, facts[n])[Len(s) + 1] = facts[n]
            /\ \A i \in 1 .. Len(s) : Append(s, facts[n])[i] = s[i]
            /\ DOMAIN s = 1 .. Len(s) /\ Len(s) \in Nat
        BY <2>2, <2>3
      <4>3. KeysOf(Append(s, facts[n])) = KeysOf(s) \cup {facts[n].key}
        <5>. DEFINE t == Append(s, facts[n])
        <5>1. /\ DOMAIN t = 1 .. Len(s) + 1 /\ t[Len(s) + 1] = facts[n]
              /\ \A i \in 1 .. Len(s) : t[i] = s[i]
              /\ DOMAIN s = 1 .. Len(s) /\ Len(s) \in Nat
          BY <4>2
        <5>. HIDE DEF t
        <5>2. ASSUME NEW k \in KeysOf(t)
              PROVE  k \in KeysOf(s) \cup {facts[n].key}
          <6>1. PICK i \in 1 .. Len(s) + 1 : k = t[i].key
            BY <5>1, <5>2 DEF KeysOf
          <6>2. i \in 1 .. Len(s) \/ i = Len(s) + 1
            BY <5>1
          <6>. QED BY <5>1, <6>1, <6>2 DEF KeysOf
        <5>3. facts[n].key \in KeysOf(t)
          <6>1. Len(s) + 1 \in DOMAIN t
            BY <5>1
          <6>. QED BY <5>1, <6>1 DEF KeysOf
        <5>4. ASSUME NEW k \in KeysOf(s)
              PROVE  k \in KeysOf(t)
          <6>1. PICK i \in 1 .. Len(s) : k = s[i].key
            BY <5>1, <5>4 DEF KeysOf
          <6>2. i \in DOMAIN t
            BY <5>1
          <6>. QED BY <5>1, <6>1, <6>2 DEF KeysOf
        <5>5. KeysOf(t) = KeysOf(s) \cup {facts[n].key}
          BY <5>2, <5>3, <5>4
        <5>. QED BY <5>5 DEF t
      <4>4. ASSUME NEW i \in 1 .. Len(s) + 1, NEW j \in 1 .. Len(s) + 1,
                   Append(s, facts[n])[i] = Append(s, facts[n])[j]
            PROVE  i = j
        <5>1. \A k \in 1 .. Len(s) : s[k] # facts[n]
          BY <2>4, <4>2 DEF KeysOf
        <5>2. \A k, l \in 1 .. Len(s) : s[k] = s[l] => k = l
          BY <2>2, <4>2 DEF IsInjective
        <5>3. (i \in 1 .. Len(s) \/ i = Len(s) + 1) /\ (j \in 1 .. Len(s) \/ j = Len(s) + 1)
          BY <4>2
        <5>4. CASE i \in 1 .. Len(s) /\ j \in 1 .. Len(s)
          BY <4>2, <4>4, <5>2, <5>4
        <5>5. CASE i = Len(s) + 1 /\ j \in 1 .. Len(s)
          BY <4>2, <4>4, <5>1, <5>5
        <5>6. CASE i \in 1 .. Len(s) /\ j = Len(s) + 1
          BY <4>2, <4>4, <5>1, <5>6
        <5>. QED BY <5>3, <5>4, <5>5, <5>6
      <4>. QED BY <2>2, <2>4, <4>1, <4>2, <4>3, <4>4 DEF IsInjective
    <3>. QED BY <2>3, <3>1, <3>2
  <2>5. CASE ~(Len(s) < slots /\ facts[n].key \notin seen \cup KeysOf(s))
    BY <2>2, <2>3, <2>5 DEF Asked
  <2>. QED BY <2>4, <2>5
<1>11. N \in G
  <2>. HIDE DEF G, N
  <2>1. \A n \in 0 .. N : n \in G
    BY <1>0, <1>9, <1>10, UpTo
  <2>. QED BY <1>0, <2>1
<1>. QED BY <1>7, <1>11

(* A list of queries that names none twice, and one that begins like it. *)
Unrepeated(q) == q \in Seq(Range(q)) /\ Len(q) > 0 /\ IsInjective(q)
Begun(p, hop, q) ==
  /\ p \in Seq(Range(p)) /\ Len(p) = hop
  /\ \A i \in 1 .. Len(p) : i <= Len(q) /\ p[i] = q[i]

(* The hops so far searched the first sub-questions of the plan. *)
SearchedInv == Unrepeated(Planned) /\ Begun(past, state.hop, Planned)

(* Before the first hop, and after a run was left early. *)
LEMMA NothingSearched ==
  ASSUME NEW q
  PROVE  Unrepeated(<<Question>>) /\ Begun(<<>>, 0, q)
<1>1. <<Question>> \in Seq({Question}) /\ <<>> \in Seq({Question})
  BY DEF Question
<1>2. <<Question>> \in Seq(Range(<<Question>>)) /\ <<>> \in Seq(Range(<<>>))
  BY <1>1, SeqOfRange
<1>3. Len(<<Question>>) > 0 /\ Len(<<>>) = 0 /\ IsInjective(<<Question>>)
  BY DEF IsInjective
<1>. QED BY <1>2, <1>3 DEF Unrepeated, Begun

(* A list grows by entries with keys of their own. *)
LEMMA Joined ==
  ASSUME NEW q, NEW T, NEW more \in Seq(T), Unrepeated(q), IsInjective(more),
         KeysOf(more) \cap KeysOf(q) = {}
  PROVE  /\ Unrepeated(q \o more)
         /\ \A p, hop : Begun(p, hop, q) => Begun(p, hop, q \o more)
<1>. DEFINE r == q \o more
            m == Len(q)
            k == Len(more)
<1>1. /\ q \in Seq(Range(q)) /\ m \in Nat /\ k \in Nat /\ m > 0
      /\ DOMAIN q = 1 .. m /\ DOMAIN more = 1 .. k
  BY DEF Unrepeated
<1>2. /\ r \in Seq(Range(q) \cup T) /\ Len(r) = m + k /\ DOMAIN r = 1 .. m + k
      /\ \A i \in 1 .. m : r[i] = q[i]
      /\ \A i \in 1 .. m + k : i > m => r[i] = more[i - m]
  <2>1. q \in Seq(Range(q) \cup T) /\ more \in Seq(Range(q) \cup T)
    BY <1>1
  <2>. QED BY <1>1, <2>1
<1>3. r \in Seq(Range(r))
  BY <1>2, SeqOfRange
<1>. HIDE DEF r, m, k
<1>4. \A i \in 1 .. m + k : i \in 1 .. m \/ (i > m /\ i - m \in 1 .. k)
  BY <1>1
<1>5. \A i \in 1 .. m, j \in 1 .. k : q[i] # more[j]
  BY <1>1 DEF KeysOf
<1>6. ASSUME NEW i \in 1 .. m + k, NEW j \in 1 .. m + k, r[i] = r[j]
      PROVE  i = j
  <2>1. CASE i \in 1 .. m /\ j \in 1 .. m
    BY <1>1, <1>2, <1>6, <2>1 DEF Unrepeated, IsInjective
  <2>2. CASE i \in 1 .. m /\ j > m /\ j - m \in 1 .. k
    BY <1>2, <1>5, <1>6, <2>2
  <2>3. CASE j \in 1 .. m /\ i > m /\ i - m \in 1 .. k
    BY <1>2, <1>5, <1>6, <2>3
  <2>4. CASE i > m /\ i - m \in 1 .. k /\ j > m /\ j - m \in 1 .. k
    <3>1. more[i - m] = more[j - m]
      BY <1>2, <1>6, <2>4
    <3>2. i - m = j - m
      BY <1>1, <2>4, <3>1 DEF IsInjective
    <3>. QED BY <1>1, <3>2
  <2>. QED BY <1>4, <2>1, <2>2, <2>3, <2>4
<1>7. Unrepeated(r)
  BY <1>1, <1>2, <1>3, <1>6 DEF Unrepeated, IsInjective
<1>8. ASSUME NEW p, NEW hop, Begun(p, hop, q)
      PROVE  Begun(p, hop, r)
  <2>1. \A i \in 1 .. Len(p) : i \in 1 .. m
    BY <1>1, <1>8 DEF Begun, m
  <2>2. \A i \in 1 .. Len(p) : i <= Len(r) /\ p[i] = r[i]
    BY <1>1, <1>2, <1>8, <2>1 DEF Begun
  <2>. QED BY <1>8, <2>2 DEF Begun
<1>. QED BY <1>7, <1>8 DEF r

(* One entry more was searched. *)
LEMMA Hopped ==
  ASSUME NEW p, NEW hop \in Nat, NEW q, Unrepeated(q), Begun(p, hop, q), hop < Len(q)
  PROVE  Begun(Append(p, q[hop + 1]), hop + 1, q)
<1>. DEFINE x == q[hop + 1]
            r == Append(p, x)
            R == Range(p) \cup {x}
<1>1. p \in Seq(R) /\ x \in R /\ Len(p) = hop
  BY DEF Begun
<1>. HIDE DEF x, R
<1>2. /\ r \in Seq(R) /\ Len(r) = hop + 1 /\ r[hop + 1] = x
      /\ \A i \in 1 .. hop : r[i] = p[i]
  BY <1>1
<1>3. r \in Seq(Range(r))
  BY <1>2, SeqOfRange
<1>. HIDE DEF r
<1>4. Len(q) \in Nat
  BY DEF Unrepeated
<1>5. ASSUME NEW i \in 1 .. hop + 1
      PROVE  i <= Len(q) /\ r[i] = q[i]
  <2>1. CASE i = hop + 1
    BY <1>2, <1>4, <2>1 DEF x
  <2>2. CASE i \in 1 .. hop
    BY <1>1, <1>2, <2>2 DEF Begun
  <2>. QED BY <2>1, <2>2
<1>. QED BY <1>2, <1>3, <1>5 DEF Begun, r, x


(* A node that neither plans nor searches. *)
LEMMA SameSearched ==
  ASSUME SearchedInv, state'.plan = state.plan, state'.hop = state.hop, past' = past
  PROVE  SearchedInv'
<1>1. Planned' = Planned
  BY DEF Planned
<1>. QED BY <1>1 DEF SearchedInv

(* The plan is made before the first hop. *)
LEMMA PlanSearched ==
  ASSUME SafeInv, SearchedInv, Plan
  PROVE  SearchedInv'
<1>1. PICK plan \in {FallbackPlan} \cup Plans : state' = [state EXCEPT !.plan = plan]
  BY DEF Plan
<1>2. state'.plan = plan /\ state'.hop = state.hop /\ past' = past
  BY <1>1 DEF Plan, SafeInv, TypeInv, Shaped, Fields
<1>3. node = "plan" /\ Spent = 0
  BY DEF Plan, At, SafeInv, StepsInv
<1>4. state.hop = 0
  BY <1>3, NothingSpent
<1>5. past = <<>>
  BY <1>4 DEF SearchedInv, Begun
<1>6. Unrepeated(Planned')
  <2>1. CASE plan = <<>>
    BY <2>1, <1>2, NothingSearched DEF Planned
  <2>2. CASE plan \in Plans /\ plan # <<>>
    BY <2>2, <1>2, PlansAssumption DEF Planned, Unrepeated
  <2>3. CASE plan = FallbackPlan
    BY <2>3, <1>2, NothingSearched DEF Planned, FallbackPlan
  <2>. QED BY <2>1, <2>2, <2>3
<1>7. Begun(past', state'.hop, Planned')
  BY <1>2, <1>4, <1>5, NothingSearched
<1>. QED BY <1>6, <1>7 DEF SearchedInv

(* A hop searches the next sub-question. *)
LEMMA HopSearched ==
  ASSUME SafeInv, SearchedInv, NEW kind \in QueryKinds, NEW query \in NextQuery,
         Retrieve(kind, query)
  PROVE  SearchedInv'
<1>1. /\ state.hop \in Nat /\ state.next = state.hop
      /\ state = [f \in Fields |-> state[f]]
  BY DEF SafeInv, TypeInv, Shaped
<1>2. CASE RetrieveAgain(kind, query)
  BY <1>2, SameSearched DEF RetrieveAgain
<1>3. CASE \/ RetrieveSkipped(kind, query) \/ Retrieved(kind, query)
           \/ RetrieveFailed(kind, query)
  <2>1. /\ past' = Append(past, query)
        /\ state'.plan = state.plan /\ state'.hop = state.hop + 1
    BY <1>1, <1>3 DEF RetrieveSkipped, Retrieved, RetrieveFailed, Hop, Fields
  <2>2. state.hop < Len(Planned) /\ query = Planned[state.hop + 1]
    BY <1>1 DEF NextQuery
  <2>3. Planned' = Planned
    BY <2>1 DEF Planned
  <2>. QED BY <1>1, <2>1, <2>2, <2>3, Hopped DEF SearchedInv
<1>. QED BY <1>2, <1>3 DEF Retrieve

(* The evaluation proposes lists of facts. *)
LEMMA FactsOf ==
  ASSUME NEW e \in FallbackEvaluations \cup ModelEvaluations
  PROVE  e.facts \in Seq(Range(e.facts))
<1>1. CASE e \in FallbackEvaluations
  <2>1. e.facts = <<>> \/ e.facts = <<VagueFact>>
    BY <1>1 DEF FallbackEvaluations, FallbackEvaluation
  <2>2. <<>> \in Seq({VagueFact}) /\ <<VagueFact>> \in Seq({VagueFact})
    BY DEF VagueFact
  <2>. QED BY <2>1, <2>2, SeqOfRange
<1>2. CASE e \in ModelEvaluations
  <2>1. e.facts = <<>> \/ e.facts \in Facts
    <3>. DEFINE yes == [enough |-> TRUE, facts |-> <<>>, webQuery |-> NoWebQuery]
                no == [enough : {FALSE}, facts : Facts, webQuery : WebKeys \cup {NoWebQuery}]
                asked == profile.evaluateMode = "llm" /\ AuxAllowed
    <3>1. ModelEvaluations = IF asked THEN {yes} \cup no ELSE {}
      BY DEF ModelEvaluations
    <3>2. e = yes \/ e \in no
      <4>. HIDE DEF yes, no, asked
      <4>. QED BY <1>2, <3>1
    <3>3. e = yes => e.facts = <<>>
      OBVIOUS
    <3>4. e \in no => e.facts \in Facts
      OBVIOUS
    <3>. QED BY <3>2, <3>3, <3>4, Zenon
  <2>2. <<>> \in Seq({})
    OBVIOUS
  <2>. QED BY <2>1, <2>2, SeqOfRange, FactsAssumption
<1>. QED BY <1>1, <1>2

(* What the evaluation adds was neither planned nor searched. *)
LEMMA EvaluateSearched ==
  ASSUME SafeInv, SearchedInv, Evaluate
  PROVE  SearchedInv'
<1>1. PICK e \in FallbackEvaluations \cup ModelEvaluations :
        /\ state'.plan = ExtendedPlan(e.facts) /\ state'.hop = state.hop
        /\ past' = past
  BY DEF Evaluate, SafeInv, TypeInv, Shaped, Fields
<1>. DEFINE slots == profile.maxHops - Len(Planned)
            seen == KeysOf(Planned) \cup KeysOf(past)
            more == Additions(e.facts, seen, slots)
<1>2. /\ more \in Seq(Range(e.facts)) /\ KeysOf(more) \cap seen = {}
      /\ IsInjective(more)
  BY FactsOf, AdditionsFresh
<1>3. \/ state'.plan = state.plan \/ state'.plan = Planned
      \/ state'.plan = Planned \o more
  BY <1>1 DEF ExtendedPlan
<1>. HIDE DEF more
<1>4. Planned # <<>> /\ Planned \in Seq(Range(Planned))
  BY DEF SearchedInv, Unrepeated
<1>5. CASE state'.plan = state.plan
  BY <1>1, <1>5, SameSearched
<1>6. CASE state'.plan = Planned
  <2>1. Planned' = Planned
    BY <1>4, <1>6 DEF Planned
  <2>. QED BY <1>1, <2>1 DEF SearchedInv
<1>7. CASE state'.plan = Planned \o more
  <2>1. /\ Unrepeated(Planned \o more)
        /\ Begun(past, state.hop, Planned \o more)
    BY <1>2, Joined DEF SearchedInv
  <2>2. Planned \o more # <<>>
    BY <2>1 DEF Unrepeated
  <2>3. Planned' = Planned \o more
    BY <1>7, <2>2 DEF Planned
  <2>. QED BY <1>1, <2>1, <2>3 DEF SearchedInv
<1>. QED BY <1>3, <1>5, <1>6, <1>7

(* A run starts with nothing searched. *)
LEMMA InitSearched == Init => SearchedInv
<1>. SUFFICES ASSUME Init PROVE SearchedInv
  OBVIOUS
<1>1. Planned = <<Question>> /\ past = <<>> /\ state.hop = 0
  BY InitialShape DEF Init, Planned
<1>. QED BY <1>1, NothingSearched DEF SearchedInv

(* Every action keeps the invariant. *)
LEMMA SearchedInductive ==
  ASSUME SafeInv, SearchedInv, [Next]_vars
  PROVE  SearchedInv'
<1>0. state = [f \in Fields |-> state[f]]
  BY DEF SafeInv, TypeInv, Shaped
<1>1. CASE Plan
  BY <1>1, PlanSearched
<1>2. CASE \E kind \in QueryKinds, query \in NextQuery : Retrieve(kind, query)
  BY <1>2, HopSearched
<1>3. CASE Evaluate
  BY <1>3, EvaluateSearched
<1>4. CASE Route \/ RetrieveNothing \/ Rerank
  <2>1. state'.plan = state.plan /\ state'.hop = state.hop /\ past' = past
    BY <1>0, <1>4 DEF Route, RetrieveNothing, Rerank, Fields
  <2>. QED BY <2>1, SameSearched
<1>5. CASE EvaluateSkipped \/ EvaluateStopped
  <2>1. state'.plan = state.plan /\ state'.hop = state.hop /\ past' = past
    BY <1>0, <1>5 DEF EvaluateSkipped, EvaluateStopped, Judged, Fields
  <2>. QED BY <2>1, SameSearched
<1>6. CASE WebStopped \/ WebFound \/ WebEmpty \/ WebAgain \/ WebFailed
  <2>1. state'.plan = state.plan /\ state'.hop = state.hop /\ past' = past
    BY <1>0, <1>6 DEF WebStopped, WebFound, WebEmpty, WebAgain, WebFailed, SearchesWeb,
                      Tried, Fields
  <2>. QED BY <2>1, SameSearched
<1>7. CASE \/ LoadQueryHistory \/ LoadContext \/ LoadContextAgain
           \/ LoadMemory \/ MergeMemory \/ GenerateDirect \/ Generate
           \/ Tick \/ Ended \/ UNCHANGED vars
  <2>1. state' = state /\ past' = past
    BY <1>7 DEF LoadQueryHistory, LoadContext, LoadContextAgain, LoadMemory, MergeMemory,
                GenerateDirect, Generate, Answered, Tick, Ended, vars
  <2>. QED BY <2>1, SameSearched
<1>8. CASE LoadContextFails \/ TimeOut \/ Abort
  <2>0. PICK how : End(how)
    BY <1>8 DEF LoadContextFails, TimeOut, Abort
  <2>1. past' = <<>> /\ state'.plan = <<>> /\ state'.hop = 0
    BY <2>0, InitialShape DEF End
  <2>2. Planned' = <<Question>>
    BY <2>1 DEF Planned
  <2>. QED BY <2>1, <2>2, NothingSearched DEF SearchedInv
<1>. QED BY <1>1, <1>2, <1>3, <1>4, <1>5, <1>6, <1>7, <1>8 DEF Next, Step

(* No query is searched twice in a run, and there are at most maxHops hops, *)
(* whatever the planner and the evaluator propose: each hop searches the    *)
(* next entry of a list that names none twice.                              *)
THEOREM SpecSearchesOnce == Spec => []HopsDistinct
<1>1. ASSUME SafeInv, SearchedInv
      PROVE  HopsDistinct
  <2>1. Len(past) <= profile.maxHops
    BY <1>1 DEF SearchedInv, Begun, SafeInv, StepsInv
  <2>2. ASSUME NEW i \in DOMAIN past, NEW j \in DOMAIN past, past[i] = past[j]
        PROVE  i = j
    <3>1. /\ DOMAIN past = 1 .. Len(past) /\ Len(past) \in Nat
          /\ DOMAIN Planned = 1 .. Len(Planned) /\ Len(Planned) \in Nat
      BY <1>1 DEF SearchedInv, Begun, Unrepeated
    <3>2. /\ i \in DOMAIN Planned /\ j \in DOMAIN Planned
          /\ Planned[i] = Planned[j]
      BY <1>1, <2>2, <3>1 DEF SearchedInv, Begun
    <3>. QED BY <1>1, <3>2 DEF SearchedInv, Unrepeated, IsInjective
  <2>. QED BY <2>1, <2>2 DEF HopsDistinct
<1>. QED BY <1>1, InitSearched, SearchedInductive, SafeAlways, PTL DEF Spec
=============================================================================
