---------------------------- MODULE DashboardOps ----------------------------
(***************************************************************************)
(* The figures of the two dashboards and of an evaluation, each computed   *)
(* once for an input: the trace a turn leaves (rag-turn-report.ts), what   *)
(* DashboardService makes of the newest answers, documents and evaluation  *)
(* cases, the score of a case (KnowledgeEvalCaseService) and of a golden   *)
(* case (rag-agent-golden-eval.ts).                                        *)
(*                                                                         *)
(* Numbers are whole; an average or a percentile is in hundredths, a ratio *)
(* in ten thousandths, as they are rounded.  A text is the set of the      *)
(* characters or phrases it is compared by.                                *)
(***************************************************************************)
EXTENDS Integers, Sequences, SequencesExt, FiniteSets, Functions, TLC

CONSTANTS SummaryAnswers, HealthAnswers, \* how many answers a page reads
          MaxAnswers, MaxNumber, MaxCases
ASSUME FigureBounds == SummaryAnswers \in Nat /\ HealthAnswers \in Nat
                       /\ MaxAnswers \in Nat /\ MaxNumber \in Nat /\ MaxCases \in Nat

VARIABLE figure \* what is computed, of what, and the result
figureVars == <<figure>>

Null == -1 \* an empty column, a metric that was not measured
Numbers == 0..MaxNumber
SomeOf(set, n) == UNION {[1..k -> set] : k \in 0..n}
Added(seq) == FoldLeft(LAMBDA a, b : a + b, 0, seq)
Field(r, f, default) == IF f \in DOMAIN r THEN r[f] ELSE default
\* n / d, rounded half up to a whole number.
Rounded(n, d) == (2 * n + d) \div (2 * d)

RatioOf(value, total) == IF total <= 0 THEN 0 ELSE Rounded(10000 * value, total)
AverageOf(values) ==
  LET valid == SelectSeq(values, LAMBDA v : v # Null)
  IN  IF valid = <<>> THEN Null ELSE Rounded(100 * Added(valid), Len(valid))
\* Interpolated between the two values around the place of the percentile.
Percentile(values, percent) ==
  LET valid == SortSeq(values, LAMBDA a, b : a < b)
      place == (Len(valid) - 1) * percent
      lower == valid[1 + (place \div 100)]
      upper == valid[1 + ((place + 99) \div 100)]
  IN  CASE valid = <<>>    -> Null
        [] Len(valid) = 1 -> 100 * valid[1]
        [] OTHER          -> 100 * lower + (upper - lower) * (place % 100)
Distribution(values) == [average |-> AverageOf(values), p50 |-> Percentile(values, 50),
                         p95 |-> Percentile(values, 95)]

-----------------------------------------------------------------------------
(* What a turn leaves.  A row of the trace is a search of one base: a      *)
(* channel is skipped when it fails and when the profile does not use it.  *)
(* An answer from the cache has no row, only a reason.                     *)

TraceRow(fallback, skipped, fused) ==
  [fallbackToPg |-> fallback, skippedChannels |-> skipped, rrfFusion |-> fused]
TurnSearches == {[rows |-> <<>>, reasons |-> <<"retrieval_cache_hit">>],
             [rows |-> <<TraceRow(TRUE, <<>>, TRUE)>>, reasons |-> <<>>],
             [rows |-> <<TraceRow(FALSE, <<"graph">>, FALSE)>>, reasons |-> <<>>]}
NoTrace(t) == t.profile = "fast" /\ t.search.rows = <<>> /\ t.flags = {}
Turns == {t \in [profile : {"fast", "deep"}, search : TurnSearches, flags : {{}, {"timed_out"}},
                 late : {{}, {"side_effect"}}, ran : BOOLEAN] : t.ran \/ NoTrace(t)}

BuildRagTurnReport(t) ==
  [profileId |-> t.profile, degradationFlags |-> t.flags,
   metrics |-> [latencyMs |-> 1, firstTokenLatencyMs |-> IF t.flags = {} THEN 0 ELSE Null],
   debug |-> [retrievalTrace |-> t.search.rows, graphReasoningTrace |-> t.search.reasons]]
\* Everything is written twice; nothing says what the permissions filtered.
ToRagTracePayload(t) ==
  LET report == BuildRagTurnReport(t)
  IN  [retrievalTrace |-> t.search.rows, graphReasoningTrace |-> t.search.reasons,
       profileId |-> report.profileId, degradationFlags |-> report.degradationFlags,
       metrics |-> report.metrics, report |-> report]
MergeDegradationFlags(trace, flags) ==
  LET merged == Field(trace, "degradationFlags", {}) \cup flags
      marked == ("degradationFlags" :> merged) @@ trace
  IN  IF flags = {} THEN trace
      ELSE IF "report" \in DOMAIN trace
           THEN [marked EXCEPT !.report.degradationFlags = @ \cup merged]
           ELSE marked
\* A turn that ended before the graph answered has no trace of its own.
StoredAnswer(t) ==
  [latencyMs |-> 2,
   ragTrace |-> MergeDegradationFlags(IF t.ran THEN ToRagTracePayload(t) ELSE <<>>, t.late)]
Newest(turns, n) == [k \in 1..(IF Len(turns) < n THEN Len(turns) ELSE n) |-> StoredAnswer(turns[k])]

SearchRows(answers) ==
  FoldLeft(LAMBDA all, a : all \o Field(a.ragTrace, "retrievalTrace", <<>>), <<>>, answers)
Filtered(row) == Field(row, "permissionFilter", 0)
SummaryFiltered(answers) ==
  FoldLeft(LAMBDA n, row : n + Filtered(row), 0, SearchRows(answers))
IncrementMap(map, key) == (key :> (Field(map, key, 0) + 1)) @@ map
ExtractTraceStats(answers) ==
  LET Stage(a) == Field(a.ragTrace, "stageTrace", <<>>)
      Counted(map, row) ==
        FoldLeft(IncrementMap,
                 IF row.fallbackToPg THEN IncrementMap(map, "vector_fallback") ELSE map,
                 row.skippedChannels)
      Named(map, a) == FoldLeft(IncrementMap, map, Field(a.ragTrace, "degradedChannels", <<>>))
      rows == SearchRows(answers)
  IN  [degradedChannels |-> FoldLeft(Named, FoldLeft(Counted, <<>>, rows), answers),
       fallbackToPgCount |-> Len(SelectSeq(rows, LAMBDA r : r.fallbackToPg)),
       rrfFusionTraceCount |-> Len(SelectSeq(rows, LAMBDA r : r.rrfFusion))
         + Len(SelectSeq(answers, LAMBDA a : Field(Stage(a), "rrfFusion", FALSE))),
       permissionFilteredCount |-> SummaryFiltered(answers)
         + FoldLeft(LAMBDA n, a : n + Filtered(Stage(a)), 0, answers),
       averageRerankLatencyMs |->
         AverageOf([k \in DOMAIN answers |-> Field(Stage(answers[k]), "rerankLatencyMs", Null)])]

MetricsOf(trace) == Field(Field(trace, "report", <<>>), "metrics", Field(trace, "metrics", <<>>))
ProfileOf(trace) == Field(Field(trace, "report", <<>>), "profileId",
                          Field(trace, "profileId", "legacy"))
FlagsOf(trace) == Field(Field(trace, "report", <<>>), "degradationFlags",
                        Field(trace, "degradationFlags", {}))
HasRetrievalCacheHit(trace) ==
  LET debug == Field(Field(trace, "report", <<>>), "debug", <<>>)
      Has(of) == "retrieval_cache_hit" \in ToSet(Field(of, "graphReasoningTrace", <<>>))
  IN  Has(trace) \/ Has(debug)
ExtractProfilePerformance(answers) ==
  LET profiles == {ProfileOf(answers[k].ragTrace) : k \in DOMAIN answers}
      Group(p) == SelectSeq(answers, LAMBDA a : ProfileOf(a.ragTrace) = p)
      Latency(a) == Field(MetricsOf(a.ragTrace), "latencyMs", a.latencyMs)
      First(a) == Field(MetricsOf(a.ragTrace), "firstTokenLatencyMs", Null)
      Measured(seq) == SelectSeq(seq, LAMBDA v : v # Null)
      Summary(group) ==
        LET hits == Len(SelectSeq(group, LAMBDA a : HasRetrievalCacheHit(a.ragTrace)))
            hurt == Len(SelectSeq(group, LAMBDA a : FlagsOf(a.ragTrace) # {}))
            firsts == Measured([k \in DOMAIN group |-> First(group[k])])
        IN  [sampleCount |-> Len(group), firstTokenSampleCount |-> Len(firsts),
             latencyMs |-> Distribution([k \in DOMAIN group |-> Latency(group[k])]),
             firstTokenLatencyMs |-> Distribution(firsts),
             cacheHitCount |-> hits, cacheHitRate |-> RatioOf(hits, Len(group)),
             degradedTurnCount |-> hurt, degradedTurnRate |-> RatioOf(hurt, Len(group))]
  IN  [p \in profiles |-> Summary(Group(p))]

-----------------------------------------------------------------------------
(* Documents and evaluation cases. *)

Week == -6..0 \* days, today is 0
\* The documents created since the first day of the week that are failed now.
FailedDocumentTrend(failedOn) ==
  [day \in Week |-> Len(SelectSeq(failedOn, LAMBDA d : d = day))]

CaseRows == [status : {"unrun", "running", "success", "failed"},
             review : {"unreviewed", "passed", "failed"}, hitAt1 : {Null, 0, 1}]
CasesIn(rows, Test(_)) == Len(SelectSeq(rows, Test))
Succeeded(rows) == SelectSeq(rows, LAMBDA r : r.status = "success")
HitsOf(rows) == LET of == Succeeded(rows) IN [k \in DOMAIN of |-> of[k].hitAt1]
BuildEvalSummary(rows) ==
  [total |-> Len(rows), success |-> Len(Succeeded(rows)),
   failed |-> CasesIn(rows, LAMBDA r : r.status = "failed"),
   unrun |-> CasesIn(rows, LAMBDA r : r.status = "unrun"),
   reviewedPassed |-> CasesIn(rows, LAMBDA r : r.review = "passed"),
   reviewedFailed |-> CasesIn(rows, LAMBDA r : r.review = "failed"),
   unreviewed |-> CasesIn(rows, LAMBDA r : r.review = "unreviewed"),
   hitAt1 |-> AverageOf(HitsOf(rows))]
\* The evaluation page's own figures; its averages are not rounded.
GetMetricsSummary(rows) ==
  LET measured == SelectSeq(HitsOf(rows), LAMBDA v : v # Null)
  IN  [total |-> Len(rows), success |-> Len(Succeeded(rows)),
       failed |-> CasesIn(rows, LAMBDA r : r.status = "failed"),
       reviewedPassed |-> CasesIn(rows, LAMBDA r : r.review = "passed"),
       reviewedFailed |-> CasesIn(rows, LAMBDA r : r.review = "failed"),
       hits |-> Added(measured), of |-> Len(measured)]
EvalPassRate(rows) ==
  RatioOf(CasesIn(rows, LAMBDA r : r.review = "passed"), Len(rows))

\* The counts of the two pages, each asked of the tables on its own.  A down
\* vote is listed with the question of its turn, whose row may be missing.
DocumentRows == [status : {"pending", "processing", "completed", "failed"},
                 graphSync : {"synced", "failed"}, chunkCount : {0, 1},
                 mimeType : {"image", "text"}]
AnswerRows == [citations : {Null, 0, 1}, feedback : {"none", "down"},
               latencyMs : {Null, 0, 3}, asked : BOOLEAN]
CountOf(rows, Test(_)) == Len(SelectSeq(rows, Test))
LatencyOf(answers) == LET measured == SelectSeq([k \in DOMAIN answers |-> answers[k].latencyMs],
                                                LAMBDA v : v # Null)
                      IN  IF measured = <<>> THEN 0 ELSE Rounded(Added(measured), Len(measured))
Uncited(answers) == CountOf(answers, LAMBDA a : a.citations \in {Null, 0})
LowRated(answers) == SelectSeq(answers, LAMBDA a : a.feedback = "down" /\ a.asked)
MultimodalRate(documents) ==
  RatioOf(CountOf(documents, LAMBDA d : d.mimeType # "text"), Len(documents))
SummaryCounts(in) ==
  [documentCount |-> Len(in.documents),
   failedDocumentCount |-> CountOf(in.documents, LAMBDA d : d.status = "failed"),
   unchunkedDocumentCount |->
     CountOf(in.documents, LAMBDA d : d.status = "completed" /\ d.chunkCount = 0),
   graphFailedDocumentCount |-> CountOf(in.documents, LAMBDA d : d.graphSync = "failed"),
   lowRatedAnswers |-> LowRated(in.answers)]
NoCitationRate(answers) == RatioOf(Uncited(answers), Len(answers))
RagHealth(in) ==
  LET Documents(Test(_)) == CountOf(in.documents, Test)
      down == CountOf(in.answers, LAMBDA a : a.feedback = "down")
  IN  [answerCount |-> Len(in.answers), noCitationAnswerCount |-> Uncited(in.answers),
       noCitationRate |-> RatioOf(Uncited(in.answers), Len(in.answers)),
       lowRatedAnswerCount |-> down, downVoteRate |-> RatioOf(down, Len(in.answers)),
       averageLatencyMs |-> LatencyOf(in.answers),
       total |-> Len(in.documents),
       failed |-> Documents(LAMBDA d : d.status = "failed"),
       processing |-> Documents(LAMBDA d : d.status = "processing"),
       multimodalRate |-> MultimodalRate(in.documents),
       graphFailed |-> Documents(LAMBDA d : d.graphSync = "failed"),
       unchunked |-> Documents(LAMBDA d : d.status = "completed" /\ d.chunkCount = 0),
       recentLowRatedAnswers |-> LowRated(in.answers)]

\* The share of the characters expected that the first chunks hold, in
\* hundredths; a case may say nothing of what it expects.
Characters == {"a", "b", "c"}
Unset == {"unset"}
CalculateRecallAtK(expected, chunks, k) ==
  LET first == SubSeq(chunks, 1, IF k < Len(chunks) THEN k ELSE Len(chunks))
      held == UNION ToSet(first)
  IN  IF expected \in {Unset, {}} THEN Null
      ELSE (100 * Cardinality(expected \cap held)) \div Cardinality(expected)
CalculateHitAtK(expected, chunks, k) ==
  IF chunks = <<>> THEN 0
  ELSE IF expected = Unset THEN 1
  ELSE IF CalculateRecallAtK(expected, chunks, k) >= 35 THEN 1 ELSE 0

\* A golden case: its spans are to be in a chunk of their source, its points in
\* the answer.  A chunk both ranked and cited counts as it was ranked.
Chunk == [id : {"x", "y"}, source : {"s", "t"}, holds : {{}, {"q"}}]
DeduplicateChunks(chunks) ==
  FoldLeft(LAMBDA kept, c :
             IF \E d \in ToSet(kept) : d.id = c.id THEN kept ELSE Append(kept, c),
           <<>>, chunks)
GoldenRatio(value, total) == IF total = 0 THEN 10000 ELSE Rounded(10000 * value, total)
EvaluateGoldenCase(in) ==
  LET chunks == ToSet(DeduplicateChunks(in.ranked \o in.cited))
      Hit(span) == \E c \in chunks : c.source = span.source /\ span.quote \in c.holds
      spanHits == Len(SelectSeq(in.spans, Hit))
      pointHits == Len(SelectSeq(in.points, LAMBDA p : p \in in.answer))
      evidenceRecall == GoldenRatio(spanHits, Len(in.spans))
      answerPointRecall == GoldenRatio(pointHits, Len(in.points))
  IN  [passed |-> evidenceRecall = 10000 /\ answerPointRecall = 10000,
       evidenceHitCount |-> spanHits, answerPointHitCount |-> pointHits,
       retrievedChunkCount |-> Cardinality(chunks)]

-----------------------------------------------------------------------------
FigureInputs(of) ==
  CASE of = "answers" -> SomeOf(Turns, MaxAnswers)
    [] of = "spread"  -> SomeOf(Numbers, 4)
    [] of = "trend"   -> SomeOf(-8..0, 2)
    [] of = "cases"   -> SomeOf(CaseRows, MaxCases)
    [] of = "pages"   -> [documents : SomeOf(DocumentRows, 2), answers : {<<>>}]
                         \cup [documents : {<<>>}, answers : SomeOf(AnswerRows, 2)]
    [] of = "score"   -> [expected : {Unset} \cup SUBSET Characters,
                          chunks : SomeOf(SUBSET Characters, 3)]
    [] of = "golden"  -> [ranked : SomeOf(Chunk, 1), cited : SomeOf(Chunk, 1),
                          spans : SomeOf([source : {"s", "t"}, quote : {"q"}], 2),
                          points : SomeOf({"p", "r"}, 2), answer : SUBSET {"p"}]
Computations == {"answers", "spread", "trend", "cases", "pages", "score", "golden"}
FigureOf(of, in) ==
  CASE of = "answers" ->
         LET seen == Newest(in, HealthAnswers)
         IN  [stats |-> ExtractTraceStats(seen), profiles |-> ExtractProfilePerformance(seen),
              summaryFiltered |-> SummaryFiltered(Newest(in, SummaryAnswers))]
    [] of = "spread"  -> Distribution(in)
    [] of = "trend"   -> FailedDocumentTrend(in)
    [] of = "cases"   -> [dashboard |-> BuildEvalSummary(in), page |-> GetMetricsSummary(in),
                          passRate |-> EvalPassRate(in)]
    [] of = "pages"   -> [summary |-> SummaryCounts(in), health |-> RagHealth(in),
                          rates |-> [noCitation |-> NoCitationRate(in.answers),
                                     multimodal |-> MultimodalRate(in.documents),
                                     latency |-> LatencyOf(in.answers)]]
    [] of = "score"   -> [hit |-> [k \in 1..3 |-> CalculateHitAtK(in.expected, in.chunks, k)],
                          recall |-> [k \in 1..3 |-> CalculateRecallAtK(in.expected, in.chunks, k)]]
    [] of = "golden"  -> EvaluateGoldenCase(in)

FigureInit == \E of \in Computations : \E in \in FigureInputs(of) :
  figure = [of |-> of, input |-> in, result |-> {}, done |-> FALSE]
FigureNext ==
  /\ ~figure.done
  /\ figure' = [figure EXCEPT !.result = FigureOf(figure.of, figure.input), !.done = TRUE]
FigureSpec == FigureInit /\ [][FigureNext]_figureVars

FigureTypeOK == figure.of \in Computations /\ figure.done \in BOOLEAN

-----------------------------------------------------------------------------
(* What the figures are for, said without the loops. *)

Total(f) == FoldFunction(LAMBDA a, b : a + b, 0, f)
\* Each answer counts in one profile, its rows and flags as often as they are; a
\* channel a profile does without counts as degraded; what the permissions
\* filtered and how long a rerank took is never known.
AnswersRight(in, out) ==
  LET seen == {k \in DOMAIN in : k <= HealthAnswers}
      Profile(k) == IF in[k].ran THEN in[k].profile ELSE "legacy"
      searches == {k \in seen : in[k].ran /\ in[k].search.rows # <<>>}
      Of(p) == {k \in seen : Profile(k) = p}
      channels == out.stats.degradedChannels
  IN  /\ DOMAIN out.profiles = {Profile(k) : k \in seen}
      /\ \A p \in DOMAIN out.profiles :
           /\ out.profiles[p].sampleCount = Cardinality(Of(p))
           /\ out.profiles[p].degradedTurnCount =
                Cardinality({k \in Of(p) : in[k].late # {} \/ (in[k].ran /\ in[k].flags # {})})
           /\ out.profiles[p].cacheHitCount =
                Cardinality({k \in Of(p) : in[k].ran /\ in[k].search.reasons # <<>>})
           /\ out.profiles[p].cacheHitRate \in 0..10000
           /\ out.profiles[p].firstTokenSampleCount <= out.profiles[p].sampleCount
      /\ out.stats.fallbackToPgCount = Field(channels, "vector_fallback", 0)
      /\ Field(channels, "graph", 0) =
           Cardinality({k \in searches : in[k].search.rows[1].skippedChannels # <<>>})
      /\ out.stats.permissionFilteredCount = 0 /\ out.summaryFiltered = 0
      /\ out.stats.averageRerankLatencyMs = Null
\* The median has half of the values on each side; of few values the 95th is
\* above all but the largest.
SpreadRight(in, out) ==
  LET AtMost(v) == Cardinality({k \in DOMAIN in : 100 * in[k] <= v})
      AtLeast(v) == Cardinality({k \in DOMAIN in : 100 * in[k] >= v})
  IN  IF in = <<>> THEN out.p50 = Null /\ out.p95 = Null /\ out.average = Null
      ELSE /\ 2 * AtMost(out.p50) >= Len(in) /\ 2 * AtLeast(out.p50) >= Len(in)
           /\ out.p50 <= out.p95 /\ AtLeast(out.p95) >= 1
           /\ \A j, k \in DOMAIN in : in[j] < in[k] => 100 * in[j] < out.p95
           /\ AtMost(out.average) >= 1 /\ AtLeast(out.average - 1) >= 1
TrendRight(in, out) ==
  /\ DOMAIN out = Week
  /\ Total(out) = Cardinality({k \in DOMAIN in : in[k] \in Week})
\* The two pages agree; a case is counted once by what it is, one that runs
\* by neither.
CasesRight(in, out) ==
  LET running == Cardinality({k \in DOMAIN in : in[k].status = "running"})
      d == out.dashboard
  IN  /\ d.success + d.failed + d.unrun + running = d.total
      /\ d.reviewedPassed + d.reviewedFailed + d.unreviewed = d.total
      /\ d.total = out.page.total /\ d.success = out.page.success /\ d.failed = out.page.failed
      /\ d.hitAt1 = (IF out.page.of = 0 THEN Null ELSE Rounded(100 * out.page.hits, out.page.of))
      /\ (out.passRate = 10000) <=> (in # <<>> /\ d.reviewedPassed = d.total)
\* The summary and the health page agree on what both show; no document is in
\* two of the troubled groups; a down vote is missing from the list only when
\* the question of its turn was never stored.
PagesRight(in, out) ==
  LET s == out.summary
      h == out.health
      Answers(S) == Cardinality({k \in DOMAIN in.answers : in.answers[k] \in S})
      downs == {a \in AnswerRows : a.feedback = "down"}
  IN  /\ <<s.documentCount, s.failedDocumentCount, s.unchunkedDocumentCount,
           s.graphFailedDocumentCount, s.lowRatedAnswers>>
         = <<h.total, h.failed, h.unchunked, h.graphFailed, h.recentLowRatedAnswers>>
      /\ <<out.rates.noCitation, out.rates.multimodal, out.rates.latency>>
         = <<h.noCitationRate, h.multimodalRate, h.averageLatencyMs>>
      /\ h.failed + h.processing + h.unchunked <= h.total
      /\ h.lowRatedAnswerCount - Len(s.lowRatedAnswers)
         = Answers({a \in downs : ~a.asked})
      /\ h.noCitationRate = 10000 <=>
           /\ in.answers # <<>>
           /\ Answers({a \in AnswerRows : a.citations = 1}) = 0
      /\ h.downVoteRate \in 0..10000 /\ h.multimodalRate \in 0..10000
      /\ (\A k \in DOMAIN in.answers : in.answers[k].latencyMs <= 0) => h.averageLatencyMs = 0
\* More chunks never score less.
ScoreRight(in, out) == \A k \in 1..2 :
  /\ out.hit[k] <= out.hit[k + 1] /\ out.recall[k] <= out.recall[k + 1]
  /\ out.hit[k] = 1 => in.chunks # <<>> /\ out.recall[k] \in {Null} \cup (35..100)
GoldenRight(in, out) ==
  LET cited == {c \in ToSet(in.cited) : \A r \in ToSet(in.ranked) : r.id # c.id}
      Holds(c, s) == c.source = s.source /\ s.quote \in c.holds
  IN  /\ out.passed => \A s \in ToSet(in.spans) :
                        \E c \in ToSet(in.ranked) \cup cited : Holds(c, s)
      /\ out.passed => ToSet(in.points) \subseteq in.answer
      /\ out.retrievedChunkCount <= 2

(* Each figure of the dashboards and of an evaluation says what it is      *)
(* called after.                                                           *)
FiguresRight == figure.done =>
  LET in == figure.input
      out == figure.result
  IN  CASE figure.of = "answers" -> AnswersRight(in, out)
        [] figure.of = "spread"  -> SpreadRight(in, out)
        [] figure.of = "trend"   -> TrendRight(in, out)
        [] figure.of = "cases"   -> CasesRight(in, out)
        [] figure.of = "pages"   -> PagesRight(in, out)
        [] figure.of = "score"   -> ScoreRight(in, out)
        [] figure.of = "golden"  -> GoldenRight(in, out)
=============================================================================
