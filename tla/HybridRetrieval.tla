--------------------------- MODULE HybridRetrieval ---------------------------
(***************************************************************************)
(* One search of the knowledge bases, from the rewritten question to the   *)
(* ranked chunks and the report of what was degraded: sub-queries run      *)
(* against every base of the request over three channels                   *)
(* (HybridRetrieverService, FulltextRetrieverService), their results are   *)
(* fused and merged, expanded along the graph, filtered by the document    *)
(* filters and the permissions and reranked (KnowledgeSearchService).      *)
(*                                                                         *)
(* A chunk is a model value with the set of channels that found it.  The   *)
(* scores that order chunks are left out: where the code keeps the best n  *)
(* of more, any n are kept.  The stores and models answer freely.          *)
(***************************************************************************)
EXTENDS Integers, FiniteSets

CONSTANTS Found, Limits,
          MaxBases,       \* knowledge bases of a request
          MaxQueries,     \* queries of a search
          MaxSubQueries,  \* and queries over all its bases
          PerQueryMin     \* HYBRID_PER_QUERY_MIN_TOP_K
ASSUME LimitsAreCounts ==
  Limits \cup {MaxBases, MaxQueries, PerQueryMin} \subseteq Nat \ {0}
ASSUME FoundIsFinite == IsFiniteSet(Found)

\* Both are numbered as the request names them.
Bases == 1..MaxBases
Queries == 1..MaxQueries

Channels == {"vector", "keyword", "graph"}
Kinds == {"base", "bases", "persona"}

VARIABLES
  ask,     \* the request: its kind, channels, limit, bases, what it may see
  todo,    \* the sub-queries that have not answered: base and query
  found,   \* by base: the channels that found each chunk
  lostBases,  \* bases whose retrieval failed
  report,  \* by base, its trace: channels skipped by all, backends, the fallback
  answer,  \* the chunks of the answer, by channel, and what is degraded
  found0,  \* ghost: by base, what the channels returned to its sub-queries
  worked,  \* ghost: by base, the channels that answered a sub-query
  crowded  \* ghost: the bases kept more than the answer has room for

searchVars == <<ask, todo, found, lostBases, report, answer, found0, worked, crowded>>

Nothing == [c \in Found |-> {}]
Held(hits) == {c \in Found : hits[c] # {}}
Stages == {"idle", "embed", "sub-queries", "merge", "expand", "filter", "rerank",
           "done", "failed", "aborted"}
Ask0 == [at |-> "idle", kind |-> "base", channels |-> {}, limit |-> 1, bases |-> {},
         queries |-> 1, visible |-> {}, embedded |-> {},
         graphOn |-> TRUE, elastic |-> TRUE]
Report0 == [skipped |-> Channels, backends |-> {}, fallback |-> FALSE]
Answer0 == [chunks |-> Nothing, ranked |-> {}, degraded |-> {}]

SearchTypeOK ==
  /\ ask \in [at : Stages, kind : Kinds, channels : SUBSET Channels,
              limit : Nat, bases : SUBSET Bases, queries : Nat \ {0},
              visible : SUBSET Found, embedded : SUBSET Queries,
              graphOn : BOOLEAN, elastic : BOOLEAN]
  /\ todo \subseteq Bases \X Queries
  /\ found \in [Bases -> [Found -> SUBSET Channels]]
  /\ lostBases \subseteq Bases
  /\ report \in [Bases -> [skipped : SUBSET Channels, backends : SUBSET Channels,
                           fallback : BOOLEAN]]
  /\ answer \in [chunks : [Found -> SUBSET (Channels \cup {"context"})],
                 ranked : SUBSET Found,
                 degraded : SUBSET (Channels \cup {"rerank", "fallback"})]
  /\ found0 \in [Bases -> [Found -> SUBSET Channels]]
  /\ worked \in [Bases -> SUBSET Channels] /\ crowded \in BOOLEAN

NothingByBase == [b \in Bases |-> Nothing]
SearchInit ==
  /\ ask = Ask0 /\ todo = {} /\ found = NothingByBase /\ lostBases = {}
  /\ report = [b \in Bases |-> Report0] /\ answer = Answer0
  /\ found0 = NothingByBase /\ worked = [b \in Bases |-> {}] /\ crowded = FALSE

\* The best n, whichever these are.
Best(set, n) ==
  IF Cardinality(set) <= n THEN {set}
  ELSE {best \in SUBSET set : Cardinality(best) = n}
Only(hits, set) == [c \in Found |-> IF c \in set THEN hits[c] ELSE {}]
Join2(h1, h2) == [c \in Found |-> h1[c] \cup h2[c]]
Union(bases) == [c \in Found |-> UNION {found[b][c] : b \in bases}]
AskGoes(at) == ask' = [ask EXCEPT !.at = at]
\* A search that throws has no answer, and nothing of it is kept.
SearchThrows(at) ==
  /\ ask' = [Ask0 EXCEPT !.at = at] /\ todo' = {} /\ found' = NothingByBase
  /\ lostBases' = {} /\ report' = [b \in Bases |-> Report0] /\ answer' = Answer0
  /\ found0' = NothingByBase /\ worked' = [b \in Bases |-> {}] /\ crowded' = FALSE

-----------------------------------------------------------------------------
\* The question is rewritten into one query or several, or on failure, which is
\* reported and left out here, searched as it is in one; a persona's queries are
\* embedded once for all its bases.
SearchBases(kind, bases, queries, channels, limit) ==
  /\ ask.at = "idle"
  /\ Cardinality(bases) * queries <= MaxSubQueries
  /\ kind = "base" => Cardinality(bases) = 1
  /\ \E graphOn \in {TRUE, "graph" \notin channels},
        elastic \in {TRUE, "keyword" \notin channels} :
       ask' = [at |-> IF kind = "persona" THEN "embed" ELSE "sub-queries",
               kind |-> kind, channels |-> channels, limit |-> limit, bases |-> bases,
               queries |-> queries, visible |-> {}, embedded |-> {},
               graphOn |-> graphOn, elastic |-> elastic]
  /\ todo' = bases \X (1..queries)
  /\ UNCHANGED <<found, lostBases, report, answer, found0, worked, crowded>>

\* An error or an exhausted budget leaves a query without an embedding.  (The
\* queries of a single base are embedded when they run.)
EmbedQueries(embedded) ==
  /\ ask.at = "embed" /\ embedded \subseteq 1..ask.queries
  /\ ask' = [ask EXCEPT !.at = "sub-queries",
                        !.embedded = IF "vector" \in ask.channels THEN embedded ELSE {}]
  /\ UNCHANGED <<todo, found, lostBases, report, answer, found0, worked, crowded>>

\* What a channel gives a sub-query: whether it failed, what it found, and for
\* keywords whether PostgreSQL stood in for Elasticsearch.
Finds == {set \in SUBSET Found : Cardinality(set) <= 1}
Skip == [failed |-> FALSE, found |-> {}, fallback |-> FALSE]
Fail == [Skip EXCEPT !.failed = TRUE]
Ok(set) == [Skip EXCEPT !.found = set]

\* Without an embedding the channel is skipped, which is reported like a failure.
VectorResults(q) ==
  IF "vector" \notin ask.channels THEN {Skip}
  ELSE {Fail} \cup IF ask.kind = "persona" /\ q \notin ask.embedded THEN {}
                   ELSE {Ok(set) : set \in Finds}

\* Elasticsearch finds something; or it fails, finds nothing or is off, and
\* PostgreSQL is asked instead.
PgRetrieve == {Ok(set) : set \in Finds} \cup {Fail}
ElasticRetrieve == {Ok(set) : set \in Finds} \cup {Fail}
InsteadOfElastic == {[r EXCEPT !.fallback = ~r.failed] : r \in PgRetrieve}
PreferredBackend == IF ask.elastic THEN "elastic" ELSE "pg"
KeywordResults ==
  CASE "keyword" \notin ask.channels -> {Skip}
    [] "keyword" \in ask.channels /\ PreferredBackend = "pg" -> PgRetrieve
    [] OTHER -> (ElasticRetrieve \ {Fail}) \cup InsteadOfElastic

GraphEnabled == "graph" \in ask.channels /\ ask.graphOn
\* A failure of the graph search is empty and not reported.
GraphResults == IF GraphEnabled THEN {Ok(set) : set \in Finds} ELSE {Skip}

\* MUTANT: the channels joined with Promise.all, which one failure rejects.
SubQueryFailsWithAny(v, k, filtered) == ~filtered \/ v.failed \/ k.failed
\* Channels are settled one by one: the failure of one leaves the others.
SubQueryFails(v, k, filtered) == ~filtered

\* What the vector and keyword channels, and then the graph, found.
VectorAndKeyword(v, k) ==
  [c \in Found |-> (IF c \in v.found THEN {"vector"} ELSE {})
                   \cup (IF c \in k.found THEN {"keyword"} ELSE {})]
GraphChunks(g) == [c \in Found |-> IF c \in g.found THEN {"graph"} ELSE {}]
SkippedChannels(v, k) ==
  (Channels \ ask.channels)
  \cup (IF v.failed THEN {"vector"} ELSE {})
  \cup (IF k.failed THEN {"keyword"} ELSE {})
  \cup (IF GraphEnabled THEN {} ELSE {"graph"})
\* The trace of a sub-query, added to those of its base.
Traced(r, skipped, fallback) ==
  [skipped |-> r.skipped \cap skipped,
   backends |-> r.backends \cup (ask.channels \cap {"vector"})
                           \cup ({"keyword", "graph"} \ skipped),
   fallback |-> r.fallback \/ fallback]

\* The limit is shared out among the queries, down to a minimum.
PerQueryTopK ==
  LET share == (ask.limit + ask.queries - 1) \div ask.queries
  IN  IF share < PerQueryMin THEN PerQueryMin ELSE share

\* Vector and keyword are fused, then both with the graph, and the best are
\* kept each time.  The graph's chunks are filtered by a call that is not
\* awaited inside the try: its rejection reaches the sub-query, which is then
\* empty with all its channels reported skipped.
SubQuery(b, q, filtered) ==
  /\ ask.at = "sub-queries" /\ <<b, q>> \in todo
  /\ todo' = todo \ {<<b, q>>}
  /\ \E v \in VectorResults(q), k \in KeywordResults, g \in GraphResults :
       LET hybrid == VectorAndKeyword(v, k)
           all == Join2(hybrid, GraphChunks(g))
       IN
       /\ ~filtered => g.found # {}
       /\ IF SubQueryFails(v, k, filtered)
          THEN UNCHANGED <<found, report>>
          ELSE /\ \E best \in Best(Held(hybrid), PerQueryTopK) :
                    LET fused == Join2(Only(hybrid, best), GraphChunks(g)) IN
                    \E kept \in Best(Held(fused), PerQueryTopK) :
                      found' = [found EXCEPT ![b] = Join2(@, Only(fused, kept))]
               /\ report' = [report EXCEPT ![b] =
                               Traced(@, SkippedChannels(v, k), k.fallback)]
       /\ worked' = [worked EXCEPT ![b] = @ \cup
                       IF filtered THEN Channels \ SkippedChannels(v, k) ELSE {}]
       /\ found0' = [found0 EXCEPT ![b] = Join2(@,
            IF filtered /\ Cardinality(Held(all)) <= PerQueryTopK THEN all ELSE Nothing)]
  /\ UNCHANGED <<ask, lostBases, answer, crowded>>

\* A transient error is not the sub-query's own: it ends the retrieval of the
\* base, and the whole search but for one of several bases, which is left out
\* with its trace.  (The channels settle one by one and the embedding and the
\* expansion catch theirs, so only the filter of the graph's chunks throws.)
BaseFails(b) ==
  /\ ask.at = "sub-queries" /\ b \in ask.bases \ lostBases /\ GraphEnabled
  /\ \E q \in Queries : <<b, q>> \in todo
  /\ IF ask.kind # "bases" THEN SearchThrows("failed")
     ELSE /\ todo' = {t \in todo : t[1] # b}
          /\ lostBases' = lostBases \cup {b}
          /\ found' = [found EXCEPT ![b] = Nothing]
          /\ report' = [report EXCEPT ![b] = Report0]
          /\ UNCHANGED <<ask, answer, found0, worked, crowded>>

SearchAborts ==
  /\ ask.at \notin {"idle", "done", "failed", "aborted"}
  /\ SearchThrows("aborted")

-----------------------------------------------------------------------------
\* The neighbours of the best chunks in their documents may be added; a failure
\* adds none.
ExpandChunks(best, near) == IF best = {} THEN {} ELSE near \ best
\* Per base, and for several once more over all, the best are kept, which is to
\* keep the best of all; the bases that failed are left out.
Survivors == ask.bases \ lostBases
MergeBases ==
  /\ ask.at = "sub-queries" /\ todo = {} /\ AskGoes("expand")
  /\ LET hits == Union(Survivors) IN
     /\ crowded' = (Cardinality(Held(hits)) > ask.limit)
     /\ \E best \in Best(Held(hits), ask.limit), near \in Finds :
          /\ answer' = [answer EXCEPT !.chunks = [c \in Found |->
               Only(hits, best)[c] \cup
               IF c \in ExpandChunks(best, near) THEN {"context"} ELSE {}]]
          \* over several, the neighbours rank last
          /\ \/ ask.kind = "base" \/ ExpandChunks(best, near) = {}
             \/ Cardinality(best) < ask.limit
  /\ found' = NothingByBase  \* not needed any more
  /\ UNCHANGED <<todo, lostBases, report, found0, worked>>

\* With less than three chunks from the graph, neighbours of the entities the
\* best chunks name are added; a failure adds none.
GraphHits == {c \in Found : "graph" \in answer.chunks[c]}
ExpandGraph ==
  /\ ask.at = "expand" /\ AskGoes("filter")
  /\ \E more \in IF GraphEnabled /\ Held(answer.chunks) # {}
                    /\ Cardinality(GraphHits) < 3
                 THEN Finds ELSE {{}} :
       answer' = [answer EXCEPT !.chunks = [c \in Found |->
         answer.chunks[c] \cup IF c \in more \ Held(answer.chunks)
                               THEN {"graph"} ELSE {}]]
  /\ UNCHANGED <<todo, found, lostBases, report, found0, worked, crowded>>

\* The filters of the request and its permissions; for a persona they run in
\* the retriever too, where a failure leaves nothing.
FilterChunks(failed, visible) ==
  /\ ask.at = "filter"
  /\ ask' = [ask EXCEPT !.at = "rerank", !.visible = visible]
  /\ failed => ask.kind = "persona"
  /\ answer' = [answer EXCEPT !.chunks =
                 Only(@, IF failed THEN {} ELSE visible)]
  /\ found0' = IF failed THEN NothingByBase ELSE found0
  /\ UNCHANGED <<todo, found, lostBases, report, worked, crowded>>

\* A channel is degraded that all traces skip or that has no backend in any.
Degraded(rerankFailed) ==
  {ch \in ask.channels : \/ \A b \in ask.bases : ch \in report[b].skipped
                         \/ \A b \in ask.bases : ch \notin report[b].backends}
  \cup (IF \E b \in ask.bases : report[b].fallback THEN {"fallback"} ELSE {})
  \cup (IF rerankFailed THEN {"rerank"} ELSE {})

\* The reranker keeps some of the chunks; when it fails the best stay.  Of the
\* request only what the property names is kept.
RerankChunks(failed) ==
  /\ ask.at = "rerank"
  /\ \E ranked \in IF failed THEN Best(Held(answer.chunks), ask.limit)
                   ELSE SUBSET Held(answer.chunks) :
       answer' = [chunks |-> Nothing, ranked |-> ranked, degraded |-> Degraded(failed)]
  /\ ask' = [Ask0 EXCEPT !.at = "done", !.channels = ask.channels, !.bases = Survivors]
  /\ found0' = NothingByBase /\ lostBases' = {}
  /\ report' = [b \in Bases |-> Report0]
  /\ UNCHANGED <<todo, found, worked, crowded>>

SearchNext ==
  \/ \E kind \in Kinds, bases \in {1..n : n \in Bases}, queries \in Queries,
        channels \in SUBSET Channels \ {{}}, limit \in Limits :
       SearchBases(kind, bases, queries, channels, limit)
  \/ \E embedded \in SUBSET Queries : EmbedQueries(embedded)
  \/ \E b \in Bases, q \in Queries, filtered \in BOOLEAN : SubQuery(b, q, filtered)
  \/ \E b \in Bases : BaseFails(b)
  \/ SearchAborts \/ MergeBases \/ ExpandGraph
  \/ \E failed \in BOOLEAN :
       \/ \E visible \in SUBSET Found : FilterChunks(failed, visible)
       \/ RerankChunks(failed)

SearchSpec == SearchInit /\ [][SearchNext]_searchVars

\* A failing channel, sub-query or base costs only its own evidence: whatever
\* the others did, a chunk that a channel returned to a sub-query of a base that
\* did not fail, and that the request may see, is in the answer, with every
\* channel that found it there.  The exceptions are two cuts, of a sub-query
\* whose channels return more than its share of the limit and of bases that
\* together keep more than the limit; a sub-query whose graph filter fails, which
\* loses what its other channels found; and a persona's permission filter that
\* fails, which leaves nothing.  And a channel the request asked for is reported
\* degraded exactly if no sub-query of a base that did not fail had an answer
\* from it (but for the graph, whose failures are not reported).
SurvivorsKept ==
  /\ ask.at = "rerank" /\ ~crowded =>
       \A b \in Survivors, c \in ask.visible : found0[b][c] \subseteq answer.chunks[c]
  /\ ask.at = "done" =>
       \A ch \in ask.channels \ {"graph"} :
         ch \in answer.degraded <=> \A b \in ask.bases : ch \notin worked[b]
==============================================================================
