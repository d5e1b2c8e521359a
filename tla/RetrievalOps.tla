---------------------------- MODULE RetrievalOps ----------------------------
(***************************************************************************)
(* The pure steps of a retrieval, each computed once for an input: the     *)
(* neighbours added to the hits (ChunkExpansionService), the rerankers     *)
(* behind RerankerService, the evidence merged over the hops and capped    *)
(* (rag.utils.ts), the queries a question is expanded to, the sections a   *)
(* markdown document is split into and the topics its headings make, and   *)
(* the query that searches the graph (query.builder.ts).                   *)
(*                                                                         *)
(* Scores are tenths.  A text is a small name, the key it is compared by   *)
(* a name of its own.  What the LLM or a rerank service answers is part of *)
(* the input.                                                              *)
(***************************************************************************)
EXTENDS Integers, Sequences, SequencesExt, FiniteSets

CONSTANTS RerankLimit,  \* RERANKER_MAX_CANDIDATES
          Positions,    \* indexes of chunks in a document
          MaxLines      \* lines of a document
ASSUME OpsBounds == RerankLimit \in Nat \ {0} /\ Positions \subseteq Nat
                    /\ MaxLines \in Nat

VARIABLE call  \* the step, its input, and its output once computed
opsVars == <<call>>

Larger(a, b) == IF a < b THEN b ELSE a
Smaller(a, b) == IF a < b THEN a ELSE b
Clamp(n, low, high) == Smaller(high, Larger(low, n))
Take(seq, n) == SubSeq(seq, 1, Smaller(n, Len(seq)))
NoRepeats(seq) == \A i, j \in DOMAIN seq : seq[i] = seq[j] => i = j
\* Each the first time it comes.
Once(seq) ==
  FoldLeft(LAMBDA kept, x : IF x \in ToSet(kept) THEN kept ELSE Append(kept, x),
           <<>>, seq)
\* Sequences of at most n different members of a set.
Arrangements(set, n) == {seq \in UNION {[1..k -> set] : k \in 0..n} : NoRepeats(seq)}
UpTo(set, n) == UNION {[1..k -> set] : k \in 0..n}

-----------------------------------------------------------------------------
(* ChunkExpansionService.expand.  A hit has the place of its chunk, and an *)
(* identity that changes when the document is ingested again; a hit of the *)
(* graph may name no document.                                             *)

Attached(chunk) == chunk.doc # "none"
Window(requested) == Clamp(requested, 0, 2)
Near(chunk, w) == Larger(0, chunk.index - w) .. chunk.index + w
\* By document, one range over the windows of all its hits.
Fetched(hits, rows, w) ==
  {r \in rows : LET of == {h \in ToSet(hits) : Attached(h) /\ h.doc = r.doc}
                    places == UNION {Near(h, w) : h \in of}
                IN  \E low, high \in places : r.index \in low .. high}
AddWindow(kept, chunk, rows, w) ==
  LET At(i) == {r \in rows : r.doc = chunk.doc /\ r.index = i}
      Put(seq, i) == CASE At(i) # {} -> Append(seq, CHOOSE r \in At(i) : TRUE)
                       [] At(i) = {} /\ i = chunk.index -> Append(seq, chunk)
                       [] OTHER -> seq
      places == Near(chunk, w)
      first == Larger(0, chunk.index - w)
  IN  IF ~Attached(chunk) THEN Append(kept, chunk)
      ELSE FoldLeft(Put, kept, [k \in 1..Cardinality(places) |-> first + k - 1])
Expand(in) ==
  LET w == Window(in.window)
      rows == Fetched(in.hits, in.rows, w)
  IN  IF w = 0 THEN in.hits
      ELSE Once(FoldLeft(LAMBDA kept, h : AddWindow(kept, h, rows, w), <<>>, in.hits))

Hits == [doc : {"d"}, index : Positions, made : {1}]
        \cup {[doc |-> "e", index |-> 0, made |-> 1],
              [doc |-> "none", index |-> 0, made |-> 1]}
\* At most one row for a place of a document, of this ingest or the next.
RowSets ==
  {UNION {IF made[i] = 0 THEN {} ELSE {[doc |-> "d", index |-> i, made |-> made[i]]}
            : i \in Positions} \cup other :
     made \in [Positions -> 0..2],
     other \in {{}, {[doc |-> "e", index |-> 1, made |-> 1]}}}

-----------------------------------------------------------------------------
(* RerankerService.rerank and its providers.  Candidates are numbered in   *)
(* the order they were found; from holds the scores they come with.        *)

NoScore == -1  \* undefined
MinScore == [precise |-> 40, balanced |-> 30, broad |-> 15, graph_first |-> 20,
             none |-> NoScore]
\* The highest of what is better than another, ties as they came.
Ranked(set, score) ==
  SetToSortSeq(set, LAMBDA i, j : \/ score[i] > score[j]
                                  \/ score[i] = score[j] /\ i < j)
\* Score: the scores at hand.
ByScore(in) ==
  Take(SelectSeq(Ranked(DOMAIN in.from, in.from), LAMBDA i : in.from[i] >= in.min),
       in.top)

ScoreThreshold(in) ==
  CASE in.min # NoScore -> in.min
    [] in.min = NoScore /\ \E i \in DOMAIN in.said : in.said[i].score > 10 -> 30
    [] OTHER -> 3  \* scores between 0 and 1
\* Mutant: a score given to the candidate of its place in the answer.
ScoredByPlace(in, n) ==
  [i \in 1..n |-> IF i \in DOMAIN in.said THEN in.said[i].score ELSE 0]
\* The last score given for a candidate, and nothing for numbers out of range.
Scored(in, n) ==
  FoldLeft(LAMBDA score, s : IF s.index \in 1..n THEN [score EXCEPT ![s.index] = s.score]
                             ELSE score,
           [i \in 1..n |-> 0], in.said)
ByLlm(in) ==
  LET n == Smaller(RerankLimit, Len(in.from))
      top == Smaller(in.top, n)
      score == Scored(in, n)
      better(i, j) == \/ score[i] > score[j]
                      \/ score[i] = score[j] /\ in.from[i] > in.from[j]
                      \/ score[i] = score[j] /\ in.from[i] = in.from[j] /\ i < j
      passing == {i \in 1..n : score[i] >= ScoreThreshold(in)}
  IN  IF in.outcome # "answers" \/ in.said = <<>> THEN [i \in 1..top |-> i]
      ELSE Take(SetToSortSeq(passing, better), top)
\* The service may name a candidate twice; without it, or on a failure, Score.
ByService(in) ==
  LET said == SelectSeq(in.said, LAMBDA s : s.index \in DOMAIN in.from)
      order == Ranked(DOMAIN said, [k \in DOMAIN said |-> said[k].score])
      passing == SelectSeq(order, LAMBDA k : said[k].score >= in.min)
  IN  IF in.outcome # "answers" \/ in.said = <<>> THEN ByScore(in)
      ELSE Take([k \in DOMAIN passing |-> said[passing[k]].index], in.top)
Rerank(in) ==
  IF in.from = <<>> \/ in.top = 0 THEN <<>>
  ELSE CASE in.mode \in {"off", "noop"} -> Take([i \in DOMAIN in.from |-> i], in.top)
         [] in.mode = "score" -> ByScore(in)
         [] in.mode = "llm" -> ByLlm(in)
         [] in.mode = "dedicated" -> ByService(in)

Said == UpTo([index : {1, 2, 9}, score : {3, 10, 40}], 2)
Candidates == {<<>>, <<20>>, <<20, 30>>, <<30, 30>>, <<20, 20, 50>>}

-----------------------------------------------------------------------------
(* mergeEvidenceChunks and capCandidateDocuments: rank stands for the      *)
(* scores compared first, near for the similarity.                         *)

Ids(seq) == {seq[i].id : i \in DOMAIN seq}
MergedChunk(chunks, id) ==
  LET same == SelectSeq(chunks, LAMBDA c : c.id = id)
  IN  FoldLeft(LAMBDA a, b : [id |-> id, rank |-> Larger(a.rank, b.rank),
                              near |-> Larger(a.near, b.near),
                              by |-> a.by \cup b.by],
               same[1], same)
BetterEvidence(a, b) == a.rank > b.rank \/ (a.rank = b.rank /\ a.near > b.near)
MergeEvidence(old, new) ==
  LET ids == Once([i \in DOMAIN (old \o new) |-> (old \o new)[i].id])
      merged == [k \in DOMAIN ids |-> MergedChunk(old \o new, ids[k])]
      before(i, j) == \/ BetterEvidence(merged[i], merged[j])
                      \/ ~BetterEvidence(merged[j], merged[i]) /\ i < j
      order == SetToSortSeq(DOMAIN merged, before)
  IN  [k \in DOMAIN order |-> merged[order[k]]]
\* By another score than the order of the evidence: the highest of all.
CapScore(chunk) == Larger(chunk.rank, 10 * chunk.near)
CapCandidates(chunks, limit) ==
  LET order == Ranked(DOMAIN chunks, [k \in DOMAIN chunks |-> CapScore(chunks[k])])
  IN  IF Len(chunks) <= limit THEN chunks
      ELSE [k \in 1..limit |-> chunks[order[k]]]
Evidence(in) == CapCandidates(MergeEvidence(in.old, in.new), in.limit)
Chunk0 == [id : {"x", "y"}, rank : {0, 30}, near : {0, 7}, by : {{"vector"}, {"graph"}}]

-----------------------------------------------------------------------------
(* The queries of a question: the rewritten one, those the LLM adds, then  *)
(* up to three made of the rewritten one and its keywords.                 *)

KeyOf(query) == IF query = "A" THEN "a" ELSE query  \* toLowerCase
DistinctQueries(seq) ==
  FoldLeft(LAMBDA kept, q : IF q = "" \/ KeyOf(q) \in {KeyOf(k) : k \in ToSet(kept)}
                            THEN kept ELSE Append(kept, q),
           <<>>, seq)
Padding(in) == <<in.keywords, "a + keywords", "keywords + a", "a, about", "a, in detail">>
ExpandQueries(in) ==
  LET said == DistinctQueries(<<in.rewritten>> \o in.said)
  IN  Take(IF in.rewritten = "" \/ Len(said) >= 3 THEN said
           ELSE DistinctQueries(said \o Padding(in)), 3)

-----------------------------------------------------------------------------
(* splitKnowledgeDocumentContent and extractGraphFromChunks.  A line is    *)
(* a heading of a level, a text or empty.                                  *)

Text == 0
Empty == -1
Lines == UpTo({Empty, Text, 1, 2}, MaxLines)
IsHeading(line) == line > 0
\* The headings that stand over a line, from the highest level down.
PushHeading(lines, stack, i) ==
  Append(SelectSeq(stack, LAMBDA k : lines[k] < lines[i]), i)
Parsed(lines) ==
  FoldLeft(
    LAMBDA doc, i :
      IF IsHeading(lines[i])
      THEN LET over == PushHeading(lines, doc.stack, i)
           IN  [stack |-> over,
                sections |-> Append(doc.sections, [headings |-> over, body |-> <<>>])]
      ELSE [doc EXCEPT !.sections[Len(doc.sections)].body =
              IF lines[i] = Text THEN Append(@, i) ELSE @],
    [stack |-> <<>>, sections |-> <<[headings |-> <<>>, body |-> <<>>]>>],
    [i \in DOMAIN lines |-> i])
\* A section without text is left out; headings alone are one piece.
Split(in) ==
  LET sections == SelectSeq(Parsed(in.lines).sections, LAMBDA s : s.body # <<>>)
      headings == SelectSeq([i \in DOMAIN in.lines |-> i], LAMBDA i : IsHeading(in.lines[i]))
  IN  IF sections = <<>> /\ headings # <<>> THEN <<[headings |-> <<>>, body |-> headings]>>
      ELSE sections

\* The edges between topics: of a heading and the last one on its stack.
Topics(in) ==
  LET last(seq) == seq[Len(seq)]
      Link(g, i) ==
        LET over == PushHeading(in.levels, g.stack, i)
        IN  [stack |-> over,
             edges |-> IF Len(over) = 1 THEN g.edges
                       ELSE g.edges \cup {<<in.names[over[Len(over) - 1]], in.names[i]>>}]
      linked == FoldLeft(Link, [stack |-> <<>>, edges |-> {}],
                         [i \in DOMAIN in.levels |-> i])
  IN  [nodes |-> {in.names[i] : i \in DOMAIN in.levels}
                 \cup IF in.levels = <<>> THEN {} ELSE in.parties,
       edges |-> linked.edges
                 \cup IF in.levels = <<>> THEN {}
                      ELSE in.parties \X {last(in.names)}]
\* The plan: the document, its chunk, the topics, and an edge for each relation.
UpsertPlan(in) ==
  LET topics == Topics(in)
  IN  [nodes |-> {"document", "chunk"} \cup topics.nodes
                 \cup UNION {{e[1], e[2]} : e \in topics.edges},
       edges |-> {<<"document", "chunk">>} \cup topics.edges]

-----------------------------------------------------------------------------
(* KnowledgeGraphService.retrieve on three relations in a row: relation r  *)
(* leads from node r - 1 to node r and belongs to chunk in.of[r]; chunk 3  *)
(* is of another base.  The term searched for is in at most one place, and *)
(* every confidence is 1.  Scores are hundredths.                          *)

Relations == 1..3
MaxHops(requested) == IF requested = -1 THEN 1 ELSE Clamp(requested, 1, 3)
InChunk(in, c) == in.term = [kind |-> "chunk", at |-> c]
InNode(in, n) == in.term = [kind |-> "node", at |-> n]
InRelation(in, r) == in.term = [kind |-> "relation", at |-> r]
\* Chunk 1 may be disabled or superseded, open, or for its reader alone.
GraphVisible(in, c) ==
  CASE c = 1 -> in.live /\ (in.reader = "admin" \/ in.named = {} \/ in.reader \in in.named)
    [] c = 2 -> TRUE
    [] c = 3 -> FALSE
EvidenceOf(in, c) == {r \in Relations : in.of[r] = c}
\* A relation's evidence names both its ends.
GraphMatches(in, c) ==
  {r \in EvidenceOf(in, c) : InRelation(in, r) \/ InNode(in, r - 1) \/ InNode(in, r)}
\* The stretches of relations with one of the chunk's, whoever the others
\* belong to; a pattern without a direction finds each of them twice.
Paths(in, c) ==
  {p \in Relations \X Relations :
     /\ p[2] - p[1] \in 0..MaxHops(in.hops) - 1
     /\ \E r \in p[1]..p[2] : r \in EvidenceOf(in, c)}
PathMatches(in, c) ==
  {p \in Paths(in, c) : \/ \E r \in p[1]..p[2] : InRelation(in, r)
                        \/ \E n \in p[1] - 1..p[2] : InNode(in, n)}
NeighborScore(in, c) ==
  (IF InChunk(in, c) THEN 20 ELSE 0) + 60 * Cardinality(GraphMatches(in, c))
  + 5 * Cardinality(EvidenceOf(in, c))
PathScore(in, c) == NeighborScore(in, c) + 80 * 2 * Cardinality(PathMatches(in, c))
ToKnowledgeChunk(c, score) == [chunk |-> c, score |-> score]
GraphRows(in) ==
  LET path == in.mode = "path"
      Reached(c) == \/ InChunk(in, c) \/ GraphMatches(in, c) # {}
                        \/ (path /\ PathMatches(in, c) # {})
  IN  {ToKnowledgeChunk(c, IF path THEN PathScore(in, c) ELSE NeighborScore(in, c)) :
         c \in {d \in 1..3 : GraphVisible(in, d) /\ Reached(d)}}
Retrieve(in) ==
  IF in.term.kind = "blank" THEN <<>>
  ELSE LET Before(a, b) == a.score > b.score \/ (a.score = b.score /\ a.chunk < b.chunk)
       IN  Take(SetToSortSeq(GraphRows(in), Before), Larger(1, in.limit))

-----------------------------------------------------------------------------
Computed(op, in) ==
  CASE op = "expand" -> Expand(in)
    [] op = "rerank" -> Rerank(in)
    [] op = "evidence" -> Evidence(in)
    [] op = "queries" -> ExpandQueries(in)
    [] op = "split" -> Split(in)
    [] op = "plan" -> UpsertPlan(in)
    [] op = "graph" -> Retrieve(in)
Inputs(op) ==
  CASE op = "expand" -> [hits : Arrangements(Hits, 2), rows : RowSets, window : {0, 1, 3}]
    [] op = "rerank" -> {[mode |-> m, from |-> f, said |-> s, min |-> MinScore[p],
                          top |-> t, outcome |-> o] :
                           m \in {"llm", "dedicated", "score"}, f \in Candidates,
                           s \in Said, p \in {"precise", "broad", "none"}, t \in {1, 2},
                           o \in {"answers", "fails"}}
    [] op = "evidence" -> [old : UpTo(Chunk0, 1), new : Arrangements(Chunk0, 2),
                           limit : {1, 2}]
    [] op = "queries" -> [rewritten : {"", "a", "A"}, keywords : {"a", "b", "k"},
                          said : UpTo({"", "a", "A", "b", "c"}, 3)]
    [] op = "split" -> [lines : Lines]
    [] op = "plan" -> UNION {[levels : [1..n -> 1..3], names : [1..n -> {"m", "n"}],
                              parties : SUBSET {"p"}] : n \in 0..3}
    [] op = "graph" ->
         [of : [Relations -> 1..3], live : BOOLEAN, named : {{}, {"u"}},
          reader : {"admin", "u", "v"}, limit : {0, 2},
          term : {[kind |-> "blank", at |-> 0]} \cup [kind : {"node"}, at : 0..3]
                 \cup [kind : {"chunk", "relation"}, at : 1..3],
          mode : {"neighbors"}, hops : {1}]
         \cup [of : [Relations -> 1..3], live : {TRUE}, named : {{}, {"u"}},
               reader : {"u", "v"}, limit : {2},
               term : [kind : {"node"}, at : 0..3] \cup [kind : {"chunk", "relation"}, at : 1..3],
               mode : {"path"}, hops : {-1, 0, 2, 9}]
OpNames == {"expand", "rerank", "evidence", "queries", "split", "plan", "graph"}

OpsTypeOK == call.op \in OpNames /\ call.done \in BOOLEAN
OpsInit ==
  \E op \in OpNames : \E in \in Inputs(op) :
    call = [op |-> op, input |-> in, output |-> {}, done |-> FALSE]
Compute ==
  /\ ~call.done
  /\ call' = [call EXCEPT !.output = Computed(call.op, call.input), !.done = TRUE]
OpsNext == Compute
OpsSpec == OpsInit /\ [][OpsNext]_opsVars
-----------------------------------------------------------------------------
(* What each step is for, said without its loops. *)

\* All current rows near a hit and the hits whose place no row has, once each,
\* those near an earlier hit before those only near a later one.
ExpansionRight(in, out) ==
  LET w == IF in.window > 2 THEN 2 ELSE in.window
      Covers(h, c) == \/ h = c
                      \/ c \in in.rows /\ Attached(h) /\ c.doc = h.doc /\ c.index \in Near(h, w)
      Covering(c) == {k \in DOMAIN in.hits : Covers(in.hits[k], c)}
      Gone(h) == ~\E r \in in.rows : r.doc = h.doc /\ r.index = h.index
  IN  IF w = 0 THEN out = in.hits
      ELSE /\ NoRepeats(out)
           /\ ToSet(out) = {h \in ToSet(in.hits) : Gone(h)}
                           \cup {r \in in.rows : Covering(r) # {}}
           /\ \A i, j \in DOMAIN out : i < j =>
                \E k \in Covering(out[i]) : \A m \in Covering(out[j]) : k <= m

\* Never more than asked for; none left out that passes and is worth more than
\* one kept, and none that passes while there is room.  Only the service names a
\* candidate twice.
RerankRight(in, out) ==
  LET answered == in.outcome = "answers" /\ in.said # <<>>
      says(i) == {k \in DOMAIN in.said : in.said[k].index = i}
      lastOf(i) == CHOOSE k \in says(i) : \A m \in says(i) : m <= k
      bestOf(i) == CHOOSE k \in says(i) : \A m \in says(i) : in.said[m].score <= in.said[k].score
      pool == IF in.mode = "llm" THEN {i \in DOMAIN in.from : i <= RerankLimit}
              ELSE IF in.mode = "dedicated" /\ answered
                   THEN {i \in DOMAIN in.from : says(i) # {}}
                   ELSE DOMAIN in.from
      worth(i) == CASE in.mode = "llm" /\ answered ->
                         IF says(i) = {} THEN 0 ELSE in.said[lastOf(i)].score
                    [] in.mode = "llm" /\ ~answered -> 0 - i
                    [] in.mode = "dedicated" /\ answered -> in.said[bestOf(i)].score
                    [] OTHER -> in.from[i]
      least == IF in.mode = "llm" THEN (IF answered THEN ScoreThreshold(in) ELSE 0 - 99)
               ELSE in.min
      passing == {i \in pool : worth(i) >= least}
      once == ~(in.mode = "dedicated" /\ answered) \/ \A i \in pool : Cardinality(says(i)) <= 1
  IN  /\ Len(out) <= in.top /\ ToSet(out) \subseteq passing
      /\ once => /\ NoRepeats(out)
                 /\ Len(out) < in.top => ToSet(out) = passing
                 /\ \A i \in ToSet(out), j \in passing \ ToSet(out) : worth(i) >= worth(j)
                 /\ \A i, j \in DOMAIN out : i < j => worth(out[i]) >= worth(out[j])

\* One chunk for an id, with the best of each score and all channels, whichever
\* hop found it first; what is cut is worth no more than what is kept.
EvidenceRight(in, out) ==
  LET all == in.old \o in.new
      turned == MergeEvidence(in.new, in.old)
      same(id) == {all[k] : k \in {m \in DOMAIN all : all[m].id = id}}
  IN  /\ Cardinality(Ids(out)) = Len(out)
      /\ Len(out) = Smaller(in.limit, Cardinality(Ids(all)))
      /\ \A k \in DOMAIN out :
           /\ \A c \in same(out[k].id) : out[k].rank >= c.rank /\ out[k].near >= c.near
           /\ out[k].by = UNION {c.by : c \in same(out[k].id)}
           /\ out[k] \in ToSet(turned)
           /\ \A j \in DOMAIN turned :
                turned[j].id \notin Ids(out) => CapScore(turned[j]) <= CapScore(out[k])

\* The rewritten query comes first and three different ones are searched.
QueriesRight(in, out) ==
  /\ \A i, j \in DOMAIN out : KeyOf(out[i]) = KeyOf(out[j]) => i = j
  /\ "" \notin ToSet(out)
  /\ in.rewritten # "" => Len(out) = 3 /\ out[1] = in.rewritten
  /\ \A k \in DOMAIN in.said :
       in.said[k] # "" /\ Len(out) < 3 => KeyOf(in.said[k]) \in {KeyOf(q) : q \in ToSet(out)}

\* Every text is in one section, in order, under all the headings it stands
\* under: those no later one before it is level with or above.
SplitRight(in, out) ==
  LET texts == {i \in DOMAIN in.lines : in.lines[i] = Text}
      over(i) == {k \in 1..i : /\ IsHeading(in.lines[k])
                               /\ \A m \in k + 1..i : ~IsHeading(in.lines[m])
                                                      \/ in.lines[m] > in.lines[k]}
      written == FoldLeft(LAMBDA seq, s : seq \o s.body, <<>>, out)
  IN  /\ texts # {} => /\ NoRepeats(written) /\ ToSet(written) = texts
                       /\ \A i, j \in DOMAIN written : i < j => written[i] < written[j]
                       /\ \A n \in DOMAIN out : \A i \in ToSet(out[n].body) :
                            ToSet(out[n].headings) = over(i)
      /\ (\E i \in DOMAIN in.lines : IsHeading(in.lines[i])) => out # <<>>

\* A topic lies under the nearest heading before it of a higher level; both ends
\* of every relation are nodes.
PlanRight(in, out) ==
  LET above(i) == {j \in 1..i - 1 : in.levels[j] < in.levels[i]}
      parents(i) == {j \in above(i) : \A k \in above(i) : k <= j}
      topics == {<<in.names[p[1]], in.names[p[2]]>> :
                   p \in {q \in (DOMAIN in.levels) \X (DOMAIN in.levels) :
                            q[1] \in parents(q[2])}}
      names == {in.names[i] : i \in DOMAIN in.levels}
  IN  /\ \A e \in out.edges : e[1] \in out.nodes /\ e[2] \in out.nodes
      /\ {e \in out.edges : e[1] \in names} = topics
      /\ names \subseteq out.nodes
      /\ in.levels # <<>> => \A p \in in.parties : \E e \in out.edges : e[1] = p

\* A search of the graph shows the chunks of the base that live and that the
\* reader may see; one is found when the term is in it, or as few relations away
\* from one of its own as the hops allow.  A chunk the limit cuts off scores no
\* more than those kept; a path never lowers a score.
GraphSearchRight(in, out) ==
  LET shown == {out[k].chunk : k \in DOMAIN out}
      seen == {c \in {1, 2} : c = 1 => in.live /\ (in.named # {} => in.reader \in {"admin", "u"})}
      reach == IF in.mode = "path" THEN MaxHops(in.hops) ELSE 1
      Away(r) == CASE in.term.kind = "relation" -> Larger(r - in.term.at, in.term.at - r)
                   [] in.term.kind = "node" -> Larger(in.term.at - r, r - 1 - in.term.at)
                   [] OTHER -> 3
      found == {c \in seen : \/ in.term = [kind |-> "chunk", at |-> c]
                             \/ \E r \in Relations : in.of[r] = c /\ Away(r) < reach}
      Worth(c) == IF in.mode = "path" THEN PathScore(in, c) ELSE NeighborScore(in, c)
  IN  /\ shown \subseteq found /\ Cardinality(shown) = Len(out)
      /\ Len(out) = Smaller(Larger(1, in.limit), Cardinality(found))
      /\ \A k \in DOMAIN out : \A c \in found :
           \/ Worth(c) <= out[k].score
           \/ \E j \in 1..k - 1 : out[j].chunk = c
      /\ \A k \in DOMAIN out : out[k].score >= NeighborScore(in, out[k].chunk)

\* Every step does what it is for, on all inputs of the bounds.
StepsMatchReference ==
  LET in == call.input
      out == call.output
  IN  call.done =>
        CASE call.op = "expand" -> ExpansionRight(in, out)
          [] call.op = "rerank" -> RerankRight(in, out)
          [] call.op = "evidence" -> EvidenceRight(in, out)
          [] call.op = "queries" -> QueriesRight(in, out)
          [] call.op = "split" -> SplitRight(in, out)
          [] call.op = "plan" -> PlanRight(in, out)
          [] call.op = "graph" -> GraphSearchRight(in, out)
=============================================================================
