-------------------------- MODULE Retrieval_proofs ---------------------------
(* Proofs about the search of the knowledge bases, for every value of its    *)
(* constants: its cache, and one search through its channels.                *)
EXTENDS RetrievalCache, HybridRetrieval, EsIndex, FiniteSetTheorems, TLAPS

-----------------------------------------------------------------------------
(***************************************************************************)
(* Knowledge retrieval behind its cache: a request is never answered with  *)
(* what a completed change took away before it started, for every number   *)
(* of users, requests, documents, changes and faults of Redis.             *)
(*                                                                         *)
(* The inductive invariant has a part for the record of each request       *)
(* (Fits) and a part for the rows, the searches and Redis (WorldInv).  What*)
(* makes it inductive is what a tag promises: a result, or a shared search,*)
(* kept under the present revision holds nothing of what is hidden, so a   *)
(* request that reads the revision is promised the same of everything of   *)
(* that revision, before it knows which of them it will take.              *)
(***************************************************************************)

ReaderRec == [at : ReaderAt, key : Key, cacheable : BOOLEAN, config : SUBSET Docs,
              of : Readers, result : SUBSET Docs, signal : BOOLEAN, timed : BOOLEAN,
              must : SUBSET Hidden]
SearchRec == [at : SearchAt, key : Key, shared : BOOLEAN, config : SUBSET Docs,
              found : SUBSET Docs]
DocRec == [row : BOOLEAN, enabled : BOOLEAN, current : BOOLEAN, archived : BOOLEAN,
           visible : SUBSET Users, allowed : SUBSET Users]
EntryRec == [key : Key, result : SUBSET Docs]

(* What the record x of the request in slot r must satisfy.                *)

\* A request that has no search yet finds its slot free, and one that waits has
\* a search of its key: one that is shared, or its own.
CacheBefore == {"epoch", "epoch row", "epoch set", "revision", "lookup", "join"}
WaitOK(r, x) ==
  /\ x.at \in CacheBefore => search[r].at = "none"
  /\ x.at = "wait" => /\ search[x.of].at # "none" /\ search[x.of].key = x.key
                      /\ search[x.of].shared \/ x.of = r

\* Its key is not ahead of what it was read from.
CacheCountsOK(x) == x.key.revision <= revision /\ x.key.epoch <= clock

\* It expects no more than what is hidden, and does not carry what the
\* configurations kept from it.
MustOK(x) == \A h \in x.must :
  /\ h.cause # "governance" => h \in hidden
  /\ h.cause = "configuration" => h.doc \notin x.config

\* It has read the revision and may still be answered, or search, under it.
Past(x) == x.at = "lookup" \/ (x.at = "join" /\ x.cacheable)
Persona(key) == key.scope = "persona"
Shared(s) == search[s].at # "none" /\ search[s].shared

\* What is kept under a revision does not hold the document.
ContentFree(d, v) ==
  /\ \A s \in Readers : Shared(s) /\ search[s].key.revision = v => d \notin search[s].found
  /\ \A e \in cache : e.key.revision = v => d \notin e.result
CacheContentOK(x) == ~lost => \A h \in x.must : h.cause = "content" =>
  /\ Past(x) => ContentFree(h.doc, x.key.revision)
  /\ x.at = "wait" => h.doc \notin search[x.of].found
  /\ x.at = "answered" => h.doc \notin x.result

\* The same for the configurations of a persona, which its searches carry.
ConfigFree(d, v) ==
  /\ \A s \in Readers : Shared(s) /\ Persona(search[s].key) /\ search[s].key.revision = v =>
       d \notin search[s].config
  /\ \A e \in cache : Persona(e.key) /\ e.key.revision = v => d \notin e.result
ConfigOK(x) == ~lost /\ ~crossed /\ Persona(x.key) =>
  /\ \A h \in x.must : h.cause = "configuration" =>
       /\ Past(x) => ConfigFree(h.doc, x.key.revision)
       /\ x.at = "wait" => h.doc \notin search[x.of].config
       /\ x.at = "answered" => h.doc \notin x.result
  /\ Past(x) /\ x.key.revision = revision =>
       \A h \in hidden : h.cause = "configuration" => h.doc \notin x.config

\* The results a user's personas have in the cache under an epoch, or a later
\* one, do not hold the document.
RuledOut(u, d, v) ==
  \A e \in cache : Persona(e.key) /\ e.key.user = u /\ v <= e.key.epoch => d \notin e.result
RulesOK(x) == ~lost /\ ~backward => \A h \in x.must :
  h.cause = "permission" /\ h.user = x.key.user =>
    /\ x.at \in {"epoch set", "revision", "lookup"} => RuledOut(h.user, h.doc, x.key.epoch)
    /\ x.at = "answered" => h.doc \notin x.result

AbortOK(x) == x.at = "aborted" => x.signal \/ x.timed

Fits(r, x) == /\ WaitOK(r, x) /\ CacheCountsOK(x) /\ MustOK(x) /\ CacheContentOK(x)
              /\ ConfigOK(x) /\ RulesOK(x) /\ AbortOK(x)
ReadersFit == \A r \in Readers : Fits(r, reader[r])

(* What the rows, the searches and Redis must satisfy.                     *)

NumbersInv ==
  /\ 1 <= clock /\ epoch <= clock /\ dbEpoch <= clock
  /\ \A e \in cache : e.key.revision <= revision /\ e.key.epoch <= clock
  /\ \A s \in Readers : search[s].key.revision <= revision /\ search[s].key.epoch <= clock

RowsInv ==
  /\ \A h \in hidden :
       /\ h.cause = "content" => ~(docs[h.doc].row /\ docs[h.doc].enabled)
       /\ h.cause = "permission" => h.user \notin docs[h.doc].allowed
       /\ h.cause = "configuration" => h.doc \notin config
  /\ writer.at = "bump" /\ writer.change \in {"disable", "delete"} =>
       writer.doc \in Docs /\ ~(docs[writer.doc].row /\ docs[writer.doc].enabled)
  /\ writer.at = "promote" => writer.doc \in Docs
  /\ refresh.at = "bump" => refresh.doc \in Docs

ContentInv == ~lost =>
  \A h \in hidden : h.cause = "content" => ContentFree(h.doc, revision)

ConfigInv ==
  /\ \A s \in Readers : search[s].found \subseteq search[s].config
  /\ ~lost /\ ~crossed => \A h \in hidden :
       h.cause = "configuration" => ConfigFree(h.doc, revision)

\* Two personas' requests under one revision: neither carries what the other was
\* promised not to see.
PairsInv == ~lost /\ ~crossed => \A r, q \in Readers :
  /\ Past(reader[r]) /\ Persona(reader[r].key) /\ Past(reader[q]) /\ Persona(reader[q].key)
  /\ reader[r].key.revision = reader[q].key.revision
  => \A h \in reader[r].must : h.cause = "configuration" => h.doc \notin reader[q].config

CacheRulesInv ==
  /\ refresh.at = "bump" /\ queued[refresh.doc] = 0 =>
       \A u \in Users \ docs[refresh.doc].allowed : RuledOut(u, refresh.doc, dbEpoch)
  /\ ~lost /\ ~backward => \A h \in hidden : h.cause = "permission" =>
       RuledOut(h.user, h.doc, epoch) /\ RuledOut(h.user, h.doc, dbEpoch)

WorldInv == NumbersInv /\ RowsInv /\ ContentInv /\ ConfigInv /\ PairsInv /\ CacheRulesInv
CacheInv == CacheTypeOK /\ ReadersFit /\ WorldInv

\* The type invariant, with its sets named.
LEMMA CacheShapes ==
  CacheTypeOK <=>
    /\ docs \in [Docs -> DocRec] /\ config \in SUBSET Docs
    /\ epoch \in Int /\ dbEpoch \in Int /\ clock \in Int /\ revision \in Nat
    /\ \A e \in cache : e \in EntryRec
    /\ search \in [Readers -> SearchRec] /\ reader \in [Readers -> ReaderRec]
    /\ writer \in [at : {"idle", "write", "bump", "demote", "promote"},
                   change : Change, doc : Docs \cup {NoDoc}]
    /\ queued \in [Docs -> 0 .. JobAttempts] /\ unrefreshed \subseteq Docs
    /\ refresh \in [at : {"idle", "bump"}, doc : Docs \cup {NoDoc}]
    /\ faults \in Nat /\ requests \in Nat /\ changes \in Nat
    /\ hidden \subseteq Hidden
    /\ lost \in BOOLEAN /\ backward \in BOOLEAN /\ crossed \in BOOLEAN
BY DEF CacheTypeOK, DocRec, EntryRec, SearchRec, ReaderRec

\* What the proofs below use of the types.
CacheRows == /\ docs \in [Docs -> DocRec] /\ config \in SUBSET Docs
        /\ queued \in [Docs -> 0 .. JobAttempts] /\ unrefreshed \subseteq Docs
        /\ hidden \subseteq Hidden
CacheCounts == /\ epoch \in Int /\ dbEpoch \in Int /\ clock \in Int /\ revision \in Nat
           /\ faults \in Nat /\ requests \in Nat /\ changes \in Nat
Flags == lost \in BOOLEAN /\ backward \in BOOLEAN /\ crossed \in BOOLEAN
Entered == \A e \in cache : e \in EntryRec
Searching == search \in [Readers -> SearchRec]
Reading == reader \in [Readers -> ReaderRec]
Changing == /\ writer \in [at : {"idle", "write", "bump", "demote", "promote"},
                           change : Change, doc : Docs \cup {NoDoc}]
            /\ refresh \in [at : {"idle", "bump"}, doc : Docs \cup {NoDoc}]

\* The type invariant by parts, so that a step cites the part it needs.
LEMMA CacheParts ==
  CacheTypeOK <=> CacheRows /\ CacheCounts /\ Flags /\ Entered /\ Searching /\ Reading /\ Changing
BY CacheShapes DEF CacheRows, CacheCounts, Flags, Entered, Searching, Reading, Changing

\* The same in the next state.
LEMMA CachePartsNext ==
  CacheTypeOK' <=>
    CacheRows' /\ CacheCounts' /\ Flags' /\ Entered' /\ Searching' /\ Reading' /\ Changing'
BY CacheParts, PTL

\* A document is free of what is kept also when less is kept.
LEMMA FreeStays ==
  ASSUME search' = search, cache' \subseteq cache, NEW d, NEW u, NEW v
  PROVE  /\ ContentFree(d, v) => ContentFree(d, v)'
         /\ ConfigFree(d, v) => ConfigFree(d, v)'
         /\ RuledOut(u, d, v) => RuledOut(u, d, v)'
<1>. USE DEF Shared
<1>1. ContentFree(d, v) => ContentFree(d, v)'
  BY DEF ContentFree
<1>2. ConfigFree(d, v) => ConfigFree(d, v)'
  BY DEF ConfigFree
<1>3. RuledOut(u, d, v) => RuledOut(u, d, v)'
  BY DEF RuledOut
<1>. QED BY <1>1, <1>2, <1>3

\* What a request satisfies it satisfies still when other requests go on.
LEMMA FitStays ==
  ASSUME search' = search, cache' \subseteq cache, revision' = revision, clock' = clock,
         hidden' = hidden, ~lost' => ~lost, ~crossed' => ~crossed, ~backward' => ~backward,
         NEW r \in Readers, NEW x, Fits(r, x)
  PROVE  Fits(r, x)'
<1>1. WaitOK(r, x)' /\ CacheCountsOK(x)' /\ MustOK(x)' /\ AbortOK(x)'
  BY DEF Fits, WaitOK, CacheCountsOK, MustOK, AbortOK, CacheBefore
<1>2. CacheContentOK(x)'
  BY FreeStays DEF Fits, CacheContentOK, Past
<1>3. ConfigOK(x)'
  BY FreeStays DEF Fits, ConfigOK, Past, Persona
<1>4. RulesOK(x)'
  BY FreeStays DEF Fits, RulesOK
<1>. QED BY <1>1, <1>2, <1>3, <1>4 DEF Fits

\* What a step of a request leaves alone.
OthersSame ==
  /\ docs' = docs /\ config' = config /\ hidden' = hidden /\ writer' = writer
  /\ refresh' = refresh /\ queued' = queued /\ unrefreshed' = unrefreshed /\ clock' = clock
  /\ dbEpoch' = dbEpoch /\ revision' = revision /\ changes' = changes /\ lost' = lost

\* What a request carries is not what it, or another under its revision, was
\* promised not to see.
Carries(r, x) == Past(x) /\ Persona(x.key) =>
  /\ \A h \in x.must : h.cause = "configuration" => h.doc \notin x.config
  /\ \A q \in Readers \ {r} :
       Past(reader[q]) /\ Persona(reader[q].key) /\ reader[q].key.revision = x.key.revision =>
         /\ \A h \in reader[q].must : h.cause = "configuration" => h.doc \notin x.config
         /\ \A h \in x.must : h.cause = "configuration" => h.doc \notin reader[q].config

\* One request goes on, to a record that fits.
LEMMA ReaderMoves ==
  ASSUME CacheInv, NEW r \in Readers, NEW x \in ReaderRec, reader' = [reader EXCEPT ![r] = x],
         OthersSame, search' = search,
         cache' \subseteq cache, epoch' \in Int, epoch' <= clock, faults' \in Nat,
         requests' \in Nat, backward' \in BOOLEAN, crossed' \in BOOLEAN,
         ~backward' => ~backward /\ epoch <= epoch', ~crossed' => ~crossed,
         Fits(r, x)',
         ~lost /\ ~crossed' => Carries(r, x)
  PROVE  CacheInv'
<1>. USE DEF OthersSame, Carries
<1>1. /\ Reading' /\ reader'[r] = x /\ \A q \in Readers : q # r => reader'[q] = reader[q]
  BY CacheParts DEF CacheInv, Reading
<1>2. CacheTypeOK'
  <2>1. CacheRows' /\ Searching' /\ Changing'
    BY CacheParts DEF CacheInv, CacheRows, Searching, Changing
  <2>2. CacheCounts' /\ Flags' /\ Entered'
    BY CacheParts DEF CacheInv, CacheCounts, Flags, Entered
  <2>. QED BY <1>1, <2>1, <2>2, CachePartsNext
<1>3. ReadersFit'
  <2>. SUFFICES ASSUME NEW q \in Readers, q # r
                PROVE  Fits(q, reader[q])'
    BY <1>1 DEF ReadersFit
  <2>1. Fits(q, reader[q])
    BY DEF CacheInv, ReadersFit
  <2>. DEFINE y == reader[q]
  <2>2. PICK z : z = y
    OBVIOUS
  <2>3. Fits(q, z)
    BY <2>1, <2>2
  <2>4. Fits(q, z)'
    BY <2>3, FitStays
  <2>5. reader'[q] = z
    BY <1>1, <2>2
  <2>. QED BY <2>4, <2>5
<1>4. NumbersInv'
  BY CacheParts DEF CacheInv, WorldInv, NumbersInv
<1>5. RowsInv'
  BY DEF CacheInv, WorldInv, RowsInv
<1>6. ContentInv'
  BY FreeStays DEF CacheInv, WorldInv, ContentInv
<1>7. ConfigInv'
  BY FreeStays DEF CacheInv, WorldInv, ConfigInv
<1>8. PairsInv'
  <2>. SUFFICES ASSUME ~lost', ~crossed', NEW p \in Readers, NEW q \in Readers,
                       Past(reader'[p]), Persona(reader'[p].key),
                       Past(reader'[q]), Persona(reader'[q].key),
                       reader'[p].key.revision = reader'[q].key.revision,
                       NEW h \in reader'[p].must, h.cause = "configuration"
                PROVE  h.doc \notin reader'[q].config
    BY DEF PairsInv, Past, Persona
  <2>1. CASE p = r /\ q = r
    BY <1>1, <2>1
  <2>2. CASE p = r /\ q # r
    BY <1>1, <2>2
  <2>3. CASE p # r /\ q = r
    BY <1>1, <2>3
  <2>4. CASE p # r /\ q # r
    BY <1>1, <2>4 DEF CacheInv, WorldInv, PairsInv
  <2>. QED BY <2>1, <2>2, <2>3, <2>4
<1>9. CacheRulesInv'
  <2>1. /\ \A e \in cache : e.key.epoch \in Int
        /\ epoch \in Int /\ epoch' \in Int
    BY CacheParts DEF CacheInv, Entered, EntryRec, Key, CacheCounts
  <2>2. ASSUME refresh'.at = "bump", queued'[refresh'.doc] = 0,
               NEW u \in Users \ docs'[refresh'.doc].allowed
        PROVE  RuledOut(u, refresh.doc, dbEpoch)'
    BY <2>2 DEF CacheInv, WorldInv, CacheRulesInv, RuledOut
  <2>3. ASSUME ~lost', ~backward', NEW h \in hidden', h.cause = "permission"
        PROVE  RuledOut(h.user, h.doc, epoch)' /\ RuledOut(h.user, h.doc, dbEpoch)'
    <3>1. RuledOut(h.user, h.doc, epoch) /\ RuledOut(h.user, h.doc, dbEpoch)
      BY <2>3 DEF CacheInv, WorldInv, CacheRulesInv
    <3>2. \A e \in cache : epoch' <= e.key.epoch => epoch <= e.key.epoch
      BY <2>1, <2>3
    <3>. QED BY <3>1, <3>2 DEF RuledOut
  <2>. QED BY <2>2, <2>3 DEF CacheRulesInv
<1>. QED BY <1>2, <1>3, <1>4, <1>5, <1>6, <1>7, <1>8, <1>9 DEF CacheInv, WorldInv


\* The records a request and a search start from are well formed.
LEMMA IdleRecord ==
  ASSUME NEW r \in Readers
  PROVE  /\ Key0 \in Key /\ Key0.epoch = 0 /\ Key0.revision = 0
         /\ Idle(r) \in ReaderRec
         /\ NoSearch \in SearchRec
<1>1. Key0 \in Key /\ Key0.epoch = 0 /\ Key0.revision = 0
  BY CacheSomebody DEF Key0, Key, Scopes
<1>2. Idle(r) \in ReaderRec
  BY <1>1 DEF Idle, ReaderRec, ReaderAt
<1>3. NoSearch \in SearchRec
  BY <1>1 DEF NoSearch, SearchRec, SearchAt
<1>. QED BY <1>1, <1>2, <1>3

\* What is known of a request.
LEMMA ReaderFacts ==
  ASSUME CacheInv, NEW r \in Readers
  PROVE  /\ reader[r] \in ReaderRec /\ Fits(r, reader[r])
         /\ reader[r].key \in Key /\ reader[r].key.epoch \in Int
         /\ reader[r].key.revision \in Nat
         /\ search[r] \in SearchRec
         /\ \A h \in reader[r].must : h \in Hidden /\ (h.cause # "governance" => h \in hidden)
<1>1. reader[r] \in ReaderRec /\ search[r] \in SearchRec
  BY CacheParts DEF CacheInv, Reading, Searching
<1>2. Fits(r, reader[r])
  BY DEF CacheInv, ReadersFit
<1>3. reader[r].key \in Key /\ reader[r].must \subseteq Hidden
  BY <1>1 DEF ReaderRec
<1>4. \A h \in reader[r].must : h.cause # "governance" => h \in hidden
  BY <1>2 DEF Fits, MustOK
<1>. QED BY <1>1, <1>2, <1>3, <1>4 DEF Key

\* The usual step of a request: the world stays as it is.
LEMMA ReaderGoesOn ==
  ASSUME CacheInv, NEW r \in Readers, NEW x \in ReaderRec, reader' = [reader EXCEPT ![r] = x],
         OthersSame, search' = search, cache' \subseteq cache, epoch' = epoch,
         backward' = backward, crossed' = crossed, faults' \in Nat, requests' \in Nat,
         Fits(r, x), ~lost /\ ~crossed => Carries(r, x)
  PROVE  CacheInv'
<1>1. Fits(r, x)'
  BY FitStays DEF OthersSame
<1>2. epoch \in Int /\ epoch <= clock /\ backward \in BOOLEAN /\ crossed \in BOOLEAN
  BY CacheParts DEF CacheInv, CacheCounts, Flags, WorldInv, NumbersInv
<1>3. epoch' \in Int /\ epoch' <= clock /\ backward' \in BOOLEAN /\ crossed' \in BOOLEAN
  BY <1>2
<1>4. (~backward' => ~backward /\ epoch <= epoch') /\ (~crossed' => ~crossed)
  BY <1>2
<1>5. ~lost /\ ~crossed' => Carries(r, x)
  BY <1>2
<1>. QED BY <1>1, <1>3, <1>4, <1>5, ReaderMoves

\* A new request expects what is hidden and carries the configurations as they
\* are: neither contradicts the other.
LEMMA RequestSafe ==
  ASSUME CacheInv, NEW r \in Readers, NEW scope \in Scopes, NEW user \in Users,
         Request(r, scope, user)
  PROVE  CacheInv'
<1>. DEFINE k == [Key0 EXCEPT !.scope = scope, !.user = user]
            e == [Idle(r) EXCEPT !.at = "epoch", !.config = config, !.must = hidden, !.key = k]
<1>1. /\ reader' = [reader EXCEPT ![r] = e] /\ search[r].at = "none"
      /\ requests' = requests + 1
  BY DEF Request
<1>2. UNCHANGED <<redisVars, rowVars, ghostVars, search, writer, refresh, faults>>
  BY DEF Request
<1>3. k \in Key /\ k.epoch = 0 /\ k.revision = 0
  BY IdleRecord DEF Key
<1>4. hidden \subseteq Hidden /\ config \in SUBSET Docs /\ requests \in Nat /\ faults \in Nat
      /\ epoch \in Int /\ clock \in Int /\ revision \in Nat /\ backward \in BOOLEAN
      /\ crossed \in BOOLEAN
  BY CacheParts DEF CacheInv, CacheRows, CacheCounts, Flags
<1>. HIDE DEF k
<1>5. /\ e \in ReaderRec /\ e.at = "epoch" /\ e.config = config /\ e.must = hidden /\ e.key = k
  BY <1>3, <1>4, IdleRecord DEF ReaderRec, ReaderAt, Idle
<1>6. PICK x \in ReaderRec : x = e
  BY <1>5
<1>. HIDE DEF e
<1>7. Fits(r, x)
  <2>1. WaitOK(r, x) /\ CacheCountsOK(x)
    BY <1>1, <1>3, <1>4, <1>5, <1>6 DEF CacheInv, WorldInv, NumbersInv, WaitOK, CacheCountsOK
  <2>2. MustOK(x)
    BY <1>5, <1>6 DEF CacheInv, WorldInv, RowsInv, MustOK
  <2>3. CacheContentOK(x) /\ ConfigOK(x) /\ RulesOK(x) /\ AbortOK(x)
    BY <1>5, <1>6 DEF CacheContentOK, ConfigOK, RulesOK, AbortOK, Past
  <2>. QED BY <2>1, <2>2, <2>3 DEF Fits
<1>8. Carries(r, x)
  BY <1>5, <1>6 DEF Past, Carries
<1>9. /\ OthersSame /\ search' = search /\ cache' = cache /\ epoch' = epoch /\ faults' = faults
      /\ backward' = backward /\ crossed' = crossed
  BY <1>2 DEF redisVars, rowVars, ghostVars, OthersSame
<1>10. reader' = [reader EXCEPT ![r] = x] /\ faults' \in Nat /\ requests' \in Nat
  BY <1>1, <1>4, <1>6, <1>9
<1>. QED BY <1>6, <1>7, <1>8, <1>9, <1>10, ReaderGoesOn

\* A request that has an epoch now, and no revision yet.
LEMMA EpochFits ==
  ASSUME CacheInv, NEW r \in Readers, NEW value \in Int, value <= clock,
         NEW at \in {"revision", "epoch set"},
         reader[r].at \in {"epoch", "epoch row", "epoch set"},
         ~lost /\ ~backward => \A h \in reader[r].must :
           h.cause = "permission" /\ h.user = reader[r].key.user => RuledOut(h.user, h.doc, value)
  PROVE  LET x == [reader[r] EXCEPT !.key.epoch = value, !.at = at]
         IN  x \in ReaderRec /\ Fits(r, x) /\ Carries(r, x)
<1>. DEFINE x == [reader[r] EXCEPT !.key.epoch = value, !.at = at]
<1>1. /\ x \in ReaderRec /\ x.at = at /\ x.must = reader[r].must /\ x.config = reader[r].config
      /\ x.key.epoch = value /\ x.key.revision = reader[r].key.revision
      /\ x.key.user = reader[r].key.user
  <2>1. PICK y \in ReaderRec : y = reader[r]
    BY ReaderFacts
  <2>2. PICK k \in Key : k = [y.key EXCEPT !.epoch = value]
    BY DEF ReaderRec, Key
  <2>3. k.epoch = value /\ k.revision = y.key.revision /\ k.user = y.key.user
    BY <2>2 DEF ReaderRec, Key
  <2>4. x = [y EXCEPT !.key = k, !.at = at]
    BY <2>1, <2>2 DEF ReaderRec
  <2>. HIDE DEF x
  <2>. QED BY <2>1, <2>3, <2>4 DEF ReaderRec, ReaderAt
<1>. HIDE DEF x
<1>2. Fits(r, reader[r])
  BY ReaderFacts
<1>3. WaitOK(r, x) /\ CacheCountsOK(x) /\ MustOK(x) /\ AbortOK(x)
  BY <1>1, <1>2 DEF Fits, WaitOK, CacheCountsOK, MustOK, AbortOK, CacheBefore
<1>4. Carries(r, x) /\ CacheContentOK(x) /\ ConfigOK(x)
  BY <1>1 DEF Past, Carries, CacheContentOK, ConfigOK
<1>5. RulesOK(x)
  BY <1>1 DEF RulesOK
<1>6. x \in ReaderRec /\ Fits(r, x) /\ Carries(r, x)
  BY <1>1, <1>3, <1>4, <1>5 DEF Fits
<1>. QED BY <1>6 DEF x


\* The faults of Redis stay a number.
LEMMA RedisCounts ==
  ASSUME CacheInv, NEW ok \in BOOLEAN, Redis(ok)
  PROVE  faults' \in Nat
BY CacheParts DEF CacheInv, CacheCounts, Redis

\* The epoch of Redis rules out what is hidden.
LEMMA GetEpochSafe ==
  ASSUME CacheInv, NEW r \in Readers, NEW ok \in BOOLEAN, GetEpoch(r, ok)
  PROVE  CacheInv'
<1>1. /\ reader[r].at = "epoch" /\ Redis(ok)
      /\ UNCHANGED <<redisVars, rowVars, ghostVars, search, writer, refresh, requests>>
  BY DEF GetEpoch
<1>2. /\ OthersSame /\ search' = search /\ cache' = cache /\ epoch' = epoch /\ faults' \in Nat
      /\ requests' \in Nat /\ backward' = backward /\ crossed' = crossed
  BY <1>1, RedisCounts, CacheParts
     DEF redisVars, rowVars, ghostVars, OthersSame, CacheInv, CacheCounts
<1>3. CASE ok /\ epoch # NoEpoch
  <2>1. reader' = [reader EXCEPT ![r].key.epoch = epoch, ![r].at = "revision"]
    BY <1>3 DEF GetEpoch, Epoched
  <2>2. epoch \in Int /\ epoch <= clock
    BY CacheParts DEF CacheInv, CacheCounts, WorldInv, NumbersInv
  <2>3. ~lost /\ ~backward => \A h \in reader[r].must :
          h.cause = "permission" /\ h.user = reader[r].key.user => RuledOut(h.user, h.doc, epoch)
    BY ReaderFacts DEF CacheInv, WorldInv, CacheRulesInv
  <2>. DEFINE e == [reader[r] EXCEPT !.key.epoch = epoch, !.at = "revision"]
  <2>4. e \in ReaderRec /\ Fits(r, e) /\ Carries(r, e)
    BY <1>1, <2>2, <2>3, EpochFits
  <2>5. reader' = [reader EXCEPT ![r] = e]
    BY <2>1, CacheParts DEF CacheInv, Reading
  <2>. HIDE DEF e
  <2>. QED BY <1>2, <2>4, <2>5, ReaderGoesOn
<1>4. CASE ~(ok /\ epoch # NoEpoch)
  <2>. DEFINE e == [reader[r] EXCEPT !.at = "epoch row"]
  <2>1. reader' = [reader EXCEPT ![r].at = "epoch row"]
    BY <1>4 DEF GetEpoch, ReaderGoes
  <2>2. reader' = [reader EXCEPT ![r] = e]
    BY <2>1, CacheParts DEF CacheInv, Reading
  <2>3. e \in ReaderRec /\ Fits(r, e) /\ Carries(r, e)
    <3>1. /\ e \in ReaderRec /\ e.at = "epoch row" /\ e.must = reader[r].must
          /\ e.config = reader[r].config /\ e.key = reader[r].key
      <4>1. PICK y \in ReaderRec : y = reader[r]
        BY ReaderFacts
      <4>2. e = [y EXCEPT !.at = "epoch row"]
        BY <4>1
      <4>. HIDE DEF e
      <4>. QED BY <4>1, <4>2 DEF ReaderRec, ReaderAt
    <3>. HIDE DEF e
    <3>2. Fits(r, reader[r])
      BY ReaderFacts
    <3>3. WaitOK(r, e) /\ CacheCountsOK(e) /\ MustOK(e)
      BY <1>1, <3>1, <3>2 DEF Fits, WaitOK, CacheCountsOK, MustOK, CacheBefore
    <3>4. CacheContentOK(e) /\ ConfigOK(e) /\ RulesOK(e) /\ AbortOK(e) /\ Carries(r, e)
      BY <3>1 DEF CacheContentOK, ConfigOK, RulesOK, AbortOK, Past, Carries
    <3>. QED BY <3>1, <3>3, <3>4 DEF Fits
  <2>. HIDE DEF e
  <2>. QED BY <1>2, <2>2, <2>3, ReaderGoesOn
<1>. QED BY <1>3, <1>4

\* So does the epoch of the rows.
LEMMA ReadEpochRowSafe ==
  ASSUME CacheInv, NEW r \in Readers, ReadEpochRow(r)
  PROVE  CacheInv'
<1>. DEFINE e == [reader[r] EXCEPT !.key.epoch = dbEpoch, !.at = "epoch set"]
<1>1. /\ reader[r].at = "epoch row"
      /\ reader' = [reader EXCEPT ![r].key.epoch = dbEpoch, ![r].at = "epoch set"]
      /\ UNCHANGED <<redisVars, rowVars, ghostVars, search, writer, refresh, faults, requests>>
  BY DEF ReadEpochRow
<1>2. /\ OthersSame /\ search' = search /\ cache' = cache /\ epoch' = epoch /\ faults' \in Nat
      /\ requests' \in Nat /\ backward' = backward /\ crossed' = crossed
  BY <1>1, CacheParts DEF redisVars, rowVars, ghostVars, OthersSame, CacheInv, CacheCounts
<1>3. dbEpoch \in Int /\ dbEpoch <= clock
  BY CacheParts DEF CacheInv, CacheCounts, WorldInv, NumbersInv
<1>4. ~lost /\ ~backward => \A h \in reader[r].must :
        h.cause = "permission" /\ h.user = reader[r].key.user => RuledOut(h.user, h.doc, dbEpoch)
  BY ReaderFacts DEF CacheInv, WorldInv, CacheRulesInv
<1>5. e \in ReaderRec /\ Fits(r, e) /\ Carries(r, e)
  BY <1>1, <1>3, <1>4, EpochFits
<1>6. reader' = [reader EXCEPT ![r] = e]
  BY <1>1, CacheParts DEF CacheInv, Reading
<1>. HIDE DEF e
<1>. QED BY <1>2, <1>5, <1>6, ReaderGoesOn

\* Writing an epoch back either keeps Redis's or is recorded as going backward.
LEMMA SetEpochSafe ==
  ASSUME CacheInv, NEW r \in Readers, NEW ok \in BOOLEAN, SetEpoch(r, ok)
  PROVE  CacheInv'
<1>. DEFINE value == reader[r].key.epoch
            e == [reader[r] EXCEPT !.key.epoch = value, !.at = "revision"]
<1>1. /\ reader[r].at = "epoch set" /\ Redis(ok)
      /\ epoch' = (IF ok THEN value ELSE epoch)
      /\ backward' = (backward \/ epoch' < epoch)
      /\ reader' = [reader EXCEPT ![r].key.epoch = value, ![r].at = "revision"]
      /\ UNCHANGED <<revision, cache, rowVars, unrefreshed, hidden, lost, crossed,
                     search, writer, refresh, requests>>
  BY DEF SetEpoch, Epoched
<1>2. /\ OthersSame /\ search' = search /\ cache' = cache /\ faults' \in Nat
      /\ requests' \in Nat /\ crossed' = crossed
  BY <1>1, RedisCounts, CacheParts
     DEF rowVars, OthersSame, CacheInv, CacheCounts
<1>3. /\ value \in Int /\ value <= clock /\ epoch \in Int /\ epoch <= clock /\ clock \in Int
      /\ backward \in BOOLEAN /\ crossed \in BOOLEAN
  BY ReaderFacts, CacheParts
     DEF CacheInv, CacheCounts, Flags, WorldInv, NumbersInv, Fits, CacheCountsOK
<1>4. ~lost /\ ~backward => \A h \in reader[r].must :
        h.cause = "permission" /\ h.user = reader[r].key.user => RuledOut(h.user, h.doc, value)
  BY <1>1, ReaderFacts DEF Fits, RulesOK
<1>5. e \in ReaderRec /\ Fits(r, e) /\ Carries(r, e)
  BY <1>1, <1>3, <1>4, EpochFits
<1>6. reader' = [reader EXCEPT ![r] = e]
  BY <1>1, CacheParts DEF CacheInv, Reading
<1>7. /\ epoch' \in Int /\ epoch' <= clock /\ backward' \in BOOLEAN
      /\ (~backward' => ~backward /\ epoch <= epoch')
  <2>1. epoch' = value \/ epoch' = epoch
    BY <1>1
  <2>2. epoch' \in Int /\ epoch' <= clock
    BY <1>3, <2>1
  <2>. HIDE DEF value
  <2>3. backward' \in BOOLEAN /\ (~backward' => ~backward /\ ~(epoch' < epoch))
    BY <1>1, <1>3
  <2>. QED BY <1>3, <2>2, <2>3
<1>. HIDE DEF e
<1>8. PICK x \in ReaderRec : x = e
  BY <1>5
<1>9. Fits(r, x)'
  BY <1>2, <1>5, <1>7, <1>8, FitStays DEF OthersSame
<1>10. /\ crossed' \in BOOLEAN /\ (~crossed' => ~crossed) /\ (~lost /\ ~crossed' => Carries(r, x))
       /\ reader' = [reader EXCEPT ![r] = x]
  BY <1>2, <1>3, <1>5, <1>6, <1>8
<1>. QED BY <1>2, <1>7, <1>9, <1>10, ReaderMoves


\* Under the present revision nothing is kept of what is hidden; a request that
\* carries older configurations is recorded as crossed.
LEMMA GetRevisionSafe ==
  ASSUME CacheInv, NEW r \in Readers, NEW ok \in BOOLEAN, GetRevision(r, ok)
  PROVE  CacheInv'
<1>1. /\ reader[r].at = "revision" /\ Redis(ok)
      /\ reader' = [reader EXCEPT ![r].at = IF ok THEN "lookup" ELSE "join",
                                  ![r].cacheable = ok,
                                  ![r].key.revision = IF ok THEN revision ELSE 0]
      /\ crossed' = (crossed \/ (/\ ok /\ reader[r].key.scope = "persona"
                                 /\ reader[r].config # config))
      /\ UNCHANGED <<redisVars, rowVars, unrefreshed, hidden, lost, backward, search,
                     writer, refresh, requests>>
  BY DEF GetRevision
<1>2. /\ OthersSame /\ search' = search /\ cache' = cache /\ epoch' = epoch /\ faults' \in Nat
      /\ requests' \in Nat /\ backward' = backward
  BY <1>1, RedisCounts, CacheParts
     DEF redisVars, rowVars, OthersSame, CacheInv, CacheCounts
<1>3. /\ revision \in Nat /\ epoch \in Int /\ epoch <= clock /\ backward \in BOOLEAN
      /\ crossed \in BOOLEAN /\ lost \in BOOLEAN
  BY CacheParts DEF CacheInv, CacheCounts, Flags, WorldInv, NumbersInv
<1>. DEFINE n == IF ok THEN revision ELSE 0
            at == IF ok THEN "lookup" ELSE "join"
            e == [reader[r] EXCEPT !.at = at, !.cacheable = ok, !.key.revision = n]
<1>4. reader' = [reader EXCEPT ![r] = e]
  BY <1>1, CacheParts DEF CacheInv, Reading
<1>5. /\ e \in ReaderRec /\ e.at = at /\ e.must = reader[r].must /\ e.config = reader[r].config
      /\ e.cacheable = ok /\ e.key.revision = n /\ e.key.epoch = reader[r].key.epoch
      /\ e.key.user = reader[r].key.user /\ e.key.scope = reader[r].key.scope
  <2>1. PICK y \in ReaderRec : y = reader[r]
    BY ReaderFacts
  <2>2. n \in Nat /\ at \in ReaderAt
    BY <1>3 DEF ReaderAt
  <2>. HIDE DEF n, at
  <2>3. PICK k \in Key : k = [y.key EXCEPT !.revision = n]
    BY <2>2 DEF ReaderRec, Key
  <2>4. k.revision = n /\ k.epoch = y.key.epoch /\ k.user = y.key.user /\ k.scope = y.key.scope
    BY <2>3 DEF ReaderRec, Key
  <2>5. e = [y EXCEPT !.at = at, !.cacheable = ok, !.key = k]
    BY <2>1, <2>3 DEF ReaderRec
  <2>. HIDE DEF e
  <2>. QED BY <2>1, <2>2, <2>4, <2>5 DEF ReaderRec
<1>6. PICK x \in ReaderRec : x = e
  BY <1>5
<1>. HIDE DEF e
<1>7. Fits(r, reader[r]) /\ \A h \in reader[r].must : h.cause # "governance" => h \in hidden
  BY ReaderFacts
<1>8. \A h \in x.must : h \in reader[r].must
  BY <1>5, <1>6
<1>9. /\ ~crossed' => ~crossed
      /\ ~crossed' /\ ok /\ Persona(x.key) => x.config = config
  BY <1>1, <1>3, <1>5, <1>6 DEF Persona
<1>10. Fits(r, x)'
  <2>1. (WaitOK(r, x) /\ CacheCountsOK(x) /\ MustOK(x) /\ AbortOK(x))'
    <3>1. WaitOK(r, x)'
      BY <1>1, <1>2, <1>5, <1>6, <1>7 DEF Fits, WaitOK, CacheBefore
    <3>2. CacheCountsOK(x)'
      BY <1>2, <1>3, <1>5, <1>6, <1>7 DEF Fits, CacheCountsOK, OthersSame
    <3>3. MustOK(x)' /\ AbortOK(x)'
      BY <1>2, <1>5, <1>6, <1>7 DEF Fits, MustOK, AbortOK, OthersSame
    <3>. QED BY <3>1, <3>2, <3>3
  <2>2. CacheContentOK(x)'
    <3>. SUFFICES ASSUME ~lost, NEW h \in x.must, h.cause = "content", ok
                  PROVE  ContentFree(h.doc, revision)'
      BY <1>2, <1>5, <1>6 DEF CacheContentOK, Past, OthersSame
    <3>1. ContentFree(h.doc, revision)
      BY <1>7, <1>8 DEF CacheInv, WorldInv, ContentInv
    <3>. QED BY <1>2, <3>1 DEF ContentFree, Shared, OthersSame
  <2>3. ConfigOK(x)'
    <3>1. CASE ~ok
      BY <1>2, <1>5, <1>6, <3>1 DEF ConfigOK, Past, OthersSame
    <3>2. CASE ok
      <4>. SUFFICES ASSUME ~lost, ~crossed', Persona(x.key)
                    PROVE  /\ \A h \in x.must : h.cause = "configuration" =>
                                ConfigFree(h.doc, revision)'
                           /\ \A h \in hidden : h.cause = "configuration" => h.doc \notin x.config
        BY <1>2, <1>5, <1>6, <3>2 DEF ConfigOK, Past, Persona, OthersSame
      <4>1. ASSUME NEW h \in x.must, h.cause = "configuration"
            PROVE  ConfigFree(h.doc, revision)'
        <5>1. ConfigFree(h.doc, revision)
          BY <1>7, <1>8, <1>9, <4>1 DEF CacheInv, WorldInv, ConfigInv
        <5>. QED BY <1>2, <5>1 DEF ConfigFree, Shared, Persona, OthersSame
      <4>2. \A h \in hidden : h.cause = "configuration" => h.doc \notin x.config
        BY <1>9, <3>2 DEF CacheInv, WorldInv, RowsInv
      <4>. QED BY <4>1, <4>2
    <3>. QED BY <3>1, <3>2
  <2>4. RulesOK(x)'
    <3>. SUFFICES ASSUME ~lost, ~backward, NEW h \in x.must, h.cause = "permission",
                         h.user = x.key.user
                  PROVE  RuledOut(h.user, h.doc, x.key.epoch)'
      BY <1>2, <1>5, <1>6 DEF RulesOK, OthersSame
    <3>1. RuledOut(h.user, h.doc, x.key.epoch)
      BY <1>1, <1>5, <1>6, <1>7, <1>8 DEF Fits, RulesOK
    <3>. QED BY <1>2, <3>1 DEF RuledOut, Persona
  <2>. QED BY <2>1, <2>2, <2>3, <2>4 DEF Fits
<1>11. ASSUME ~lost, ~crossed'
       PROVE  Carries(r, x)
  <2>. SUFFICES ASSUME Past(x), Persona(x.key)
                PROVE  Carries(r, x)
    BY DEF Carries
  <2>1. ok /\ x.config = config /\ x.key.revision = revision
    BY <1>5, <1>6, <1>9, <1>11 DEF Past
  <2>2. \A h \in x.must : h.cause = "configuration" => h.doc \notin x.config /\ h \in hidden
    BY <1>5, <1>6, <1>7 DEF Fits, MustOK
  <2>3. ASSUME NEW q \in Readers \ {r}, Past(reader[q]), Persona(reader[q].key),
               reader[q].key.revision = x.key.revision
        PROVE  /\ \A h \in reader[q].must : h.cause = "configuration" => h.doc \notin x.config
               /\ \A h \in x.must : h.cause = "configuration" => h.doc \notin reader[q].config
    <3>1. \A h \in reader[q].must : h.cause = "configuration" => h \in hidden
      BY ReaderFacts
    <3>2. \A h \in reader[q].must : h.cause = "configuration" => h.doc \notin x.config
      BY <2>1, <3>1 DEF CacheInv, WorldInv, RowsInv
    <3>3. \A h \in hidden : h.cause = "configuration" => h.doc \notin reader[q].config
      BY <1>9, <1>11, <2>1, <2>3 DEF CacheInv, ReadersFit, Fits, ConfigOK
    <3>. QED BY <2>2, <3>2, <3>3
  <2>. QED BY <2>2, <2>3 DEF Carries
<1>12. /\ epoch' \in Int /\ epoch' <= clock /\ backward' \in BOOLEAN /\ crossed' \in BOOLEAN
       /\ (~backward' => ~backward /\ epoch <= epoch')
       /\ reader' = [reader EXCEPT ![r] = x] /\ cache' \subseteq cache
  <2>1. crossed' \in BOOLEAN
    BY <1>1
  <2>. QED BY <1>2, <1>3, <1>4, <1>6, <2>1
<1>13. /\ (~backward' => ~backward /\ epoch <= epoch') /\ (~crossed' => ~crossed)
       /\ (~lost /\ ~crossed' => Carries(r, x))
  BY <1>9, <1>11, <1>12
<1>. QED BY <1>2, <1>6, <1>10, <1>12, <1>13, ReaderMoves


\* The revision and the clock are never negative.
LEMMA ClockRuns ==
  ASSUME CacheInv
  PROVE  0 <= revision /\ 0 <= clock /\ revision \in Nat /\ clock \in Int
BY CacheParts DEF CacheInv, CacheCounts, WorldInv, NumbersInv

Rest == {"idle", "answered", "aborted", "failed"}

\* What a request that is over satisfies does not depend on searches and cache.
LEMMA RestFits ==
  ASSUME NEW r \in Readers, NEW x \in ReaderRec, x.at \in Rest, Fits(r, x),
         revision' = revision, clock' = clock, hidden' = hidden,
         ~lost' => ~lost, ~crossed' => ~crossed, ~backward' => ~backward
  PROVE  Fits(r, x)' /\ ~Past(x)
<1>1. ~Past(x) /\ x.at # "wait" /\ x.at \notin CacheBefore
      /\ x.at \notin {"epoch set", "revision", "lookup"}
  BY DEF Rest, Past, CacheBefore
<1>2. WaitOK(r, x)' /\ CacheCountsOK(x)' /\ MustOK(x)' /\ AbortOK(x)'
  BY <1>1 DEF Fits, WaitOK, CacheCountsOK, MustOK, AbortOK, CacheBefore
<1>3. CacheContentOK(x)'
  BY <1>1 DEF Fits, CacheContentOK
<1>4. ConfigOK(x)'
  BY <1>1 DEF Fits, ConfigOK, Persona
<1>5. RulesOK(x)'
  BY <1>1 DEF Fits, RulesOK
<1>. QED BY <1>1, <1>2, <1>3, <1>4, <1>5 DEF Fits

\* A request that is answered by a result without what it may not see.
LEMMA AnswerFits ==
  ASSUME CacheInv, NEW r \in Readers, NEW result \in SUBSET Docs,
         ~lost => \A h \in reader[r].must : h.cause = "content" => h.doc \notin result,
         ~lost /\ ~crossed /\ Persona(reader[r].key) => \A h \in reader[r].must :
           h.cause = "configuration" => h.doc \notin result,
         ~lost /\ ~backward /\ Persona(reader[r].key) => \A h \in reader[r].must :
           h.cause = "permission" /\ h.user = reader[r].key.user => h.doc \notin result
  PROVE  /\ Answer(r, result) \in ReaderRec /\ Fits(r, Answer(r, result))
         /\ Answer(r, result).at = "answered"
<1>. DEFINE shown == Scoped(result, reader[r].key.scope, reader[r].key.user)
            e == Answer(r, result)
<1>1. /\ shown \subseteq result /\ shown \subseteq Docs
      /\ ~Persona(reader[r].key) => \A d \in shown : reader[r].key.user \in docs[d].allowed
  BY DEF Scoped, Persona
<1>. HIDE DEF shown
<1>2. e = [Idle(r) EXCEPT !.at = "answered", !.must = reader[r].must,
                  !.key.scope = reader[r].key.scope, !.key.user = reader[r].key.user,
                  !.result = shown]
  BY DEF Answer, shown
<1>3. /\ e \in ReaderRec /\ e.at = "answered" /\ e.must = reader[r].must /\ e.config = {}
      /\ e.key.revision = 0 /\ e.key.epoch = 0 /\ e.result = shown
      /\ e.key.user = reader[r].key.user /\ e.key.scope = reader[r].key.scope
  <2>1. PICK y \in ReaderRec : y = Idle(r) /\ y.key = Key0 /\ y.config = {}
    BY IdleRecord DEF Idle
  <2>2. reader[r].key.scope \in Scopes /\ reader[r].key.user \in Users
        /\ reader[r].must \in SUBSET Hidden
    BY ReaderFacts DEF Key, ReaderRec
  <2>3. PICK k \in Key : k = [Key0 EXCEPT !.scope = reader[r].key.scope,
                                          !.user = reader[r].key.user]
    BY <2>2, IdleRecord DEF Key
  <2>4. k.revision = 0 /\ k.epoch = 0 /\ k.user = reader[r].key.user
        /\ k.scope = reader[r].key.scope
    BY <2>3, IdleRecord DEF Key
  <2>5. e = [y EXCEPT !.at = "answered", !.must = reader[r].must, !.key = k, !.result = shown]
    BY <1>2, <2>1, <2>3 DEF ReaderRec
  <2>. HIDE DEF e
  <2>. QED BY <1>1, <2>1, <2>2, <2>4, <2>5 DEF ReaderRec, ReaderAt
<1>4. PICK x \in ReaderRec : x = e
  BY <1>3
<1>. HIDE DEF e
<1>5. WaitOK(r, x) /\ CacheCountsOK(x) /\ AbortOK(x)
  <2>1. CacheCountsOK(x)
    BY <1>3, <1>4, ClockRuns DEF CacheCountsOK
  <2>. QED BY <1>3, <1>4, <2>1 DEF WaitOK, AbortOK, CacheBefore
<1>6. MustOK(x)
  BY <1>3, <1>4, ReaderFacts DEF MustOK
<1>7. CacheContentOK(x)
  BY <1>1, <1>3, <1>4 DEF CacheContentOK, Past
<1>8. ConfigOK(x)
  BY <1>1, <1>3, <1>4 DEF ConfigOK, Past, Persona
<1>9. RulesOK(x)
  <2>. SUFFICES ASSUME ~lost, ~backward, NEW h \in reader[r].must, h.cause = "permission",
                       h.user = reader[r].key.user
                PROVE  h.doc \notin shown
    BY <1>3, <1>4 DEF RulesOK
  <2>1. h.user \notin docs[h.doc].allowed
    BY ReaderFacts DEF CacheInv, WorldInv, RowsInv
  <2>2. Persona(reader[r].key) => h.doc \notin result
    OBVIOUS
  <2>. QED BY <1>1, <2>1, <2>2
<1>10. Fits(r, x)
  BY <1>5, <1>6, <1>7, <1>8, <1>9 DEF Fits
<1>. QED BY <1>3, <1>4, <1>10 DEF e

\* A hit serves a result that was kept under the key of the request.
LEMMA HitSafe ==
  ASSUME CacheInv, NEW r \in Readers, Hit(r)
  PROVE  CacheInv'
<1>1. /\ reader[r].at = "lookup"
      /\ UNCHANGED <<redisVars, rowVars, ghostVars, search, writer, refresh, faults, requests>>
  BY DEF Hit
<1>2. PICK e \in cache : e.key = reader[r].key /\ reader' = [reader EXCEPT ![r] = Answer(r, e.result)]
  BY DEF Hit, Entries
<1>3. /\ OthersSame /\ search' = search /\ cache' = cache /\ epoch' = epoch /\ faults' \in Nat
      /\ requests' \in Nat /\ backward' = backward /\ crossed' = crossed
  BY <1>1, CacheParts DEF redisVars, rowVars, ghostVars, OthersSame, CacheInv, CacheCounts
<1>4. Fits(r, reader[r]) /\ Past(reader[r]) /\ e.key.epoch \in Int /\ e.result \in SUBSET Docs
  BY <1>1, <1>2, ReaderFacts, CacheParts DEF Past, CacheInv, Entered, EntryRec
<1>5. ~lost => \A h \in reader[r].must : h.cause = "content" => h.doc \notin e.result
  BY <1>2, <1>4 DEF Fits, CacheContentOK, ContentFree
<1>6. ~lost /\ ~crossed /\ Persona(reader[r].key) => \A h \in reader[r].must :
        h.cause = "configuration" => h.doc \notin e.result
  BY <1>2, <1>4 DEF Fits, ConfigOK, ConfigFree
<1>7. ~lost /\ ~backward /\ Persona(reader[r].key) => \A h \in reader[r].must :
        h.cause = "permission" /\ h.user = reader[r].key.user => h.doc \notin e.result
  BY <1>1, <1>2, <1>4 DEF Fits, RulesOK, RuledOut
<1>8. PICK x \in ReaderRec : x = Answer(r, e.result) /\ Fits(r, x) /\ x.at = "answered"
  BY <1>4, <1>5, <1>6, <1>7, AnswerFits
<1>9. Carries(r, x)
  BY <1>8 DEF Carries, Past
<1>10. reader' = [reader EXCEPT ![r] = x]
  BY <1>2, <1>8
<1>. QED BY <1>3, <1>8, <1>9, <1>10, ReaderGoesOn

\* A miss only goes on to the search, with fewer results kept.
LEMMA MissSafe ==
  ASSUME CacheInv, NEW r \in Readers, Miss(r) \/ LookupFails(r)
  PROVE  CacheInv'
<1>1. /\ reader[r].at = "lookup" /\ reader' = [reader EXCEPT ![r].at = "join"]
      /\ OthersSame /\ search' = search /\ cache' \subseteq cache /\ epoch' = epoch
      /\ backward' = backward /\ crossed' = crossed /\ requests' = requests
  BY DEF Miss, LookupFails, ReaderGoes, redisVars, rowVars, ghostVars, OthersSame
<1>2. faults' \in Nat /\ requests' \in Nat
  <2>1. faults' = faults \/ Redis(FALSE)
    BY DEF Miss, LookupFails
  <2>. QED BY <1>1, <2>1, RedisCounts, CacheParts DEF CacheInv, CacheCounts
<1>. DEFINE e == [reader[r] EXCEPT !.at = "join"]
<1>3. reader' = [reader EXCEPT ![r] = e]
  BY <1>1, CacheParts DEF CacheInv, Reading
<1>4. /\ e \in ReaderRec /\ e.at = "join" /\ e.must = reader[r].must
      /\ e.config = reader[r].config /\ e.key = reader[r].key
  <2>1. PICK y \in ReaderRec : y = reader[r]
    BY ReaderFacts
  <2>2. e = [y EXCEPT !.at = "join"]
    BY <2>1
  <2>. HIDE DEF e
  <2>. QED BY <2>1, <2>2 DEF ReaderRec, ReaderAt
<1>. HIDE DEF e
<1>5. Fits(r, reader[r]) /\ Past(reader[r])
  BY <1>1, ReaderFacts DEF Past
<1>6. Fits(r, e)
  <2>1. WaitOK(r, e) /\ CacheCountsOK(e) /\ MustOK(e) /\ AbortOK(e) /\ RulesOK(e)
    BY <1>1, <1>4, <1>5 DEF Fits, WaitOK, CacheCountsOK, MustOK, AbortOK, RulesOK, CacheBefore
  <2>2. CacheContentOK(e) /\ ConfigOK(e)
    BY <1>4, <1>5 DEF Fits, CacheContentOK, ConfigOK
  <2>. QED BY <2>1, <2>2 DEF Fits
<1>7. ~lost /\ ~crossed => Carries(r, e)
  BY <1>4, <1>5 DEF CacheInv, WorldInv, PairsInv, Carries, Fits, MustOK
<1>. QED BY <1>1, <1>2, <1>3, <1>4, <1>6, <1>7, ReaderGoesOn

\* A request joins the search of another.
LEMMA JoinSafe ==
  ASSUME CacheInv, NEW r \in Readers, NEW s \in InFlight(reader[r].key),
         reader[r].at = "join", reader[r].cacheable,
         reader' = [reader EXCEPT ![r].at = "wait", ![r].of = s],
         UNCHANGED <<redisVars, rowVars, ghostVars, writer, refresh, faults, requests, search>>
  PROVE  CacheInv'
<1>1. /\ OthersSame /\ search' = search /\ cache' = cache /\ epoch' = epoch /\ faults' \in Nat
      /\ requests' \in Nat /\ backward' = backward /\ crossed' = crossed
  BY CacheParts DEF redisVars, rowVars, ghostVars, OthersSame, CacheInv, CacheCounts
<1>. DEFINE e == [reader[r] EXCEPT !.at = "wait", !.of = s]
<1>2. reader' = [reader EXCEPT ![r] = e]
  BY CacheParts DEF CacheInv, Reading
<1>3. s \in Readers /\ Shared(s) /\ search[s].key = reader[r].key
  BY DEF InFlight, Shared
<1>4. /\ e \in ReaderRec /\ e.at = "wait" /\ e.of = s /\ e.must = reader[r].must
      /\ e.config = reader[r].config /\ e.key = reader[r].key
  <2>1. PICK y \in ReaderRec : y = reader[r]
    BY ReaderFacts
  <2>2. e = [y EXCEPT !.at = "wait", !.of = s]
    BY <2>1
  <2>. HIDE DEF e
  <2>. QED BY <1>3, <2>1, <2>2 DEF ReaderRec, ReaderAt
<1>. HIDE DEF e
<1>5. Fits(r, reader[r]) /\ Past(reader[r])
  BY ReaderFacts DEF Past
<1>6. Fits(r, e)
  <2>1. WaitOK(r, e) /\ CacheCountsOK(e) /\ MustOK(e) /\ AbortOK(e) /\ RulesOK(e)
    BY <1>3, <1>4, <1>5 DEF Fits, WaitOK, CacheCountsOK, MustOK, AbortOK, RulesOK, CacheBefore, Shared
  <2>2. CacheContentOK(e)
    BY <1>3, <1>4, <1>5 DEF Fits, CacheContentOK, Past, ContentFree
  <2>3. ConfigOK(e)
    BY <1>3, <1>4, <1>5 DEF Fits, ConfigOK, Past, ConfigFree
  <2>. QED BY <2>1, <2>2, <2>3 DEF Fits
<1>7. Carries(r, e)
  BY <1>4 DEF Carries, Past
<1>. QED BY <1>1, <1>2, <1>4, <1>6, <1>7, ReaderGoesOn

\* The caller of a shared search goes away.
LEMMA LeaveSafe ==
  ASSUME CacheInv, NEW r \in Readers,
         reader' = [reader EXCEPT ![r] = [Idle(r) EXCEPT !.at = "aborted", !.signal = TRUE]],
         UNCHANGED <<redisVars, rowVars, ghostVars, writer, refresh, faults, requests, search>>
  PROVE  CacheInv'
<1>1. /\ OthersSame /\ search' = search /\ cache' = cache /\ epoch' = epoch /\ faults' \in Nat
      /\ requests' \in Nat /\ backward' = backward /\ crossed' = crossed
  BY CacheParts DEF redisVars, rowVars, ghostVars, OthersSame, CacheInv, CacheCounts
<1>. DEFINE e == [Idle(r) EXCEPT !.at = "aborted", !.signal = TRUE]
<1>2. e \in ReaderRec /\ e.at = "aborted" /\ e.signal /\ e.must = {} /\ e.key = Key0
  BY IdleRecord DEF Idle, ReaderRec, ReaderAt
<1>. HIDE DEF e
<1>3. PICK x \in ReaderRec : x = e
  BY <1>2
<1>4. Fits(r, x) /\ Carries(r, x)
  <2>0. CacheCountsOK(x)
    BY <1>2, <1>3, ClockRuns, IdleRecord DEF CacheCountsOK
  <2>1. WaitOK(r, x) /\ CacheCountsOK(x) /\ AbortOK(x)
    BY <1>2, <1>3, <2>0 DEF WaitOK, AbortOK, CacheBefore
  <2>2. MustOK(x) /\ CacheContentOK(x) /\ ConfigOK(x) /\ RulesOK(x) /\ Carries(r, x)
    BY <1>2, <1>3 DEF MustOK, CacheContentOK, ConfigOK, RulesOK, Carries, Past
  <2>. QED BY <2>1, <2>2 DEF Fits
<1>5. reader' = [reader EXCEPT ![r] = x]
  BY <1>3 DEF e
<1>. QED BY <1>1, <1>4, <1>5, ReaderGoesOn


\* What a search may leave in the cache.
CacheStored(s, e) ==
  /\ e \in EntryRec /\ Shared(s) /\ e.key = search[s].key /\ e.result \subseteq search[s].found
  /\ Persona(e.key) => \A d \in e.result : e.key.user \in docs[d].allowed
\* What becomes of a request when the search s is over.
ReleasedTo(s, q, x) ==
  IF q \in Waiting(s) THEN x.at \in Rest /\ Fits(q, x) ELSE x = reader[q]

\* A search ends, those who waited are released, and at most its result is
\* kept.
LEMMA SearchReleased ==
  ASSUME CacheInv, NEW s \in Readers, search' = [search EXCEPT ![s] = NoSearch],
         OthersSame, epoch' = epoch, backward' = backward, crossed' = crossed,
         faults' \in Nat, requests' = requests, reader' \in [Readers -> ReaderRec],
         \A q \in Readers : ReleasedTo(s, q, reader'[q]),
         \A e \in cache' : e \in cache \/ CacheStored(s, e)
  PROVE  CacheInv'
<1>. USE DEF OthersSame
<1>1. /\ search' \in [Readers -> SearchRec] /\ search'[s] = NoSearch
      /\ \A q \in Readers : q # s => search'[q] = search[q]
      /\ NoSearch.at = "none" /\ NoSearch.found = {} /\ NoSearch.key = Key0
      /\ \A q \in Readers : search[q] \in SearchRec /\ reader[q] \in ReaderRec
  <2>1. search \in [Readers -> SearchRec] /\ NoSearch \in SearchRec
    BY CacheParts, IdleRecord DEF CacheInv, Searching
  <2>2. search' \in [Readers -> SearchRec] /\ search'[s] = NoSearch
        /\ \A q \in Readers : q # s => search'[q] = search[q]
    BY <2>1
  <2>3. NoSearch.at = "none" /\ NoSearch.found = {} /\ NoSearch.key = Key0
    BY DEF NoSearch
  <2>. QED BY <2>1, <2>2, <2>3, ReaderFacts
<1>2. CacheTypeOK'
  <2>1. CacheRows' /\ CacheCounts' /\ Flags' /\ Changing'
    BY CacheParts DEF CacheInv, CacheRows, CacheCounts, Flags, Changing
  <2>2. Entered' /\ Searching' /\ Reading'
    BY <1>1, CacheParts DEF CacheInv, Entered, Searching, Reading, CacheStored
  <2>. QED BY <2>1, <2>2, CachePartsNext
<1>3. \A q \in Readers : (Shared(q))' => q # s /\ Shared(q) /\ search'[q] = search[q]
  BY <1>1 DEF Shared
<1>4. ASSUME NEW d, NEW v, ContentFree(d, v)
      PROVE  ContentFree(d, v)'
  BY <1>3, <1>4 DEF ContentFree, CacheStored
<1>5. ASSUME NEW d, NEW v, ConfigFree(d, v)
      PROVE  ConfigFree(d, v)'
  <2>1. search[s].found \subseteq search[s].config
    BY DEF CacheInv, WorldInv, ConfigInv
  <2>2. ASSUME NEW e \in cache', Persona(e.key), e.key.revision = v
        PROVE  d \notin e.result
    BY <1>5, <2>1, <2>2 DEF ConfigFree, CacheStored
  <2>3. ASSUME NEW q \in Readers, Shared(q)', Persona(search'[q].key), search'[q].key.revision = v
        PROVE  d \notin search'[q].config
    BY <1>3, <1>5, <2>3 DEF ConfigFree
  <2>. QED BY <2>2, <2>3 DEF ConfigFree, Persona
<1>6. ASSUME NEW u, NEW d, NEW v, u \notin docs[d].allowed, RuledOut(u, d, v)
      PROVE  RuledOut(u, d, v)'
  BY <1>6 DEF RuledOut, CacheStored, Persona
<1>7. ASSUME NEW q \in Readers
      PROVE  Fits(q, reader[q])' /\ (Past(reader'[q]) => reader'[q] = reader[q])
  <2>1. CASE q \in Waiting(s)
    <3>1. PICK x \in ReaderRec : x = reader'[q] /\ x.at \in Rest /\ Fits(q, x)
      BY <2>1 DEF ReleasedTo
    <3>2. Fits(q, x)' /\ ~Past(x)
      BY <3>1, RestFits
    <3>. QED BY <3>1, <3>2
  <2>2. CASE q \notin Waiting(s)
    <3>1. PICK x \in ReaderRec : x = reader[q] /\ x = reader'[q] /\ Fits(q, x)
      BY <1>1, <2>2, ReaderFacts DEF ReleasedTo
    <3>2. x.at = "wait" => x.of # s /\ x.of \in Readers
      BY <2>2, <3>1 DEF Waiting, ReaderRec
    <3>3. WaitOK(q, x)' /\ CacheCountsOK(x)' /\ MustOK(x)' /\ AbortOK(x)'
      BY <1>1, <3>1, <3>2 DEF Fits, WaitOK, CacheCountsOK, MustOK, AbortOK, CacheBefore
    <3>4. CacheContentOK(x)'
      BY <1>1, <1>4, <3>1, <3>2 DEF Fits, CacheContentOK
    <3>5. ConfigOK(x)'
      BY <1>1, <1>5, <3>1, <3>2 DEF Fits, ConfigOK, Persona
    <3>6. RulesOK(x)'
      <4>. SUFFICES ASSUME ~lost, ~backward, NEW h \in x.must, h.cause = "permission",
                           h.user = x.key.user
                    PROVE  /\ x.at \in {"epoch set", "revision", "lookup"} =>
                                RuledOut(h.user, h.doc, x.key.epoch)'
                           /\ x.at = "answered" => h.doc \notin x.result
        BY DEF RulesOK
      <4>1. h.user \notin docs[h.doc].allowed
        BY <3>1 DEF Fits, MustOK, CacheInv, WorldInv, RowsInv
      <4>2. /\ x.at \in {"epoch set", "revision", "lookup"} =>
                 RuledOut(h.user, h.doc, x.key.epoch)
            /\ x.at = "answered" => h.doc \notin x.result
        BY <3>1 DEF Fits, RulesOK
      <4>. QED BY <1>6, <4>1, <4>2
    <3>7. Fits(q, x)'
      BY <3>3, <3>4, <3>5, <3>6 DEF Fits
    <3>. QED BY <3>1, <3>7
  <2>. QED BY <2>1, <2>2
<1>8. ReadersFit'
  BY <1>7 DEF ReadersFit
<1>9. NumbersInv'
  <2>1. \A e \in cache' : e.key.revision <= revision /\ e.key.epoch <= clock
    BY DEF CacheStored, CacheInv, WorldInv, NumbersInv
  <2>2. \A q \in Readers : search'[q].key.revision <= revision /\ search'[q].key.epoch <= clock
    BY <1>1, IdleRecord, ClockRuns DEF CacheInv, WorldInv, NumbersInv
  <2>. QED BY <2>1, <2>2 DEF CacheInv, WorldInv, NumbersInv
<1>10. RowsInv'
  BY DEF CacheInv, WorldInv, RowsInv
<1>11. ContentInv'
  BY <1>4 DEF CacheInv, WorldInv, ContentInv
<1>12. ConfigInv'
  BY <1>1, <1>5 DEF CacheInv, WorldInv, ConfigInv
<1>13. PairsInv'
  BY <1>7 DEF CacheInv, WorldInv, PairsInv, Persona
<1>14. CacheRulesInv'
  <2>1. ASSUME refresh.at = "bump", queued[refresh.doc] = 0,
               NEW u \in Users \ docs[refresh.doc].allowed
        PROVE  RuledOut(u, refresh.doc, dbEpoch)'
    BY <1>6, <2>1 DEF CacheInv, WorldInv, CacheRulesInv
  <2>2. ASSUME ~lost, ~backward, NEW h \in hidden, h.cause = "permission"
        PROVE  RuledOut(h.user, h.doc, epoch)' /\ RuledOut(h.user, h.doc, dbEpoch)'
    <3>1. h.user \notin docs[h.doc].allowed
      BY <2>2 DEF CacheInv, WorldInv, RowsInv
    <3>2. RuledOut(h.user, h.doc, epoch) /\ RuledOut(h.user, h.doc, dbEpoch)
      BY <2>2 DEF CacheInv, WorldInv, CacheRulesInv
    <3>. QED BY <1>6, <3>1, <3>2
  <2>. QED BY <2>1, <2>2 DEF CacheRulesInv
<1>. QED BY <1>2, <1>8, <1>9, <1>10, <1>11, <1>12, <1>13, <1>14 DEF CacheInv, WorldInv


\* A request that ends without an answer.
LEMMA EndFits ==
  ASSUME CacheInv, NEW q \in Readers, NEW x \in ReaderRec, x.at \in {"aborted", "failed"},
         x.at = "aborted" => x.signal \/ x.timed, x.must = {}, x.key = Key0
  PROVE  x.at \in Rest /\ Fits(q, x)
<1>1. CacheCountsOK(x)
  BY ClockRuns, IdleRecord DEF CacheCountsOK
<1>2. WaitOK(q, x) /\ AbortOK(x)
  BY DEF WaitOK, AbortOK, CacheBefore
<1>3. MustOK(x) /\ CacheContentOK(x) /\ ConfigOK(x) /\ RulesOK(x)
  BY DEF MustOK, CacheContentOK, ConfigOK, RulesOK, Past
<1>. QED BY <1>1, <1>2, <1>3 DEF Fits, Rest

\* A search ends with an answer for all that wait, and stores it under its key.
LEMMA SearchEndsSafe ==
  ASSUME CacheInv, NEW s \in Readers, NEW ok \in BOOLEAN, NEW stored \in BOOLEAN,
         SearchEnds(s, ok, stored)
  PROVE  CacheInv'
<1>. DEFINE y == search[s]
            result == IF y.key.scope # "persona" THEN y.found
                      ELSE IF ~ok THEN {}
                      ELSE {d \in y.found : Current(d) /\ y.key.user \in docs[d].allowed}
            entry == [key |-> y.key, result |-> result]
<1>1. /\ y.at = "permissions"
      /\ (IF y.shared THEN Redis(stored) ELSE stored /\ UNCHANGED faults)
      /\ cache' = (IF y.shared /\ stored THEN (cache \ Entries(y.key)) \cup {entry} ELSE cache)
      /\ search' = [search EXCEPT ![s] = NoSearch]
      /\ reader' = [r \in Readers |-> IF r \in Waiting(s) THEN Answer(r, result) ELSE reader[r]]
      /\ UNCHANGED <<epoch, revision, rowVars, ghostVars, writer, refresh, requests>>
  BY DEF SearchEnds
<1>2. /\ OthersSame /\ epoch' = epoch /\ backward' = backward /\ crossed' = crossed
      /\ requests' = requests
  BY <1>1 DEF rowVars, ghostVars, OthersSame
<1>3. faults' \in Nat
  BY <1>1, RedisCounts, CacheParts DEF CacheInv, CacheCounts
<1>4. y \in SearchRec /\ y.key \in Key /\ y.found \in SUBSET Docs /\ y.found \subseteq y.config
  BY ReaderFacts DEF SearchRec, CacheInv, WorldInv, ConfigInv
<1>5. /\ result \subseteq y.found /\ result \in SUBSET Docs
      /\ Persona(y.key) => \A d \in result : y.key.user \in docs[d].allowed
  BY <1>4 DEF Persona
<1>6. entry \in EntryRec /\ entry.key = y.key /\ entry.result = result
  BY <1>4, <1>5 DEF EntryRec
<1>. HIDE DEF result, entry
<1>7. ASSUME NEW q \in Waiting(s)
      PROVE  Answer(q, result) \in ReaderRec /\ Fits(q, Answer(q, result))
             /\ Answer(q, result).at = "answered"
  <2>1. q \in Readers /\ reader[q].at = "wait" /\ reader[q].of = s
    BY DEF Waiting
  <2>2. Fits(q, reader[q]) /\ y.key = reader[q].key
    BY <2>1, ReaderFacts DEF Fits, WaitOK
  <2>3. ~lost => \A h \in reader[q].must : h.cause = "content" => h.doc \notin result
    BY <1>5, <2>1, <2>2 DEF Fits, CacheContentOK
  <2>4. ~lost /\ ~crossed /\ Persona(reader[q].key) => \A h \in reader[q].must :
          h.cause = "configuration" => h.doc \notin result
    BY <1>4, <1>5, <2>1, <2>2 DEF Fits, ConfigOK
  <2>5. ~lost /\ ~backward /\ Persona(reader[q].key) => \A h \in reader[q].must :
          h.cause = "permission" /\ h.user = reader[q].key.user => h.doc \notin result
    <3>1. \A h \in reader[q].must : h.cause = "permission" => h.user \notin docs[h.doc].allowed
      BY <2>1, ReaderFacts DEF CacheInv, WorldInv, RowsInv
    <3>. QED BY <1>5, <2>2, <3>1
  <2>. QED BY <1>5, <2>1, <2>3, <2>4, <2>5, AnswerFits
<1>8. reader' \in [Readers -> ReaderRec]
  BY <1>1, <1>7, ReaderFacts
<1>9. \A q \in Readers : ReleasedTo(s, q, reader'[q])
  BY <1>1, <1>7 DEF ReleasedTo, Rest
<1>10. \A e \in cache' : e \in cache \/ CacheStored(s, e)
  <2>1. y.shared => CacheStored(s, entry)
    BY <1>1, <1>5, <1>6 DEF CacheStored, Shared
  <2>. QED BY <1>1, <2>1
<1>. QED BY <1>1, <1>2, <1>3, <1>8, <1>9, <1>10, SearchReleased

\* A search that times out or fails releases its requests, as timed out or
\* failed.
LEMMA SearchLostSafe ==
  ASSUME CacheInv, NEW s \in Readers, SearchTimesOut(s) \/ SearchFails(s)
  PROVE  CacheInv'
<1>. DEFINE out(q) == [Idle(q) EXCEPT !.at = "aborted", !.timed = TRUE]
            failed(q) == [Idle(q) EXCEPT !.at = "failed"]
<1>1. /\ search' = [search EXCEPT ![s] = NoSearch]
      /\ UNCHANGED <<redisVars, rowVars, ghostVars, writer, refresh, faults, requests>>
      /\ \/ reader' = [q \in Readers |-> IF q \in Waiting(s) THEN out(q) ELSE reader[q]]
         \/ reader' = [q \in Readers |-> IF q \in Waiting(s) THEN failed(q) ELSE reader[q]]
  BY DEF SearchTimesOut, SearchFails
<1>2. /\ OthersSame /\ epoch' = epoch /\ backward' = backward /\ crossed' = crossed
      /\ faults' \in Nat /\ requests' = requests /\ cache' = cache
  BY <1>1, CacheParts DEF redisVars, rowVars, ghostVars, OthersSame, CacheInv, CacheCounts
<1>3. ASSUME NEW q \in Readers
      PROVE  /\ out(q) \in ReaderRec /\ out(q).at = "aborted" /\ out(q).timed
             /\ out(q).must = {} /\ out(q).key = Key0
             /\ failed(q) \in ReaderRec /\ failed(q).at = "failed"
             /\ failed(q).must = {} /\ failed(q).key = Key0
  BY IdleRecord DEF Idle, ReaderRec, ReaderAt
<1>. HIDE DEF out, failed
<1>4. ASSUME NEW q \in Readers
      PROVE  out(q).at \in Rest /\ Fits(q, out(q)) /\ failed(q).at \in Rest /\ Fits(q, failed(q))
  BY <1>3, EndFits
<1>5. reader' \in [Readers -> ReaderRec]
  BY <1>1, <1>3, ReaderFacts
<1>6. \A q \in Readers : ReleasedTo(s, q, reader'[q])
  BY <1>1, <1>4 DEF ReleasedTo
<1>7. \A e \in cache' : e \in cache \/ CacheStored(s, e)
  BY <1>2
<1>. QED BY <1>1, <1>2, <1>5, <1>6, <1>7, SearchReleased

\* An abort ends its own request, and the search only when it is not shared.
LEMMA AbortRequestSafe ==
  ASSUME CacheInv, NEW r \in Readers, AbortRequest(r)
  PROVE  CacheInv'
<1>. DEFINE s == reader[r].of
            out(q) == [Idle(q) EXCEPT !.at = "aborted", !.signal = q = r]
<1>1. reader[r].at = "wait"
      /\ UNCHANGED <<redisVars, rowVars, ghostVars, writer, refresh, faults, requests>>
  BY DEF AbortRequest
<1>2. s \in Readers /\ search[s].at # "none" /\ (search[s].shared \/ s = r)
  BY <1>1, ReaderFacts DEF ReaderRec, Fits, WaitOK
<1>3. CASE SearchStops(r)
  <2>1. /\ search' = [search EXCEPT ![s] = NoSearch]
        /\ reader' = [q \in Readers |-> IF q \in Waiting(s) THEN out(q) ELSE reader[q]]
    BY <1>3 DEF AbortRequest
  <2>2. ~search[s].shared
    BY <1>3 DEF SearchStops
  <2>3. ASSUME NEW q \in Waiting(s)
        PROVE  q = r
    <3>1. q \in Readers /\ reader[q].at = "wait" /\ reader[q].of = s
      BY DEF Waiting
    <3>2. search[s].shared \/ s = q
      BY <3>1, ReaderFacts DEF Fits, WaitOK
    <3>. QED BY <1>2, <2>2, <3>2
  <2>4. /\ OthersSame /\ epoch' = epoch /\ backward' = backward /\ crossed' = crossed
        /\ faults' \in Nat /\ requests' = requests /\ cache' = cache
    BY <1>1, CacheParts DEF redisVars, rowVars, ghostVars, OthersSame, CacheInv, CacheCounts
  <2>5. /\ out(r) \in ReaderRec /\ out(r).at = "aborted" /\ out(r).signal
        /\ out(r).must = {} /\ out(r).key = Key0
    BY IdleRecord DEF Idle, ReaderRec, ReaderAt
  <2>. HIDE DEF out
  <2>6. out(r).at \in Rest /\ Fits(r, out(r))
    BY <2>5, EndFits
  <2>7. reader' \in [Readers -> ReaderRec]
    BY <2>1, <2>3, <2>5, ReaderFacts
  <2>8. \A q \in Readers : ReleasedTo(s, q, reader'[q])
    BY <2>1, <2>3, <2>6 DEF ReleasedTo
  <2>9. \A e \in cache' : e \in cache \/ CacheStored(s, e)
    BY <2>4
  <2>. QED BY <1>2, <2>1, <2>4, <2>7, <2>8, <2>9, SearchReleased
<1>4. CASE ~SearchStops(r)
  BY <1>1, <1>4, LeaveSafe DEF AbortRequest
<1>. QED BY <1>3, <1>4


\* A search finds only current rows that its configurations let through.
LEMMA SearchChannelsSafe ==
  ASSUME CacheInv, NEW s \in Readers, SearchChannels(s)
  PROVE  CacheInv'
<1>1. PICK came \in SUBSET search[s].config :
        /\ \A d \in came : Current(d)
        /\ search' = [search EXCEPT ![s].at = "permissions", ![s].found = came]
  BY DEF SearchChannels
<1>2. /\ search[s].at = "channels"
      /\ UNCHANGED <<redisVars, rowVars, ghostVars, reader, writer, refresh, faults, requests>>
  BY DEF SearchChannels
<1>3. /\ OthersSame /\ reader' = reader /\ cache' = cache /\ epoch' = epoch /\ faults' = faults
      /\ requests' = requests /\ backward' = backward /\ crossed' = crossed
  BY <1>2 DEF redisVars, rowVars, ghostVars, OthersSame
<1>4. /\ search' \in [Readers -> SearchRec]
      /\ search'[s].at = "permissions" /\ search'[s].found = came
      /\ search'[s].key = search[s].key /\ search'[s].shared = search[s].shared
      /\ search'[s].config = search[s].config
      /\ \A q \in Readers : q # s => search'[q] = search[q]
  <2>. DEFINE n == [search[s] EXCEPT !.at = "permissions", !.found = came]
  <2>1. search \in [Readers -> SearchRec]
    BY CacheParts DEF CacheInv, Searching
  <2>2. search' = [search EXCEPT ![s] = n]
    BY <1>1, <2>1
  <2>3. /\ n \in SearchRec /\ n.at = "permissions" /\ n.found = came /\ n.key = search[s].key
        /\ n.shared = search[s].shared /\ n.config = search[s].config
    <3>1. PICK y \in SearchRec : y = search[s]
      BY ReaderFacts
    <3>2. came \in SUBSET Docs
      BY <3>1 DEF SearchRec
    <3>3. n = [y EXCEPT !.at = "permissions", !.found = came]
      BY <3>1
    <3>. HIDE DEF n
    <3>. QED BY <3>1, <3>2, <3>3 DEF SearchRec, SearchAt
  <2>. HIDE DEF n
  <2>. QED BY <2>1, <2>2, <2>3
<1>. USE DEF OthersSame
<1>5. \A q \in Readers : /\ (Shared(q))' <=> Shared(q)
                         /\ search'[q].key = search[q].key /\ search'[q].config = search[q].config
                         /\ search'[q].at = "none" <=> search[q].at = "none"
                         /\ search'[q].shared = search[q].shared
  BY <1>2, <1>4 DEF Shared
<1>6. \A h \in hidden : h.cause = "content" => h.doc \notin came
  BY <1>1 DEF Current, CacheInv, WorldInv, RowsInv
<1>7. CacheTypeOK'
  <2>1. CacheRows' /\ CacheCounts' /\ Flags' /\ Changing' /\ Entered' /\ Reading'
    BY <1>3, CacheParts DEF CacheInv, CacheRows, CacheCounts, Flags, Changing, Entered, Reading
  <2>. QED BY <1>4, <2>1, CachePartsNext DEF Searching
<1>8. ASSUME NEW d, NEW v, d \notin came, ContentFree(d, v)
      PROVE  ContentFree(d, v)'
  BY <1>3, <1>4, <1>5, <1>8 DEF ContentFree
<1>9. ASSUME NEW d, NEW v, ConfigFree(d, v)
      PROVE  ConfigFree(d, v)'
  BY <1>3, <1>5, <1>9 DEF ConfigFree, Persona
<1>10. ASSUME NEW u, NEW d, NEW v, RuledOut(u, d, v)
       PROVE  RuledOut(u, d, v)'
  BY <1>3, <1>10 DEF RuledOut, Persona
<1>11. ReadersFit'
  <2>. SUFFICES ASSUME NEW q \in Readers
                PROVE  Fits(q, reader[q])'
    BY DEF ReadersFit
  <2>1. PICK x \in ReaderRec : x = reader[q] /\ x = reader'[q] /\ Fits(q, x)
    BY <1>3, ReaderFacts
  <2>2. \A h \in x.must : h.cause # "governance" => h \in hidden
    BY <2>1 DEF Fits, MustOK
  <2>3. x.of \in Readers
    BY DEF ReaderRec
  <2>4. WaitOK(q, x)' /\ CacheCountsOK(x)' /\ MustOK(x)' /\ AbortOK(x)'
    BY <1>3, <1>5, <2>1, <2>3 DEF Fits, WaitOK, CacheCountsOK, MustOK, AbortOK, CacheBefore
  <2>5. CacheContentOK(x)'
    <3>. SUFFICES ASSUME ~lost, NEW h \in x.must, h.cause = "content"
                  PROVE  /\ Past(x) => ContentFree(h.doc, x.key.revision)'
                         /\ x.at = "wait" => h.doc \notin search'[x.of].found
                         /\ x.at = "answered" => h.doc \notin x.result
      BY <1>3 DEF CacheContentOK
    <3>1. h.doc \notin came
      BY <1>6, <2>2
    <3>. QED BY <1>4, <1>8, <2>1, <2>3, <3>1 DEF Fits, CacheContentOK
  <2>6. ConfigOK(x)'
    BY <1>3, <1>5, <1>9, <2>1, <2>3 DEF Fits, ConfigOK, Persona
  <2>7. RulesOK(x)'
    BY <1>3, <1>10, <2>1 DEF Fits, RulesOK
  <2>8. Fits(q, x)'
    BY <2>4, <2>5, <2>6, <2>7 DEF Fits
  <2>. QED BY <2>1, <2>8
<1>12. NumbersInv' /\ RowsInv' /\ PairsInv'
  <2>1. NumbersInv'
    BY <1>3, <1>5 DEF CacheInv, WorldInv, NumbersInv
  <2>2. RowsInv'
    BY <1>3 DEF CacheInv, WorldInv, RowsInv
  <2>3. PairsInv'
    BY <1>3 DEF CacheInv, WorldInv, PairsInv, Persona
  <2>. QED BY <2>1, <2>2, <2>3
<1>13. ContentInv'
  BY <1>3, <1>6, <1>8 DEF CacheInv, WorldInv, ContentInv
<1>14. ConfigInv'
  <2>1. \A q \in Readers : search'[q].found \subseteq search'[q].config
    BY <1>4 DEF CacheInv, WorldInv, ConfigInv
  <2>. QED BY <1>3, <1>9, <2>1 DEF CacheInv, WorldInv, ConfigInv
<1>15. CacheRulesInv'
  BY <1>3 DEF CacheInv, WorldInv, CacheRulesInv, RuledOut, Persona
<1>. QED BY <1>7, <1>11, <1>12, <1>13, <1>14, <1>15 DEF CacheInv, WorldInv

\* A request starts a search of its own.
LEMMA LaunchSafe ==
  ASSUME CacheInv, NEW r \in Readers, reader[r].at = "join", Launch(r),
         UNCHANGED <<redisVars, rowVars, ghostVars, writer, refresh, faults, requests>>
  PROVE  CacheInv'
<1>. DEFINE y == reader[r]
            n == [at |-> "channels", key |-> y.key, shared |-> y.cacheable, found |-> {},
                  config |-> IF y.key.scope = "persona" THEN y.config ELSE Docs]
            e == [y EXCEPT !.at = "wait", !.of = r]
<1>1. /\ OthersSame /\ cache' = cache /\ epoch' = epoch /\ faults' = faults
      /\ requests' = requests /\ backward' = backward /\ crossed' = crossed
  BY DEF redisVars, rowVars, ghostVars, OthersSame
<1>2. search' = [search EXCEPT ![r] = n] /\ reader' = [reader EXCEPT ![r] = e]
  <2>1. /\ search' = [search EXCEPT ![r] = n]
        /\ reader' = [reader EXCEPT ![r].at = "wait", ![r].of = r]
    BY DEF Launch
  <2>. QED BY <2>1, CacheParts DEF CacheInv, Reading
<1>3. /\ n \in SearchRec /\ n.at = "channels" /\ n.key = y.key /\ n.shared = y.cacheable
      /\ n.found = {} /\ (Persona(y.key) => n.config = y.config)
  <2>1. y \in ReaderRec
    BY ReaderFacts
  <2>. HIDE DEF y
  <2>. QED BY <2>1 DEF ReaderRec, SearchRec, SearchAt, Persona
<1>4. /\ e \in ReaderRec /\ e.at = "wait" /\ e.of = r /\ e.must = y.must
      /\ e.config = y.config /\ e.key = y.key
  <2>1. y \in ReaderRec
    BY ReaderFacts
  <2>. HIDE DEF y
  <2>. QED BY <2>1 DEF ReaderRec, ReaderAt
<1>. HIDE DEF n, e
<1>5. /\ search' \in [Readers -> SearchRec] /\ search'[r] = n
      /\ reader' \in [Readers -> ReaderRec] /\ reader'[r] = e
      /\ \A q \in Readers : q # r => search'[q] = search[q] /\ reader'[q] = reader[q]
  BY <1>2, <1>3, <1>4, CacheParts DEF CacheInv, Searching, Reading
<1>. USE DEF OthersSame
<1>6. Fits(r, y) /\ search[r].at = "none" /\ (y.cacheable <=> Past(y))
  BY ReaderFacts DEF Fits, WaitOK, CacheBefore, Past
<1>7. \A q \in Readers : (Shared(q))' =>
        \/ q # r /\ Shared(q) /\ search'[q] = search[q]
        \/ q = r /\ search'[q] = n /\ Past(y)
  BY <1>3, <1>5, <1>6 DEF Shared
<1>8. CacheTypeOK'
  <2>1. CacheRows' /\ CacheCounts' /\ Flags' /\ Changing' /\ Entered'
    BY <1>1, CacheParts DEF CacheInv, CacheRows, CacheCounts, Flags, Changing, Entered
  <2>. QED BY <1>5, <2>1, CachePartsNext DEF Searching, Reading
<1>9. ASSUME NEW d, NEW v, ContentFree(d, v)
      PROVE  ContentFree(d, v)'
  BY <1>1, <1>3, <1>7, <1>9 DEF ContentFree
<1>10. ASSUME NEW d, NEW v, ConfigFree(d, v),
              Past(y) /\ Persona(y.key) /\ y.key.revision = v => d \notin y.config
       PROVE  ConfigFree(d, v)'
  BY <1>1, <1>3, <1>7, <1>10 DEF ConfigFree, Persona
<1>11. ASSUME NEW u, NEW d, NEW v, RuledOut(u, d, v)
       PROVE  RuledOut(u, d, v)'
  BY <1>1, <1>11 DEF RuledOut, Persona
<1>12. Fits(r, reader[r])'
  <2>. PICK x \in ReaderRec : x = e
    BY <1>4
  <2>1. WaitOK(r, x)' /\ CacheCountsOK(x)' /\ MustOK(x)' /\ AbortOK(x)'
    BY <1>1, <1>3, <1>4, <1>5, <1>6 DEF Fits, WaitOK, CacheCountsOK, MustOK, AbortOK, CacheBefore
  <2>2. CacheContentOK(x)' /\ RulesOK(x)'
    BY <1>3, <1>4, <1>5 DEF CacheContentOK, RulesOK, Past
  <2>3. ConfigOK(x)'
    BY <1>1, <1>3, <1>4, <1>5, <1>6 DEF ConfigOK, Past, Persona, Fits, MustOK
  <2>4. Fits(r, x)'
    BY <2>1, <2>2, <2>3 DEF Fits
  <2>. QED BY <1>5, <2>4
<1>13. ReadersFit'
  <2>. SUFFICES ASSUME NEW q \in Readers, q # r
                PROVE  Fits(q, reader[q])'
    BY <1>5, <1>12 DEF ReadersFit
  <2>1. PICK x \in ReaderRec : x = reader[q] /\ x = reader'[q] /\ Fits(q, x)
    BY <1>5, ReaderFacts
  <2>2. x.of \in Readers /\ (x.at = "wait" => search'[x.of] = search[x.of])
    BY <1>5, <1>6, <2>1 DEF ReaderRec, Fits, WaitOK
  <2>3. WaitOK(q, x)' /\ CacheCountsOK(x)' /\ MustOK(x)' /\ AbortOK(x)'
    BY <1>1, <1>5, <2>1, <2>2 DEF Fits, WaitOK, CacheCountsOK, MustOK, AbortOK, CacheBefore
  <2>4. CacheContentOK(x)'
    BY <1>1, <1>9, <2>1, <2>2 DEF Fits, CacheContentOK
  <2>5. ConfigOK(x)'
    <3>. SUFFICES ASSUME ~lost, ~crossed, Persona(x.key)
                  PROVE  /\ \A h \in x.must : h.cause = "configuration" =>
                              /\ Past(x) => ConfigFree(h.doc, x.key.revision)'
                              /\ x.at = "wait" => h.doc \notin search'[x.of].config
                              /\ x.at = "answered" => h.doc \notin x.result
                         /\ Past(x) /\ x.key.revision = revision =>
                              \A h \in hidden : h.cause = "configuration" => h.doc \notin x.config
      BY <1>1 DEF ConfigOK, Persona
    <3>1. ASSUME NEW h \in x.must, h.cause = "configuration", Past(x)
          PROVE  ConfigFree(h.doc, x.key.revision)'
      <4>1. ConfigFree(h.doc, x.key.revision)
        BY <2>1, <3>1 DEF Fits, ConfigOK
      <4>2. Past(y) /\ Persona(y.key) /\ y.key.revision = x.key.revision => h.doc \notin y.config
        BY <2>1, <3>1 DEF CacheInv, WorldInv, PairsInv
      <4>. QED BY <1>10, <4>1, <4>2
    <3>. QED BY <2>1, <2>2, <3>1 DEF Fits, ConfigOK
  <2>6. RulesOK(x)'
    BY <1>1, <1>11, <2>1 DEF Fits, RulesOK
  <2>7. Fits(q, x)'
    BY <2>3, <2>4, <2>5, <2>6 DEF Fits
  <2>. QED BY <2>1, <2>7
<1>14. NumbersInv'
  BY <1>1, <1>3, <1>5, <1>6 DEF CacheInv, WorldInv, NumbersInv, Fits, CacheCountsOK
<1>15. RowsInv'
  BY <1>1 DEF CacheInv, WorldInv, RowsInv
<1>16. PairsInv'
  <2>1. ~Past(e)
    BY <1>4 DEF Past
  <2>2. \A q \in Readers : Past(reader'[q]) => reader'[q] = reader[q]
    BY <1>5, <2>1
  <2>. QED BY <1>1, <2>2 DEF CacheInv, WorldInv, PairsInv, Persona
<1>17. ContentInv'
  BY <1>1, <1>9 DEF CacheInv, WorldInv, ContentInv
<1>18. ConfigInv'
  <2>1. \A q \in Readers : search'[q].found \subseteq search'[q].config
    BY <1>3, <1>5 DEF CacheInv, WorldInv, ConfigInv
  <2>2. ASSUME ~lost, ~crossed, NEW h \in hidden, h.cause = "configuration"
        PROVE  ConfigFree(h.doc, revision)'
    <3>1. ConfigFree(h.doc, revision)
      BY <2>2 DEF CacheInv, WorldInv, ConfigInv
    <3>2. Past(y) /\ Persona(y.key) /\ y.key.revision = revision => h.doc \notin y.config
      BY <1>6, <2>2 DEF Fits, ConfigOK
    <3>. QED BY <1>1, <1>10, <3>1, <3>2
  <2>. QED BY <1>1, <2>1, <2>2 DEF ConfigInv
<1>19. CacheRulesInv'
  BY <1>1 DEF CacheInv, WorldInv, CacheRulesInv, RuledOut, Persona
<1>. QED BY <1>8, <1>13, <1>14, <1>15, <1>16, <1>17, <1>18, <1>19 DEF CacheInv, WorldInv


\* Joining, or launching when there is nothing to join.
LEMMA JoinStepSafe ==
  ASSUME CacheInv, NEW r \in Readers, Join(r)
  PROVE  CacheInv'
<1>1. reader[r].at = "join"
      /\ UNCHANGED <<redisVars, rowVars, ghostVars, writer, refresh, faults, requests>>
  BY DEF Join
<1>2. CASE reader[r].cacheable /\ InFlight(reader[r].key) # {}
  <2>1. PICK s \in InFlight(reader[r].key) :
          reader' = [reader EXCEPT ![r].at = "wait", ![r].of = s] /\ UNCHANGED search
    BY <1>2 DEF Join
  <2>. QED BY <1>1, <1>2, <2>1, JoinSafe
<1>3. CASE ~(reader[r].cacheable /\ InFlight(reader[r].key) # {})
  BY <1>1, <1>3, LaunchSafe DEF Join
<1>. QED BY <1>2, <1>3

\* A request that expects less, and is the same otherwise.
Less(q, x) ==
  /\ x.must \subseteq reader[q].must /\ x.at = reader[q].at /\ x.key = reader[q].key
  /\ x.cacheable = reader[q].cacheable /\ x.config = reader[q].config /\ x.of = reader[q].of
  /\ x.result = reader[q].result /\ x.signal = reader[q].signal /\ x.timed = reader[q].timed

\* The rows change, and with them what is expected; Redis and the searches do not.
RedisSame ==
  /\ search' = search /\ cache' = cache /\ epoch' = epoch /\ dbEpoch' = dbEpoch
  /\ clock' = clock /\ revision' = revision /\ lost' = lost /\ backward' = backward
  /\ crossed' = crossed /\ refresh' = refresh /\ faults' = faults /\ requests' = requests

\* A change of the rows keeps the invariant when what it hides bumps nothing
\* and what it gives back is expected no more.
LEMMA RowsChange ==
  ASSUME CacheInv, RedisSame, CacheRows', Reading', RowsInv', changes' \in Nat,
         writer' \in [at : {"idle", "write", "bump", "demote", "promote"},
                      change : Change, doc : Docs \cup {NoDoc}],
         \A q \in Readers : /\ Less(q, reader'[q])
                            /\ \A h \in reader'[q].must : h.cause # "governance" => h \in hidden',
         \A h \in hidden' : h \in hidden \/ h.cause = "governance",
         refresh.at = "bump" /\ queued'[refresh.doc] = 0 =>
           /\ queued[refresh.doc] = 0
           /\ docs'[refresh.doc].allowed = docs[refresh.doc].allowed
  PROVE  CacheInv'
<1>. USE DEF RedisSame
<1>1. CacheTypeOK'
  <2>1. CacheCounts' /\ Flags' /\ Entered' /\ Searching' /\ Changing'
    BY CacheParts DEF CacheInv, CacheCounts, Flags, Entered, Searching, Changing
  <2>. QED BY <2>1, CachePartsNext
<1>2. ASSUME NEW d, NEW u, NEW v
      PROVE  /\ ContentFree(d, v) => ContentFree(d, v)'
             /\ ConfigFree(d, v) => ConfigFree(d, v)'
             /\ RuledOut(u, d, v) => RuledOut(u, d, v)'
  BY FreeStays
<1>3. ReadersFit'
  <2>. SUFFICES ASSUME NEW q \in Readers
                PROVE  Fits(q, reader[q])'
    BY DEF ReadersFit
  <2>1. PICK x \in ReaderRec : x = reader'[q] /\ Less(q, x)
    BY DEF Reading
  <2>2. Fits(q, reader[q]) /\ (Past(x) <=> Past(reader[q]))
    BY <2>1, ReaderFacts DEF Past, Less
  <2>. USE <2>1, <2>2 DEF Fits, Less
  <2>3. WaitOK(q, x)' /\ CacheCountsOK(x)' /\ AbortOK(x)'
    BY DEF WaitOK, CacheCountsOK, AbortOK, CacheBefore
  <2>4. MustOK(x)'
    BY DEF MustOK
  <2>5. CacheContentOK(x)'
    BY <1>2 DEF CacheContentOK
  <2>6. ConfigOK(x)'
    <3>1. ~lost /\ ~crossed /\ Persona(x.key) =>
            \A h \in x.must : h.cause = "configuration" =>
              /\ Past(x) => ConfigFree(h.doc, x.key.revision)'
              /\ x.at = "wait" => h.doc \notin search[x.of].config
              /\ x.at = "answered" => h.doc \notin x.result
      BY <1>2 DEF ConfigOK
    <3>2. ~lost /\ ~crossed /\ Persona(x.key) /\ Past(x) /\ x.key.revision = revision =>
            \A h \in hidden' : h.cause = "configuration" => h.doc \notin x.config
      BY DEF ConfigOK
    <3>. QED BY <3>1, <3>2 DEF ConfigOK, Persona
  <2>7. RulesOK(x)'
    BY <1>2 DEF RulesOK
  <2>8. Fits(q, x)'
    BY <2>3, <2>4, <2>5, <2>6, <2>7
  <2>. QED BY <2>8
<1>4. NumbersInv'
  BY DEF CacheInv, WorldInv, NumbersInv
<1>5. ContentInv'
  BY <1>2 DEF CacheInv, WorldInv, ContentInv
<1>6. ConfigInv'
  BY <1>2 DEF CacheInv, WorldInv, ConfigInv
<1>7. PairsInv'
  <2>1. \A q \in Readers : Past(reader'[q]) <=> Past(reader[q])
    BY DEF Past, Less
  <2>. QED BY <2>1 DEF CacheInv, WorldInv, PairsInv, Persona, Less
<1>8. CacheRulesInv'
  <2>1. ASSUME refresh.at = "bump", queued'[refresh.doc] = 0,
               NEW u \in Users \ docs'[refresh.doc].allowed
        PROVE  RuledOut(u, refresh.doc, dbEpoch)'
    BY <1>2, <2>1 DEF CacheInv, WorldInv, CacheRulesInv
  <2>2. ASSUME ~lost, ~backward, NEW h \in hidden', h.cause = "permission"
        PROVE  RuledOut(h.user, h.doc, epoch)' /\ RuledOut(h.user, h.doc, dbEpoch)'
    BY <1>2, <2>2 DEF CacheInv, WorldInv, CacheRulesInv
  <2>. QED BY <2>1, <2>2 DEF CacheRulesInv
<1>. QED BY <1>1, <1>3, <1>4, <1>5, <1>6, <1>7, <1>8 DEF CacheInv, WorldInv

\* Nothing is given back.
LEMMA ReadersSame ==
  ASSUME CacheInv, reader' = reader, hidden \subseteq hidden'
  PROVE  /\ Reading'
         /\ \A q \in Readers : /\ Less(q, reader'[q])
                               /\ \A h \in reader'[q].must : h.cause # "governance" => h \in hidden'
BY ReaderFacts, CacheParts DEF Reading, Less, CacheInv

\* What is given back is expected by no request any more.
LEMMA ReadersLess ==
  ASSUME CacheInv, NEW back, hidden \ back \subseteq hidden',
         reader' = [r \in Readers |-> [reader[r] EXCEPT !.must = @ \ back]]
  PROVE  /\ Reading'
         /\ \A q \in Readers : /\ Less(q, reader'[q])
                               /\ \A h \in reader'[q].must : h.cause # "governance" => h \in hidden'
<1>1. ASSUME NEW q \in Readers
      PROVE  /\ reader'[q] \in ReaderRec /\ Less(q, reader'[q])
             /\ \A h \in reader'[q].must : h.cause # "governance" => h \in hidden'
  <2>1. reader'[q] = [reader[q] EXCEPT !.must = @ \ back]
    OBVIOUS
  <2>2. PICK y \in ReaderRec : y = reader[q]
    BY ReaderFacts
  <2>3. reader'[q] \in ReaderRec /\ Less(q, reader'[q]) /\ reader'[q].must = y.must \ back
    BY <2>1, <2>2 DEF ReaderRec, Less
  <2>. QED BY <2>2, <2>3, ReaderFacts
<1>2. reader' \in [Readers -> ReaderRec]
  BY <1>1
<1>. QED BY <1>1, <1>2 DEF Reading

\* What a change of the rows leaves of the row types, and the writer it sets.
LEMMA RowFacts ==
  ASSUME CacheInv
  PROVE  /\ docs \in [Docs -> DocRec] /\ config \in SUBSET Docs /\ hidden \subseteq Hidden
         /\ queued \in [Docs -> 0 .. JobAttempts] /\ unrefreshed \subseteq Docs
         /\ changes \in Nat /\ RowsInv
         /\ writer \in [at : {"idle", "write", "bump", "demote", "promote"},
                        change : Change, doc : Docs \cup {NoDoc}]
         /\ refresh \in [at : {"idle", "bump"}, doc : Docs \cup {NoDoc}]
BY CacheParts DEF CacheInv, CacheRows, CacheCounts, WorldInv, Changing

\* What a change takes of one document for one cause.
LEMMA TookTyped ==
  ASSUME NEW d \in Docs, NEW c \in Causes
  PROVE  /\ Took(d, c) \subseteq Hidden
         /\ \A h \in Took(d, c) : h.doc = d /\ h.cause = c
         /\ \A h \in Hidden : h.doc = d /\ h.cause = c => h \in Took(d, c)
BY DEF Took, Hidden

\* A row changes and nothing is given back.
LEMMA RowTaken ==
  ASSUME CacheInv, RedisSame, NEW d \in Docs, NEW row \in DocRec,
         docs' = [docs EXCEPT ![d] = row], row.allowed = docs[d].allowed,
         row.row /\ row.enabled => docs[d].row /\ docs[d].enabled,
         config' = config, queued' = queued, unrefreshed' = unrefreshed, reader' = reader,
         hidden \subseteq hidden', hidden' \subseteq Hidden,
         \A h \in hidden' : h \in hidden \/ h.cause = "governance",
         changes' \in Nat,
         writer' \in [at : {"idle", "write", "bump", "demote", "promote"},
                      change : Change, doc : Docs \cup {NoDoc}],
         writer'.at = "promote" => writer'.doc \in Docs,
         writer'.at = "bump" /\ writer'.change \in {"disable", "delete"} =>
           writer'.doc = d /\ ~(row.row /\ row.enabled)
  PROVE  CacheInv'
<1>. USE RowFacts
<1>1. docs' \in [Docs -> DocRec] /\ docs'[d] = row /\ \A e \in Docs : e # d => docs'[e] = docs[e]
  OBVIOUS
<1>2. CacheRows'
  BY <1>1 DEF CacheRows
<1>3. \A e \in Docs : /\ docs'[e].allowed = docs[e].allowed
                      /\ docs'[e].row /\ docs'[e].enabled => docs[e].row /\ docs[e].enabled
  BY <1>1
<1>4. \A h \in hidden' : h.doc \in Docs
  BY DEF Hidden
<1>5. RowsInv'
  BY <1>1, <1>3, <1>4 DEF RowsInv, RedisSame
<1>6. refresh.at = "bump" /\ queued'[refresh.doc] = 0 =>
           /\ queued[refresh.doc] = 0
           /\ docs'[refresh.doc].allowed = docs[refresh.doc].allowed
  BY <1>3 DEF RowsInv
<1>. QED BY <1>2, <1>5, <1>6, RowsChange, ReadersSame

\* A row changes and what was kept for one cause is given back.
LEMMA RowGiven ==
  ASSUME CacheInv, RedisSame, NEW d \in Docs, NEW row \in DocRec,
         docs' = [docs EXCEPT ![d] = row], row.allowed = docs[d].allowed,
         config' = config, queued' = queued, unrefreshed' = unrefreshed,
         GivesBack(d, "content"),
         changes' \in Nat,
         writer' \in [at : {"idle", "write", "bump", "demote", "promote"},
                      change : Change, doc : Docs \cup {NoDoc}],
         writer'.at = "bump", writer'.change \notin {"disable", "delete"}
  PROVE  CacheInv'
<1>. USE RowFacts
<1>1. docs' \in [Docs -> DocRec] /\ docs'[d] = row /\ \A e \in Docs : e # d => docs'[e] = docs[e]
  OBVIOUS
<1>2. hidden' = hidden \ Took(d, "content")
      /\ reader' = [r \in Readers |-> [reader[r] EXCEPT !.must = @ \ Took(d, "content")]]
  BY DEF GivesBack
<1>3. CacheRows'
  BY <1>1, <1>2 DEF CacheRows
<1>4. \A e \in Docs : docs'[e].allowed = docs[e].allowed
  BY <1>1
<1>5. \A h \in hidden' : h \in hidden /\ h.doc \in Docs /\ (h.cause = "content" => h.doc # d)
  BY <1>2, TookTyped DEF Hidden, Causes
<1>6. RowsInv'
  BY <1>1, <1>4, <1>5 DEF RowsInv, RedisSame
<1>7. refresh.at = "bump" /\ queued'[refresh.doc] = 0 =>
           /\ queued[refresh.doc] = 0
           /\ docs'[refresh.doc].allowed = docs[refresh.doc].allowed
  BY <1>4 DEF RowsInv
<1>8. Reading' /\ \A q \in Readers : /\ Less(q, reader'[q])
                            /\ \A h \in reader'[q].must : h.cause # "governance" => h \in hidden'
  <2>. DEFINE back == Took(d, "content")
  <2>1. hidden \ back \subseteq hidden' /\ reader' = [r \in Readers |-> [reader[r] EXCEPT !.must = @ \ back]]
    BY <1>2
  <2>. HIDE DEF back
  <2>. QED BY <2>1, ReadersLess
<1>. QED BY <1>3, <1>5, <1>6, <1>7, <1>8, RowsChange

\* A change counts and sets the writer.
LEMMA ChangesTyped ==
  ASSUME CacheInv, NEW change \in Change, NEW d \in Docs \cup {NoDoc},
         NEW next \in {"idle", "bump", "promote"}, Changes(change, d, next)
  PROVE  /\ changes' \in Nat /\ writer' = [at |-> next, change |-> change, doc |-> d]
         /\ writer' \in [at : {"idle", "write", "bump", "demote", "promote"},
                         change : Change, doc : Docs \cup {NoDoc}]
BY RowFacts DEF Changes

\* The changes of one row: a chunk disabled or enabled, a document deleted,
\* imported, archived or made visible to others.
LEMMA RowStepSafe ==
  ASSUME CacheInv, NEW d \in Docs
  PROVE  /\ DisableChunk(d) => CacheInv'
         /\ EnableChunk(d) => CacheInv'
         /\ DeleteDocument(d) => CacheInv'
         /\ ImportDocument(d) => CacheInv'
         /\ ArchiveDocument(d) => CacheInv'
         /\ \A users \in SUBSET Users : UpdateGovernance(d, users) => CacheInv'
<1>1. PICK y \in DocRec : y = docs[d]
  BY RowFacts
<1>2. docs \in [Docs -> DocRec] /\ hidden \subseteq Hidden
  BY RowFacts
<1>3. {"disable", "enable", "delete", "import", "archive", "governance"} \subseteq Change
  BY DEF Change
<1>4. ASSUME OnlyRows
      PROVE  RedisSame /\ config' = config /\ queued' = queued /\ unrefreshed' = unrefreshed
  BY <1>4 DEF OnlyRows, RedisSame, redisVars
<1>5. ASSUME DisableChunk(d)
      PROVE  CacheInv'
  <2>. DEFINE row == [y EXCEPT !.enabled = FALSE]
  <2>1. row \in DocRec /\ row.allowed = y.allowed /\ row.enabled = FALSE
    BY DEF DocRec
  <2>2. docs' = [docs EXCEPT ![d] = row]
    BY <1>1, <1>2, <1>5 DEF DisableChunk, DocRec
  <2>. HIDE DEF row
  <2>3. RedisSame /\ config' = config /\ queued' = queued /\ unrefreshed' = unrefreshed
    BY <1>4, <1>5 DEF DisableChunk
  <2>4. /\ changes' \in Nat /\ writer' = [at |-> "bump", change |-> "disable", doc |-> d]
        /\ writer' \in [at : {"idle", "write", "bump", "demote", "promote"},
                        change : Change, doc : Docs \cup {NoDoc}]
    BY <1>3, <1>5, ChangesTyped DEF DisableChunk
  <2>. QED BY <1>1, <1>2, <1>5, <2>1, <2>2, <2>3, <2>4, RowTaken DEF DisableChunk
<1>6. ASSUME DeleteDocument(d)
      PROVE  CacheInv'
  <2>. DEFINE row == [y EXCEPT !.row = FALSE]
  <2>1. row \in DocRec /\ row.allowed = y.allowed /\ row.row = FALSE
    BY DEF DocRec
  <2>2. docs' = [docs EXCEPT ![d] = row]
    BY <1>1, <1>2, <1>6 DEF DeleteDocument, DocRec
  <2>. HIDE DEF row
  <2>3. RedisSame /\ config' = config /\ queued' = queued /\ unrefreshed' = unrefreshed
    BY <1>4, <1>6 DEF DeleteDocument
  <2>4. /\ changes' \in Nat /\ writer' = [at |-> "bump", change |-> "delete", doc |-> d]
        /\ writer' \in [at : {"idle", "write", "bump", "demote", "promote"},
                        change : Change, doc : Docs \cup {NoDoc}]
    BY <1>3, <1>6, ChangesTyped DEF DeleteDocument
  <2>. QED BY <1>1, <1>2, <1>6, <2>1, <2>2, <2>3, <2>4, RowTaken DEF DeleteDocument
<1>7. ASSUME ArchiveDocument(d)
      PROVE  CacheInv'
  <2>. DEFINE row == [y EXCEPT !.archived = TRUE, !.current = FALSE]
  <2>1. row \in DocRec /\ row.allowed = y.allowed /\ row.row = y.row /\ row.enabled = y.enabled
    BY DEF DocRec
  <2>2. docs' = [docs EXCEPT ![d] = row]
    BY <1>1, <1>2, <1>7 DEF ArchiveDocument, DocRec
  <2>. HIDE DEF row
  <2>3. RedisSame /\ config' = config /\ queued' = queued /\ unrefreshed' = unrefreshed
    BY <1>4, <1>7 DEF ArchiveDocument
  <2>4. /\ changes' \in Nat /\ writer' = [at |-> "idle", change |-> "archive", doc |-> d]
        /\ writer' \in [at : {"idle", "write", "bump", "demote", "promote"},
                        change : Change, doc : Docs \cup {NoDoc}]
    BY <1>3, <1>7, ChangesTyped DEF ArchiveDocument
  <2>5. /\ hidden \subseteq hidden' /\ hidden' \subseteq Hidden
        /\ \A h \in hidden' : h \in hidden \/ h.cause = "governance"
    BY <1>2, <1>7, TookTyped DEF ArchiveDocument, Causes
  <2>. QED BY <1>1, <1>2, <1>7, <2>1, <2>2, <2>3, <2>4, <2>5, RowTaken DEF ArchiveDocument
<1>8. ASSUME NEW users \in SUBSET Users, UpdateGovernance(d, users)
      PROVE  CacheInv'
  <2>. DEFINE row == [y EXCEPT !.visible = users]
  <2>1. row \in DocRec /\ row.allowed = y.allowed /\ row.row = y.row /\ row.enabled = y.enabled
    BY DEF DocRec
  <2>2. docs' = [docs EXCEPT ![d] = row]
    BY <1>1, <1>2, <1>8 DEF UpdateGovernance, DocRec
  <2>. HIDE DEF row
  <2>3. RedisSame /\ config' = config /\ queued' = queued /\ unrefreshed' = unrefreshed
    BY <1>4, <1>8 DEF UpdateGovernance
  <2>4. /\ changes' \in Nat /\ writer' = [at |-> "idle", change |-> "governance", doc |-> d]
        /\ writer' \in [at : {"idle", "write", "bump", "demote", "promote"},
                        change : Change, doc : Docs \cup {NoDoc}]
    BY <1>3, <1>8, ChangesTyped DEF UpdateGovernance
  <2>. QED BY <1>1, <1>2, <1>8, <2>1, <2>2, <2>3, <2>4, RowTaken DEF UpdateGovernance
<1>9. ASSUME EnableChunk(d)
      PROVE  CacheInv'
  <2>. DEFINE row == [y EXCEPT !.enabled = TRUE]
  <2>1. row \in DocRec /\ row.allowed = y.allowed
    BY DEF DocRec
  <2>2. docs' = [docs EXCEPT ![d] = row]
    BY <1>1, <1>2, <1>9 DEF EnableChunk, DocRec
  <2>. HIDE DEF row
  <2>3. RedisSame /\ config' = config /\ queued' = queued /\ unrefreshed' = unrefreshed
    BY <1>4, <1>9 DEF EnableChunk
  <2>4. /\ changes' \in Nat /\ writer' = [at |-> "bump", change |-> "enable", doc |-> d]
        /\ writer' \in [at : {"idle", "write", "bump", "demote", "promote"},
                        change : Change, doc : Docs \cup {NoDoc}]
    BY <1>3, <1>9, ChangesTyped DEF EnableChunk
  <2>. QED BY <1>1, <1>9, <2>1, <2>2, <2>3, <2>4, RowGiven DEF EnableChunk
<1>10. ASSUME ImportDocument(d)
       PROVE  CacheInv'
  <2>. DEFINE row == [y EXCEPT !.row = TRUE, !.enabled = TRUE, !.current = TRUE,
                               !.archived = FALSE]
  <2>1. row \in DocRec /\ row.allowed = y.allowed
    BY DEF DocRec
  <2>2. docs' = [docs EXCEPT ![d] = row]
    BY <1>1, <1>2, <1>10 DEF ImportDocument, DocRec
  <2>. HIDE DEF row
  <2>3. RedisSame /\ config' = config /\ queued' = queued /\ unrefreshed' = unrefreshed
    BY <1>4, <1>10 DEF ImportDocument
  <2>4. /\ changes' \in Nat /\ writer' = [at |-> "bump", change |-> "import", doc |-> d]
        /\ writer' \in [at : {"idle", "write", "bump", "demote", "promote"},
                        change : Change, doc : Docs \cup {NoDoc}]
    BY <1>3, <1>10, ChangesTyped DEF ImportDocument
  <2>. QED BY <1>1, <1>10, <2>1, <2>2, <2>3, <2>4, RowGiven DEF ImportDocument
<1>. QED BY <1>5, <1>6, <1>7, <1>8, <1>9, <1>10

\* Which version is current changes: nothing of what the invariant says of rows.
LEMMA VersionsMove ==
  ASSUME CacheInv, RedisSame, docs' \in [Docs -> DocRec],
         \A e \in Docs : /\ docs'[e].row = docs[e].row /\ docs'[e].enabled = docs[e].enabled
                         /\ docs'[e].allowed = docs[e].allowed,
         config' = config, queued' = queued, unrefreshed' = unrefreshed,
         NEW back, \A h \in back : h.cause = "governance",
         reader' = [r \in Readers |-> [reader[r] EXCEPT !.must = @ \ back]],
         hidden \ back \subseteq hidden', hidden' \subseteq Hidden,
         \A h \in hidden' : h \in hidden \/ h.cause = "governance",
         changes' \in Nat,
         writer' \in [at : {"idle", "write", "bump", "demote", "promote"},
                      change : Change, doc : Docs \cup {NoDoc}],
         writer'.at \in {"idle", "promote"}, writer'.at = "promote" => writer'.doc \in Docs
  PROVE  CacheInv'
<1>. USE RowFacts
<1>1. CacheRows'
  BY DEF CacheRows
<1>2. \A h \in hidden' : h.doc \in Docs
  BY DEF Hidden
<1>3. RowsInv'
  BY <1>2 DEF RowsInv, RedisSame
<1>4. refresh.at = "bump" /\ queued'[refresh.doc] = 0 =>
           /\ queued[refresh.doc] = 0
           /\ docs'[refresh.doc].allowed = docs[refresh.doc].allowed
  BY DEF RowsInv
<1>5. Reading' /\ \A q \in Readers : /\ Less(q, reader'[q])
                            /\ \A h \in reader'[q].must : h.cause # "governance" => h \in hidden'
  BY ReadersLess
<1>. QED BY <1>1, <1>3, <1>4, <1>5, RowsChange

\* The same when nothing is given back.
LEMMA NothingBack ==
  ASSUME CacheInv
  PROVE  reader = [r \in Readers |-> [reader[r] EXCEPT !.must = @ \ {}]]
<1>1. ASSUME NEW r \in Readers
      PROVE  reader[r] = [reader[r] EXCEPT !.must = @ \ {}]
  <2>1. PICK y \in ReaderRec : y = reader[r]
    BY ReaderFacts
  <2>2. y = [y EXCEPT !.must = @ \ {}]
    BY DEF ReaderRec
  <2>. QED BY <2>1, <2>2
<1>2. reader \in [Readers -> ReaderRec]
  BY CacheParts DEF CacheInv, Reading
<1>. QED BY <1>1, <1>2

\* The changes of the current version.
LEMMA VersionStepSafe ==
  ASSUME CacheInv
  PROVE  /\ \A d \in Docs : SetCurrentVersion(d) => CacheInv'
         /\ PromoteVersion => CacheInv'
         /\ DemoteOthers => CacheInv'
<1>. DEFINE Marked(b) == [e \in Docs |-> [docs[e] EXCEPT !.current = b[e]]]
<1>1. ASSUME NEW b \in [Docs -> BOOLEAN]
      PROVE  /\ Marked(b) \in [Docs -> DocRec]
             /\ \A e \in Docs : /\ Marked(b)[e].row = docs[e].row
                                /\ Marked(b)[e].enabled = docs[e].enabled
                                /\ Marked(b)[e].allowed = docs[e].allowed
  <2>1. ASSUME NEW e \in Docs
        PROVE  /\ Marked(b)[e] \in DocRec /\ Marked(b)[e].row = docs[e].row
               /\ Marked(b)[e].enabled = docs[e].enabled
               /\ Marked(b)[e].allowed = docs[e].allowed
    <3>1. PICK y \in DocRec : y = docs[e]
      BY RowFacts
    <3>2. Marked(b)[e] = [y EXCEPT !.current = b[e]]
      BY <3>1
    <3>. HIDE DEF Marked
    <3>. QED BY <3>1, <3>2 DEF DocRec
  <2>. QED BY <2>1
<1>2. ASSUME OnlyRows
      PROVE  RedisSame /\ config' = config /\ queued' = queued /\ unrefreshed' = unrefreshed
  BY <1>2 DEF OnlyRows, RedisSame, redisVars
<1>3. {"switch"} \subseteq Change /\ "governance" \in Causes
  BY DEF Change, Causes
<1>4. hidden \subseteq Hidden /\ changes \in Nat
      /\ writer \in [at : {"idle", "write", "bump", "demote", "promote"},
                     change : Change, doc : Docs \cup {NoDoc}]
  BY RowFacts
<1>5. \A w : /\ UNION {Took(d, "governance") : d \in Docs \ {w}} \subseteq Hidden
             /\ \A h \in UNION {Took(d, "governance") : d \in Docs \ {w}} : h.cause = "governance"
  BY <1>3, TookTyped
<1>6. ASSUME NEW d \in Docs, SetCurrentVersion(d)
      PROVE  CacheInv'
  <2>1. PICK b \in [Docs -> BOOLEAN] : docs' = Marked(b)
    <3>. DEFINE b0 == [e \in Docs |-> FALSE]
    <3>1. b0 \in [Docs -> BOOLEAN]
      OBVIOUS
    <3>2. docs' = Marked(b0)
      BY <1>6 DEF SetCurrentVersion
    <3>. QED BY <3>1, <3>2
  <2>. HIDE DEF Marked
  <2>2. RedisSame /\ config' = config /\ queued' = queued /\ unrefreshed' = unrefreshed
    BY <1>2, <1>6 DEF SetCurrentVersion
  <2>3. /\ changes' \in Nat /\ writer' = [at |-> "promote", change |-> "switch", doc |-> d]
        /\ writer' \in [at : {"idle", "write", "bump", "demote", "promote"},
                        change : Change, doc : Docs \cup {NoDoc}]
    BY <1>3, <1>6, ChangesTyped DEF SetCurrentVersion
  <2>. DEFINE none == {}
  <2>4. hidden' = hidden /\ reader' = [r \in Readers |-> [reader[r] EXCEPT !.must = @ \ none]]
    BY <1>6, NothingBack DEF SetCurrentVersion
  <2>5. docs' \in [Docs -> DocRec] /\ \A e \in Docs :
          /\ docs'[e].row = docs[e].row /\ docs'[e].enabled = docs[e].enabled
          /\ docs'[e].allowed = docs[e].allowed
    BY <1>1, <2>1
  <2>6. /\ writer'.at = "promote" /\ writer'.doc \in Docs
        /\ \A h \in none : h.cause = "governance"
        /\ hidden \ none \subseteq hidden' /\ hidden' \subseteq Hidden
        /\ \A h \in hidden' : h \in hidden \/ h.cause = "governance"
    BY <1>4, <2>3, <2>4
  <2>. HIDE DEF none
  <2>. QED BY <2>2, <2>3, <2>4, <2>5, <2>6, VersionsMove
<1>7. ASSUME PromoteVersion
      PROVE  CacheInv'
  <2>0. writer.doc \in Docs
    BY <1>7, RowFacts DEF PromoteVersion, RowsInv
  <2>1. PICK b \in [Docs -> BOOLEAN] : docs' = Marked(b)
    <3>. DEFINE b0 == [e \in Docs |-> IF e = writer.doc THEN TRUE ELSE docs[e].current]
    <3>1. b0 \in [Docs -> BOOLEAN] /\ docs \in [Docs -> DocRec]
      BY RowFacts DEF DocRec
    <3>2. ASSUME NEW e \in Docs
          PROVE  docs'[e] = Marked(b0)[e]
      <4>1. PICK y \in DocRec : y = docs[e]
        BY RowFacts
      <4>2. y = [y EXCEPT !.current = y.current]
        BY DEF DocRec
      <4>3. Marked(b0)[e] = [y EXCEPT !.current = b0[e]]
        BY <4>1
      <4>4. docs'[e] = IF e = writer.doc THEN [docs[e] EXCEPT !.current = TRUE] ELSE docs[e]
        BY <1>7, <3>1 DEF PromoteVersion
      <4>. QED BY <4>1, <4>2, <4>3, <4>4
    <3>3. docs' = [e \in Docs |-> docs'[e]]
      BY <1>7, <3>1 DEF PromoteVersion
    <3>4. docs' = Marked(b0)
      BY <3>2, <3>3
    <3>. QED BY <3>1, <3>4
  <2>. HIDE DEF Marked
  <2>2. RedisSame /\ config' = config /\ queued' = queued /\ unrefreshed' = unrefreshed
    BY <1>2, <1>7 DEF PromoteVersion
  <2>3. /\ changes' \in Nat /\ writer'.at = "idle"
        /\ writer' \in [at : {"idle", "write", "bump", "demote", "promote"},
                        change : Change, doc : Docs \cup {NoDoc}]
    BY <1>4, <1>7 DEF PromoteVersion, WriterGoes
  <2>. DEFINE back == Took(writer.doc, "governance")
  <2>4. reader' = [r \in Readers |-> [reader[r] EXCEPT !.must = @ \ back]]
    BY <1>7 DEF PromoteVersion
  <2>5. docs' \in [Docs -> DocRec] /\ \A e \in Docs :
          /\ docs'[e].row = docs[e].row /\ docs'[e].enabled = docs[e].enabled
          /\ docs'[e].allowed = docs[e].allowed
    BY <1>1, <2>1
  <2>6. \A h \in back : h.cause = "governance"
    BY <1>3, <2>0, TookTyped
  <2>. DEFINE others == UNION {Took(d, "governance") : d \in Docs \ {writer.doc}}
  <2>7. hidden' = (hidden \ back) \cup others
    BY <1>7 DEF PromoteVersion
  <2>8. others \subseteq Hidden /\ \A h \in others : h.cause = "governance"
    BY <1>5
  <2>. HIDE DEF back, others
  <2>9. /\ hidden \ back \subseteq hidden' /\ hidden' \subseteq Hidden
        /\ \A h \in hidden' : h \in hidden \/ h.cause = "governance"
    BY <1>4, <2>7, <2>8
  <2>. QED BY <2>2, <2>3, <2>4, <2>5, <2>6, <2>9, VersionsMove
<1>8. ASSUME DemoteOthers
      PROVE  CacheInv'
  <2>1. PICK b \in [Docs -> BOOLEAN] : docs' = Marked(b)
    <3>. DEFINE b0 == [e \in Docs |-> docs[e].current /\ e = writer.doc]
    <3>1. b0 \in [Docs -> BOOLEAN]
      OBVIOUS
    <3>2. docs' = Marked(b0)
      BY <1>8 DEF DemoteOthers
    <3>. QED BY <3>1, <3>2
  <2>. HIDE DEF Marked
  <2>2. RedisSame /\ config' = config /\ queued' = queued /\ unrefreshed' = unrefreshed
    BY <1>2, <1>8 DEF DemoteOthers
  <2>3. /\ changes' \in Nat /\ writer'.at = "idle"
        /\ writer' \in [at : {"idle", "write", "bump", "demote", "promote"},
                        change : Change, doc : Docs \cup {NoDoc}]
    BY <1>4, <1>8 DEF DemoteOthers, WriterGoes
  <2>. DEFINE none == {}
  <2>4. reader' = [r \in Readers |-> [reader[r] EXCEPT !.must = @ \ none]]
    BY <1>8, NothingBack DEF DemoteOthers
  <2>5. docs' \in [Docs -> DocRec] /\ \A e \in Docs :
          /\ docs'[e].row = docs[e].row /\ docs'[e].enabled = docs[e].enabled
          /\ docs'[e].allowed = docs[e].allowed
    BY <1>1, <2>1
  <2>6. hidden' = hidden \cup UNION {Took(d, "governance") : d \in Docs \ {writer.doc}}
    BY <1>8 DEF DemoteOthers
  <2>7. UNION {Took(d, "governance") : d \in Docs \ {writer.doc}} \subseteq Hidden
        /\ \A h \in UNION {Took(d, "governance") : d \in Docs \ {writer.doc}} : h.cause = "governance"
    BY <1>5
  <2>8. /\ hidden \ none \subseteq hidden' /\ hidden' \subseteq Hidden
        /\ \A h \in none : h.cause = "governance"
        /\ \A h \in hidden' : h \in hidden \/ h.cause = "governance"
    BY <1>4, <2>6, <2>7
  <2>. HIDE DEF none
  <2>. QED BY <2>2, <2>3, <2>4, <2>5, <2>8, VersionsMove
<1>. QED BY <1>6, <1>7, <1>8

\* A new configuration gives back what it lets through.
LEMMA ConfigureSafe ==
  ASSUME CacheInv, NEW passing \in SUBSET Docs, Configure(passing)
  PROVE  CacheInv'
<1>. DEFINE back == UNION {Took(d, "configuration") : d \in passing}
<1>. USE RowFacts
<1>1. /\ hidden' = hidden \ back /\ config' = passing /\ docs' = docs
      /\ reader' = [r \in Readers |-> [reader[r] EXCEPT !.must = @ \ back]]
  BY DEF Configure
<1>2. RedisSame /\ queued' = queued /\ unrefreshed' = unrefreshed
  BY DEF Configure, RedisSame, redisVars
<1>3. "configure" \in Change /\ "configuration" \in Causes
  BY DEF Change, Causes
<1>4. /\ changes' \in Nat /\ writer' = [at |-> "bump", change |-> "configure", doc |-> NoDoc]
      /\ writer' \in [at : {"idle", "write", "bump", "demote", "promote"},
                      change : Change, doc : Docs \cup {NoDoc}]
  BY <1>3, ChangesTyped DEF Configure
<1>5. \A h \in Hidden : h.cause = "configuration" /\ h.doc \in passing => h \in back
  BY <1>3, TookTyped
<1>. HIDE DEF back
<1>6. CacheRows'
  BY <1>1, <1>2 DEF CacheRows
<1>7. \A h \in hidden' : h \in hidden /\ (h.cause = "configuration" => h.doc \notin passing)
  BY <1>1, <1>5
<1>8. RowsInv'
  BY <1>1, <1>2, <1>4, <1>7 DEF RowsInv, RedisSame
<1>9. Reading' /\ \A q \in Readers : /\ Less(q, reader'[q])
                            /\ \A h \in reader'[q].must : h.cause # "governance" => h \in hidden'
  BY <1>1, ReadersLess
<1>10. refresh.at = "bump" /\ queued'[refresh.doc] = 0 =>
           /\ queued[refresh.doc] = 0
           /\ docs'[refresh.doc].allowed = docs[refresh.doc].allowed
  BY <1>1, <1>2
<1>. QED BY <1>2, <1>4, <1>6, <1>7, <1>8, <1>9, <1>10, RowsChange

\* A rule that changes for a user gives the document back to that user, and
\* queues the refresh anew.
LEMMA SetRuleSafe ==
  ASSUME CacheInv, NEW u \in Users, NEW d \in Docs, SetRule(u, d)
  PROVE  CacheInv'
<1>. DEFINE back == {TookFrom(u, d)}
<1>. DEFINE users == IF u \in docs[d].allowed THEN docs[d].allowed \ {u} ELSE docs[d].allowed \cup {u}
<1>. USE RowFacts
<1>1. /\ hidden' = hidden \ back /\ config' = config
      /\ reader' = [r \in Readers |-> [reader[r] EXCEPT !.must = @ \ back]]
  BY DEF SetRule
<1>2. RedisSame /\ writer' = writer /\ changes' \in Nat
  BY DEF SetRule, RedisSame, redisVars
<1>3. queued' = [queued EXCEPT ![d] = JobAttempts] /\ unrefreshed' \subseteq Docs
  BY DEF SetRule
<1>4. queued' \in [Docs -> 0 .. JobAttempts] /\ queued'[d] = 3
      /\ \A e \in Docs : e # d => queued'[e] = queued[e]
  BY <1>3 DEF JobAttempts
<1>5. \A h \in Hidden : h.cause = "permission" /\ h.doc = d /\ h.user = u => h \in back
  BY DEF TookFrom, Hidden
<1>6. PICK y \in DocRec : y = docs[d]
  OBVIOUS
<1>7. users \in SUBSET Users /\ \A v \in Users : v # u /\ v \notin y.allowed => v \notin users
  BY <1>6 DEF DocRec
<1>8. docs' = [docs EXCEPT ![d] = [y EXCEPT !.allowed = users]]
  BY <1>6 DEF SetRule, DocRec
<1>. HIDE DEF back, users
<1>9. PICK z \in DocRec : z = [y EXCEPT !.allowed = users]
  BY <1>7 DEF DocRec
<1>10. z.row = y.row /\ z.enabled = y.enabled /\ z.allowed = users
  BY <1>9 DEF DocRec
<1>11. /\ docs' \in [Docs -> DocRec] /\ docs'[d] = z /\ \A e \in Docs : e # d => docs'[e] = docs[e]
  BY <1>8, <1>9
<1>12. CacheRows'
  BY <1>1, <1>3, <1>4, <1>11 DEF CacheRows
<1>13. \A h \in hidden' : /\ h \in hidden /\ h.doc \in Docs /\ h.user \in Users
                          /\ h.cause = "permission" => h.doc # d \/ h.user # u
  BY <1>1, <1>5 DEF Hidden
<1>14. RowsInv'
  <2>1. \A e \in Docs : (docs'[e].row <=> docs[e].row) /\ (docs'[e].enabled <=> docs[e].enabled)
    BY <1>6, <1>10, <1>11
  <2>2. ASSUME NEW h \in hidden', h.cause = "permission"
        PROVE  h.user \notin docs'[h.doc].allowed
    BY <1>6, <1>7, <1>10, <1>11, <1>13, <2>2 DEF RowsInv
  <2>. QED BY <1>1, <1>2, <1>13, <2>1, <2>2 DEF RowsInv, RedisSame
<1>15. Reading' /\ \A q \in Readers : /\ Less(q, reader'[q])
                            /\ \A h \in reader'[q].must : h.cause # "governance" => h \in hidden'
  BY <1>1, ReadersLess
<1>16. refresh.at = "bump" /\ queued'[refresh.doc] = 0 =>
           /\ queued[refresh.doc] = 0
           /\ docs'[refresh.doc].allowed = docs[refresh.doc].allowed
  BY <1>4, <1>11 DEF RowsInv
<1>. QED BY <1>2, <1>12, <1>13, <1>14, <1>15, <1>16, RowsChange

\* A refresh that fails costs an attempt.
LEMMA RefreshAclFailsSafe ==
  ASSUME CacheInv, NEW d \in Docs, RefreshAclFails(d)
  PROVE  CacheInv'
<1>. USE RowFacts
<1>1. /\ RedisSame /\ docs' = docs /\ config' = config /\ hidden' = hidden /\ reader' = reader
      /\ writer' = writer /\ changes' = changes /\ unrefreshed' = unrefreshed
  BY DEF RefreshAclFails, RedisSame, redisVars, ghostVars
<1>2. queued' \in [Docs -> 0 .. JobAttempts]
  BY DEF RefreshAclFails, JobAttempts
<1>3. CacheRows'
  BY <1>1, <1>2 DEF CacheRows
<1>4. RowsInv' /\ refresh.at # "bump"
  BY <1>1 DEF RowsInv, RedisSame, RefreshAclFails
<1>. QED BY <1>1, <1>3, <1>4, RowsChange, ReadersSame

\* A bump leaves the rows, the requests, the searches and the results alone.
BumpSame ==
  /\ search' = search /\ cache' = cache /\ reader' = reader /\ docs' = docs /\ config' = config
  /\ backward' = backward /\ crossed' = crossed /\ requests' = requests /\ changes' = changes

\* The numbers only grow, and a new revision is one nothing is kept under: what a
\* bump hides, no request has to be free of yet.
LEMMA BumpFits ==
  ASSUME CacheInv, BumpSame, hidden \subseteq hidden', clock' \in Int, clock <= clock',
         revision' \in Nat, revision <= revision',
         ~lost' => ~lost,
         ~lost' /\ revision' = revision =>
           \A h \in hidden' : h.cause \in {"content", "configuration"} => h \in hidden
  PROVE  ReadersFit' /\ ContentInv' /\ ConfigInv' /\ PairsInv'
<1>. USE DEF BumpSame
<1>1. /\ clock \in Int /\ revision \in Nat
      /\ \A e \in cache : e.key.revision \in Nat /\ e.key.revision <= revision
      /\ \A s \in Readers : search[s].key.revision \in Nat /\ search[s].key.revision <= revision
  BY CacheParts DEF CacheInv, CacheCounts, Entered, EntryRec, Key, Searching, SearchRec, WorldInv, NumbersInv
<1>2. ASSUME NEW d, NEW u, NEW v
      PROVE  /\ ContentFree(d, v)' <=> ContentFree(d, v)
             /\ ConfigFree(d, v)' <=> ConfigFree(d, v)
             /\ RuledOut(u, d, v)' <=> RuledOut(u, d, v)
  BY DEF ContentFree, ConfigFree, RuledOut, Shared
<1>3. ASSUME NEW d, revision < revision'
      PROVE  ContentFree(d, revision') /\ ConfigFree(d, revision')
  BY <1>1, <1>3 DEF ContentFree, ConfigFree
<1>4. ReadersFit'
  <2>. SUFFICES ASSUME NEW q \in Readers
                PROVE  Fits(q, reader[q])'
    BY DEF ReadersFit
  <2>1. PICK x \in ReaderRec : x = reader[q] /\ Fits(q, x)
    BY ReaderFacts
  <2>2. x.key.revision \in Nat /\ x.key.revision <= revision /\ x.key.epoch \in Int
        /\ x.key.epoch <= clock
    BY <2>1 DEF Fits, CacheCountsOK, ReaderRec, Key
  <2>3. WaitOK(q, x)' /\ AbortOK(x)'
    BY <2>1 DEF Fits, WaitOK, AbortOK, CacheBefore
  <2>4. CacheCountsOK(x)'
    BY <1>1, <2>2 DEF CacheCountsOK
  <2>5. MustOK(x)'
    BY <2>1 DEF Fits, MustOK
  <2>6. CacheContentOK(x)'
    BY <1>2, <2>1 DEF Fits, CacheContentOK, Past
  <2>7. ConfigOK(x)'
    <3>1. ~lost' /\ ~crossed /\ Persona(x.key) =>
            \A h \in x.must : h.cause = "configuration" =>
              /\ Past(x) => ConfigFree(h.doc, x.key.revision)'
              /\ x.at = "wait" => h.doc \notin search[x.of].config
              /\ x.at = "answered" => h.doc \notin x.result
      BY <1>2, <2>1 DEF Fits, ConfigOK
    <3>2. ~lost' /\ ~crossed /\ Persona(x.key) /\ Past(x) /\ x.key.revision = revision' =>
            \A h \in hidden' : h.cause = "configuration" => h.doc \notin x.config
      <4>. SUFFICES ASSUME ~lost', ~crossed, Persona(x.key), Past(x), x.key.revision = revision',
                           NEW h \in hidden', h.cause = "configuration"
                    PROVE  h.doc \notin x.config
        OBVIOUS
      <4>1. revision' = revision
        BY <1>1, <2>2
      <4>2. h \in hidden
        BY <4>1
      <4>. QED BY <2>1, <4>1, <4>2 DEF Fits, ConfigOK
    <3>. QED BY <3>1, <3>2 DEF ConfigOK, Persona, Past
  <2>8. RulesOK(x)'
    BY <1>2, <2>1 DEF Fits, RulesOK
  <2>9. Fits(q, x)'
    BY <2>3, <2>4, <2>5, <2>6, <2>7, <2>8 DEF Fits
  <2>. QED BY <2>1, <2>9
<1>5. ContentInv'
  <2>. SUFFICES ASSUME ~lost', NEW h \in hidden', h.cause = "content"
                PROVE  ContentFree(h.doc, revision')
    BY <1>2 DEF ContentInv
  <2>1. CASE revision' = revision
    <3>1. h \in hidden
      BY <2>1
    <3>. QED BY <2>1, <3>1 DEF CacheInv, WorldInv, ContentInv
  <2>2. CASE revision' # revision
    BY <1>1, <1>3, <2>2
  <2>. QED BY <2>1, <2>2
<1>6. ConfigInv'
  <2>1. ASSUME ~lost', ~crossed, NEW h \in hidden', h.cause = "configuration"
        PROVE  ConfigFree(h.doc, revision')
    <3>1. CASE revision' = revision
      <4>1. h \in hidden
        BY <2>1, <3>1
      <4>. QED BY <2>1, <3>1, <4>1 DEF CacheInv, WorldInv, ConfigInv
    <3>2. CASE revision' # revision
      BY <1>1, <1>3, <3>2
    <3>. QED BY <3>1, <3>2
  <2>2. \A s \in Readers : search'[s].found \subseteq search'[s].config
    BY DEF CacheInv, WorldInv, ConfigInv
  <2>. QED BY <1>2, <2>1, <2>2 DEF ConfigInv
<1>7. PairsInv'
  BY DEF CacheInv, WorldInv, PairsInv, Past, Persona
<1>. QED BY <1>4, <1>5, <1>6, <1>7

\* What a completed change of the writer hides.
LEMMA CompletedFacts ==
  ASSUME CacheInv, writer.at = "bump"
  PROVE  /\ Completed \subseteq Hidden
         /\ \A h \in Completed :
              /\ h.cause \in {"content", "configuration"}
              /\ h.cause = "content" => ~(docs[h.doc].row /\ docs[h.doc].enabled)
              /\ h.cause = "configuration" => h.doc \notin config
<1>1. {"content", "configuration"} \subseteq Causes
  BY DEF Causes
<1>2. CASE writer.change \in {"disable", "delete"}
  <2>1. writer.doc \in Docs /\ ~(docs[writer.doc].row /\ docs[writer.doc].enabled)
    BY <1>2, RowFacts DEF RowsInv
  <2>2. Completed = Took(writer.doc, "content")
    BY <1>2 DEF Completed
  <2>. QED BY <1>1, <2>1, <2>2, TookTyped
<1>3. CASE writer.change = "configure"
  <2>1. Completed = UNION {Took(d, "configuration") : d \in Docs \ config}
    BY <1>3 DEF Completed
  <2>2. ASSUME NEW h \in Completed
        PROVE  h \in Hidden /\ h.cause = "configuration" /\ h.doc \notin config
    <3>1. PICK d \in Docs \ config : h \in Took(d, "configuration")
      BY <2>1
    <3>. QED BY <1>1, <3>1, TookTyped
  <2>. QED BY <2>2
<1>4. CASE writer.change \notin {"disable", "delete"} /\ writer.change # "configure"
  BY <1>4 DEF Completed
<1>. QED BY <1>2, <1>3, <1>4

\* The bump of the revision hides what the completed change took away.
LEMMA BumpRevisionSafe ==
  ASSUME CacheInv, NEW ok \in BOOLEAN, BumpRevision(ok)
  PROVE  CacheInv'
<1>. USE RowFacts
<1>1. /\ BumpSame /\ epoch' = epoch /\ dbEpoch' = dbEpoch /\ clock' = clock
      /\ queued' = queued /\ unrefreshed' = unrefreshed /\ refresh' = refresh
  BY DEF BumpRevision, BumpSame, rowVars
<1>2. /\ writer.at = "bump" /\ Redis(ok) /\ (lost' <=> (lost \/ ~ok))
      /\ revision' = IF ok THEN revision + 1 ELSE revision
  BY DEF BumpRevision
<1>3. hidden' = hidden \cup Completed
  BY DEF BumpRevision
<1>4. /\ epoch \in Int /\ dbEpoch \in Int /\ clock \in Int /\ revision \in Nat /\ faults' \in Nat
      /\ requests \in Nat
  BY <1>2, CacheParts, RedisCounts DEF CacheInv, CacheCounts
<1>5. writer' = [writer EXCEPT !.at = IF writer.change = "import" THEN "demote" ELSE "idle"]
  BY DEF BumpRevision, WriterGoes, AfterBump
<1>6. /\ writer' \in [at : {"idle", "write", "bump", "demote", "promote"},
                      change : Change, doc : Docs \cup {NoDoc}]
      /\ writer'.at \in {"demote", "idle"}
  BY <1>5
<1>7. lost' = (lost \/ ~ok)
  BY DEF BumpRevision
<1>8. CacheTypeOK'
  <2>1. CacheRows'
    BY <1>1, <1>2, <1>3, CompletedFacts DEF CacheRows, BumpSame
  <2>2. CacheCounts'
    BY <1>1, <1>2, <1>4 DEF CacheCounts, BumpSame
  <2>3. lost \in BOOLEAN /\ backward' \in BOOLEAN /\ crossed' \in BOOLEAN
    BY <1>1, CacheParts DEF CacheInv, Flags, BumpSame
  <2>4. Flags'
    BY <1>7, <2>3 DEF Flags
  <2>5. Entered' /\ Searching' /\ Reading'
    BY <1>1, CacheParts DEF CacheInv, Entered, Searching, Reading, BumpSame
  <2>6. Changing'
    BY <1>1, <1>6 DEF Changing
  <2>. QED BY <2>1, <2>2, <2>4, <2>5, <2>6, CachePartsNext
<1>9. ReadersFit' /\ ContentInv' /\ ConfigInv' /\ PairsInv'
  <2>1. clock' \in Int /\ clock <= clock' /\ revision' \in Nat /\ revision <= revision'
    BY <1>1, <1>2, <1>4
  <2>2. ~lost' => ~lost /\ revision' # revision
    BY <1>2, <1>4
  <2>3. hidden \subseteq hidden'
    BY <1>3
  <2>. QED BY <1>1, <2>1, <2>2, <2>3, BumpFits
<1>10. NumbersInv'
  <2>1. \A e \in cache : e.key.revision \in Nat
    BY CacheParts DEF CacheInv, Entered, EntryRec, Key
  <2>2. \A s \in Readers : search[s].key.revision \in Nat
    BY CacheParts DEF CacheInv, Searching, SearchRec, Key
  <2>. QED BY <1>1, <1>2, <1>4, <2>1, <2>2 DEF NumbersInv, CacheInv, WorldInv, BumpSame
<1>11. RowsInv'
  BY <1>1, <1>2, <1>3, <1>6, CompletedFacts DEF RowsInv, BumpSame
<1>12. CacheRulesInv'
  <2>1. \A h \in hidden' : h.cause = "permission" => h \in hidden
    BY <1>2, <1>3, CompletedFacts
  <2>2. ~lost' => ~lost
    BY <1>2
  <2>. QED BY <1>1, <2>1, <2>2 DEF CacheInv, WorldInv, CacheRulesInv, RuledOut, BumpSame
<1>. QED BY <1>8, <1>9, <1>10, <1>11, <1>12 DEF CacheInv, WorldInv

\* A bump of the permissions: the numbers of Redis and the clock grow, and the
\* rules of the results that are kept hold with them.
LEMMA PermissionBump ==
  ASSUME CacheInv, BumpSame, writer' = writer, revision' = revision, unrefreshed' \subseteq Docs,
         queued' \in [Docs -> 0 .. JobAttempts], hidden \subseteq hidden',
         hidden' \subseteq Hidden,
         \A h \in hidden' : h \in hidden \/ (/\ h.cause = "permission"
                                             /\ h.user \notin docs[h.doc].allowed),
         clock' \in Int, clock <= clock', epoch' \in Int, epoch' <= clock', dbEpoch' \in Int,
         dbEpoch' <= clock', faults' \in Nat, lost' \in BOOLEAN, ~lost' => ~lost,
         refresh' \in [at : {"idle", "bump"}, doc : Docs \cup {NoDoc}],
         refresh'.at = "bump" => refresh'.doc \in Docs,
         CacheRulesInv'
  PROVE  CacheInv'
<1>. USE RowFacts
<1>1. /\ requests \in Nat /\ revision \in Nat /\ clock \in Int
      /\ backward \in BOOLEAN /\ crossed \in BOOLEAN
      /\ \A e \in cache : e.key.epoch \in Int
      /\ \A s \in Readers : search[s].key.epoch \in Int
  BY CacheParts DEF CacheInv, CacheCounts, Flags, Entered, EntryRec, Searching, SearchRec, Key
<1>2. CacheTypeOK'
  <2>1. CacheRows'
    BY DEF CacheRows, BumpSame
  <2>2. CacheCounts'
    BY <1>1 DEF CacheCounts, BumpSame
  <2>3. Flags'
    BY <1>1 DEF Flags, BumpSame
  <2>4. Entered' /\ Searching' /\ Reading'
    BY CacheParts DEF CacheInv, Entered, Searching, Reading, BumpSame
  <2>5. Changing'
    BY DEF Changing
  <2>. QED BY <2>1, <2>2, <2>3, <2>4, <2>5, CachePartsNext
<1>3. ReadersFit' /\ ContentInv' /\ ConfigInv' /\ PairsInv'
  <2>1. \A h \in hidden' : h.cause \in {"content", "configuration"} => h \in hidden
    OBVIOUS
  <2>2. revision' \in Nat /\ revision <= revision'
    BY <1>1
  <2>. QED BY <2>1, <2>2, BumpFits
<1>4. NumbersInv'
  <2>1. \A e \in cache : e.key.epoch <= clock /\ e.key.revision <= revision
    BY DEF CacheInv, WorldInv, NumbersInv
  <2>2. \A s \in Readers : search[s].key.epoch <= clock /\ search[s].key.revision <= revision
    BY DEF CacheInv, WorldInv, NumbersInv
  <2>3. 1 <= clock'
    BY <1>1 DEF CacheInv, WorldInv, NumbersInv
  <2>. QED BY <1>1, <2>1, <2>2, <2>3 DEF NumbersInv, BumpSame
<1>5. RowsInv'
  BY DEF RowsInv, BumpSame
<1>. QED BY <1>2, <1>3, <1>4, <1>5 DEF CacheInv, WorldInv

\* Nothing is kept under an epoch the clock has not reached.
LEMMA EpochFacts ==
  ASSUME CacheInv
  PROVE  /\ epoch \in Int /\ dbEpoch \in Int /\ clock \in Int /\ epoch <= clock /\ dbEpoch <= clock
         /\ lost \in BOOLEAN /\ faults \in Nat
         /\ \A u, d, v : v \in Int /\ clock < v => RuledOut(u, d, v)
<1>1. \A e \in cache : e.key.epoch \in Int /\ e.key.epoch <= clock
  BY CacheParts DEF CacheInv, Entered, EntryRec, Key, WorldInv, NumbersInv
<1>2. /\ epoch \in Int /\ dbEpoch \in Int /\ clock \in Int /\ epoch <= clock /\ dbEpoch <= clock
      /\ lost \in BOOLEAN /\ faults \in Nat
  BY CacheParts DEF CacheInv, CacheCounts, Flags, WorldInv, NumbersInv
<1>. QED BY <1>1, <1>2 DEF RuledOut

\* The refresh stamps the rows with an epoch nothing is kept under.
LEMMA RefreshAclSafe ==
  ASSUME CacheInv, NEW d \in Docs, RefreshAcl(d)
  PROVE  CacheInv'
<1>. USE RowFacts, EpochFacts
<1>1. /\ BumpSame /\ epoch' = epoch /\ hidden' = hidden /\ lost' = lost /\ writer' = writer
      /\ revision' = revision /\ faults' = faults /\ cache' = cache
  BY DEF RefreshAcl, BumpSame, redisVars
<1>2. /\ queued' \in [Docs -> 0 .. JobAttempts] /\ unrefreshed' \subseteq Docs
      /\ refresh' = [at |-> "bump", doc |-> d] /\ clock' = clock + 1 /\ dbEpoch' = clock + 1
  BY DEF RefreshAcl, Stamp, JobAttempts
<1>3. CacheRulesInv'
  <2>1. \A u, e : RuledOut(u, e, clock + 1)
    OBVIOUS
  <2>2. ~lost /\ ~backward => \A h \in hidden : h.cause = "permission" => RuledOut(h.user, h.doc, epoch)
    BY DEF CacheInv, WorldInv, CacheRulesInv
  <2>. QED BY <1>1, <1>2, <2>1, <2>2 DEF CacheRulesInv, RuledOut, BumpSame
<1>. QED BY <1>1, <1>2, <1>3, PermissionBump

\* The bump of the epoch hides what the rules refuse, unless the rules changed
\* again since the refresh.
LEMMA BumpEpochSafe ==
  ASSUME CacheInv, NEW ok \in BOOLEAN, BumpEpoch(ok)
  PROVE  CacheInv'
<1>. USE RowFacts, EpochFacts
<1>. DEFINE d == refresh.doc
<1>1. /\ BumpSame /\ dbEpoch' = dbEpoch /\ writer' = writer /\ queued' = queued
      /\ revision' = revision /\ unrefreshed' = unrefreshed /\ cache' = cache
  BY DEF BumpEpoch, BumpSame
<1>2. /\ refresh.at = "bump" /\ d \in Docs /\ refresh' = [at |-> "idle", doc |-> NoDoc]
  BY DEF BumpEpoch, RowsInv
<1>3. faults' \in Nat
  BY RedisCounts DEF BumpEpoch
<1>4. IF docs[d].row THEN clock' = clock + 1 /\ epoch' = IF ok THEN clock + 1 ELSE epoch
                     ELSE clock' = clock /\ epoch' = epoch
  BY DEF BumpEpoch
<1>5. lost' = IF docs[d].row THEN lost \/ ~ok ELSE lost
  BY DEF BumpEpoch
<1>6. hidden' = IF queued[d] > 0 \/ ~docs[d].row THEN hidden ELSE hidden \cup Refused(d)
  BY DEF BumpEpoch
<1>7. \A h \in Refused(d) : /\ h \in Hidden /\ h.cause = "permission" /\ h.doc = d
                            /\ h.user \in Users \ docs[d].allowed
  BY <1>2 DEF Refused, TookFrom, Hidden, Causes
<1>8. /\ clock' \in Int /\ clock <= clock' /\ epoch' \in Int /\ epoch' <= clock'
      /\ dbEpoch' \in Int /\ dbEpoch' <= clock'
  BY <1>1, <1>4
<1>9. lost' \in BOOLEAN /\ (~lost' => ~lost)
  BY <1>5
<1>10. /\ hidden \subseteq hidden' /\ hidden' \subseteq Hidden
       /\ \A h \in hidden' : h \in hidden \/ (/\ h.cause = "permission"
                                              /\ h.user \notin docs[h.doc].allowed)
  BY <1>6, <1>7
<1>11. CacheRulesInv'
  <2>. SUFFICES ASSUME ~lost', ~backward, NEW h \in hidden', h.cause = "permission"
                PROVE  RuledOut(h.user, h.doc, epoch') /\ RuledOut(h.user, h.doc, dbEpoch)
    BY <1>1, <1>2 DEF CacheRulesInv, RuledOut, BumpSame
  <2>1. CASE h \in hidden
    <3>1. RuledOut(h.user, h.doc, epoch) /\ RuledOut(h.user, h.doc, dbEpoch)
      BY <1>9, <2>1 DEF CacheInv, WorldInv, CacheRulesInv
    <3>2. epoch' = epoch \/ epoch' = clock + 1
      BY <1>4
    <3>. QED BY <3>1, <3>2
  <2>2. CASE h \notin hidden
    <3>1. h \in Refused(d) /\ docs[d].row /\ queued[d] = 0
      BY <1>2, <1>6, <2>2 DEF JobAttempts
    <3>2. RuledOut(h.user, h.doc, dbEpoch)
      BY <1>2, <1>7, <3>1 DEF CacheInv, WorldInv, CacheRulesInv
    <3>3. epoch' = clock + 1
      BY <1>4, <1>5, <3>1
    <3>. QED BY <3>2, <3>3
  <2>. QED BY <2>1, <2>2
<1>12. \A h \in hidden' : h \in hidden \/ (/\ h.cause = "permission" /\ h.user \notin docs[h.doc].allowed)
  BY <1>10
<1>. HIDE DEF d
<1>13. /\ unrefreshed' \subseteq Docs /\ queued' \in [Docs -> 0 .. JobAttempts]
       /\ refresh' \in [at : {"idle", "bump"}, doc : Docs \cup {NoDoc}]
       /\ (refresh'.at = "bump" => refresh'.doc \in Docs)
  BY <1>1, <1>2
<1>. QED BY <1>1, <1>3, <1>8, <1>9, <1>10, <1>11, <1>12, <1>13, PermissionBump

\* The invariant holds at the start.
LEMMA CacheInitSafe ==
  ASSUME CacheInit
  PROVE  CacheInv
<1>1. CacheTypeOK
  <2>1. CacheRows
    <3>1. PICK enabled \in BOOLEAN :
            docs = [d \in Docs |-> [row |-> d = CHOOSE e \in Docs : TRUE, enabled |-> enabled,
                      current |-> TRUE, archived |-> FALSE, visible |-> Users, allowed |-> Users]]
      BY DEF CacheInit
    <3>2. docs \in [Docs -> DocRec]
      BY <3>1 DEF DocRec
    <3>3. config = Docs /\ queued = [e \in Docs |-> 0] /\ unrefreshed = {} /\ hidden = {}
      BY DEF CacheInit
    <3>4. queued \in [Docs -> 0 .. JobAttempts]
      BY <3>3 DEF JobAttempts
    <3>5. config \in SUBSET Docs /\ unrefreshed \subseteq Docs /\ hidden \subseteq Hidden
      BY <3>3
    <3>. QED BY <3>2, <3>4, <3>5 DEF CacheRows
  <2>2. CacheCounts /\ Flags /\ Entered
    <3>1. /\ epoch = 1 /\ dbEpoch = 1 /\ clock = 1 /\ revision = 0 /\ cache = {}
          /\ faults = 0 /\ requests = 0 /\ changes = 0
      BY DEF CacheInit
    <3>2. lost = FALSE /\ backward = FALSE /\ crossed = FALSE
      BY DEF CacheInit
    <3>3. CacheCounts /\ Entered
      BY <3>1 DEF CacheCounts, Entered
    <3>4. Flags
      BY <3>2 DEF Flags
    <3>. QED BY <3>3, <3>4
  <2>3. Searching /\ Reading
    BY IdleRecord DEF CacheInit, Searching, Reading
  <2>4. Changing
    BY DEF CacheInit, Changing, Change
  <2>. QED BY <2>1, <2>2, <2>3, <2>4, CacheParts
<1>2. ReadersFit
  <2>. SUFFICES ASSUME NEW r \in Readers
                PROVE  Fits(r, reader[r])
    BY DEF ReadersFit
  <2>1. PICK x \in ReaderRec : x = Idle(r)
    BY IdleRecord
  <2>2. x.at = "idle" /\ x.must = {} /\ x.key = Key0
    BY <2>1 DEF Idle
  <2>3. reader[r] = x /\ clock = 1 /\ revision = 0
    BY <2>1 DEF CacheInit
  <2>4. Fits(r, x)
    BY <2>2, <2>3, IdleRecord DEF Fits, WaitOK, CacheCountsOK, MustOK, CacheContentOK, ConfigOK, RulesOK,
          AbortOK, Past, CacheBefore
  <2>. QED BY <2>3, <2>4
<1>3. WorldInv
  <2>1. \A s \in Readers : /\ search[s].at = "none" /\ search[s].key = Key0
                           /\ search[s].found = {} /\ search[s].config = {}
    BY DEF CacheInit, NoSearch
  <2>2. \A r \in Readers : reader[r].at = "idle"
    BY DEF CacheInit, Idle
  <2>3. NumbersInv
    BY <2>1, IdleRecord DEF CacheInit, NumbersInv
  <2>4. RowsInv /\ ContentInv
    BY DEF CacheInit, RowsInv, ContentInv
  <2>5. ConfigInv
    BY <2>1 DEF CacheInit, ConfigInv
  <2>6. PairsInv
    BY <2>2 DEF PairsInv, Past
  <2>7. CacheRulesInv
    BY DEF CacheInit, CacheRulesInv
  <2>. QED BY <2>3, <2>4, <2>5, <2>6, <2>7 DEF WorldInv
<1>. QED BY <1>1, <1>2, <1>3 DEF CacheInv

\* Every step keeps the invariant.
LEMMA CacheStepSafe ==
  ASSUME CacheInv, [CacheNext]_cacheVars
  PROVE  CacheInv'
<1>1. CASE ReaderStep
  <2>1. PICK r \in Readers :
          \/ \E scope \in Scopes, user \in Users : Request(r, scope, user)
          \/ \E ok \in BOOLEAN : GetEpoch(r, ok) \/ SetEpoch(r, ok) \/ GetRevision(r, ok)
          \/ ReadEpochRow(r) \/ Hit(r) \/ Miss(r) \/ LookupFails(r) \/ Join(r) \/ AbortRequest(r)
    BY <1>1 DEF ReaderStep
  <2>2. ASSUME NEW scope \in Scopes, NEW user \in Users, Request(r, scope, user)
        PROVE  CacheInv'
    BY <2>2, RequestSafe
  <2>3. ASSUME NEW ok \in BOOLEAN, GetEpoch(r, ok) \/ SetEpoch(r, ok) \/ GetRevision(r, ok)
        PROVE  CacheInv'
    BY <2>3, GetEpochSafe, SetEpochSafe, GetRevisionSafe
  <2>4. CASE ReadEpochRow(r) \/ Hit(r) \/ Miss(r) \/ LookupFails(r) \/ Join(r) \/ AbortRequest(r)
    BY <2>4, ReadEpochRowSafe, HitSafe, MissSafe, JoinStepSafe, AbortRequestSafe
  <2>. QED BY <2>1, <2>2, <2>3, <2>4
<1>2. CASE SearchStep
  BY <1>2, SearchChannelsSafe, SearchLostSafe, SearchEndsSafe DEF SearchStep
<1>3. CASE WriterStep
  BY <1>3, RowStepSafe, VersionStepSafe, ConfigureSafe, BumpRevisionSafe DEF WriterStep
<1>4. CASE PermissionStep
  BY <1>4, SetRuleSafe, RefreshAclSafe, RefreshAclFailsSafe, BumpEpochSafe DEF PermissionStep
<1>5. CASE UNCHANGED cacheVars
  <2>1. /\ RedisSame /\ docs' = docs /\ config' = config /\ queued' = queued
        /\ unrefreshed' = unrefreshed /\ hidden' = hidden /\ reader' = reader /\ writer' = writer
        /\ changes' = changes
    BY <1>5 DEF cacheVars, redisVars, rowVars, ghostVars, RedisSame
  <2>2. CacheRows' /\ RowsInv'
    BY <2>1, RowFacts DEF CacheRows, RowsInv, RedisSame
  <2>. QED BY <2>1, <2>2, RowFacts, RowsChange, ReadersSame
<1>. QED BY <1>1, <1>2, <1>3, <1>4, <1>5 DEF CacheNext

\* The inductive invariant holds.
LEMMA CacheHolds == CacheSpec => []CacheInv
BY CacheInitSafe, CacheStepSafe, PTL DEF CacheSpec

\* What a request satisfies says that it was served nothing it was promised not
\* to see.
LEMMA CacheIsFresh ==
  ASSUME CacheInv
  PROVE  FreshResult
<1>. SUFFICES ASSUME NEW r \in Readers, ~lost
              PROVE  /\ Served(r, {"content"}) = {}
                     /\ ~backward => Served(r, {"permission"}) = {}
                     /\ ~crossed => Served(r, {"configuration"}) = {}
  BY DEF FreshResult
<1>1. Fits(r, reader[r])
  BY DEF CacheInv, ReadersFit
<1>2. Served(r, {"content"}) = {}
  BY <1>1 DEF Fits, CacheContentOK, Served, Mine
<1>3. ~backward => Served(r, {"permission"}) = {}
  BY <1>1 DEF Fits, RulesOK, Served, Mine
<1>4. ~crossed => Served(r, {"configuration"}) = {}
  BY <1>1 DEF Fits, ConfigOK, Served, Mine, Persona
<1>. QED BY <1>2, <1>3, <1>4

\* ... and that it was aborted for its own signal or out of time.
LEMMA CacheAbortsItsOwn ==
  ASSUME CacheInv
  PROVE  AbortIsOwn
BY DEF CacheInv, ReadersFit, Fits, AbortOK, AbortIsOwn

\* The state keeps its types.
THEOREM CacheIsTyped == CacheSpec => []CacheTypeOK
BY CacheHolds, PTL DEF CacheInv

\* No request that starts after a change took effect is answered with what the
\* change took away, whatever the number of users, requests and documents.
THEOREM CacheServesFresh == CacheSpec => []FreshResult
BY CacheHolds, CacheIsFresh, PTL

\* No request ends for another caller's signal.
THEOREM CacheAbortIsOwn == CacheSpec => []AbortIsOwn
BY CacheHolds, CacheAbortsItsOwn, PTL

-----------------------------------------------------------------------------
(***************************************************************************)
(* One search of the knowledge bases: a channel, a sub-query or a base that *)
(* fails costs only its own evidence, for every number of bases, queries   *)
(* and chunks.  The inductive invariant follows, base by base, what the    *)
(* channels returned through the stages of the search: into what the base  *)
(* found, and from there into the chunks of the answer; and which channels *)
(* answered, against the base's trace.                                     *)
(***************************************************************************)

AskRec == [at : Stages, kind : Kinds, channels : SUBSET Channels,
           limit : Nat, bases : SUBSET Bases, queries : Nat \ {0},
           visible : SUBSET Found, embedded : SUBSET Queries,
           graphOn : BOOLEAN, elastic : BOOLEAN]
HitsRec == [Found -> SUBSET Channels]
ReportRec == [skipped : SUBSET Channels, backends : SUBSET Channels, fallback : BOOLEAN]
ChunksRec == [Found -> SUBSET (Channels \cup {"context"})]
AnswerRec == [chunks : ChunksRec, ranked : SUBSET Found,
              degraded : SUBSET (Channels \cup {"rerank", "fallback"})]

\* Before the sub-queries nothing is found, lost or told.
StartInv == ask.at \in {"idle", "embed"} =>
  /\ found0 = NothingByBase /\ lostBases = {}
  /\ report = [b \in Bases |-> Report0] /\ worked = [b \in Bases |-> {}]
\* A base that failed has no sub-query left.
TodoInv == ask.at = "sub-queries" => \A b \in lostBases, q \in Queries : <<b, q>> \notin todo
\* While the sub-queries run, what the channels of a base returned, it found.
FoundInv == ask.at = "sub-queries" =>
  \A b \in Bases \ lostBases, c \in Found : found0[b][c] \subseteq found[b][c]
\* Then it is in the chunks of the answer.
ChunksInv == ask.at \in {"expand", "filter"} /\ ~crowded =>
  \A b \in Survivors, c \in Found : found0[b][c] \subseteq answer.chunks[c]
\* The trace of a base knows the channels that answered; a base that failed has
\* none.
Tells(r, did) ==
  \A ch \in ask.channels \ {"graph"} : /\ ch \in did <=> ch \notin r.skipped
                                       /\ ch \in did => ch \in r.backends
TraceTold(b) == Tells(report[b], worked[b])
TraceInv == ask.at # "done" =>
  /\ \A b \in Bases \ lostBases : TraceTold(b)
  /\ \A b \in lostBases : report[b] = Report0
KeptInv == /\ SearchTypeOK /\ StartInv /\ TodoInv /\ FoundInv /\ ChunksInv
           /\ TraceInv /\ SurvivorsKept

\* The type invariant, with its sets named.
LEMMA SearchShapes ==
  SearchTypeOK <=>
    /\ ask \in AskRec /\ todo \subseteq Bases \X Queries
    /\ found \in [Bases -> HitsRec] /\ lostBases \subseteq Bases
    /\ report \in [Bases -> ReportRec] /\ answer \in AnswerRec
    /\ found0 \in [Bases -> HitsRec] /\ worked \in [Bases -> SUBSET Channels]
    /\ crowded \in BOOLEAN
BY DEF SearchTypeOK, AskRec, HitsRec, ReportRec, AnswerRec, ChunksRec

\* The same in the next state.
LEMMA SearchShapesNext ==
  SearchTypeOK' <=>
    /\ ask' \in AskRec /\ todo' \subseteq Bases \X Queries
    /\ found' \in [Bases -> HitsRec] /\ lostBases' \subseteq Bases
    /\ report' \in [Bases -> ReportRec] /\ answer' \in AnswerRec
    /\ found0' \in [Bases -> HitsRec] /\ worked' \in [Bases -> SUBSET Channels]
    /\ crowded' \in BOOLEAN
BY DEF SearchTypeOK, AskRec, HitsRec, ReportRec, AnswerRec, ChunksRec

\* What the helpers on hits return.
LEMMA HitsTyped ==
  ASSUME NEW h1 \in HitsRec, NEW h2 \in HitsRec, NEW set
  PROVE  /\ Nothing \in HitsRec /\ Join2(h1, h2) \in HitsRec /\ Only(h1, set) \in HitsRec
         /\ \A c \in Found : /\ Nothing[c] = {} /\ Join2(h1, h2)[c] = h1[c] \cup h2[c]
                             /\ Only(h1, set)[c] = IF c \in set THEN h1[c] ELSE {}
BY DEF HitsRec, Nothing, Join2, Only

\* What a search starts with.
LEMMA StartTyped ==
  /\ Ask0 \in AskRec /\ Ask0.at = "idle" /\ Ask0.channels = {}
  /\ Report0 \in ReportRec /\ Report0.skipped = Channels /\ Report0.backends = {}
  /\ Answer0 \in AnswerRec
  /\ NothingByBase \in [Bases -> HitsRec]
  /\ \A b \in Bases, c \in Found : NothingByBase[b][c] = {}
  /\ [b \in Bases |-> Report0] \in [Bases -> ReportRec]
  /\ [b \in Bases |-> {}] \in [Bases -> SUBSET Channels]
<1>1. Ask0 \in AskRec /\ Ask0.at = "idle" /\ Ask0.channels = {}
  BY DEF Ask0, AskRec, Stages, Kinds
<1>2. Report0 \in ReportRec /\ Report0.skipped = Channels /\ Report0.backends = {}
  BY DEF Report0, ReportRec
<1>3. Answer0 \in AnswerRec
  BY DEF Answer0, AnswerRec, ChunksRec, Nothing
<1>4. Nothing \in HitsRec /\ \A c \in Found : Nothing[c] = {}
  BY DEF Nothing, HitsRec
<1>. QED BY <1>1, <1>2, <1>3, <1>4 DEF NothingByBase

\* What is found is finite, and fewer hits are fewer chunks.
LEMMA HeldFinite ==
  ASSUME NEW h1, NEW h2, \A c \in Found : h1[c] \subseteq h2[c]
  PROVE  /\ IsFiniteSet(Held(h1)) /\ Held(h1) \subseteq Held(h2)
         /\ Cardinality(Held(h1)) \in Nat /\ Cardinality(Held(h2)) \in Nat
         /\ Cardinality(Held(h1)) <= Cardinality(Held(h2))
<1>1. Held(h1) \subseteq Found /\ Held(h2) \subseteq Found /\ Held(h1) \subseteq Held(h2)
  BY DEF Held
<1>2. IsFiniteSet(Held(h1)) /\ IsFiniteSet(Held(h2))
  BY <1>1, FoundIsFinite, FS_Subset
<1>3. Cardinality(Held(h1)) \in Nat /\ Cardinality(Held(h2)) \in Nat
  BY <1>2, FS_CardinalityType
<1>4. Cardinality(Held(h1)) <= Cardinality(Held(h2))
  BY <1>1, <1>2, FS_Subset
<1>. QED BY <1>1, <1>2, <1>3, <1>4

\* Where there is room, the best are all.
LEMMA BestAreAll ==
  ASSUME NEW set, NEW n, Cardinality(set) <= n, NEW best \in Best(set, n)
  PROVE  best = set
BY DEF Best

\* What is kept of the best is typed.
LEMMA BestTyped ==
  ASSUME NEW set, NEW n, NEW best \in Best(set, n)
  PROVE  best \subseteq set
BY DEF Best

\* The share of a query is a number.
LEMMA ShareIsCount ==
  ASSUME ask \in AskRec
  PROVE  PerQueryTopK \in Int
<1>1. PICK n \in Nat \ {0}, m \in Nat : n = ask.queries /\ m = ask.limit
  BY DEF AskRec
<1>2. (m + n - 1) \div n \in Int
  OBVIOUS
<1>3. PerQueryMin \in Int
  BY LimitsAreCounts
<1>. QED BY <1>1, <1>2, <1>3 DEF PerQueryTopK

\* The request goes on to a stage and the rest of it stays.
LEMMA AskMoves ==
  ASSUME SearchTypeOK, NEW at \in Stages, AskGoes(at)
  PROVE  /\ ask' \in AskRec /\ ask'.at = at /\ ask'.limit = ask.limit /\ ask'.bases = ask.bases
         /\ ask'.channels = ask.channels /\ ask'.visible = ask.visible
<1>1. PICK y \in AskRec : y = ask
  BY SearchShapes
<1>2. ask' = [y EXCEPT !.at = at]
  BY <1>1 DEF AskGoes
<1>. QED BY <1>1, <1>2 DEF AskRec

\* The traces are as they were.
LEMMA TraceStays ==
  ASSUME TraceInv, ask.at # "done", ask'.channels = ask.channels, lostBases' = lostBases,
         report' = report, worked' = worked
  PROVE  TraceInv'
BY DEF TraceInv, TraceTold, Tells

\* A search starts: nothing is found.
LEMMA SearchInitSafe ==
  ASSUME SearchInit
  PROVE  KeptInv
<1>1. SearchTypeOK
  BY StartTyped, SearchShapes DEF SearchInit
<1>2. /\ ask.at = "idle" /\ ask.channels = {} /\ found0 = NothingByBase /\ lostBases = {}
      /\ report = [b \in Bases |-> Report0] /\ worked = [b \in Bases |-> {}]
  BY StartTyped DEF SearchInit
<1>. QED BY <1>1, <1>2
         DEF KeptInv, StartInv, TodoInv, FoundInv, ChunksInv, TraceInv, TraceTold, Tells, SurvivorsKept

\* A search that throws promises nothing.
LEMMA ThrowsSafe ==
  ASSUME NEW at \in {"failed", "aborted"}, SearchThrows(at)
  PROVE  KeptInv'
<1>1. PICK y \in AskRec : y = Ask0 /\ y.channels = {}
  BY StartTyped
<1>2. ask' = [y EXCEPT !.at = at]
  BY <1>1 DEF SearchThrows
<1>3. ask' \in AskRec /\ ask'.at = at /\ ask'.channels = {}
  BY <1>1, <1>2 DEF AskRec, Stages
<1>4. /\ todo' = {} /\ found' = NothingByBase /\ lostBases' = {}
      /\ report' = [b \in Bases |-> Report0] /\ answer' = Answer0
      /\ found0' = NothingByBase /\ worked' = [b \in Bases |-> {}] /\ crowded' = FALSE
  BY DEF SearchThrows
<1>5. SearchTypeOK'
  BY <1>3, <1>4, StartTyped, SearchShapesNext
<1>6. TraceInv'
  BY <1>3, <1>4 DEF TraceInv, TraceTold, Tells
<1>. QED BY <1>3, <1>5, <1>6 DEF KeptInv, StartInv, TodoInv, FoundInv, ChunksInv, SurvivorsKept

\* A request starts with nothing found.
LEMMA SearchBasesSafe ==
  ASSUME KeptInv, NEW kind \in Kinds, NEW bases \in SUBSET Bases, NEW queries \in Queries,
         NEW channels \in SUBSET Channels, NEW limit \in Limits,
         SearchBases(kind, bases, queries, channels, limit)
  PROVE  KeptInv'
<1>1. PICK graphOn \in BOOLEAN, elastic \in BOOLEAN :
        ask' = [at |-> IF kind = "persona" THEN "embed" ELSE "sub-queries",
               kind |-> kind, channels |-> channels, limit |-> limit,
               bases |-> bases, queries |-> queries,
               visible |-> {}, embedded |-> {},
               graphOn |-> graphOn, elastic |-> elastic]
  BY DEF SearchBases
<1>2. ask' \in AskRec /\ ask'.at \in {"embed", "sub-queries"}
  <2>1. limit \in Nat /\ queries \in Nat \ {0}
    BY LimitsAreCounts DEF Queries
  <2>. QED BY <1>1, <2>1 DEF AskRec, Stages
<1>3. /\ found' = found /\ lostBases' = lostBases /\ report' = report /\ answer' = answer
      /\ found0' = found0 /\ worked' = worked /\ crowded' = crowded
      /\ todo' = bases \X (1..queries) /\ ask.at = "idle"
  BY DEF SearchBases
<1>4. SearchTypeOK'
  <2>1. 1..queries \subseteq Queries
    BY LimitsAreCounts DEF Queries
  <2>. QED BY <1>2, <1>3, <2>1, SearchShapes, SearchShapesNext DEF KeptInv
<1>5. /\ found0 = NothingByBase /\ lostBases = {}
      /\ report = [b \in Bases |-> Report0] /\ worked = [b \in Bases |-> {}]
  BY <1>3 DEF KeptInv, StartInv
<1>6. FoundInv' /\ TodoInv'
  BY <1>3, <1>5, StartTyped DEF FoundInv, TodoInv
<1>7. TraceInv'
  <2>1. ask'.channels \subseteq Channels
    BY <1>2 DEF AskRec
  <2>. QED BY <1>3, <1>5, <2>1, StartTyped DEF TraceInv, TraceTold, Tells
<1>. QED BY <1>2, <1>3, <1>4, <1>5, <1>6, <1>7
         DEF KeptInv, StartInv, ChunksInv, SurvivorsKept

\* The embeddings change nothing that is found.
LEMMA EmbedSafe ==
  ASSUME KeptInv, NEW embedded \in SUBSET Queries, EmbedQueries(embedded)
  PROVE  KeptInv'
<1>1. PICK y \in AskRec : y = ask
  BY SearchShapes DEF KeptInv
<1>2. PICK e \in SUBSET Queries : e = IF "vector" \in ask.channels THEN embedded ELSE {}
  OBVIOUS
<1>2a. ask' = [y EXCEPT !.at = "sub-queries", !.embedded = e]
  BY <1>1, <1>2 DEF EmbedQueries
<1>3. ask' \in AskRec /\ ask'.at = "sub-queries" /\ ask'.channels = ask.channels
  BY <1>1, <1>2, <1>2a DEF AskRec, Stages
<1>4. /\ found' = found /\ lostBases' = lostBases /\ report' = report /\ answer' = answer
      /\ found0' = found0 /\ worked' = worked /\ crowded' = crowded /\ todo' = todo
      /\ ask.at = "embed"
  BY DEF EmbedQueries
<1>5. SearchTypeOK'
  BY <1>3, <1>4, SearchShapes, SearchShapesNext DEF KeptInv
<1>6. found0 = NothingByBase /\ lostBases = {}
  BY <1>4 DEF KeptInv, StartInv
<1>7. FoundInv' /\ TodoInv'
  BY <1>4, <1>6, StartTyped DEF FoundInv, TodoInv
<1>8. TraceInv'
  BY <1>3, <1>4, TraceStays DEF KeptInv
<1>. QED BY <1>3, <1>5, <1>7, <1>8 DEF KeptInv, StartInv, ChunksInv, SurvivorsKept

\* A result of the keyword channel says whether PostgreSQL stood in.
LEMMA KeywordTyped ==
  ASSUME NEW k \in KeywordResults
  PROVE  k.fallback \in BOOLEAN
<1>. DEFINE Result == [failed : BOOLEAN, found : SUBSET Found, fallback : BOOLEAN]
<1>1. Skip \in Result /\ Fail \in Result
  BY DEF Skip, Fail
<1>2. \A set \in Finds : Ok(set) \in Result
  BY DEF Finds, Ok, Skip
<1>3. PgRetrieve \subseteq Result /\ ElasticRetrieve \subseteq Result
  BY <1>1, <1>2 DEF PgRetrieve, ElasticRetrieve
<1>4. \A r \in Result : [r EXCEPT !.fallback = ~r.failed] \in Result
  OBVIOUS
<1>. HIDE DEF Result
<1>5. InsteadOfElastic \subseteq Result
  BY <1>3, <1>4 DEF InsteadOfElastic
<1>6. KeywordResults \subseteq Result
  BY <1>1, <1>3, <1>5 DEF KeywordResults
<1>7. k \in Result
  BY <1>6
<1>. QED BY <1>7 DEF Result

\* Fusing twice keeps all that the channels returned, if that is no more than
\* the share of the query.
LEMMA FusedKeepsAll ==
  ASSUME ask \in AskRec, NEW hybrid \in HitsRec, NEW graphs \in HitsRec,
         NEW best \in Best(Held(hybrid), PerQueryTopK),
         NEW fused \in HitsRec, fused = Join2(Only(hybrid, best), graphs),
         NEW kept \in Best(Held(fused), PerQueryTopK),
         Cardinality(Held(Join2(hybrid, graphs))) <= PerQueryTopK
  PROVE  \A c \in Found : Join2(hybrid, graphs)[c] \subseteq Only(fused, kept)[c]
<1>1. PICK all \in HitsRec : all = Join2(hybrid, graphs)
  BY HitsTyped
<1>2. PICK top \in Int : top = PerQueryTopK
  BY ShareIsCount
<1>3. \A c \in Found : all[c] = hybrid[c] \cup graphs[c]
  BY <1>1, HitsTyped
<1>4. Cardinality(Held(all)) <= top
  BY <1>1, <1>2
<1>5. Cardinality(Held(hybrid)) <= top
  <2>1. /\ Cardinality(Held(hybrid)) \in Nat /\ Cardinality(Held(all)) \in Nat
        /\ Cardinality(Held(hybrid)) <= Cardinality(Held(all))
    BY <1>3, HeldFinite
  <2>. QED BY <1>4, <2>1
<1>6. best = Held(hybrid)
  BY <1>2, <1>5, BestAreAll
<1>7. \A c \in Found : fused[c] = all[c]
  <2>1. PICK only \in HitsRec : /\ only = Only(hybrid, best)
                                /\ \A c \in Found : only[c] = IF c \in best THEN hybrid[c] ELSE {}
    BY HitsTyped
  <2>2. \A c \in Found : only[c] = hybrid[c]
    BY <1>6, <2>1 DEF Held
  <2>3. \A c \in Found : Join2(only, graphs)[c] = only[c] \cup graphs[c]
    BY HitsTyped
  <2>. QED BY <1>3, <2>1, <2>2, <2>3
<1>8. Cardinality(Held(fused)) <= top
  <2>1. /\ Cardinality(Held(fused)) \in Nat /\ Cardinality(Held(all)) \in Nat
        /\ Cardinality(Held(fused)) <= Cardinality(Held(all))
    BY <1>7, HeldFinite
  <2>. QED BY <1>4, <2>1
<1>9. kept = Held(fused)
  BY <1>2, <1>8, BestAreAll
<1>10. \A c \in Found : Only(fused, kept)[c] = fused[c]
  <2>1. \A c \in Found : Only(fused, kept)[c] = IF c \in kept THEN fused[c] ELSE {}
    BY HitsTyped
  <2>. QED BY <1>9, <2>1 DEF Held
<1>. QED BY <1>1, <1>7, <1>10

\* The trace of a base with that of one more sub-query tells of both.
LEMMA TracedTells ==
  ASSUME ask \in AskRec, NEW r \in ReportRec, NEW skipped \in SUBSET Channels,
         NEW fallback \in BOOLEAN, NEW did \in SUBSET Channels,
         Tells(r, did),
         NEW s, s = Traced(r, skipped, fallback),
         NEW now, now = did \cup (Channels \ skipped)
  PROVE  /\ s \in ReportRec
         /\ Tells(s, now)
<1>1. PICK channels \in SUBSET Channels : channels = ask.channels
  BY DEF AskRec
<1>2. /\ s.skipped = r.skipped \cap skipped
      /\ s.backends = r.backends \cup (channels \cap {"vector"})
                                 \cup ({"keyword", "graph"} \ skipped)
      /\ s \in ReportRec
  BY <1>1 DEF Traced, ReportRec, Channels
<1>3. ASSUME NEW ch \in channels \ {"graph"}
      PROVE  /\ ch \in now <=> ch \notin s.skipped
             /\ ch \in now => ch \in s.backends
  <2>1. ch \in Channels /\ ch \in {"vector", "keyword"}
    BY <1>1, <1>3 DEF Channels
  <2>2. ch \in now <=> ch \in did \/ ch \notin skipped
    BY <2>1
  <2>3. /\ ch \in did <=> ch \notin r.skipped
        /\ ch \in did => ch \in r.backends
    BY <1>1, <1>3 DEF Tells
  <2>. QED BY <1>2, <1>3, <2>1, <2>2, <2>3
<1>. QED BY <1>1, <1>2, <1>3 DEF Tells

Leaves(b, all, kept, r, did) ==
  /\ found' = [found EXCEPT ![b] = Join2(found[b], kept)]
  /\ found0' = [found0 EXCEPT ![b] = Join2(found0[b], all)]
  /\ report' = [report EXCEPT ![b] = r] /\ worked' = [worked EXCEPT ![b] = did]
  /\ \A c \in Found : all[c] \subseteq kept[c]
  /\ TraceTold(b) => Tells(r, did)

\* What a sub-query leaves at its base: a lost one nothing, another what its
\* channels returned, if that is no more than its share, and its trace.
LEMMA SubQueryLeaves ==
  ASSUME KeptInv, NEW b \in Bases, NEW q \in Queries, NEW filtered \in BOOLEAN,
         SubQuery(b, q, filtered)
  PROVE  \E all, kept \in HitsRec, r \in ReportRec, did \in SUBSET Channels :
           Leaves(b, all, kept, r, did)
<1>1. PICK v \in VectorResults(q), k \in KeywordResults, g \in GraphResults :
       LET hybrid == VectorAndKeyword(v, k)
           all == Join2(hybrid, GraphChunks(g))
       IN
       /\ ~filtered => g.found # {}
       /\ IF SubQueryFails(v, k, filtered)
          THEN UNCHANGED <<found, report>>
          ELSE /\ \E best \in Best(Held(hybrid), PerQueryTopK) :
                    LET fused == Join2(Only(hybrid, best), GraphChunks(g)) IN
                    \E kept \in Best(Held(fused), PerQueryTopK) :
                      found' = [found EXCEPT ![b] = Join2(@, Only(fused, kept))]
               /\ report' = [report EXCEPT ![b] =
                               Traced(@, SkippedChannels(v, k), k.fallback)]
       /\ worked' = [worked EXCEPT ![b] = @ \cup
                       IF filtered THEN Channels \ SkippedChannels(v, k) ELSE {}]
       /\ found0' = [found0 EXCEPT ![b] = Join2(@,
            IF filtered /\ Cardinality(Held(all)) <= PerQueryTopK THEN all ELSE Nothing)]
  BY DEF SubQuery
<1>2. PICK hybrid \in HitsRec : hybrid = VectorAndKeyword(v, k)
  BY DEF VectorAndKeyword, HitsRec, Channels
<1>3. PICK graphs \in HitsRec : graphs = GraphChunks(g)
  BY DEF GraphChunks, HitsRec, Channels
<1>4. /\ ask \in AskRec /\ found \in [Bases -> HitsRec] /\ found0 \in [Bases -> HitsRec]
      /\ report \in [Bases -> ReportRec] /\ worked \in [Bases -> SUBSET Channels]
  BY SearchShapes DEF KeptInv
<1>5. PICK r0 \in ReportRec, did0 \in SUBSET Channels : r0 = report[b] /\ did0 = worked[b]
  BY <1>4
<1>6. TraceTold(b) => Tells(r0, did0)
  BY <1>5 DEF TraceTold
<1>7. PICK all \in HitsRec :
        /\ all = IF filtered /\ Cardinality(Held(Join2(hybrid, graphs))) <= PerQueryTopK
                 THEN Join2(hybrid, graphs) ELSE Nothing
        /\ found0' = [found0 EXCEPT ![b] = Join2(found0[b], all)]
  <2>1. Join2(hybrid, graphs) \in HitsRec /\ Nothing \in HitsRec
    BY HitsTyped
  <2>. QED BY <1>1, <1>2, <1>3, <2>1
<1>8. CASE ~filtered
  <2>1. found' = found /\ report' = report /\ worked' = [worked EXCEPT ![b] = did0 \cup {}]
    BY <1>1, <1>5, <1>8 DEF SubQueryFails
  <2>2. Nothing \in HitsRec /\ all = Nothing
    BY <1>7, <1>8, HitsTyped
  <2>3. found[b] \in HitsRec
    BY <1>4
  <2>4. Join2(found[b], Nothing) = found[b]
    BY <2>3 DEF Join2, HitsRec, Nothing
  <2>5. found' = [found EXCEPT ![b] = Join2(found[b], Nothing)] /\ report' = [report EXCEPT ![b] = r0]
    BY <1>4, <1>5, <2>1, <2>4
  <2>6. worked' = [worked EXCEPT ![b] = did0]
    BY <2>1
  <2>7. \A c \in Found : all[c] \subseteq Nothing[c]
    BY <2>2
  <2>8. Leaves(b, all, Nothing, r0, did0)
    BY <1>6, <1>7, <2>5, <2>6, <2>7 DEF Leaves
  <2>. QED BY <2>2, <2>8
<1>9. CASE filtered
  <2>1. PICK best \in Best(Held(hybrid), PerQueryTopK) :
           \E top \in Best(Held(Join2(Only(hybrid, best), graphs)), PerQueryTopK) :
             found' = [found EXCEPT ![b] = Join2(@, Only(Join2(Only(hybrid, best), graphs), top))]
    BY <1>1, <1>2, <1>3, <1>9 DEF SubQueryFails
  <2>2. PICK fused \in HitsRec : fused = Join2(Only(hybrid, best), graphs)
    <3>1. Only(hybrid, best) \in HitsRec
      BY HitsTyped
    <3>. QED BY <3>1, HitsTyped
  <2>3. PICK top \in Best(Held(fused), PerQueryTopK) :
           found' = [found EXCEPT ![b] = Join2(found[b], Only(fused, top))]
    BY <2>1, <2>2
  <2>4. PICK kept \in HitsRec : kept = Only(fused, top)
    BY HitsTyped
  <2>5. \A c \in Found : all[c] \subseteq kept[c]
    <3>1. CASE Cardinality(Held(Join2(hybrid, graphs))) <= PerQueryTopK
      <4>1. all = Join2(hybrid, graphs)
        BY <1>7, <1>9, <3>1
      <4>2. \A c \in Found : Join2(hybrid, graphs)[c] \subseteq Only(fused, top)[c]
        BY <1>4, <2>2, <3>1, FusedKeepsAll
      <4>. QED BY <2>4, <4>1, <4>2
    <3>2. CASE ~(Cardinality(Held(Join2(hybrid, graphs))) <= PerQueryTopK)
      BY <1>7, <3>2, HitsTyped
    <3>. QED BY <3>1, <3>2
  <2>6. PICK skipped \in SUBSET Channels : skipped = SkippedChannels(v, k)
    BY DEF SkippedChannels, Channels
  <2>7. PICK s : s = Traced(r0, skipped, k.fallback)
    OBVIOUS
  <2>8. PICK did \in SUBSET Channels : did = did0 \cup (Channels \ skipped)
    OBVIOUS
  <2>9. report' = [report EXCEPT ![b] = s] /\ worked' = [worked EXCEPT ![b] = did]
    BY <1>1, <1>5, <1>9, <2>6, <2>7, <2>8 DEF SubQueryFails
  <2>10. s \in ReportRec
    <3>1. PICK channels \in SUBSET Channels : channels = ask.channels
      BY <1>4 DEF AskRec
    <3>2. k.fallback \in BOOLEAN
      BY KeywordTyped
    <3>. QED BY <2>7, <3>1, <3>2 DEF Traced, ReportRec, Channels
  <2>11. TraceTold(b) => Tells(s, did)
    <3>1. PICK fallback \in BOOLEAN : fallback = k.fallback
      BY KeywordTyped
    <3>2. s = Traced(r0, skipped, fallback)
      BY <2>7, <3>1
    <3>3. SUFFICES ASSUME Tells(r0, did0)
                   PROVE  Tells(s, did)
      BY <1>6
    <3>. QED BY <1>4, <2>8, <3>2, <3>3, TracedTells
  <2>12. Leaves(b, all, kept, s, did)
    BY <1>7, <2>3, <2>4, <2>5, <2>9, <2>11 DEF Leaves
  <2>. QED BY <2>10, <2>12
<1>. QED BY <1>8, <1>9

\* A sub-query adds to its base and leaves the others.
LEMMA SubQuerySafe ==
  ASSUME KeptInv, NEW b \in Bases, NEW q \in Queries, NEW filtered \in BOOLEAN,
         SubQuery(b, q, filtered)
  PROVE  KeptInv'
<1>0. PICK all, kept \in HitsRec, r \in ReportRec, did \in SUBSET Channels :
        Leaves(b, all, kept, r, did)
  BY SubQueryLeaves
<1>1. /\ found' = [found EXCEPT ![b] = Join2(found[b], kept)]
      /\ found0' = [found0 EXCEPT ![b] = Join2(found0[b], all)]
      /\ report' = [report EXCEPT ![b] = r] /\ worked' = [worked EXCEPT ![b] = did]
      /\ \A c \in Found : all[c] \subseteq kept[c]
      /\ TraceTold(b) => Tells(r, did)
  BY <1>0 DEF Leaves
<1>2. /\ ask' = ask /\ lostBases' = lostBases /\ answer' = answer /\ crowded' = crowded
      /\ ask.at = "sub-queries" /\ <<b, q>> \in todo /\ todo' \subseteq todo
  BY DEF SubQuery
<1>3. /\ ask \in AskRec /\ todo \subseteq Bases \X Queries /\ found \in [Bases -> HitsRec]
      /\ lostBases \subseteq Bases /\ report \in [Bases -> ReportRec] /\ answer \in AnswerRec
      /\ found0 \in [Bases -> HitsRec] /\ worked \in [Bases -> SUBSET Channels]
      /\ crowded \in BOOLEAN
  BY SearchShapes DEF KeptInv
<1>4. b \notin lostBases
  BY <1>2 DEF KeptInv, TodoInv
<1>5. PICK h \in HitsRec, h0 \in HitsRec :
        /\ h = Join2(found[b], kept) /\ h0 = Join2(found0[b], all)
        /\ \A c \in Found : h[c] = found[b][c] \cup kept[c] /\ h0[c] = found0[b][c] \cup all[c]
  <2>1. found[b] \in HitsRec /\ found0[b] \in HitsRec
    BY <1>3
  <2>2. PICK f \in HitsRec, f0 \in HitsRec : f = found[b] /\ f0 = found0[b]
    BY <2>1
  <2>3. Join2(f, kept) \in HitsRec /\ \A c \in Found : Join2(f, kept)[c] = f[c] \cup kept[c]
    BY HitsTyped
  <2>4. Join2(f0, all) \in HitsRec /\ \A c \in Found : Join2(f0, all)[c] = f0[c] \cup all[c]
    BY HitsTyped
  <2>. QED BY <2>2, <2>3, <2>4
<1>6. /\ found' \in [Bases -> HitsRec] /\ found0' \in [Bases -> HitsRec]
      /\ found'[b] = h /\ found0'[b] = h0
      /\ \A e \in Bases : e # b => found'[e] = found[e] /\ found0'[e] = found0[e]
  BY <1>1, <1>3, <1>5
<1>7. /\ report' \in [Bases -> ReportRec] /\ worked' \in [Bases -> SUBSET Channels]
      /\ report'[b] = r /\ worked'[b] = did
      /\ \A e \in Bases : e # b => report'[e] = report[e] /\ worked'[e] = worked[e]
  BY <1>1, <1>3
<1>8. SearchTypeOK'
  BY <1>2, <1>3, <1>6, <1>7, SearchShapesNext
<1>9. FoundInv'
  <2>1. \A e \in Bases \ lostBases, c \in Found : found0[e][c] \subseteq found[e][c]
    BY <1>2 DEF KeptInv, FoundInv
  <2>2. ASSUME NEW e \in Bases \ lostBases, NEW c \in Found
        PROVE  found0'[e][c] \subseteq found'[e][c]
    <3>1. CASE e = b
      BY <1>1, <1>5, <1>6, <2>1, <3>1
    <3>2. CASE e # b
      BY <1>6, <2>1, <3>2
    <3>. QED BY <3>1, <3>2
  <2>. QED BY <1>2, <2>2 DEF FoundInv
<1>10. TraceInv'
  <2>1. /\ \A e \in Bases \ lostBases : TraceTold(e)
        /\ \A e \in lostBases : report[e] = Report0
    BY <1>2 DEF KeptInv, TraceInv
  <2>2. ASSUME NEW e \in Bases \ lostBases
        PROVE  TraceTold(e)'
    <3>1. CASE e = b
      BY <1>1, <1>2, <1>7, <2>1, <3>1 DEF TraceTold, Tells
    <3>2. CASE e # b
      BY <1>2, <1>7, <2>1, <3>2 DEF TraceTold, Tells
    <3>. QED BY <3>1, <3>2
  <2>3. \A e \in lostBases : report'[e] = Report0
    BY <1>3, <1>4, <1>7, <2>1
  <2>. QED BY <1>2, <2>2, <2>3 DEF TraceInv
<1>11. StartInv' /\ TodoInv' /\ ChunksInv' /\ SurvivorsKept'
  BY <1>2 DEF KeptInv, StartInv, TodoInv, ChunksInv, SurvivorsKept
<1>. QED BY <1>8, <1>9, <1>10, <1>11 DEF KeptInv

\* A base that fails ends the search, or is left out with its trace.
LEMMA BaseFailsSafe ==
  ASSUME KeptInv, NEW b \in Bases, BaseFails(b)
  PROVE  KeptInv'
<1>1. CASE ask.kind # "bases"
  BY <1>1, ThrowsSafe DEF BaseFails
<1>2. CASE ask.kind = "bases"
  <2>1. /\ ask' = ask /\ answer' = answer /\ found0' = found0 /\ worked' = worked
        /\ crowded' = crowded /\ lostBases' = lostBases \cup {b}
        /\ todo' = {t \in todo : t[1] # b} /\ found' = [found EXCEPT ![b] = Nothing]
        /\ report' = [report EXCEPT ![b] = Report0] /\ ask.at = "sub-queries"
    BY <1>2 DEF BaseFails
  <2>2. /\ ask \in AskRec /\ todo \subseteq Bases \X Queries /\ found \in [Bases -> HitsRec]
        /\ lostBases \subseteq Bases /\ report \in [Bases -> ReportRec] /\ answer \in AnswerRec
        /\ found0 \in [Bases -> HitsRec] /\ worked \in [Bases -> SUBSET Channels]
        /\ crowded \in BOOLEAN
    BY SearchShapes DEF KeptInv
  <2>3. /\ found' \in [Bases -> HitsRec] /\ report' \in [Bases -> ReportRec]
        /\ report'[b] = Report0
        /\ \A e \in Bases : e # b => found'[e] = found[e] /\ report'[e] = report[e]
    <3>1. Nothing \in HitsRec /\ Report0 \in ReportRec
      BY HitsTyped, StartTyped DEF HitsRec, Nothing
    <3>. QED BY <2>1, <2>2, <3>1
  <2>4. SearchTypeOK'
    BY <2>1, <2>2, <2>3, SearchShapesNext
  <2>5. FoundInv' /\ TodoInv'
    BY <2>1, <2>2, <2>3 DEF KeptInv, FoundInv, TodoInv
  <2>6. TraceInv'
    <3>1. /\ \A e \in Bases \ lostBases : TraceTold(e)
          /\ \A e \in lostBases : report[e] = Report0
      BY <2>1 DEF KeptInv, TraceInv
    <3>2. \A e \in Bases \ lostBases' : TraceTold(e)'
      BY <2>1, <2>3, <3>1 DEF TraceTold, Tells
    <3>3. \A e \in lostBases' : report'[e] = Report0
      BY <2>1, <2>2, <2>3, <3>1
    <3>. QED BY <3>2, <3>3 DEF TraceInv
  <2>. QED BY <2>1, <2>4, <2>5, <2>6 DEF KeptInv, StartInv, ChunksInv, SurvivorsKept
<1>. QED BY <1>1, <1>2

\* The bases are merged into the chunks of the answer; where the limit has room
\* nothing is dropped.
LEMMA MergeSafe ==
  ASSUME KeptInv, MergeBases
  PROVE  KeptInv'
<1>1. /\ ask.at = "sub-queries" /\ AskGoes("expand") /\ lostBases' = lostBases
      /\ report' = report /\ todo' = todo /\ found0' = found0 /\ worked' = worked
      /\ found' = NothingByBase
      /\ crowded' = (Cardinality(Held(Union(Survivors))) > ask.limit)
  BY DEF MergeBases
<1>2. PICK best \in Best(Held(Union(Survivors)), ask.limit), near \in Finds :
        answer' = [answer EXCEPT !.chunks = [c \in Found |->
          Only(Union(Survivors), best)[c] \cup
          IF c \in ExpandChunks(best, near) THEN {"context"} ELSE {}]]
  BY DEF MergeBases
<1>3. PICK hits : hits = Union(Survivors)
  OBVIOUS
<1>4. /\ ask \in AskRec /\ todo \subseteq Bases \X Queries /\ found \in [Bases -> HitsRec]
      /\ lostBases \subseteq Bases /\ report \in [Bases -> ReportRec] /\ answer \in AnswerRec
      /\ found0 \in [Bases -> HitsRec] /\ worked \in [Bases -> SUBSET Channels]
  BY SearchShapes DEF KeptInv
<1>5. /\ ask' \in AskRec /\ ask'.at = "expand" /\ ask'.bases = ask.bases
      /\ ask'.channels = ask.channels
  BY <1>1, AskMoves DEF KeptInv, Stages
<1>6. Survivors \subseteq Bases /\ Survivors \cap lostBases = {} /\ Survivors' = Survivors
  BY <1>1, <1>4, <1>5 DEF Survivors, AskRec
<1>7. hits \in HitsRec
  <2>1. \A b \in Bases, c \in Found : found[b][c] \subseteq Channels
    BY <1>4 DEF HitsRec
  <2>2. \A c \in Found : UNION {found[b][c] : b \in Survivors} \subseteq Channels
    BY <1>6, <2>1
  <2>. QED BY <1>3, <2>2 DEF Union, HitsRec
<1>8. PICK chunks \in ChunksRec :
        /\ answer' = [answer EXCEPT !.chunks = chunks]
        /\ \A c \in best : c \in Found => hits[c] \subseteq chunks[c]
  <2>. DEFINE e == [c \in Found |-> Only(hits, best)[c] \cup
                      IF c \in ExpandChunks(best, near) THEN {"context"} ELSE {}]
  <2>1. \A c \in Found : Only(hits, best)[c] = IF c \in best THEN hits[c] ELSE {}
    BY DEF Only
  <2>2. \A c \in Found : hits[c] \subseteq Channels
    BY <1>7 DEF HitsRec
  <2>3. e \in ChunksRec
    BY <2>1, <2>2 DEF ChunksRec
  <2>4. \A c \in best : c \in Found => hits[c] \subseteq e[c]
    BY <2>1
  <2>. QED BY <1>2, <1>3, <2>3, <2>4
<1>9. answer' \in AnswerRec /\ answer'.chunks = chunks
  <2>1. PICK y \in AnswerRec : y = answer
    BY <1>4
  <2>2. answer' = [y EXCEPT !.chunks = chunks]
    BY <1>8, <2>1
  <2>. QED BY <2>1, <2>2 DEF AnswerRec
<1>10. SearchTypeOK'
  BY <1>1, <1>4, <1>5, <1>9, StartTyped, SearchShapesNext
<1>11. ChunksInv'
  <2>. SUFFICES ASSUME ~crowded', NEW b \in Survivors, NEW c \in Found, NEW ch \in found0[b][c]
                PROVE  ch \in chunks[c]
    BY <1>1, <1>6, <1>9 DEF ChunksInv
  <2>1. ch \in found[b][c]
    BY <1>1, <1>6 DEF KeptInv, FoundInv
  <2>2. ch \in hits[c]
    BY <1>3, <2>1 DEF Union
  <2>3. Cardinality(Held(hits)) <= ask.limit
    <3>1. Cardinality(Held(hits)) \in Nat
      BY HeldFinite
    <3>2. ask.limit \in Nat
      BY <1>4 DEF AskRec
    <3>3. crowded' <=> Cardinality(Held(hits)) > ask.limit
      BY <1>1, <1>3
    <3>. QED BY <3>1, <3>2, <3>3
  <2>4. best = Held(hits)
    BY <1>2, <1>3, <2>3, BestAreAll
  <2>5. c \in best
    BY <2>2, <2>4 DEF Held
  <2>. QED BY <1>8, <2>2, <2>5
<1>12. TraceInv'
  BY <1>1, <1>5, TraceStays DEF KeptInv
<1>. QED BY <1>5, <1>10, <1>11, <1>12 DEF KeptInv, StartInv, TodoInv, FoundInv, SurvivorsKept

\* The graph only adds chunks.
LEMMA ExpandSafe ==
  ASSUME KeptInv, ExpandGraph
  PROVE  KeptInv'
<1>1. /\ ask.at = "expand" /\ AskGoes("filter") /\ lostBases' = lostBases /\ report' = report
      /\ todo' = todo /\ found' = found /\ found0' = found0 /\ worked' = worked
      /\ crowded' = crowded
  BY DEF ExpandGraph
<1>2. PICK more : answer' = [answer EXCEPT !.chunks = [c \in Found |->
         answer.chunks[c] \cup IF c \in more \ Held(answer.chunks) THEN {"graph"} ELSE {}]]
  BY DEF ExpandGraph
<1>3. /\ ask' \in AskRec /\ ask'.at = "filter" /\ ask'.bases = ask.bases
      /\ ask'.channels = ask.channels
  BY <1>1, AskMoves DEF KeptInv, Stages
<1>4. PICK y \in AnswerRec : y = answer
  BY SearchShapes DEF KeptInv
<1>5. PICK chunks \in ChunksRec : /\ answer' = [y EXCEPT !.chunks = chunks]
                                  /\ \A c \in Found : y.chunks[c] \subseteq chunks[c]
  <2>. DEFINE e == [c \in Found |->
         y.chunks[c] \cup IF c \in more \ Held(y.chunks) THEN {"graph"} ELSE {}]
  <2>1. y.chunks \in ChunksRec
    BY <1>4 DEF AnswerRec
  <2>2. e \in ChunksRec
    BY <2>1 DEF ChunksRec, Channels
  <2>. QED BY <1>2, <1>4, <2>2
<1>6. answer' \in AnswerRec /\ answer'.chunks = chunks
  BY <1>4, <1>5 DEF AnswerRec
<1>7. SearchTypeOK'
  BY <1>1, <1>3, <1>6, SearchShapes, SearchShapesNext DEF KeptInv
<1>8. ChunksInv'
  <2>1. ~crowded => \A b \in Survivors, c \in Found : found0[b][c] \subseteq answer.chunks[c]
    BY <1>1 DEF KeptInv, ChunksInv
  <2>2. Survivors' = Survivors
    BY <1>1, <1>3 DEF Survivors
  <2>. QED BY <1>1, <1>4, <1>5, <1>6, <2>1, <2>2 DEF ChunksInv
<1>9. TraceInv'
  BY <1>1, <1>3, TraceStays DEF KeptInv
<1>. QED BY <1>3, <1>7, <1>8, <1>9 DEF KeptInv, StartInv, TodoInv, FoundInv, SurvivorsKept

\* The filter keeps what the request may see.
LEMMA FilterSafe ==
  ASSUME KeptInv, NEW failed \in BOOLEAN, NEW visible \in SUBSET Found,
         FilterChunks(failed, visible)
  PROVE  KeptInv'
<1>1. /\ ask.at = "filter" /\ lostBases' = lostBases /\ report' = report /\ todo' = todo
      /\ found' = found /\ worked' = worked /\ crowded' = crowded
      /\ ask' = [ask EXCEPT !.at = "rerank", !.visible = visible]
      /\ answer' = [answer EXCEPT !.chunks = Only(@, IF failed THEN {} ELSE visible)]
      /\ found0' = IF failed THEN NothingByBase ELSE found0
  BY DEF FilterChunks
<1>2. PICK x \in AskRec : x = ask
  BY SearchShapes DEF KeptInv
<1>3. /\ ask' \in AskRec /\ ask'.at = "rerank" /\ ask'.visible = visible
      /\ ask'.bases = ask.bases /\ ask'.channels = ask.channels
  BY <1>1, <1>2 DEF AskRec, Stages
<1>4. PICK y \in AnswerRec : y = answer
  BY SearchShapes DEF KeptInv
<1>5. PICK chunks \in ChunksRec :
        chunks = [c \in Found |-> IF c \in (IF failed THEN {} ELSE visible) THEN y.chunks[c] ELSE {}]
  <2>1. y.chunks \in ChunksRec
    BY <1>4 DEF AnswerRec
  <2>. QED BY <2>1 DEF ChunksRec
<1>6. answer' = [y EXCEPT !.chunks = chunks]
  BY <1>1, <1>4, <1>5 DEF Only, AnswerRec
<1>7. answer' \in AnswerRec /\ answer'.chunks = chunks
  BY <1>4, <1>6 DEF AnswerRec
<1>8. SearchTypeOK'
  <2>1. found0' \in [Bases -> HitsRec]
    BY <1>1, StartTyped, SearchShapes DEF KeptInv
  <2>. QED BY <1>1, <1>3, <1>7, <2>1, SearchShapes, SearchShapesNext DEF KeptInv
<1>9. Survivors' = Survivors /\ Survivors \subseteq Bases
  BY <1>1, <1>2, <1>3 DEF Survivors, AskRec
<1>10. SurvivorsKept'
  <2>. SUFFICES ASSUME ~crowded, NEW b \in Survivors, NEW c \in visible, NEW ch \in found0'[b][c]
                PROVE  ch \in chunks[c]
    BY <1>1, <1>3, <1>7, <1>9 DEF SurvivorsKept
  <2>1. ~failed
    BY <1>1, <1>9, StartTyped
  <2>2. ch \in found0[b][c]
    BY <1>1, <2>1
  <2>3. ch \in y.chunks[c]
    BY <1>1, <1>4, <2>2 DEF KeptInv, ChunksInv
  <2>. QED BY <1>5, <2>1, <2>3
<1>11. TraceInv'
  BY <1>1, <1>3, TraceStays DEF KeptInv
<1>. QED BY <1>3, <1>8, <1>10, <1>11 DEF KeptInv, StartInv, TodoInv, FoundInv, ChunksInv

\* A channel is reported degraded exactly if none of its sub-queries answered.
LEMMA DegradedTold ==
  ASSUME KeptInv, ask.at # "done", NEW failed \in BOOLEAN,
         NEW ch \in ask.channels \ {"graph"}
  PROVE  ch \in Degraded(failed) <=> \A b \in Survivors : ch \notin worked[b]
<1>1. /\ ask.channels \subseteq Channels /\ ask.bases \subseteq Bases
  BY SearchShapes DEF KeptInv, AskRec
<1>2. /\ \A b \in Bases \ lostBases : TraceTold(b)
      /\ \A b \in lostBases : report[b] = Report0
  BY DEF KeptInv, TraceInv
<1>3. ch \in {"vector", "keyword"}
  BY <1>1 DEF Channels
<1>4. ch \in Degraded(failed) <=> \/ \A b \in ask.bases : ch \in report[b].skipped
                                  \/ \A b \in ask.bases : ch \notin report[b].backends
  BY <1>3 DEF Degraded
<1>5. \A b \in Survivors : /\ ch \in worked[b] <=> ch \notin report[b].skipped
                           /\ ch \in worked[b] => ch \in report[b].backends
  BY <1>1, <1>2 DEF Survivors, TraceTold, Tells
<1>6. \A b \in ask.bases \ Survivors : /\ ch \in report[b].skipped
                                       /\ ch \notin report[b].backends
  BY <1>1, <1>2, StartTyped DEF Survivors
<1>. QED BY <1>4, <1>5, <1>6 DEF Survivors

\* The answer tells of the channels that did not work.
LEMMA RerankSafe ==
  ASSUME KeptInv, NEW failed \in BOOLEAN, RerankChunks(failed)
  PROVE  KeptInv'
<1>1. /\ ask.at = "rerank" /\ todo' = todo /\ found' = found
      /\ report' = [b \in Bases |-> Report0] /\ worked' = worked /\ crowded' = crowded
      /\ found0' = NothingByBase /\ lostBases' = {}
      /\ ask' = [Ask0 EXCEPT !.at = "done", !.channels = ask.channels, !.bases = Survivors]
  BY DEF RerankChunks
<1>2. PICK ranked : /\ ranked \in IF failed THEN Best(Held(answer.chunks), ask.limit)
                                  ELSE SUBSET Held(answer.chunks)
                    /\ answer' = [chunks |-> Nothing, ranked |-> ranked,
                                  degraded |-> Degraded(failed)]
  BY DEF RerankChunks
<1>3. ranked \subseteq Found
  BY <1>2, BestTyped DEF Held
<1>4. PICK channels \in SUBSET Channels, bases \in SUBSET Bases :
        channels = ask.channels /\ bases = Survivors
  BY SearchShapes DEF KeptInv, AskRec, Survivors
<1>5. PICK y \in AskRec : y = Ask0
  BY StartTyped
<1>6. ask' = [y EXCEPT !.at = "done", !.channels = channels, !.bases = bases]
  BY <1>1, <1>4, <1>5
<1>7. ask' \in AskRec /\ ask'.at = "done" /\ ask'.channels = channels /\ ask'.bases = bases
  BY <1>5, <1>6 DEF AskRec, Stages
<1>8. Degraded(failed) \in SUBSET (Channels \cup {"rerank", "fallback"})
  BY <1>4 DEF Degraded
<1>9. answer' \in AnswerRec /\ answer'.degraded = Degraded(failed)
  BY <1>2, <1>3, <1>8 DEF AnswerRec, ChunksRec, Nothing
<1>10. SearchTypeOK'
  BY <1>1, <1>7, <1>9, StartTyped, SearchShapes, SearchShapesNext DEF KeptInv
<1>11. SurvivorsKept'
  BY <1>1, <1>4, <1>7, <1>9, DegradedTold DEF SurvivorsKept
<1>. QED BY <1>7, <1>10, <1>11 DEF KeptInv, StartInv, TodoInv, FoundInv, ChunksInv, TraceInv

\* Every step keeps the invariant.
LEMMA SearchStepSafe ==
  ASSUME KeptInv, [SearchNext]_searchVars
  PROVE  KeptInv'
<1>1. CASE UNCHANGED searchVars
  BY <1>1 DEF searchVars, KeptInv, SearchTypeOK, StartInv, TodoInv, FoundInv, ChunksInv, TraceInv,
              TraceTold, Tells, Survivors, SurvivorsKept
<1>2. CASE SearchNext
  <2>1. \A n \in Bases : 1..n \subseteq Bases
    BY LimitsAreCounts DEF Bases
  <2>2. SearchAborts => KeptInv'
    BY ThrowsSafe DEF SearchAborts
  <2>. QED BY <1>2, <2>1, <2>2, SearchBasesSafe, EmbedSafe, SubQuerySafe, BaseFailsSafe, MergeSafe,
       ExpandSafe, FilterSafe, RerankSafe DEF SearchNext
<1>. QED BY <1>1, <1>2

\* For every number of bases, queries and chunks: what a channel returned to a
\* sub-query that was neither lost to its graph filter nor cut to its share is in
\* the answer with every channel that found it, unless its own base failed, the
\* bases together exceed the limit or the request may not see it; and a channel
\* is reported degraded exactly if it worked for no base that did not fail.
THEOREM SearchKeepsSurvivors == SearchSpec => []SurvivorsKept
<1>1. KeptInv => SurvivorsKept
  BY DEF KeptInv
<1>. QED BY <1>1, SearchInitSafe, SearchStepSafe, PTL DEF SearchSpec

-----------------------------------------------------------------------------
(***************************************************************************)
(* The search index: once both aliases stand they point to one index, for  *)
(* every number of instances, versions, chunks, faults and moves.  The     *)
(* inductive invariant says what an instance that is past a check of its   *)
(* start may rely on, whatever the others did since.                       *)
(***************************************************************************)

PastCheck == {"read?", "read", "write?", "write", "ensured"}

\* An instance is past its check, and a change is built, of an index that exists.
EsNamesIndexes ==
  /\ \A i \in Instances : instance[i].at \in PastCheck => Version(i) \in indexes
  /\ \A m \in built : m.to \in indexes

EsUp(i) == instance[i].at # "down"
EsPuts(i) == instance[i].at \in {"read", "write"}

\* Until both aliases stand, one version is deployed, the aliases that stand
\* point to it, and no operator has built a change; ...
EsOneDeployed ==
  /\ built = {}
  /\ \A i, j \in Instances : EsUp(i) /\ EsUp(j) => Version(i) = Version(j)
  /\ \A u \in readAlias \cup writeAlias : \E i \in Instances : EsUp(i) /\ Version(i) = u

\* ... then both point to one, and so will an instance that is about to put one.
EsOneIndex ==
  \E u \in Versions :
    /\ readAlias = {u} /\ writeAlias = {u}
    /\ \A i \in Instances : EsPuts(i) => Version(i) = u

EsAliases ==
  ~mixed => IF {} \in {readAlias, writeAlias} THEN EsOneDeployed ELSE EsOneIndex

EsInv == EsTypeOK /\ EsNamesIndexes /\ EsAliases

(* What fits an alias's one write index is one version.                      *)
LEMMA OneWriteIsOne ==
  ASSUME NEW a, NEW b, OneWriteIndex({a, b})
  PROVE  a = b
<1>. SUFFICES ASSUME a # b PROVE FALSE
  OBVIOUS
<1>1. IsFiniteSet({a}) /\ Cardinality({a}) = 1
  BY FS_Singleton
<1>2. Cardinality({a} \cup {b}) = 2
  BY <1>1, FS_AddElement
<1>3. {a, b} = {a} \cup {b}
  OBVIOUS
<1>. QED BY <1>2, <1>3 DEF OneWriteIndex

(* A step of one instance moves that instance only.                          *)
LEMMA EnsureMoves ==
  ASSUME EsTypeOK, NEW i \in Instances, NEW at \in EnsureAt, EnsureGoes(i, at)
  PROVE  /\ instance' \in [Instances -> [at : EnsureAt, version : Versions]]
         /\ instance'[i].at = at
         /\ \A j \in Instances : /\ Version(j)' = Version(j)
                                 /\ j # i => instance'[j] = instance[j]
<1>1. instance[i] \in [at : EnsureAt, version : Versions]
  BY DEF EsTypeOK
<1>2. /\ [instance[i] EXCEPT !.at = at] \in [at : EnsureAt, version : Versions]
      /\ [instance[i] EXCEPT !.at = at].at = at
      /\ [instance[i] EXCEPT !.at = at].version = instance[i].version
  BY <1>1
<1>3. /\ instance'[i] = [instance[i] EXCEPT !.at = at]
      /\ \A j \in Instances : j # i => instance'[j] = instance[j]
      /\ instance' \in [Instances -> [at : EnsureAt, version : Versions]]
  BY <1>2 DEF EnsureGoes, EsTypeOK
<1>. QED BY <1>2, <1>3 DEF Version

(* A step that leaves the aliases, the changes and the ghost alone, and      *)
(* brings no instance up or to a put of another version, keeps EsAliases.    *)
LEMMA AliasesStay ==
  ASSUME EsAliases, UNCHANGED <<readAlias, writeAlias, mixed>>,
         {} \in {readAlias, writeAlias} => built' = built,
         \A i \in Instances :
           /\ Version(i)' = Version(i)
           /\ {} \in {readAlias, writeAlias} => (EsUp(i)' <=> EsUp(i))
           /\ {} \notin {readAlias, writeAlias} => (EsPuts(i)' => EsPuts(i))
  PROVE  EsAliases'
<1>1. CASE mixed
  BY <1>1 DEF EsAliases
<1>2. CASE ~mixed /\ {} \in {readAlias, writeAlias}
  <2>1. EsOneDeployed
    BY <1>2 DEF EsAliases
  <2>2. EsOneDeployed'
    BY <1>2, <2>1 DEF EsOneDeployed
  <2>. QED BY <1>2, <2>2 DEF EsAliases
<1>3. CASE ~mixed /\ {} \notin {readAlias, writeAlias}
  <2>1. EsOneIndex
    BY <1>3 DEF EsAliases
  <2>2. EsOneIndex'
    BY <1>3, <2>1 DEF EsOneIndex
  <2>. QED BY <1>3, <2>2 DEF EsAliases
<1>. QED BY <1>1, <1>2, <1>3

(* What the steps of ensureKnowledgeChunkIndex keep: that an instance starts, ... *)
LEMMA EnsureKeeps ==
  ASSUME EsInv, NEW i \in Instances, Ensure(i)
  PROVE  EsInv'
<1>0. EsTypeOK /\ EsNamesIndexes /\ EsAliases
  BY DEF EsInv
<1>1. EnsureGoes(i, "exists") /\ "exists" \in EnsureAt /\ "exists" \notin PastCheck
  BY DEF Ensure, EnsureAt, PastCheck
<1>2. /\ instance' \in [Instances -> [at : EnsureAt, version : Versions]]
      /\ instance'[i].at = "exists"
      /\ \A j \in Instances : /\ Version(j)' = Version(j)
                              /\ j # i => instance'[j] = instance[j]
  BY <1>0, <1>1, EnsureMoves
<1>3. UNCHANGED <<indexes, readAlias, writeAlias, indexed, built, moves, esFaults>>
  BY DEF Ensure, Store, OperatorState
<1>4. mixed' \in BOOLEAN /\ (mixed => mixed')
  BY <1>0 DEF Ensure, EsTypeOK
<1>5. EsTypeOK'
  BY <1>0, <1>2, <1>3, <1>4 DEF EsTypeOK
<1>6. EsNamesIndexes'
  BY <1>0, <1>1, <1>2, <1>3 DEF EsNamesIndexes
<1>7. EsAliases'
  <2>1. CASE mixed'
    BY <2>1 DEF EsAliases
  <2>2. CASE ~mixed' /\ {} \in {readAlias, writeAlias}
    <3>1. EsOneDeployed
      BY <1>0, <1>4, <2>2 DEF EsAliases
    <3>2. \A j \in Instances : EsUp(j) => Version(j) = Version(i)
      BY <2>2 DEF Ensure, EsUp
    <3>3. \A j \in Instances : EsUp(j)' => Version(j)' = Version(i)
      BY <1>2, <3>2 DEF EsUp
    <3>4. \A j \in Instances : EsUp(j) => EsUp(j)' /\ Version(j)' = Version(j)
      BY <1>1, <1>2 DEF EsUp
    <3>5. \A u \in readAlias \cup writeAlias : \E j \in Instances : EsUp(j)' /\ Version(j)' = u
      BY <3>1, <3>4 DEF EsOneDeployed
    <3>6. EsOneDeployed'
      BY <1>3, <3>1, <3>3, <3>5 DEF EsOneDeployed
    <3>. QED BY <1>3, <2>2, <3>6 DEF EsAliases
  <2>3. CASE ~mixed' /\ {} \notin {readAlias, writeAlias}
    <3>1. EsOneIndex
      BY <1>0, <1>4, <2>3 DEF EsAliases
    <3>2. \A j \in Instances : (EsPuts(j)' => EsPuts(j)) /\ Version(j)' = Version(j)
      BY <1>2 DEF EsPuts
    <3>3. EsOneIndex'
      BY <1>3, <3>1, <3>2 DEF EsOneIndex
    <3>. QED BY <1>3, <2>3, <3>3 DEF EsAliases
  <2>. QED BY <2>1, <2>2, <2>3
<1>. QED BY <1>5, <1>6, <1>7 DEF EsInv

(* ... that it checks and creates its index and finds its aliases, or fails, ... *)
LEMMA CheckKeeps ==
  ASSUME EsBounds, EsInv, NEW i \in Instances,
         IndexExists(i) \/ CreateIndex(i) \/ AliasExists(i) \/ EnsureFails(i)
  PROVE  EsInv'
<1>0. EsTypeOK /\ EsNamesIndexes /\ EsAliases
  BY DEF EsInv
<1>1. PICK at \in EnsureAt \ {"down"} :
        /\ EnsureGoes(i, at) /\ instance[i].at # "down"
        /\ at \in PastCheck => Version(i) \in indexes'
        /\ {} \notin {readAlias, writeAlias} => at \notin {"read", "write"}
  <2>1. CASE IndexExists(i)
    <3>1. UNCHANGED indexes /\ instance[i].at = "exists"
      BY <2>1 DEF IndexExists, Store
    <3>2. CASE Version(i) \in indexes
      <4>1. EnsureGoes(i, "read?")
        BY <2>1, <3>2 DEF IndexExists
      <4>. QED BY <3>1, <3>2, <4>1 DEF EnsureAt
    <3>3. CASE Version(i) \notin indexes
      <4>1. EnsureGoes(i, "create")
        BY <2>1, <3>3 DEF IndexExists
      <4>. QED BY <3>1, <4>1 DEF EnsureAt, PastCheck
    <3>. QED BY <3>2, <3>3
  <2>2. CASE CreateIndex(i)
    <3>1. instance[i].at = "create" /\ Version(i) \in indexes'
      BY <2>2 DEF CreateIndex
    <3>2. EnsureGoes(i, "failed") \/ EnsureGoes(i, "read?")
      BY <2>2 DEF CreateIndex
    <3>. QED BY <3>1, <3>2 DEF EnsureAt
  <2>3. CASE AliasExists(i)
    <3>1. UNCHANGED indexes /\ instance[i].at \in {"read?", "write?"}
      BY <2>3 DEF AliasExists, Store
    <3>2. Version(i) \in indexes
      BY <1>0, <3>1 DEF EsNamesIndexes, PastCheck
    <3>3. \/ readAlias = {} /\ EnsureGoes(i, "read")
          \/ writeAlias = {} /\ EnsureGoes(i, "write")
          \/ EnsureGoes(i, "write?") \/ EnsureGoes(i, "ensured")
      BY <2>3 DEF AliasExists
    <3>. QED BY <3>1, <3>2, <3>3 DEF EnsureAt
  <2>4. CASE EnsureFails(i)
    BY <2>4 DEF EnsureFails, EnsureAt, PastCheck
  <2>. QED BY <2>1, <2>2, <2>3, <2>4
<1>2. /\ instance' \in [Instances -> [at : EnsureAt, version : Versions]]
      /\ instance'[i].at = at
      /\ \A j \in Instances : /\ Version(j)' = Version(j)
                              /\ j # i => instance'[j] = instance[j]
  BY <1>0, <1>1, EnsureMoves
<1>3. /\ UNCHANGED <<readAlias, writeAlias, indexed, built, moves, mixed>>
      /\ indexes' = indexes \/ indexes' = indexes \cup {Version(i)}
  BY DEF IndexExists, CreateIndex, AliasExists, EnsureFails, Store, OperatorState
<1>4. esFaults' \in 0 .. MaxEsFaults
  BY <1>0 DEF IndexExists, CreateIndex, AliasExists, EnsureFails, EsTypeOK, EsBounds
<1>5. Version(i) \in Versions
  BY <1>0 DEF EsTypeOK, Version
<1>6. EsTypeOK'
  BY <1>0, <1>2, <1>3, <1>4, <1>5 DEF EsTypeOK
<1>7. EsNamesIndexes'
  BY <1>0, <1>1, <1>2, <1>3 DEF EsNamesIndexes
<1>8. EsAliases'
  <2>1. \A j \in Instances :
          /\ Version(j)' = Version(j)
          /\ EsUp(j)' <=> EsUp(j)
          /\ {} \notin {readAlias, writeAlias} => (EsPuts(j)' => EsPuts(j))
    BY <1>1, <1>2 DEF EsUp, EsPuts
  <2>. QED BY <1>0, <1>3, <2>1, AliasesStay
<1>. QED BY <1>6, <1>7, <1>8 DEF EsInv

(* ... and that it puts the aliases it did not find.                         *)
LEMMA PutKeeps ==
  ASSUME EsInv, NEW i \in Instances, PutReadAlias(i) \/ PutWriteAlias(i)
  PROVE  EsInv'
<1>0. EsTypeOK /\ EsNamesIndexes /\ EsAliases
  BY DEF EsInv
<1>1. PICK at \in {"write?", "ensured", "failed"} : EnsureGoes(i, at)
  BY DEF PutReadAlias, PutWriteAlias
<1>2. at \in EnsureAt
  BY DEF EnsureAt
<1>3. /\ instance' \in [Instances -> [at : EnsureAt, version : Versions]]
      /\ instance'[i].at = at
      /\ \A j \in Instances : /\ Version(j)' = Version(j)
                              /\ j # i => instance'[j] = instance[j]
  BY <1>0, <1>1, <1>2, EnsureMoves
<1>4. /\ UNCHANGED <<indexes, indexed, built, moves, esFaults, mixed>>
      /\ EsPuts(i) /\ Version(i) \in Versions /\ Version(i) \in indexes
  BY <1>0 DEF PutReadAlias, PutWriteAlias, OperatorState, EsPuts, EsTypeOK, EsNamesIndexes,
             PastCheck, Version
<1>5. /\ readAlias' \in {readAlias, readAlias \cup {Version(i)}}
      /\ writeAlias' \in {writeAlias, {Version(i)}}
  BY DEF PutReadAlias, PutWriteAlias
<1>6. EsTypeOK'
  BY <1>0, <1>3, <1>4, <1>5 DEF EsTypeOK
<1>7. EsNamesIndexes'
  BY <1>0, <1>3, <1>4 DEF EsNamesIndexes, PastCheck
<1>8. EsAliases'
  <2>0. \A j \in Instances : /\ Version(j)' = Version(j)
                             /\ EsUp(j)' <=> EsUp(j)
                             /\ EsPuts(j)' => EsPuts(j)
    BY <1>1, <1>3, <1>4 DEF EsUp, EsPuts
  <2>1. CASE mixed
    BY <1>4, <2>1 DEF EsAliases
  <2>2. CASE ~mixed /\ {} \in {readAlias, writeAlias}
    <3>1. EsOneDeployed
      BY <1>0, <2>2 DEF EsAliases
    <3>2. EsUp(i)
      BY <1>4 DEF EsUp, EsPuts
    <3>3. \A u \in readAlias \cup writeAlias : u = Version(i)
      BY <3>1, <3>2 DEF EsOneDeployed
    <3>4. \A u \in readAlias' \cup writeAlias' : u = Version(i)
      BY <1>5, <3>3
    <3>5. CASE {} \in {readAlias', writeAlias'}
      <4>1. EsOneDeployed'
        BY <1>4, <2>0, <3>1, <3>2, <3>4 DEF EsOneDeployed
      <4>. QED BY <3>5, <4>1 DEF EsAliases
    <3>6. CASE {} \notin {readAlias', writeAlias'}
      <4>1. readAlias' = {Version(i)} /\ writeAlias' = {Version(i)}
        BY <3>4, <3>6
      <4>2. \A j \in Instances : EsPuts(j)' => Version(j)' = Version(i)
        BY <2>0, <3>1, <3>2 DEF EsOneDeployed, EsPuts, EsUp
      <4>3. EsOneIndex'
        BY <1>4, <4>1, <4>2 DEF EsOneIndex
      <4>. QED BY <3>6, <4>3 DEF EsAliases
    <3>. QED BY <3>5, <3>6
  <2>3. CASE ~mixed /\ {} \notin {readAlias, writeAlias}
    <3>1. PICK u \in Versions :
            /\ readAlias = {u} /\ writeAlias = {u}
            /\ \A j \in Instances : EsPuts(j) => Version(j) = u
      BY <1>0, <2>3 DEF EsAliases, EsOneIndex
    <3>2. readAlias' = {u} /\ writeAlias' = {u}
      BY <1>4, <1>5, <3>1
    <3>3. EsOneIndex'
      BY <2>0, <3>1, <3>2 DEF EsOneIndex
    <3>. QED BY <3>2, <3>3 DEF EsAliases
  <2>. QED BY <2>1, <2>2, <2>3
<1>. QED BY <1>6, <1>7, <1>8 DEF EsInv

(* What the operators' steps keep: an index is made and a change is built, ... *)
LEMMA OperatorKeeps ==
  ASSUME EsBounds, EsInv,
         \/ \E v \in Versions : Reindex(v) \/ BuildRollback(v)
         \/ \E v, w \in Versions : BuildSwitch(v, w)
  PROVE  EsInv'
<1>0. EsTypeOK /\ EsNamesIndexes /\ EsAliases
  BY DEF EsInv
<1>1. UNCHANGED <<readAlias, writeAlias, instance, esFaults, mixed>>
  BY DEF Reindex, BuildRollback, BuildSwitch, BuildMove, OperatorState, Store
<1>2. /\ indexes \subseteq indexes' /\ indexes' \subseteq Versions
      /\ indexed' \in [Versions -> SUBSET Chunks]
      /\ moves' \in 0 .. MaxMoves
  <2>1. CASE \E v \in Versions : Reindex(v)
    BY <1>0, <2>1 DEF Reindex, OperatorState, EsTypeOK
  <2>2. CASE \E from \in SUBSET Versions, to \in Versions : BuildMove(from, to)
    BY <1>0, <2>2 DEF BuildMove, Store, EsTypeOK, EsBounds
  <2>3. readAlias \cup writeAlias \subseteq Versions
    BY <1>0 DEF EsTypeOK
  <2>. QED BY <2>1, <2>2, <2>3 DEF BuildRollback, BuildSwitch
<1>3. /\ {} \in {readAlias, writeAlias} => built' = built
      /\ \A m \in built' \ built : m.to \in indexes' /\ m \in [from : SUBSET Versions, to : Versions]
  <2>1. CASE \E v \in Versions : Reindex(v)
    BY <2>1 DEF Reindex, OperatorState
  <2>2. CASE \E v \in Versions : BuildRollback(v)
    BY <1>0, <2>2 DEF BuildRollback, BuildMove, Store, EsTypeOK
  <2>3. CASE \E v, w \in Versions : BuildSwitch(v, w)
    <3>1. PICK v \in Versions, w \in Versions : BuildSwitch(v, w)
      BY <2>3
    <3>2. readAlias = {v} /\ writeAlias = {v} /\ w \in indexes'
      BY <3>1 DEF BuildSwitch, SwitchAllowed, BuildMove, Store
    <3>3. built' = built \cup {[from |-> {v}, to |-> w]}
      BY <3>1 DEF BuildSwitch, BuildMove
    <3>. QED BY <3>2, <3>3
  <2>. QED BY <2>1, <2>2, <2>3
<1>4. EsTypeOK'
  BY <1>0, <1>1, <1>2, <1>3 DEF EsTypeOK
<1>5. EsNamesIndexes'
  BY <1>0, <1>1, <1>2, <1>3 DEF EsNamesIndexes, Version
<1>6. EsAliases'
  <2>1. \A j \in Instances : /\ Version(j)' = Version(j)
                             /\ EsUp(j)' <=> EsUp(j)
                             /\ EsPuts(j)' <=> EsPuts(j)
    BY <1>1 DEF Version, EsUp, EsPuts
  <2>. QED BY <1>0, <1>1, <1>3, <2>1, AliasesStay
<1>. QED BY <1>4, <1>5, <1>6 DEF EsInv

(* ... and a change is applied.  With both aliases on one index u, one write *)
(* index is left after it only if it takes u away or leads to u: the aliases *)
(* then stand on the target alone.                                           *)
LEMMA ApplyKeeps ==
  ASSUME EsInv, NEW m \in built, ApplyMove(m)
  PROVE  EsInv'
<1>0. EsTypeOK /\ EsNamesIndexes /\ EsAliases
  BY DEF EsInv
<1>1. /\ UNCHANGED <<indexes, indexed, instance, moves, esFaults>>
      /\ built' \subseteq built
      /\ mixed' = (mixed \/ \E i \in Instances : EsPuts(i))
  BY DEF ApplyMove, EsPuts
<1>2. m.to \in indexes /\ m.to \in Versions
  BY <1>0 DEF EsNamesIndexes, EsTypeOK
<1>3. \/ UNCHANGED <<readAlias, writeAlias>>
      \/ /\ OneWriteIndex((writeAlias \ m.from) \cup {m.to})
         /\ readAlias' = (readAlias \ m.from) \cup {m.to}
         /\ writeAlias' = (writeAlias \ m.from) \cup {m.to}
  BY DEF ApplyMove, ReadLeaves
<1>4. EsTypeOK'
  BY <1>0, <1>1, <1>2, <1>3 DEF EsTypeOK
<1>5. EsNamesIndexes'
  BY <1>0, <1>1 DEF EsNamesIndexes, Version
<1>6. EsAliases'
  <2>1. CASE mixed'
    BY <2>1 DEF EsAliases
  <2>2. CASE ~mixed'
    <3>1. ~mixed /\ (\A i \in Instances : ~EsPuts(i)) /\ built # {}
      BY <1>1, <2>2
    <3>2. EsOneIndex /\ {} \notin {readAlias, writeAlias}
      BY <1>0, <3>1 DEF EsAliases, EsOneDeployed
    <3>3. PICK u \in Versions : readAlias = {u} /\ writeAlias = {u}
      BY <3>2 DEF EsOneIndex
    <3>4. \A i \in Instances : ~EsPuts(i)'
      BY <1>1, <3>1 DEF EsPuts
    <3>5. \E v \in Versions : readAlias' = {v} /\ writeAlias' = {v}
      <4>1. CASE UNCHANGED <<readAlias, writeAlias>>
        BY <3>3, <4>1
      <4>2. CASE /\ OneWriteIndex((writeAlias \ m.from) \cup {m.to})
                 /\ readAlias' = (readAlias \ m.from) \cup {m.to}
                 /\ writeAlias' = (writeAlias \ m.from) \cup {m.to}
        <5>1. CASE u \in m.from
          <6>1. ({u} \ m.from) \cup {m.to} = {m.to}
            BY <5>1
          <6>. QED BY <1>2, <3>3, <4>2, <6>1
        <5>2. CASE u \notin m.from
          <6>1. ({u} \ m.from) \cup {m.to} = {u, m.to}
            BY <5>2
          <6>2. OneWriteIndex({u, m.to})
            BY <3>3, <4>2, <6>1
          <6>3. u = m.to
            BY <6>2, OneWriteIsOne
          <6>. QED BY <3>3, <4>2, <6>1, <6>3
        <5>. QED BY <5>1, <5>2
      <4>. QED BY <1>3, <4>1, <4>2
    <3>6. EsOneIndex'
      BY <3>4, <3>5 DEF EsOneIndex
    <3>. QED BY <3>5, <3>6 DEF EsAliases
  <2>. QED BY <2>1, <2>2
<1>. QED BY <1>4, <1>5, <1>6 DEF EsInv

\* What is written is what is read, for any instances, versions, chunks, faults
\* and moves: through concurrent and failed starts, documents written, switches
\* and rollbacks, both aliases, once they stand, point to one index and to the
\* same (ElasticsearchIndexService.ensureKnowledgeChunkIndex, alias-actions.ts),
\* save after the two mixtures the ghost records.
THEOREM EsReadsWhatItWrites == EsSpec => []ReadsWhatItWrites
<1>1. EsInit => EsInv
  <2>. SUFFICES ASSUME EsInit PROVE EsInv
    OBVIOUS
  <2>0. instance \in [Instances -> [at : EnsureAt, version : Versions]]
    <3>1. \A i \in Instances : instance[i] \in [at : EnsureAt, version : Versions]
      BY DEF EsInit, EnsureAt
    <3>. QED BY <3>1 DEF EsInit
  <2>1. EsTypeOK
    <3>1. 0 \in 0 .. MaxEsFaults /\ 0 \in 0 .. MaxMoves
      BY EsBounds
    <3>. QED BY <2>0, <3>1 DEF EsInit, EsTypeOK
  <2>2. \A i \in Instances : instance[i].at = "down"
    BY DEF EsInit
  <2>3. EsNamesIndexes
    BY <2>2 DEF EsInit, EsNamesIndexes, PastCheck
  <2>4. EsAliases
    BY <2>2 DEF EsInit, EsAliases, EsOneDeployed, EsUp
  <2>. QED BY <2>1, <2>3, <2>4 DEF EsInv
<1>2. EsInv /\ [EsNext]_esVars => EsInv'
  <2>. SUFFICES ASSUME EsInv, [EsNext]_esVars PROVE EsInv'
    OBVIOUS
  <2>0. EsTypeOK /\ EsNamesIndexes /\ EsAliases
    BY DEF EsInv
  <2>1. CASE UNCHANGED esVars
    BY <2>0, <2>1 DEF EsInv, EsTypeOK, EsNamesIndexes, EsAliases, EsOneDeployed, EsOneIndex,
                      EsUp, EsPuts, Version, esVars
  <2>2. ASSUME NEW i \in Instances,
               \/ Ensure(i) \/ IndexExists(i) \/ CreateIndex(i) \/ AliasExists(i)
               \/ PutReadAlias(i) \/ PutWriteAlias(i) \/ EnsureFails(i)
        PROVE  EsInv'
    BY <2>2, EsBounds, EnsureKeeps, CheckKeeps, PutKeeps
  <2>3. ASSUME NEW i \in Instances, NEW c \in Chunks, BulkUpsert(i, c) \/ DeleteByDocumentId(i, c)
        PROVE  EsInv'
    <3>1. /\ UNCHANGED <<indexes, readAlias, writeAlias, instance, built, moves, esFaults, mixed>>
          /\ indexed' \in [Versions -> SUBSET Chunks]
      BY <2>0, <2>3 DEF BulkUpsert, DeleteByDocumentId, OperatorState, EsTypeOK
    <3>. QED BY <2>0, <3>1 DEF EsInv, EsTypeOK, EsNamesIndexes, EsAliases, EsOneDeployed,
                               EsOneIndex, EsUp, EsPuts, Version
  <2>4. CASE \/ \E v \in Versions : Reindex(v) \/ BuildRollback(v)
             \/ \E v, w \in Versions : BuildSwitch(v, w)
    BY <2>4, EsBounds, OperatorKeeps
  <2>5. CASE \E m \in built : ApplyMove(m)
    BY <2>5, ApplyKeeps
  <2>. QED BY <2>1, <2>2, <2>3, <2>4, <2>5 DEF EsNext
<1>3. EsInv => ReadsWhatItWrites
  <2>. SUFFICES ASSUME EsInv, ~mixed, {} \notin {readAlias, writeAlias}
                PROVE  readAlias = writeAlias /\ Cardinality(readAlias) = 1
    BY DEF ReadsWhatItWrites
  <2>1. PICK u : readAlias = {u} /\ writeAlias = {u}
    BY DEF EsInv, EsAliases, EsOneIndex
  <2>. QED BY <2>1, FS_Singleton
<1>. QED BY <1>1, <1>2, <1>3, PTL DEF EsSpec
==============================================================================
