--------------------------- MODULE RetrievalCache ---------------------------
(***************************************************************************)
(* Knowledge retrieval behind its cache, for one knowledge base: requests  *)
(* of several readers (RetrievalPipelineService), the search they share    *)
(* while it runs, the results kept in Redis under a key that names the     *)
(* permission epoch and the content revision, and the writers that change  *)
(* documents, the configuration and the permissions and then bump one or   *)
(* the other.                                                              *)
(*                                                                         *)
(* A document stands for its chunks.  A search reads the indexes and the   *)
(* rows once (filterCurrentChunks) and, for a persona, the permissions     *)
(* once more after that; how it ranks what it finds is left out.  The key  *)
(* holds every field of a request, so one question is enough.              *)
(***************************************************************************)
EXTENDS Integers, FiniteSets

CONSTANTS
  Users,        \* the principals (owner, department and role) of requests
  Readers,      \* concurrent requests of retrieve()
  Docs,         \* the versions of one document of the knowledge base
  NoDoc,
  MaxRequests,  \* requests made in all
  MaxChanges,   \* changes made by the writer
  MaxFaults,    \* failures of Redis
  ColumnMax     \* the largest acl_version that fits its column

ASSUME CacheNumbers ==
  {MaxRequests, MaxChanges, MaxFaults, ColumnMax} \subseteq Nat
ASSUME CacheNoDoc == NoDoc \notin Docs
ASSUME CacheSomebody == Users # {}

VARIABLES
  docs,      \* the rows: document and chunk, visibility and access rules
  config,    \* the documents the configuration of the base lets through
  epoch,     \* Redis: the permission epoch, or NoEpoch
  dbEpoch,   \* the highest acl_version of the chunks
  clock,     \* Date.now()
  revision,  \* Redis: the content revision
  cache,     \* Redis: results by key
  search,    \* searches under way, each started by one reader
  reader,    \* the requests
  writer,    \* the change under way
  queued,    \* by document: the attempts its refresh job has left
  refresh,   \* the refresh under way
  faults, requests, changes,  \* counters behind the bounds
  unrefreshed,  \* ghost: documents whose rules changed since their refresh
  hidden,    \* ghost: what a completed change took away, and from whom
  lost,      \* ghost: a bump did not reach Redis
  backward,  \* ghost: an epoch was overwritten by an older one
  crossed    \* ghost: a request read its configurations before a change of them
             \* and the revision after it

redisVars == <<epoch, revision, cache>>
rowVars == <<docs, config, dbEpoch, clock, queued, changes>>
ghostVars == <<unrefreshed, hidden, lost, backward, crossed>>
cacheVars == <<redisVars, rowVars, ghostVars, search, reader, writer, refresh,
               faults, requests>>

NoEpoch == -1
JobAttempts == 3
Scopes == {"persona", "knowledge"}  \* an agent's request, a search page's
Causes == {"content", "configuration", "permission", "governance"}
Hidden == [user : Users, doc : Docs, cause : Causes]
Key == [scope : Scopes, user : Users, epoch : Int, revision : Nat]
SearchAt == {"none", "channels", "permissions"}
ReaderAt == {"idle", "epoch", "epoch row", "epoch set", "revision", "lookup",
             "join", "wait", "answered", "aborted", "failed"}
Change == {"none", "disable", "enable", "delete", "import", "archive",
           "switch", "governance", "configure"}

CacheTypeOK ==
  /\ docs \in [Docs -> [row : BOOLEAN, enabled : BOOLEAN, current : BOOLEAN,
                        archived : BOOLEAN, visible : SUBSET Users,
                        allowed : SUBSET Users]]
  /\ config \subseteq Docs
  /\ {epoch, dbEpoch, clock} \subseteq Int /\ revision \in Nat
  /\ \A e \in cache : e \in [key : Key, result : SUBSET Docs]
  /\ search \in [Readers -> [at : SearchAt, key : Key, shared : BOOLEAN,
                             config : SUBSET Docs, found : SUBSET Docs]]
  /\ reader \in [Readers -> [at : ReaderAt, key : Key, cacheable : BOOLEAN,
                             config : SUBSET Docs, of : Readers,
                             result : SUBSET Docs, signal : BOOLEAN,
                             timed : BOOLEAN, must : SUBSET Hidden]]
  /\ writer \in [at : {"idle", "write", "bump", "demote", "promote"},
                 change : Change, doc : Docs \cup {NoDoc}]
  /\ queued \in [Docs -> 0 .. JobAttempts] /\ unrefreshed \subseteq Docs
  /\ refresh \in [at : {"idle", "bump"}, doc : Docs \cup {NoDoc}]
  /\ {faults, requests, changes} \subseteq Nat
  /\ hidden \subseteq Hidden /\ {lost, backward, crossed} \subseteq BOOLEAN

Key0 == [scope |-> "persona", user |-> CHOOSE u \in Users : TRUE,
         epoch |-> 0, revision |-> 0]
Idle(r) ==
  [at |-> "idle", key |-> Key0, cacheable |-> FALSE, config |-> {}, of |-> r,
   result |-> {}, signal |-> FALSE, timed |-> FALSE, must |-> {}]
NoSearch == [at |-> "none", key |-> Key0, shared |-> FALSE, config |-> {},
             found |-> {}]

\* Redis holds the epoch of the rows; it is asked for again when Redis fails.
CacheInit ==
  \* one document is there, enabled or not; the others are not yet uploaded
  /\ \E enabled \in BOOLEAN :
       LET first == CHOOSE d \in Docs : TRUE IN
       docs = [d \in Docs |->
                [row |-> d = first, enabled |-> enabled, current |-> TRUE,
                 archived |-> FALSE, visible |-> Users, allowed |-> Users]]
  /\ config = Docs
  /\ epoch = 1 /\ dbEpoch = 1 /\ clock = 1 /\ revision = 0 /\ cache = {}
  /\ search = [r \in Readers |-> NoSearch]
  /\ reader = [r \in Readers |-> Idle(r)]
  /\ writer = [at |-> "idle", change |-> "none", doc |-> NoDoc]
  /\ queued = [d \in Docs |-> 0] /\ refresh = [at |-> "idle", doc |-> NoDoc]
  /\ faults = 0 /\ requests = 0 /\ changes = 0
  /\ unrefreshed = {} /\ hidden = {} /\ lost = FALSE /\ backward = FALSE
  /\ crossed = FALSE

-----------------------------------------------------------------------------
(* A request. *)

ReaderGoes(r, at) == reader' = [reader EXCEPT ![r].at = at]

\* A command to Redis goes through, or fails while the bound allows.
Redis(ok) ==
  /\ ok \/ faults < MaxFaults
  /\ faults' = IF ok THEN faults ELSE faults + 1

\* The scope of the request is resolved; a persona's configurations are read.
\* (A slot of Readers is used again once the search it started has ended.)
Request(r, scope, user) ==
  /\ reader[r].at \in {"idle", "answered", "aborted", "failed"}
  /\ requests < MaxRequests
  /\ search[r].at = "none"
  /\ requests' = requests + 1
  /\ reader' = [reader EXCEPT
       ![r] = [Idle(r) EXCEPT !.at = "epoch", !.config = config,
                              !.must = hidden,
                              !.key = [Key0 EXCEPT !.scope = scope,
                                                   !.user = user]]]
  /\ UNCHANGED <<redisVars, rowVars, ghostVars, search, writer, refresh, faults>>

Epoched(r, value) ==
  reader' = [reader EXCEPT ![r].key.epoch = value, ![r].at = "revision"]

GetEpoch(r, ok) ==
  /\ reader[r].at = "epoch" /\ Redis(ok)
  /\ IF ok /\ epoch # NoEpoch THEN Epoched(r, epoch)
                              ELSE ReaderGoes(r, "epoch row")
  /\ UNCHANGED <<redisVars, rowVars, ghostVars, search, writer, refresh, requests>>

\* With no epoch in Redis, the highest acl_version of the rows is the epoch ...
ReadEpochRow(r) ==
  /\ reader[r].at = "epoch row"
  /\ reader' = [reader EXCEPT ![r].key.epoch = dbEpoch, ![r].at = "epoch set"]
  /\ UNCHANGED <<redisVars, rowVars, ghostVars, search, writer, refresh, faults,
                 requests>>

\* ... and is written back, whatever Redis holds by then.
SetEpoch(r, ok) ==
  /\ reader[r].at = "epoch set" /\ Redis(ok)
  /\ epoch' = IF ok THEN reader[r].key.epoch ELSE epoch
  /\ backward' = (backward \/ epoch' < epoch)
  /\ Epoched(r, reader[r].key.epoch)
  /\ UNCHANGED <<revision, cache, rowVars, unrefreshed, hidden, lost, crossed,
                 search, writer, refresh, requests>>

GetRevision(r, ok) ==
  /\ reader[r].at = "revision" /\ Redis(ok)
  /\ reader' = [reader EXCEPT
       ![r].at = IF ok THEN "lookup" ELSE "join",
       ![r].cacheable = ok,
       ![r].key.revision = IF ok THEN revision ELSE 0]
  /\ crossed' = (crossed \/ (/\ ok /\ reader[r].key.scope = "persona"
                             /\ reader[r].config # config))
  /\ UNCHANGED <<redisVars, rowVars, unrefreshed, hidden, lost, backward, search,
                 writer, refresh, requests>>

\* An agent asks for its persona and takes the result as it is; the search page
\* asks for a base and filters the result by the permissions as they are now.
Scoped(result, scope, user) ==
  IF scope = "persona" THEN result
  ELSE {d \in result : /\ docs[d].row /\ docs[d].enabled /\ docs[d].current
                       /\ ~docs[d].archived /\ user \in docs[d].allowed}
Answer(r, result) ==
  [Idle(r) EXCEPT !.at = "answered", !.must = reader[r].must,
                  !.key.scope = reader[r].key.scope,
                  !.key.user = reader[r].key.user,
                  !.result = Scoped(result, reader[r].key.scope,
                                    reader[r].key.user)]

Entries(key) == {e \in cache : e.key = key}

\* A hit answers at once.  A miss: there is no entry, or its time was over
\* (the expiry of an entry shows only here), or Redis did not answer.
Hit(r) ==
  /\ reader[r].at = "lookup"
  /\ \E e \in Entries(reader[r].key) :
       reader' = [reader EXCEPT ![r] = Answer(r, e.result)]
  /\ UNCHANGED <<redisVars, rowVars, ghostVars, search, writer, refresh, faults,
                 requests>>
Miss(r) ==
  /\ reader[r].at = "lookup" /\ ReaderGoes(r, "join")
  /\ cache' = cache \ Entries(reader[r].key)
  /\ UNCHANGED <<epoch, revision, rowVars, ghostVars, search, writer, refresh,
                 faults, requests>>
LookupFails(r) ==
  /\ reader[r].at = "lookup" /\ Redis(FALSE) /\ Entries(reader[r].key) # {}
  /\ ReaderGoes(r, "join")
  /\ UNCHANGED <<redisVars, rowVars, ghostVars, search, writer, refresh, requests>>

InFlight(key) ==
  {s \in Readers : search[s].at # "none" /\ search[s].shared
                   /\ search[s].key = key}

\* A search of its own, shared with requests of the same key when cacheable.
Launch(r) ==
  /\ search' = [search EXCEPT
       ![r] = [at |-> "channels", key |-> reader[r].key,
               shared |-> reader[r].cacheable, found |-> {},
               \* only a persona's search applies the configurations
               config |-> IF reader[r].key.scope = "persona"
                          THEN reader[r].config ELSE Docs]]
  /\ reader' = [reader EXCEPT ![r].at = "wait", ![r].of = r]

Join(r) ==
  /\ reader[r].at = "join"
  /\ IF reader[r].cacheable /\ InFlight(reader[r].key) # {}
     THEN \E s \in InFlight(reader[r].key) :
            /\ reader' = [reader EXCEPT ![r].at = "wait", ![r].of = s]
            /\ UNCHANGED search
     ELSE Launch(r)
  /\ UNCHANGED <<redisVars, rowVars, ghostVars, writer, refresh, faults, requests>>

Waiting(s) == {r \in Readers : reader[r].at = "wait" /\ reader[r].of = s}

-----------------------------------------------------------------------------
(* A search. *)

\* MUTANT: chunks that are disabled are read like the others.
CurrentOrDisabled(d) == /\ docs[d].row /\ docs[d].current /\ ~docs[d].archived
Current(d) == /\ docs[d].row /\ docs[d].enabled /\ docs[d].current
              /\ ~docs[d].archived

\* The channels run and keep the rows that are current and visible.
SearchChannels(s) ==
  /\ search[s].at = "channels"
  /\ \E found \in {{d \in search[s].config :
                      Current(d) /\ search[s].key.user \in docs[d].visible},
                   {}} :  \* every channel failed: the search goes on with nothing
       search' = [search EXCEPT ![s].at = "permissions", ![s].found = found]
  /\ UNCHANGED <<redisVars, rowVars, ghostVars, reader, writer, refresh, faults,
                 requests>>

\* A persona's result is filtered again by the access rules; a failure of the
\* filter leaves nothing.  The result is stored without waiting for Redis.
SearchEnds(s, ok, stored) ==
  LET x == search[s]
      result == IF x.key.scope # "persona" THEN x.found
                ELSE IF ~ok THEN {}
                ELSE {d \in x.found : Current(d) /\ x.key.user \in docs[d].allowed}
  IN
  /\ x.at = "permissions"
  /\ IF x.shared THEN Redis(stored) ELSE stored /\ UNCHANGED faults
  /\ cache' = IF x.shared /\ stored
              THEN (cache \ Entries(x.key)) \cup {[key |-> x.key, result |-> result]}
              ELSE cache
  /\ search' = [search EXCEPT ![s] = NoSearch]
  /\ reader' = [r \in Readers |->
                 IF r \in Waiting(s) THEN Answer(r, result) ELSE reader[r]]
  /\ UNCHANGED <<epoch, revision, rowVars, ghostVars, writer, refresh, requests>>

\* A shared search runs under the time left to the turn that started it: when
\* that is over, every request that waits for it fails.  One that is not
\* shared stops with its caller.
SearchTimesOut(s) ==
  /\ search[s].at # "none" /\ search[s].shared
  /\ search' = [search EXCEPT ![s] = NoSearch]
  /\ reader' = [r \in Readers |->
                 IF r \in Waiting(s)
                 THEN [Idle(r) EXCEPT !.at = "aborted", !.timed = TRUE]
                 ELSE reader[r]]
  /\ UNCHANGED <<redisVars, rowVars, ghostVars, writer, refresh, faults, requests>>

\* The stores fail for good: all requests that wait for the search fail.
SearchFails(s) ==
  /\ search[s].at = "channels"
  /\ search' = [search EXCEPT ![s] = NoSearch]
  /\ reader' = [r \in Readers |->
                 IF r \in Waiting(s) THEN [Idle(r) EXCEPT !.at = "failed"]
                 ELSE reader[r]]
  /\ UNCHANGED <<redisVars, rowVars, ghostVars, writer, refresh, faults, requests>>

\* MUTANT: the shared search bound to the signal of its first caller.
SearchStopsWithFirst(r) == reader[r].of = r
\* The caller goes away: its request ends, the shared search goes on.
SearchStops(r) == ~search[reader[r].of].shared
AbortRequest(r) ==
  /\ reader[r].at = "wait"
  /\ LET s == reader[r].of IN
     IF SearchStops(r)
     THEN /\ search' = [search EXCEPT ![s] = NoSearch]
          /\ reader' = [q \in Readers |->
               IF q \in Waiting(s)
               THEN [Idle(q) EXCEPT !.at = "aborted", !.signal = q = r]
               ELSE reader[q]]
     ELSE /\ reader' = [reader EXCEPT
               ![r] = [Idle(r) EXCEPT !.at = "aborted", !.signal = TRUE]]
          /\ UNCHANGED search
  /\ UNCHANGED <<redisVars, rowVars, ghostVars, writer, refresh, faults, requests>>

-----------------------------------------------------------------------------
(* The writer: changes of the documents and of the base. *)

Took(d, cause) == [user : Users, doc : {d}, cause : {cause}]

\* What a change gives back is expected of nobody any more.
GivesBack(d, cause) ==
  /\ hidden' = hidden \ Took(d, cause)
  /\ reader' = [r \in Readers |->
                 [reader[r] EXCEPT !.must = @ \ Took(d, cause)]]

Changes(change, d, next) ==
  /\ writer.at = "idle" /\ changes < MaxChanges
  /\ changes' = changes + 1
  /\ writer' = [at |-> next, change |-> change, doc |-> d]
WriterGoes(at) == writer' = [writer EXCEPT !.at = at]
OnlyRows == UNCHANGED <<redisVars, config, dbEpoch, clock, queued, unrefreshed,
                        lost, backward, crossed, search, refresh, faults,
                        requests>>

DisableChunk(d) ==
  /\ docs[d].row /\ docs[d].enabled /\ Changes("disable", d, "bump")
  /\ docs' = [docs EXCEPT ![d].enabled = FALSE]
  /\ UNCHANGED <<hidden, reader>> /\ OnlyRows

EnableChunk(d) ==
  /\ docs[d].row /\ ~docs[d].enabled /\ Changes("enable", d, "bump")
  /\ docs' = [docs EXCEPT ![d].enabled = TRUE]
  /\ GivesBack(d, "content") /\ OnlyRows

DeleteDocument(d) ==
  /\ docs[d].row /\ Changes("delete", d, "bump")
  /\ docs' = [docs EXCEPT ![d].row = FALSE]
  /\ UNCHANGED <<hidden, reader>> /\ OnlyRows

\* A new version is current from its first chunk; the others only follow after
\* the revision was bumped.
ImportDocument(d) ==
  /\ ~docs[d].row /\ Changes("import", d, "bump")
  /\ docs' = [docs EXCEPT ![d].row = TRUE, ![d].enabled = TRUE,
                          ![d].current = TRUE, ![d].archived = FALSE]
  /\ GivesBack(d, "content") /\ OnlyRows

ArchiveDocument(d) ==
  /\ docs[d].row /\ Changes("archive", d, "idle")
  /\ docs' = [docs EXCEPT ![d].archived = TRUE, ![d].current = FALSE]
  /\ hidden' = hidden \cup Took(d, "governance") /\ UNCHANGED reader
  /\ OnlyRows

SetCurrentVersion(d) ==
  /\ docs[d].row /\ ~docs[d].archived /\ Changes("switch", d, "promote")
  /\ docs' = [e \in Docs |-> [docs[e] EXCEPT !.current = FALSE]]
  /\ UNCHANGED <<hidden, reader>> /\ OnlyRows
PromoteVersion ==
  /\ writer.at = "promote" /\ WriterGoes("idle")
  /\ docs' = [docs EXCEPT ![writer.doc].current = TRUE]
  /\ hidden' = (hidden \ Took(writer.doc, "governance"))
               \cup UNION {Took(d, "governance") : d \in Docs \ {writer.doc}}
  /\ reader' = [r \in Readers |->
                 [reader[r] EXCEPT !.must = @ \ Took(writer.doc, "governance")]]
  /\ UNCHANGED changes /\ OnlyRows
DemoteOthers ==
  /\ writer.at = "demote" /\ WriterGoes("idle")
  /\ docs' = [d \in Docs |-> [docs[d] EXCEPT !.current = @ /\ d = writer.doc]]
  /\ hidden' = hidden \cup UNION {Took(d, "governance") : d \in Docs \ {writer.doc}}
  /\ UNCHANGED <<reader, changes>> /\ OnlyRows

UpdateGovernance(d, users) ==
  /\ docs[d].row /\ Changes("governance", d, "idle")
  /\ docs' = [docs EXCEPT ![d].visible = users]
  /\ UNCHANGED <<hidden, reader>> /\ OnlyRows

Configure(passing) ==
  /\ Changes("configure", NoDoc, "bump")
  /\ config' = passing
  /\ LET back == UNION {Took(d, "configuration") : d \in passing} IN
     /\ hidden' = hidden \ back
     /\ reader' = [r \in Readers |-> [reader[r] EXCEPT !.must = @ \ back]]
  /\ UNCHANGED <<redisVars, docs, dbEpoch, clock, queued, unrefreshed, lost,
                 backward, crossed, search, refresh, faults, requests>>

\* What the completed change keeps from readers.
Completed ==
  CASE writer.change \in {"disable", "delete"} -> Took(writer.doc, "content")
    [] writer.change = "configure" ->
         UNION {Took(d, "configuration") : d \in Docs \ config}
    [] OTHER -> {}

AfterBump == IF writer.change = "import" THEN "demote" ELSE "idle"

\* INCR; a failure is swallowed.
BumpRevision(ok) ==
  /\ writer.at = "bump" /\ Redis(ok)
  /\ revision' = IF ok THEN revision + 1 ELSE revision
  /\ lost' = (lost \/ ~ok)
  /\ hidden' = hidden \cup Completed
  /\ WriterGoes(AfterBump)
  /\ UNCHANGED <<epoch, cache, rowVars, unrefreshed, backward, crossed, search,
                 reader, refresh, requests>>

-----------------------------------------------------------------------------
(* Permissions: a rule is written and a job queued; the job stamps the
   chunks, brings the indexes up to date, and bumps the epoch last. *)

TookFrom(u, d) == [user |-> u, doc |-> d, cause |-> "permission"]

SetRule(u, d) ==
  /\ docs[d].row /\ changes < MaxChanges /\ changes' = changes + 1
  /\ docs' = [docs EXCEPT ![d].allowed =
                IF u \in @ THEN @ \ {u} ELSE @ \cup {u}]
  /\ queued' = [queued EXCEPT ![d] = JobAttempts]
  /\ unrefreshed' = unrefreshed \cup {d}
  /\ hidden' = hidden \ {TookFrom(u, d)}
  /\ reader' = [r \in Readers |->
                 [reader[r] EXCEPT !.must = @ \ {TookFrom(u, d)}]]
  /\ UNCHANGED <<redisVars, config, dbEpoch, clock, lost, backward, crossed,
                 search, writer, refresh, faults, requests>>

\* The job reads document and rules and stamps the chunks with Date.now().  It
\* fails when the document is gone or the stamp does not fit its column.
Stamp == clock + 1
RefreshAcl(d) ==
  /\ queued[d] > 0 /\ refresh.at = "idle"
  /\ docs[d].row /\ Stamp <= ColumnMax
  /\ queued' = [queued EXCEPT ![d] = 0]
  /\ unrefreshed' = unrefreshed \ {d}
  /\ refresh' = [at |-> "bump", doc |-> d]
  /\ clock' = Stamp /\ dbEpoch' = Stamp
  /\ UNCHANGED <<redisVars, docs, config, changes, hidden, lost, backward, crossed,
                 search, reader, writer, faults, requests>>
RefreshAclFails(d) ==
  /\ queued[d] > 0 /\ refresh.at = "idle"
  /\ ~docs[d].row \/ Stamp > ColumnMax
  /\ queued' = [queued EXCEPT ![d] = @ - 1]
  /\ UNCHANGED <<redisVars, docs, config, dbEpoch, clock, changes, ghostVars,
                 search, reader, writer, refresh, faults, requests>>

Refused(d) == {TookFrom(u, d) : u \in Users \ docs[d].allowed}

\* Only a document that has chunks names a base to bump.
BumpEpoch(ok) ==
  LET d == refresh.doc IN
  /\ refresh.at = "bump" /\ Redis(ok)
  /\ refresh' = [at |-> "idle", doc |-> NoDoc]
  /\ IF docs[d].row THEN /\ clock' = clock + 1
                         /\ epoch' = IF ok THEN clock' ELSE epoch
                         /\ lost' = (lost \/ ~ok)
                    ELSE UNCHANGED <<clock, epoch, lost>>
  /\ hidden' = IF queued[d] > 0 \/ ~docs[d].row THEN hidden
               ELSE hidden \cup Refused(d)
  /\ UNCHANGED <<revision, cache, docs, config, dbEpoch, queued, changes, unrefreshed,
                 backward, crossed, search, reader, writer, requests>>

-----------------------------------------------------------------------------
ReaderStep ==
  \E r \in Readers :
    \/ \E scope \in Scopes, user \in Users : Request(r, scope, user)
    \/ \E ok \in BOOLEAN : \/ GetEpoch(r, ok) \/ SetEpoch(r, ok)
                           \/ GetRevision(r, ok)
    \/ ReadEpochRow(r) \/ Hit(r) \/ Miss(r) \/ LookupFails(r)
    \/ Join(r) \/ AbortRequest(r)
SearchStep ==
  \E s \in Readers :
    \/ SearchChannels(s) \/ SearchTimesOut(s) \/ SearchFails(s)
    \/ \E ok, stored \in BOOLEAN : SearchEnds(s, ok, stored)
WriterStep ==
  \/ \E d \in Docs :
       \/ DisableChunk(d) \/ EnableChunk(d) \/ DeleteDocument(d)
       \/ ImportDocument(d) \/ ArchiveDocument(d) \/ SetCurrentVersion(d)
       \/ \E users \in SUBSET Users : UpdateGovernance(d, users)
  \/ \E passing \in SUBSET Docs : Configure(passing)
  \/ PromoteVersion \/ DemoteOthers
  \/ \E ok \in BOOLEAN : BumpRevision(ok)
PermissionStep ==
  \/ \E u \in Users, d \in Docs : SetRule(u, d)
  \/ \E d \in Docs : RefreshAcl(d) \/ RefreshAclFails(d)
  \/ \E ok \in BOOLEAN : BumpEpoch(ok)

CacheNext == ReaderStep \/ SearchStep \/ WriterStep \/ PermissionStep

CacheSpec == CacheInit /\ [][CacheNext]_cacheVars

-----------------------------------------------------------------------------
Mine(r) == {h \in reader[r].must : h.user = reader[r].key.user}
Served(r, causes) ==
  {h \in Mine(r) : /\ h.cause \in causes /\ reader[r].at = "answered"
                   /\ h.cause = "configuration" => reader[r].key.scope = "persona"
                   /\ h.doc \in reader[r].result}

\* A request that starts after a change took effect in full is never answered
\* with what the change took away, not by the cache nor by a search it shares
\* with an earlier request: a document deleted or disabled, one its rules no
\* longer allow, one the configuration no longer lets through.  The exceptions:
\* Redis lost a bump; an older epoch overwrote the new one (getEpoch writes back
\* what it read from the rows before the bump); a persona's configurations were
\* read before the change and the revision after it.  (Archiving, switching a
\* version and changing the governance bump nothing and promise nothing here.)
FreshResult ==
  \A r \in Readers :
    ~lost => /\ Served(r, {"content"}) = {}
             /\ ~backward => Served(r, {"permission"}) = {}
             /\ ~crossed => Served(r, {"configuration"}) = {}

\* A request only ends as aborted for its own caller's signal or because the
\* time of a shared search ran out: another caller that leaves does not take
\* the search it shares with it.
AbortIsOwn ==
  \A r \in Readers :
    reader[r].at = "aborted" => reader[r].signal \/ reader[r].timed

\* A change of the rules of a document that is there reaches the chunks, and
\* with them the epoch, or its job is still queued ("权限变更后 bump KB epoch，
\* 使检索缓存失效").  acl_version is an int column; Date.now() does not fit.
RulesReachIndex ==
  \A d \in unrefreshed : docs[d].row => queued[d] > 0
=============================================================================
