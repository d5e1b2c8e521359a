------------------------------- MODULE EsIndex -------------------------------
(***************************************************************************)
(* The search index of chunks in Elasticsearch: API instances create the   *)
(* index of their configured version and its read and write aliases when   *)
(* they start (ElasticsearchIndexService), upsert and delete documents     *)
(* through the write alias, and operators move both aliases to another     *)
(* version (alias-actions.ts).  A chunk stands for the documents of one    *)
(* knowledge document; what a document holds is left out.                  *)
(*                                                                         *)
(* Each request to Elasticsearch is one step: it takes effect whole, or    *)
(* fails and changes nothing.                                              *)
(***************************************************************************)
EXTENDS Integers, FiniteSets

CONSTANTS Instances, Versions, Chunks, MaxEsFaults, MaxMoves

ASSUME EsBounds == {MaxEsFaults, MaxMoves} \subseteq Nat

VARIABLES
  indexes,   \* versions whose index exists
  readAlias, writeAlias,  \* versions each alias points to
  indexed,   \* by version: the chunks in its index
  instance,  \* the API instances: their version and where their ensure is
  built,     \* changes of the aliases that operators built and did not yet apply
  esFaults, moves,
  mixed      \* ghost: before both aliases stood a second version was ensured, or
             \* a move was applied while an instance was about to put an alias

esVars == <<indexes, readAlias, writeAlias, indexed, instance, built, esFaults,
            moves, mixed>>

EnsureAt == {"down", "exists", "create", "read?", "read", "write?", "write",
             "ensured", "failed"}
EsTypeOK ==
  /\ indexes \subseteq Versions
  /\ readAlias \subseteq indexes /\ writeAlias \subseteq indexes
  /\ indexed \in [Versions -> SUBSET Chunks]
  /\ instance \in [Instances -> [at : EnsureAt, version : Versions]]
  /\ built \subseteq [from : SUBSET Versions, to : Versions]
  /\ esFaults \in 0 .. MaxEsFaults /\ moves \in 0 .. MaxMoves /\ mixed \in BOOLEAN

EsInit ==
  /\ indexes = {} /\ readAlias = {} /\ writeAlias = {}
  /\ indexed = [v \in Versions |-> {}]
  /\ instance \in [Instances -> [at : {"down"}, version : Versions]]
  /\ built = {} /\ esFaults = 0 /\ moves = 0 /\ mixed = FALSE

-----------------------------------------------------------------------------
(* ensureKnowledgeChunkIndex of one instance.  Its promise is shared by all
   callers in the process, so an instance is at one place in it. *)

Version(i) == instance[i].version
EnsureGoes(i, at) == instance' = [instance EXCEPT ![i].at = at]
Store == <<indexes, readAlias, writeAlias, indexed>>
OperatorState == <<built, moves>>

\* onModuleInit; after a failure the next upsert starts again.
Ensure(i) ==
  /\ instance[i].at \in {"down", "failed"} /\ EnsureGoes(i, "exists")
  /\ mixed' = (mixed \/ /\ {} \in {readAlias, writeAlias}
                        /\ \E j \in Instances : /\ instance[j].at # "down"
                                                /\ Version(j) # Version(i))
  /\ UNCHANGED <<Store, OperatorState, esFaults>>

\* MUTANT: the index is taken to exist.
IndexTakenToExist(i) ==
  /\ instance[i].at = "exists"
  /\ EnsureGoes(i, "read?")
  /\ UNCHANGED <<Store, OperatorState, esFaults, mixed>>

IndexExists(i) ==
  /\ instance[i].at = "exists"
  /\ EnsureGoes(i, IF Version(i) \in indexes THEN "read?" ELSE "create")
  /\ UNCHANGED <<Store, OperatorState, esFaults, mixed>>

\* Creating an index that another instance created meanwhile is an error.
CreateIndex(i) ==
  /\ instance[i].at = "create"
  /\ EnsureGoes(i, IF Version(i) \in indexes THEN "failed" ELSE "read?")
  /\ indexes' = indexes \cup {Version(i)}
  /\ UNCHANGED <<readAlias, writeAlias, indexed, OperatorState, esFaults, mixed>>

\* An alias that exists is left as it is, wherever it points (a warning only).
AliasExists(i) ==
  /\ \/ /\ instance[i].at = "read?"
        /\ EnsureGoes(i, IF readAlias = {} THEN "read" ELSE "write?")
     \/ /\ instance[i].at = "write?"
        /\ EnsureGoes(i, IF writeAlias = {} THEN "write" ELSE "ensured")
  /\ UNCHANGED <<Store, OperatorState, esFaults, mixed>>

PutReadAlias(i) ==
  /\ instance[i].at = "read" /\ EnsureGoes(i, "write?")
  /\ readAlias' = readAlias \cup {Version(i)}
  /\ UNCHANGED <<indexes, writeAlias, indexed, OperatorState, esFaults, mixed>>

\* An alias has one write index: Elasticsearch rejects a second.
OneWriteIndex(versions) == Cardinality(versions) <= 1

PutWriteAlias(i) ==
  /\ instance[i].at = "write"
  /\ IF OneWriteIndex(writeAlias \cup {Version(i)})
     THEN writeAlias' = {Version(i)} /\ EnsureGoes(i, "ensured")
     ELSE UNCHANGED writeAlias /\ EnsureGoes(i, "failed")
  /\ UNCHANGED <<indexes, readAlias, indexed, OperatorState, esFaults, mixed>>

\* A request fails: the promise is cleared, the error goes to the caller.
EnsureFails(i) ==
  /\ instance[i].at \notin {"down", "ensured", "failed"}
  /\ esFaults < MaxEsFaults /\ esFaults' = esFaults + 1
  /\ EnsureGoes(i, "failed")
  /\ UNCHANGED <<Store, OperatorState, mixed>>

-----------------------------------------------------------------------------
(* Documents.  A failed upsert or delete is logged and forgotten. *)

BulkUpsert(i, c) ==
  /\ instance[i].at = "ensured" /\ writeAlias # {}
  /\ indexed' = [v \in Versions |->
                  IF v \in writeAlias THEN indexed[v] \cup {c} ELSE indexed[v]]
  /\ UNCHANGED <<indexes, readAlias, writeAlias, instance, OperatorState, esFaults, mixed>>

\* Deletes ensure nothing first: without a write alias they fail.
DeleteByDocumentId(i, c) ==
  /\ instance[i].at # "down" /\ writeAlias # {}
  /\ indexed' = [v \in Versions |->
                  IF v \in writeAlias THEN indexed[v] \ {c} ELSE indexed[v]]
  /\ UNCHANGED <<indexes, readAlias, writeAlias, instance, OperatorState, esFaults, mixed>>

-----------------------------------------------------------------------------
(* Operators: the aliases are read, the change is built from what was read,
   and applied as one request.  The index of the target and its documents
   are the work of a reindex. *)

Reindex(v) ==
  /\ moves < MaxMoves /\ readAlias # {} /\ v \notin indexes
  /\ indexes' = indexes \cup {v}
  /\ \E chunks \in SUBSET Chunks : indexed' = [indexed EXCEPT ![v] = chunks]
  /\ UNCHANGED <<readAlias, writeAlias, instance, OperatorState, esFaults, mixed>>

SwitchAllowed(from, to) ==
  /\ from # to
  /\ to \in indexes /\ indexed[to] # {}
  /\ readAlias = {from} /\ writeAlias = {from}

\* Builds the change: from one version, or for a rollback from all the aliases
\* point to, to another.
BuildMove(from, to) ==
  /\ moves < MaxMoves /\ moves' = moves + 1
  /\ built' = built \cup {[from |-> from, to |-> to]}
  /\ UNCHANGED <<Store, instance, esFaults, mixed>>
BuildSwitch(from, to) == SwitchAllowed(from, to) /\ BuildMove({from}, to)
BuildRollback(to) ==
  /\ to \in indexes /\ {} \notin {readAlias, writeAlias}
  /\ BuildMove(readAlias \cup writeAlias, to)

ReadLeaves(m) == m.from

ApplyMove(m) ==
  /\ built' = built \ {m}
  /\ LET written == (writeAlias \ m.from) \cup {m.to} IN
     IF OneWriteIndex(written)
     THEN /\ readAlias' = (readAlias \ ReadLeaves(m)) \cup {m.to}
          /\ writeAlias' = written
     ELSE UNCHANGED <<readAlias, writeAlias>>  \* rejected whole
  /\ mixed' = (mixed \/ \E i \in Instances : instance[i].at \in {"read", "write"})
  /\ UNCHANGED <<indexes, indexed, instance, moves, esFaults>>

EsNext ==
  \/ \E i \in Instances :
       \/ Ensure(i) \/ IndexExists(i) \/ CreateIndex(i) \/ AliasExists(i)
       \/ PutReadAlias(i) \/ PutWriteAlias(i) \/ EnsureFails(i)
       \/ \E c \in Chunks : BulkUpsert(i, c) \/ DeleteByDocumentId(i, c)
  \/ \E v \in Versions : Reindex(v) \/ BuildRollback(v)
  \/ \E v, w \in Versions : BuildSwitch(v, w)
  \/ \E m \in built : ApplyMove(m)

EsSpec == EsInit /\ [][EsNext]_esVars

\* What is written is what is read: once both aliases stand, they point to one
\* index and to the same, through concurrent starts, failed starts that are
\* retried, documents written, switches and rollbacks of several operators.  The
\* exceptions: a second index version deployed before the aliases of the first
\* stand, and a move applied between the check and the put of an instance.
ReadsWhatItWrites ==
  ~mixed /\ {} \notin {readAlias, writeAlias} =>
    /\ readAlias = writeAlias
    /\ Cardinality(readAlias) = 1
==============================================================================
