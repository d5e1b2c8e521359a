---------------------------- MODULE MemoryRecords ----------------------------
(***************************************************************************)
(* The long-term memories of users: MemoryController and the capture of a  *)
(* turn over LongTermMemoryService, whose circuit breaker is one for all   *)
(* users, and one of two providers, the table memory_record or mem0        *)
(* (memory.module.ts).                                                     *)
(*                                                                         *)
(* A call to the provider takes time: others run between its start and its *)
(* end.  It may fail without effect, or with its effect when only the      *)
(* answer is lost.  No code sets expires_at, so nothing expires.           *)
(***************************************************************************)
EXTENDS Integers, FiniteSets, FiniteSetsExt

CONSTANTS Rememberers,    \* calls that may be under way at a time, numbers
          Makers,         \* users whose memories are made
          MaxMemories,    \* records that are ever made
          MaxMemoryOps,   \* requests and turns
          MaxMemoryFaults,
          FailureLimit,   \* failures that open the circuit (3)
          MemoryLimit     \* records of an answer at most (20)
ASSUME MemoryBounds == MaxMemories \in Nat /\ MaxMemoryOps \in Nat /\ MaxMemoryFaults \in Nat
                       /\ FailureLimit \in Nat \ {0} /\ MemoryLimit \in Nat \ {0}

VARIABLES
  provider,   \* "local" or "mem0", chosen at the start
  records,    \* what it holds
  section,    \* the department of each user
  breaker,    \* failureCount, whether circuitOpenUntil is ahead, probing
  memoryCall, \* by caller: the call under way
  listing,    \* the last list: who asked, what was to be read, what was answered
  erased,     \* ghost: records a delete by one who may has removed
  stored,     \* ghost: records whose creation was answered with them
  askedAway,  \* ghost: records a delete was asked for
  memoryOps, memoryFaults

recordVars == <<provider, records, section, breaker, memoryCall, listing, erased, stored,
                askedAway, memoryOps, memoryFaults>>

MemoryOwners == {"ann", "bob", "root"}
ASSUME MakersAreUsers == Makers \subseteq MemoryOwners
Admins == {"root"}
Sections == {"", "sales"}
MemoryVisibilities == {"private", "department", "company"}
MemoryIds == 1..MaxMemories
MemoryRows == [id : MemoryIds, owner : MemoryOwners, department : Sections,
               visibility : MemoryVisibilities, confidence : {72, 90}]
NoCall == [op |-> "none", who |-> "root", department |-> "", visibility |-> "private",
           blank |-> FALSE, id |-> 0, probe |-> FALSE]
NoListing == [who |-> "root", readable |-> {}, rows |-> {}]

RecordTypeOK ==
  /\ provider \in {"local", "mem0"} /\ records \subseteq MemoryRows
  /\ section \in [MemoryOwners -> Sections]
  /\ breaker \in [fails : 0..FailureLimit, open : BOOLEAN, probing : BOOLEAN]
  /\ memoryCall \in [Rememberers -> [op : {"none", "list", "create", "capture", "delete"},
        who : MemoryOwners, department : Sections, visibility : MemoryVisibilities,
        blank : BOOLEAN, id : 0..MaxMemories, probe : BOOLEAN]]
  /\ listing \in [who : MemoryOwners, readable : SUBSET MemoryRows, rows : SUBSET MemoryRows]
  /\ erased \subseteq MemoryIds /\ stored \subseteq MemoryIds /\ askedAway \subseteq MemoryIds
  /\ memoryOps \in 0..MaxMemoryOps /\ memoryFaults \in 0..MaxMemoryFaults

\* A maker may have a memory from before.
Before == {{}} \cup {{[id |-> 1, owner |-> who, department |-> "sales", visibility |-> v,
                      confidence |-> 90]} : who \in Makers, v \in MemoryVisibilities}
RecordInit ==
  /\ provider \in {"local", "mem0"} /\ records \in Before /\ listing = NoListing
  /\ stored = {r.id : r \in records}
  /\ section = [p \in MemoryOwners |-> IF p \in Admins THEN "" ELSE "sales"]
  /\ breaker = [fails |-> 0, open |-> FALSE, probing |-> FALSE]
  /\ memoryCall = [c \in Rememberers |-> NoCall]
  /\ erased = {} /\ askedAway = {}
  /\ memoryOps = MaxMemoryOps /\ memoryFaults = MaxMemoryFaults

-----------------------------------------------------------------------------
\* The two searches: the table is asked for what may be read, mem0 for what the
\* user owns.  The policy then filters either, and an administrator's not at all.
SqlReadable(r, who, department) ==
  \/ r.visibility = "private" /\ r.owner = who
  \/ r.visibility = "department" /\ department # "" /\ r.department = department
  \/ r.visibility = "company"
PolicyReadable(r, who, department) ==
  who \in Admins \/
    CASE r.visibility = "company"    -> TRUE
      [] r.visibility = "department" -> department # "" /\ r.department = department
      [] OTHER                       -> r.owner = who
Ranks(r, s) == r.confidence > s.confidence \/ (r.confidence = s.confidence /\ r.id > s.id)
BestOf(rows) == {r \in rows : Cardinality({s \in rows : Ranks(s, r)}) < MemoryLimit}
ProviderSearch(who, department) ==
  IF provider = "local"
  THEN {BestOf({r \in records : SqlReadable(r, who, department)})}
  ELSE LET own == {r \in records : r.owner = who}
       IN  {found \in SUBSET own :
              Cardinality(found) = IF Cardinality(own) < MemoryLimit THEN Cardinality(own)
                                                                     ELSE MemoryLimit}
FilterReadable(rows, who, department) ==
  {r \in rows : PolicyReadable(r, who, department)}

-----------------------------------------------------------------------------
\* safeRun lets a call through a closed circuit, and one probe at a time through
\* an open one; the others get the fallback.
SafeRun(c, call) ==
  /\ memoryCall[c].op = "none" /\ \A d \in Rememberers : d < c => memoryCall[d].op # "none"
  /\ memoryOps > 0 /\ memoryOps' = memoryOps - 1
  /\ LET refused == breaker.open /\ breaker.probing
         probe == breaker.open /\ ~breaker.probing
     IN  /\ memoryCall' = IF refused THEN memoryCall
                          ELSE [memoryCall EXCEPT ![c] = [call EXCEPT !.probe = probe]]
         /\ breaker' = [breaker EXCEPT !.probing = @ \/ probe]
  /\ UNCHANGED <<provider, records, section, listing, erased, stored, memoryFaults>>
CallOf(op, who) == [NoCall EXCEPT !.op = op, !.who = who, !.department = section[who]]

ListMemories(c, who) == SafeRun(c, CallOf("list", who)) /\ UNCHANGED askedAway
\* A content of blanks passes the request's validation.
CreateMemory(c, who, visibility, blank) ==
  /\ SafeRun(c, [CallOf("create", who) EXCEPT !.visibility = visibility, !.blank = blank])
  /\ UNCHANGED askedAway
\* A turn whose question says something to remember leaves a private record; a
\* turn without makes no call.
CaptureFromConversation(c, who) == SafeRun(c, CallOf("capture", who)) /\ UNCHANGED askedAway
RemoveMemory(c, who, r) ==
  /\ SafeRun(c, [CallOf("delete", who) EXCEPT !.id = r.id])
  /\ askedAway' = askedAway \cup {r.id}

\* What the provider does.  A blank content is refused by the table only; the
\* table deletes a record of its asker, or of anyone for an administrator.
NextId == 1 + Cardinality(erased \cup askedAway \cup {r.id : r \in records} \cup stored)
NewRecord(s) ==
  [id |-> NextId, owner |-> s.who, department |-> s.department,
   visibility |-> IF s.op = "create" THEN s.visibility ELSE "private",
   confidence |-> IF s.op = "create" THEN 90 ELSE 72]
MayDelete(s, r) == s.who \in Admins \/ r.owner = s.who
Deletes(s, r) == r.id = s.id /\ (provider = "mem0" \/ MayDelete(s, r))
EmptyRefused(s) == s.blank /\ provider = "local"
Effect(s) ==
  CASE s.op \in {"create", "capture"} -> records \cup {NewRecord(s)}
    [] s.op = "delete"                -> {r \in records : ~Deletes(s, r)}
    [] OTHER                          -> records

CallReturns(c) ==
  LET s == memoryCall[c]
  IN  /\ s.op # "none" /\ ~EmptyRefused(s)
      /\ s.op \in {"create", "capture"} => NextId \in MemoryIds
      /\ records' = Effect(s)
      /\ breaker' = [fails |-> 0, open |-> FALSE, probing |-> FALSE]
      /\ IF s.op = "list"
         THEN \E found \in ProviderSearch(s.who, s.department) :
                listing' = [who |-> s.who,
                            readable |-> {r \in records : PolicyReadable(r, s.who, s.department)},
                            rows |-> FilterReadable(found, s.who, s.department)]
         ELSE UNCHANGED listing
      /\ stored' = IF s.op \in {"create", "capture"} THEN stored \cup {NextId} ELSE stored
      /\ erased' = IF \E r \in records : r.id = s.id /\ MayDelete(s, r)
                   THEN erased \cup {s.id} ELSE erased
      /\ memoryCall' = [memoryCall EXCEPT ![c] = NoCall]
      /\ UNCHANGED <<provider, section, askedAway, memoryOps, memoryFaults>>
\* A failure answers the fallback: no record, an empty list, {deleted: true}.
CallFails(c, effect) ==
  LET s == memoryCall[c]
      fails == IF breaker.fails < FailureLimit THEN breaker.fails + 1 ELSE breaker.fails
  IN  /\ s.op # "none"
      /\ IF EmptyRefused(s) THEN ~effect /\ UNCHANGED memoryFaults
         ELSE memoryFaults > 0 /\ memoryFaults' = memoryFaults - 1
      /\ (effect /\ s.op \in {"create", "capture"}) => NextId \in MemoryIds
      /\ records' = IF effect THEN Effect(s) ELSE records
      /\ breaker' = [fails |-> fails, open |-> breaker.open \/ fails = FailureLimit,
                     probing |-> FALSE]
      /\ memoryCall' = [memoryCall EXCEPT ![c] = NoCall]
      /\ UNCHANGED <<provider, section, listing, erased, stored, askedAway, memoryOps>>
\* The 30 s are over.
CircuitCools ==
  /\ breaker.open /\ breaker' = [breaker EXCEPT !.open = FALSE]
  /\ UNCHANGED <<provider, records, section, memoryCall, listing, erased, stored, askedAway,
                 memoryOps, memoryFaults>>
\* An administrator moves a user to another department.
ChangesSection(who) ==
  /\ memoryOps > 0 /\ memoryOps' = memoryOps - 1
  /\ section' = [section EXCEPT ![who] = CHOOSE d \in Sections : d # section[who]]
  /\ UNCHANGED <<provider, records, breaker, memoryCall, listing, erased, stored, askedAway,
                 memoryFaults>>

RecordNext ==
  \/ \E c \in Rememberers :
       \/ \E who \in Makers :
            \/ CaptureFromConversation(c, who)
            \/ \E v \in MemoryVisibilities : CreateMemory(c, who, v, FALSE)
            \/ CreateMemory(c, who, "private", TRUE)
       \/ \E who \in MemoryOwners :
            \/ ListMemories(c, who)
            \/ \E r \in records : RemoveMemory(c, who, r)
       \/ CallReturns(c)
       \/ \E effect \in BOOLEAN : CallFails(c, effect)
  \/ CircuitCools \/ \E who \in MemoryOwners \ Admins : ChangesSection(who)
RecordSpec == RecordInit /\ [][RecordNext]_recordVars

-----------------------------------------------------------------------------
(* What a user is told of is kept until a delete is asked for, and what    *)
(* one who may has deleted is gone.  A list holds nothing its reader may   *)
(* not read, and of an administrator no one else's private memory; from    *)
(* the table it holds all there is to read up to the limit, from mem0 the  *)
(* reader's own.  The breaker never shuts itself out: the probe it waits   *)
(* for is under way.                                                       *)
MemoriesKept ==
  LET ids == {r.id : r \in records}
      OwnOr(r) == r.owner = listing.who \/ r.visibility # "private"
      size == Cardinality(listing.rows)
  IN  /\ stored \ askedAway \subseteq ids /\ erased \cap ids = {}
      /\ listing.rows \subseteq {r \in listing.readable : OwnOr(r)}
      /\ size <= MemoryLimit
      /\ provider = "local" /\ listing.who \notin Admins =>
           size = Min({MemoryLimit, Cardinality(listing.readable)})
      /\ provider = "mem0" => \A r \in listing.rows : r.owner = listing.who
      /\ breaker.probing => \E c \in Rememberers : memoryCall[c].probe
=============================================================================
