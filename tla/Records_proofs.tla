--------------------------- MODULE Records_proofs ----------------------------
(* Proofs about the records of the platform, for every value of its          *)
(* constants: who may do what and the cases of an evaluation.                *)
EXTENDS AccessRules, Accounts, EvalRuns, HealthProbe, SignIn, UploadDrawer,
        SequenceTheorems, TLAPS

-----------------------------------------------------------------------------
(***************************************************************************)
(* That the list, the index and the last check agree on who sees a         *)
(* document, and that a replacement of links leaves what it asked.         *)
(***************************************************************************)

Codes == {"reader", "documents:view", "documents:*"}
AccessDocRec == [visibility : Visibilities, rules : SUBSET AclRules, refresh : BOOLEAN, ops : Nat]
JobRec == [at : {"none", "found", "deleted", "done"}, key : Links, set : SUBSET Codes]
AskedRec == [set : SUBSET Codes, alone : BOOLEAN]

\* A replacement of these links has begun and not ended.
Replacing(jobs, j, k) == jobs[j].key = k /\ jobs[j].at \in {"found", "deleted"}
\* The last replacement ran alone: it is the one in progress, or what it asked is there.
LinksOK(jobs, set, replaced, k) == replaced.alone =>
  /\ \A j \in LinkJobs : Replacing(jobs, j, k) =>
       /\ jobs[j].set = replaced.set
       /\ \A i \in LinkJobs : Replacing(jobs, i, k) => i = j
       /\ jobs[j].at = "deleted" => set = {}
  /\ (\A j \in LinkJobs : ~Replacing(jobs, j, k)) => set = replaced.set
RulesInv ==
  /\ doc \in AccessDocRec /\ stale \in BOOLEAN
  /\ ~stale /\ ~doc.refresh => meta = BuildMetadata
LinksInv ==
  /\ links \in [Links -> SUBSET Codes] /\ job \in [LinkJobs -> JobRec]
  /\ asked \in [Links -> AskedRec]
  /\ \A k \in Links : asked[k].set \subseteq Targets(k)
  /\ \A k \in Links : LinksOK(job, links[k], asked[k], k)
AccessInv == RulesInv /\ LinksInv

\* The subjects that rules let in, and those of a kind.
LetIn(rules) == {r.subject : r \in {s \in rules : s.allow /\ s.read}}
NamedAs(rules, kind) == {s[2] : s \in {t \in LetIn(rules) : t[1] = kind}}
Level(visibility) == CASE visibility = "company" -> 0 [] visibility = "department" -> 20
                       [] OTHER -> 30

\* The metadata holds the level of the document and those its rules let in.
LEMMA MetadataIs ==
  BuildMetadata =
    [level |-> IF \E r \in doc.rules : ~r.allow THEN 40 ELSE Level(doc.visibility),
     ids |-> NamedAs(doc.rules, "user")
               \cup (IF Level(doc.visibility) = 30 THEN {"owner"} ELSE {}),
     roles |-> NamedAs(doc.rules, "role"),
     depts |-> NamedAs(doc.rules, "department")
                 \cup (IF Level(doc.visibility) = 20 THEN {"sales"} ELSE {})]
BY DEF BuildMetadata, NamedAs, LetIn, Level

\* Without rules nobody is named; a rule that lets somebody read names it.
LEMMA NamedAre ==
  ASSUME NEW kind
  PROVE  /\ NamedAs({}, kind) = {}
         /\ \A rules : \A r \in rules : r.allow /\ r.read /\ r.subject[1] = kind =>
              r.subject[2] \in NamedAs(rules, kind)
<1>1. LetIn({}) = {}
  BY DEF LetIn
<1>2. ASSUME NEW rules, NEW r \in rules, r.allow, r.read, r.subject[1] = kind
      PROVE  r.subject[2] \in NamedAs(rules, kind)
  <2>1. r.subject \in LetIn(rules)
    BY <1>2 DEF LetIn
  <2>2. r.subject \in {t \in LetIn(rules) : t[1] = kind}
    BY <1>2, <2>1
  <2>. QED BY <2>2 DEF NamedAs
<1>. QED BY <1>1, <1>2 DEF NamedAs

\* The invariant holds at the start.
LEMMA AccessInitSafe ==
  ASSUME AccessInit
  PROVE  AccessInv
<1>1. /\ doc = [visibility |-> "company", rules |-> {}, refresh |-> FALSE, ops |-> 0]
      /\ meta = [level |-> 0, ids |-> {}, roles |-> {}, depts |-> {}]
      /\ links = [k \in Links |-> {}]
      /\ job = [j \in LinkJobs |-> [at |-> "none", key |-> "guest", set |-> {}]]
      /\ stale = FALSE /\ asked = [k \in Links |-> [set |-> {}, alone |-> TRUE]]
  BY DEF AccessInit, Nobody, NoLinkJob
<1>2. doc \in AccessDocRec
  BY <1>1 DEF AccessDocRec, Visibilities
<1>3. meta = BuildMetadata
  <2>1. Level("company") = 0 /\ doc.rules = {} /\ doc.visibility = "company"
    BY <1>1 DEF Level
  <2>2. /\ NamedAs(doc.rules, "user") = {} /\ NamedAs(doc.rules, "role") = {}
        /\ NamedAs(doc.rules, "department") = {} /\ ~(\E r \in doc.rules : ~r.allow)
        /\ Level(doc.visibility) = 0
    BY <2>1, NamedAre
  <2>3. BuildMetadata = [level |-> 0, ids |-> {}, roles |-> {}, depts |-> {}]
    BY <2>2, MetadataIs
  <2>. QED BY <1>1, <2>3
<1>4. /\ links \in [Links -> SUBSET Codes] /\ job \in [LinkJobs -> JobRec]
      /\ asked \in [Links -> AskedRec]
  BY <1>1 DEF JobRec, AskedRec, Links
<1>5. \A k \in Links : asked[k].set \subseteq Targets(k) /\ LinksOK(job, links[k], asked[k], k)
  BY <1>1 DEF LinksOK, Replacing
<1>. QED BY <1>1, <1>2, <1>3, <1>4, <1>5 DEF AccessInv, RulesInv, LinksInv

\* Rules, scopes and the jobs that copy them into the index.
LEMMA RulesStepSafe ==
  ASSUME RulesInv, [AccessNext]_accessVars
  PROVE  RulesInv'
<1>1. PICK d \in AccessDocRec : d = doc
  BY DEF RulesInv
<1>2. d.ops \in Nat /\ d.ops + 1 \in Nat /\ d.rules \subseteq AclRules /\ d.visibility \in Visibilities /\ d.refresh \in BOOLEAN
  BY <1>1 DEF AccessDocRec
<1>3. ASSUME NEW r \in AclRules, CreateDocumentAcl(r) \/ DeleteDocumentAcl(r)
      PROVE  RulesInv'
  <2>1. PICK rules \in SUBSET AclRules : doc' = [d EXCEPT !.rules = rules, !.refresh = TRUE, !.ops = d.ops + 1]
    <3>1. CASE CreateDocumentAcl(r)
      <4>1. doc' = [d EXCEPT !.rules = d.rules \cup {r}, !.refresh = TRUE, !.ops = d.ops + 1]
        BY <1>1, <3>1 DEF CreateDocumentAcl, RuleChange, AccessDocRec
      <4>. QED BY <1>2, <4>1
    <3>2. CASE DeleteDocumentAcl(r)
      <4>1. doc' = [d EXCEPT !.rules = d.rules \ {r}, !.refresh = TRUE, !.ops = d.ops + 1]
        BY <1>1, <3>2 DEF DeleteDocumentAcl, RuleChange, AccessDocRec
      <4>. QED BY <1>2, <4>1
    <3>. QED BY <1>3, <3>1, <3>2
  <2>2. doc' \in AccessDocRec /\ doc'.refresh = TRUE
    BY <1>2, <2>1 DEF AccessDocRec
  <2>3. stale' = stale
    BY <1>3 DEF CreateDocumentAcl, DeleteDocumentAcl
  <2>. QED BY <2>2, <2>3 DEF RulesInv
<1>4. ASSUME NEW v \in Visibilities, UpdateVisibility(v)
      PROVE  RulesInv'
  <2>1. doc' = [d EXCEPT !.visibility = v, !.ops = d.ops + 1] /\ stale' = TRUE
    BY <1>1, <1>4 DEF UpdateVisibility, RuleChange, AccessDocRec
  <2>2. doc' \in AccessDocRec
    BY <1>2, <2>1 DEF AccessDocRec
  <2>. QED BY <2>1, <2>2 DEF RulesInv
<1>5. ASSUME RefreshMetadata
      PROVE  RulesInv'
  <2>1. doc' = [d EXCEPT !.refresh = FALSE] /\ stale' = FALSE /\ meta' = BuildMetadata
    BY <1>1, <1>5 DEF RefreshMetadata
  <2>2. doc' \in AccessDocRec /\ doc'.rules = doc.rules /\ doc'.visibility = doc.visibility
    BY <1>1, <1>2, <2>1 DEF AccessDocRec
  <2>3. meta' = BuildMetadata'
    BY <2>1, <2>2 DEF BuildMetadata
  <2>. QED BY <2>1, <2>2, <2>3 DEF RulesInv
<1>6. ASSUME \/ DeleteRole
             \/ \E j \in LinkJobs, k \in Links : \E set \in SUBSET Targets(k) : FindCodes(j, k, set)
      PROVE  RulesInv'
  <2>1. doc' = [d EXCEPT !.ops = d.ops + 1] /\ stale' = stale /\ meta' = meta
    BY <1>1, <1>6 DEF DeleteRole, FindCodes, RuleChange
  <2>2. doc' \in AccessDocRec /\ doc'.rules = doc.rules /\ doc'.visibility = doc.visibility
        /\ doc'.refresh = doc.refresh
    BY <1>1, <1>2, <2>1 DEF AccessDocRec
  <2>3. BuildMetadata' = BuildMetadata
    BY <2>2 DEF BuildMetadata
  <2>. QED BY <2>1, <2>2, <2>3 DEF RulesInv
<1>7. ASSUME \/ \E j \in LinkJobs : DeleteLinks(j) \/ SaveLinks(j) \/ SaveLinksFails(j)
             \/ UNCHANGED accessVars
      PROVE  RulesInv'
  <2>1. doc' = doc /\ stale' = stale /\ meta' = meta
    BY <1>7 DEF DeleteLinks, SaveLinks, SaveLinksFails, accessVars
  <2>2. BuildMetadata' = BuildMetadata
    BY <2>1 DEF BuildMetadata
  <2>. QED BY <2>1, <2>2 DEF RulesInv
<1>. QED BY <1>3, <1>4, <1>5, <1>6, <1>7 DEF AccessNext

\* Links of a document that are replaced by two requests at once.
LEMMA LinksStepSafe ==
  ASSUME LinksInv, [AccessNext]_accessVars
  PROVE  LinksInv'
<1>1. /\ links \in [Links -> SUBSET Codes] /\ job \in [LinkJobs -> JobRec]
      /\ asked \in [Links -> AskedRec]
      /\ \A k \in Links : asked[k].set \subseteq Targets(k) /\ asked[k] \in AskedRec
      /\ \A k \in Links : LinksOK(job, links[k], asked[k], k)
      /\ \A k \in Links : Targets(k) \subseteq Codes
  BY DEF LinksInv, Links, Targets, Codes
<1>2. \A j \in LinkJobs : /\ job[j] \in JobRec /\ job[j].key \in Links /\ job[j].set \subseteq Codes
                          /\ job[j].at \in {"none", "found", "deleted", "done"}
  BY <1>1 DEF JobRec
<1>3. ASSUME NEW j \in LinkJobs, NEW k \in Links, NEW set \in SUBSET Targets(k), FindCodes(j, k, set)
      PROVE  LinksInv'
  <2>1. PICK r \in JobRec : r = [at |-> "found", key |-> k, set |-> set]
    BY <1>1 DEF JobRec
  <2>2. r.at = "found" /\ r.key = k /\ r.set = set
    BY <2>1
  <2>3. PICK alone \in BOOLEAN : alone = Alone(j, k)
    BY DEF Alone
  <2>4. PICK a \in AskedRec : a = [set |-> set, alone |-> alone]
    BY <1>1 DEF AskedRec
  <2>5. a.set = set /\ a.alone = alone
    BY <2>4
  <2>6. /\ job[j].at = "none" /\ job' = [job EXCEPT ![j] = r] /\ links' = links
        /\ asked' = [asked EXCEPT ![k] = a]
    BY <1>3, <2>1, <2>3, <2>4, Zenon DEF FindCodes
  <2>7. /\ job' \in [LinkJobs -> JobRec] /\ asked' \in [Links -> AskedRec]
        /\ job'[j] = r /\ asked'[k] = a
        /\ \A i \in LinkJobs \ {j} : job'[i] = job[i]
        /\ \A l \in Links \ {k} : asked'[l] = asked[l]
    BY <1>1, <2>6
  <2>8. \A l \in Links : asked'[l].set \subseteq Targets(l)
    BY <1>1, <2>5, <2>7
  <2>9. LinksOK(job', links[k], a, k)
    <3>1. alone => \A i \in LinkJobs \ {j} : ~Replacing(job', i, k)
      BY <2>3, <2>7 DEF Alone, Replacing
    <3>2. Replacing(job', j, k)
      BY <2>2, <2>7 DEF Replacing
    <3>. QED BY <2>2, <2>5, <2>7, <3>1, <3>2 DEF LinksOK
  <2>10. ASSUME NEW l \in Links, l # k
         PROVE  LinksOK(job', links[l], asked'[l], l)
    <3>1. \A i \in LinkJobs : Replacing(job', i, l) <=> Replacing(job, i, l)
      BY <1>2, <2>2, <2>6, <2>7, <2>10 DEF Replacing
    <3>2. \A i \in LinkJobs : Replacing(job', i, l) => job'[i] = job[i]
      BY <2>2, <2>7, <2>10 DEF Replacing
    <3>. QED BY <1>1, <2>7, <2>10, <3>1, <3>2 DEF LinksOK
  <2>. QED BY <1>1, <2>6, <2>7, <2>8, <2>9, <2>10 DEF LinksInv
<1>4. ASSUME NEW j \in LinkJobs, DeleteLinks(j)
      PROVE  LinksInv'
  <2>1. PICK k \in Links : k = job[j].key
    BY <1>2
  <2>2. PICK at \in {"done", "deleted"} : at = IF job[j].set = {} THEN "done" ELSE "deleted"
    OBVIOUS
  <2>3. /\ job[j].at = "found" /\ links' = [links EXCEPT ![k] = {}]
        /\ job' = [job EXCEPT ![j].at = at] /\ asked' = asked
    BY <1>4, <2>1, <2>2 DEF DeleteLinks
  <2>4. /\ job' \in [LinkJobs -> JobRec] /\ links' \in [Links -> SUBSET Codes] /\ links'[k] = {}
        /\ job'[j].at = at /\ job'[j].key = k /\ job'[j].set = job[j].set
        /\ \A i \in LinkJobs \ {j} : job'[i] = job[i]
        /\ \A l \in Links \ {k} : links'[l] = links[l]
    BY <1>1, <1>2, <2>1, <2>3 DEF JobRec
  <2>5. LinksOK(job', {}, asked[k], k)
    <3>1. LinksOK(job, links[k], asked[k], k) /\ Replacing(job, j, k)
      BY <1>1, <2>1, <2>3 DEF Replacing
    <3>2. \A i \in LinkJobs : Replacing(job', i, k) => Replacing(job, i, k)
      BY <2>4, <3>1 DEF Replacing
    <3>3. (\A i \in LinkJobs : ~Replacing(job', i, k)) => job[j].set = {}
      BY <2>2, <2>4 DEF Replacing
    <3>. QED BY <2>4, <3>1, <3>2, <3>3 DEF LinksOK
  <2>6. ASSUME NEW l \in Links, l # k
        PROVE  LinksOK(job', links'[l], asked[l], l)
    <3>1. \A i \in LinkJobs : Replacing(job', i, l) <=> Replacing(job, i, l)
      BY <2>1, <2>4, <2>6 DEF Replacing
    <3>2. \A i \in LinkJobs : Replacing(job', i, l) => job'[i] = job[i]
      BY <2>4, <2>6 DEF Replacing
    <3>. QED BY <1>1, <2>4, <2>6, <3>1, <3>2 DEF LinksOK
  <2>. QED BY <1>1, <2>3, <2>4, <2>5, <2>6 DEF LinksInv
<1>5. ASSUME NEW j \in LinkJobs, SaveLinks(j)
      PROVE  LinksInv'
  <2>1. PICK k \in Links : k = job[j].key
    BY <1>2
  <2>2. /\ job[j].at = "deleted" /\ links' = [links EXCEPT ![k] = @ \cup job[j].set]
        /\ job' = [job EXCEPT ![j].at = "done"] /\ asked' = asked
    BY <1>5, <2>1 DEF SaveLinks
  <2>3. /\ job' \in [LinkJobs -> JobRec] /\ links' \in [Links -> SUBSET Codes]
        /\ links'[k] = links[k] \cup job[j].set
        /\ job'[j].at = "done" /\ job'[j].key = k
        /\ \A i \in LinkJobs \ {j} : job'[i] = job[i]
        /\ \A l \in Links \ {k} : links'[l] = links[l]
    BY <1>1, <1>2, <2>1, <2>2 DEF JobRec
  <2>4. LinksOK(job', links'[k], asked[k], k)
    <3>1. LinksOK(job, links[k], asked[k], k) /\ Replacing(job, j, k)
      BY <1>1, <2>1, <2>2 DEF Replacing
    <3>2. \A i \in LinkJobs : Replacing(job', i, k) => Replacing(job, i, k) /\ i # j
      BY <2>3, <3>1 DEF Replacing
    <3>3. asked[k].alone => /\ \A i \in LinkJobs : ~Replacing(job', i, k)
                            /\ links[k] = {} /\ job[j].set = asked[k].set
      BY <2>2, <3>1, <3>2 DEF LinksOK
    <3>. QED BY <2>3, <3>3 DEF LinksOK
  <2>5. ASSUME NEW l \in Links, l # k
        PROVE  LinksOK(job', links'[l], asked[l], l)
    <3>1. \A i \in LinkJobs : Replacing(job', i, l) <=> Replacing(job, i, l)
      BY <2>1, <2>3, <2>5 DEF Replacing
    <3>2. \A i \in LinkJobs : Replacing(job', i, l) => job'[i] = job[i]
      BY <2>3, <2>5 DEF Replacing
    <3>. QED BY <1>1, <2>3, <2>5, <3>1, <3>2 DEF LinksOK
  <2>. QED BY <1>1, <2>2, <2>3, <2>4, <2>5 DEF LinksInv
<1>6. ASSUME NEW j \in LinkJobs, SaveLinksFails(j)
      PROVE  LinksInv'
  <2>1. PICK k \in Links : k = job[j].key
    BY <1>2
  <2>2. /\ job[j].at = "deleted" /\ links' = links
        /\ job' = [job EXCEPT ![j].at = "done"] /\ asked' = [asked EXCEPT ![k].alone = FALSE]
    BY <1>6, <2>1 DEF SaveLinksFails
  <2>3. /\ job' \in [LinkJobs -> JobRec] /\ asked' \in [Links -> AskedRec]
        /\ asked'[k].alone = FALSE /\ asked'[k].set = asked[k].set
        /\ job'[j].at = "done" /\ job'[j].key = k
        /\ \A i \in LinkJobs \ {j} : job'[i] = job[i]
        /\ \A l \in Links \ {k} : asked'[l] = asked[l]
    <3>1. PICK x \in JobRec : x = job[j]
      BY <1>1
    <3>2. PICK y \in JobRec : y = [x EXCEPT !.at = "done"]
      BY DEF JobRec
    <3>3. y.at = "done" /\ y.key = k /\ job' = [job EXCEPT ![j] = y]
      BY <1>1, <2>1, <2>2, <3>1, <3>2 DEF JobRec
    <3>4. PICK a \in AskedRec : a = asked[k]
      BY <1>1
    <3>5. PICK b \in AskedRec : b = [a EXCEPT !.alone = FALSE]
      BY DEF AskedRec
    <3>6. b.alone = FALSE /\ b.set = a.set /\ asked' = [asked EXCEPT ![k] = b]
      BY <1>1, <2>2, <3>4, <3>5 DEF AskedRec
    <3>. QED BY <1>1, <3>3, <3>4, <3>6
  <2>4. ASSUME NEW l \in Links, l # k
        PROVE  LinksOK(job', links[l], asked'[l], l)
    <3>1. \A i \in LinkJobs : Replacing(job', i, l) <=> Replacing(job, i, l)
      BY <2>1, <2>3, <2>4 DEF Replacing
    <3>2. \A i \in LinkJobs : Replacing(job', i, l) => job'[i] = job[i]
      BY <2>3, <2>4 DEF Replacing
    <3>. QED BY <1>1, <2>3, <2>4, <3>1, <3>2 DEF LinksOK
  <2>5. LinksOK(job', links[k], asked'[k], k)
    BY <2>3 DEF LinksOK
  <2>6. \A l \in Links : asked'[l].set \subseteq Targets(l)
    BY <1>1, <2>3
  <2>. QED BY <1>1, <2>2, <2>3, <2>4, <2>5, <2>6 DEF LinksInv
<1>7. ASSUME DeleteRole
      PROVE  LinksInv'
  <2>1. PICK alone \in BOOLEAN :
          alone = \A j \in LinkJobs : job[j].at \notin {"found", "deleted"}
    OBVIOUS
  <2>2. PICK a \in AskedRec : a = [set |-> {}, alone |-> alone]
    BY DEF AskedRec
  <2>3. a.set = {} /\ a.alone = alone
    BY <2>2
  <2>4. links' = [k \in Links |-> {}] /\ job' = job /\ asked' = [k \in Links |-> a]
    BY <1>7, <2>1, <2>2, Zenon DEF DeleteRole
  <2>5. /\ links' \in [Links -> SUBSET Codes] /\ asked' \in [Links -> AskedRec]
        /\ \A k \in Links : asked'[k] = a /\ links'[k] = {}
    BY <2>4
  <2>6. alone => \A j \in LinkJobs, k \in Links : ~Replacing(job, j, k)
    BY <2>1 DEF Replacing
  <2>7. \A k \in Links : LinksOK(job, {}, a, k)
    BY <2>3, <2>6 DEF LinksOK
  <2>. QED BY <1>1, <2>3, <2>4, <2>5, <2>7 DEF LinksInv
<1>8. ASSUME \/ \E r \in AclRules : CreateDocumentAcl(r) \/ DeleteDocumentAcl(r)
             \/ \E v \in Visibilities : UpdateVisibility(v)
             \/ RefreshMetadata \/ UNCHANGED accessVars
      PROVE  LinksInv'
  <2>1. links' = links /\ job' = job /\ asked' = asked
    BY <1>8 DEF CreateDocumentAcl, DeleteDocumentAcl, UpdateVisibility, RefreshMetadata, accessVars
  <2>. QED BY <2>1 DEF LinksInv
<1>. QED BY <1>3, <1>4, <1>5, <1>6, <1>7, <1>8 DEF AccessNext


\* The two parts together.
LEMMA AccessStepSafe ==
  ASSUME AccessInv, [AccessNext]_accessVars
  PROVE  AccessInv'
BY RulesStepSafe, LinksStepSafe DEF AccessInv

\* What the list, the index and the last check say of one person.
LEMMA RulesAgree ==
  ASSUME AccessInv, NEW u \in Staff, NEW byKey \in BOOLEAN, NEW p, p = Person(u, byKey)
  PROVE  /\ doc.rules = {} => CanAccessDocument(p) = ListShows(p)
         /\ ~stale /\ ~doc.refresh /\ CanAccessDocument(p) =>
              LET named == {r \in Applying(p) : r.subject[1] # "role" \/ r.subject[2] = p.role}
              IN  \/ IndexShows(p)
                  \/ meta.level = 40 /\ named = {}
                  \/ named = {} /\ Applying(p) # {}
         /\ doc.rules = {} /\ ~stale /\ ~doc.refresh => IndexShows(p) = CanAccessDocument(p)
         /\ \A made \in BOOLEAN : TaskListed(p, made) = TaskVisible(p, made)
         /\ doc.rules = {} => TaskVisible(p, TRUE) = CanAccessDocument(p)
<1>1. /\ p.id = u /\ p.role = "user" /\ p.dept \in {"", "sales"}
      /\ doc.visibility \in {"company", "department", "private"}
      /\ doc.rules \subseteq AclRules
  BY DEF Person, AccessInv, RulesInv, AccessDocRec, Visibilities
<1>2. doc.rules = {} => Applying(p) = {}
  BY DEF Applying
<1>3. doc.rules = {} => CanAccessDocument(p) = VisibleByScope(p)
  <2>1. doc.rules = {} => (CanAccessDocument(p) <=> VisibleByScope(p))
    BY <1>2 DEF CanAccessDocument
  <2>2. CanAccessDocument(p) \in BOOLEAN /\ VisibleByScope(p) \in BOOLEAN
    BY DEF CanAccessDocument, VisibleByScope
  <2>. QED BY <2>1, <2>2
<1>4. ASSUME NEW made \in BOOLEAN
      PROVE  TaskListed(p, made) = TaskVisible(p, made)
  <2>1. CASE made
    BY <2>1 DEF TaskListed, TaskVisible, VisibleByScope
  <2>2. CASE ~made
    <3>1. (TaskListed(p, made) <=> IsUploader(p)) /\ TaskVisible(p, made) = IsUploader(p)
      BY <2>2 DEF TaskListed, TaskVisible
    <3>2. TaskListed(p, made) \in BOOLEAN /\ IsUploader(p) \in BOOLEAN
      BY DEF TaskListed, IsUploader
    <3>. QED BY <3>1, <3>2
  <2>. QED BY <2>1, <2>2
<1>5. doc.rules = {} => TaskVisible(p, TRUE) = CanAccessDocument(p)
  BY <1>3 DEF TaskVisible
<1>6. ASSUME ~stale, ~doc.refresh
      PROVE  /\ meta.level = IF \E r \in doc.rules : ~r.allow THEN 40 ELSE Level(doc.visibility)
             /\ meta.ids = NamedAs(doc.rules, "user")
                             \cup (IF Level(doc.visibility) = 30 THEN {"owner"} ELSE {})
             /\ meta.roles = NamedAs(doc.rules, "role")
             /\ meta.depts = NamedAs(doc.rules, "department")
                               \cup (IF Level(doc.visibility) = 20 THEN {"sales"} ELSE {})
  BY <1>6, MetadataIs DEF AccessInv, RulesInv
<1>7. /\ doc.visibility = "company" => Level(doc.visibility) = 0
      /\ doc.visibility = "department" => Level(doc.visibility) = 20
      /\ doc.visibility = "private" => Level(doc.visibility) = 30
  BY DEF Level
<1>8. ASSUME ~stale, ~doc.refresh, doc.rules = {}
      PROVE  IndexShows(p) = CanAccessDocument(p)
  <2>1. /\ meta.level = Level(doc.visibility) /\ meta.roles = {}
        /\ meta.ids = IF Level(doc.visibility) = 30 THEN {"owner"} ELSE {}
        /\ meta.depts = IF Level(doc.visibility) = 20 THEN {"sales"} ELSE {}
    BY <1>6, <1>8, NamedAre
  <2>2. IndexShows(p) <=> VisibleByScope(p)
    <3>1. CASE doc.visibility = "company"
      BY <1>7, <2>1, <3>1 DEF IndexShows, VisibleByScope
    <3>2. CASE doc.visibility = "department"
      <4>1. meta.level = 20 /\ meta.ids = {} /\ meta.depts = {"sales"} /\ meta.roles = {}
        BY <1>7, <2>1, <3>2
      <4>2. IndexShows(p) <=> p.dept = "sales"
        BY <4>1 DEF IndexShows
      <4>. QED BY <3>2, <4>2 DEF VisibleByScope
    <3>3. CASE doc.visibility = "private"
      <4>1. meta.level = 30 /\ meta.ids = {"owner"} /\ meta.depts = {} /\ meta.roles = {}
        BY <1>7, <2>1, <3>3
      <4>2. IndexShows(p) <=> p.id = "owner"
        BY <4>1 DEF IndexShows
      <4>. QED BY <3>3, <4>2 DEF VisibleByScope
    <3>. QED BY <1>1, <3>1, <3>2, <3>3
  <2>3. IndexShows(p) \in BOOLEAN /\ VisibleByScope(p) \in BOOLEAN
    BY DEF IndexShows, VisibleByScope
  <2>. QED BY <1>3, <1>8, <2>2, <2>3
<1>9. ASSUME ~stale, ~doc.refresh, CanAccessDocument(p), NEW r \in Applying(p),
             r.subject[1] # "role" \/ r.subject[2] = p.role
      PROVE  IndexShows(p)
  <2>1. r \in doc.rules /\ r.read /\ r.allow /\ Matches(r, p)
    BY <1>9 DEF Applying, CanAccessDocument
  <2>2. CASE r.subject = <<"user", p.id>>
    <3>1. r.subject[1] = "user" /\ r.subject[2] = p.id
      BY <2>2
    <3>2. p.id \in NamedAs(doc.rules, "user")
      BY <2>1, <3>1, NamedAre
    <3>. QED BY <1>6, <1>9, <3>2 DEF IndexShows
  <2>3. CASE r.subject[1] = "department" /\ r.subject[2] = p.dept
    <3>1. p.dept \in NamedAs(doc.rules, "department")
      BY <2>1, <2>3, NamedAre
    <3>. QED BY <1>6, <1>9, <3>1 DEF IndexShows
  <2>4. CASE r.subject[1] = "role"
    <3>1. p.role \in NamedAs(doc.rules, "role")
      BY <1>9, <2>1, <2>4, NamedAre
    <3>. QED BY <1>6, <1>9, <3>1 DEF IndexShows
  <2>. QED BY <2>1, <2>2, <2>3, <2>4 DEF Matches
<1>10. ASSUME ~stale, ~doc.refresh, CanAccessDocument(p), Applying(p) = {}, meta.level # 40
       PROVE  IndexShows(p)
  <2>1. VisibleByScope(p)
    BY <1>10 DEF CanAccessDocument
  <2>2. meta.level = Level(doc.visibility)
    BY <1>6, <1>10
  <2>. QED BY <1>1, <1>6, <1>7, <1>10, <2>1, <2>2 DEF VisibleByScope, IndexShows
<1>. QED BY <1>3, <1>4, <1>5, <1>8, <1>9, <1>10 DEF ListShows

\* What guards and menus let the guest do, when its links are as asked.
LEMMA GuestMay ==
  ASSUME AccessInv, NEW Given, NEW byKey \in BOOLEAN, NEW p, p = Person("guest", byKey),
         Given = IF "reader" \in links["guest"] THEN links["reader"] ELSE {},
         links["guest"] \subseteq {"reader"},
         links["reader"] \subseteq {"documents:view", "documents:*"}
  PROVE  /\ HasAllPermissions(p, {"documents:delete"}) = ("documents:*" \in Given)
         /\ HasAllPermissions(p, MenuCodes) = (Given # {})
         /\ ListMenus(p) = {"api-key:manage"} \cup
              (IF Given = {} THEN {} ELSE {"documents:view"})
<1>1. p.id = "guest" /\ p.role = "user"
  BY DEF Person
<1>2. RoleCodesOf(p) = {"user"} \cup links["guest"]
  BY <1>1 DEF RoleCodesOf
<1>3. PICK all : all = GetUserPermissions(p)
  OBVIOUS
<1>4. all = {"api-key:manage"} \cup Given
  <2>1. "user" \in RoleCodesOf(p) /\ ("reader" \in RoleCodesOf(p) <=> "reader" \in links["guest"])
        /\ \A code \in RoleCodesOf(p) : code \in {"user", "reader"}
    BY <1>2
  <2>2. \A x : x \in all <=> \E code \in RoleCodesOf(p) :
                 x \in (IF code = "reader" THEN links["reader"] ELSE {"api-key:manage"})
    BY <1>3 DEF GetUserPermissions
  <2>3. \A x : x \in all <=> x = "api-key:manage" \/ ("reader" \in links["guest"] /\ x \in links["reader"])
    BY <2>1, <2>2
  <2>. QED BY <2>3
<1>5. Given \subseteq {"documents:view", "documents:*"}
  OBVIOUS
<1>6. /\ ResourceOf("documents:delete") = "documents:*" /\ ResourceOf("documents:view") = "documents:*"
      /\ ResourceOf("api-key:manage") = "api-key:*"
  BY DEF ResourceOf
<1>7. /\ PermissionListAllows(all, "documents:delete") <=> "documents:*" \in Given
      /\ PermissionListAllows(all, "documents:view") <=> Given # {}
      /\ PermissionListAllows(all, "api-key:manage")
  BY <1>4, <1>5, <1>6 DEF PermissionListAllows
<1>8. HasAllPermissions(p, {"documents:delete"}) <=> "documents:*" \in Given
  BY <1>3, <1>7 DEF HasAllPermissions
<1>9. HasAllPermissions(p, MenuCodes) <=> Given # {}
  BY <1>3, <1>7 DEF HasAllPermissions, MenuCodes
<1>10. ListMenus(p) = {code \in {"documents:view", "api-key:manage"} : PermissionListAllows(all, code)}
  BY <1>3 DEF ListMenus, MenuCodes
<1>11. ListMenus(p) = {"api-key:manage"} \cup (IF Given = {} THEN {} ELSE {"documents:view"})
  BY <1>7, <1>10
<1>12. HasAllPermissions(p, {"documents:delete"}) \in BOOLEAN /\ HasAllPermissions(p, MenuCodes) \in BOOLEAN
  BY DEF HasAllPermissions
<1>. QED BY <1>8, <1>9, <1>11, <1>12

\* The invariant is what the property asks.
LEMMA AccessIsAgreed ==
  ASSUME AccessInv
  PROVE  AccessAgrees
<1>1. ASSUME NEW k \in Links, asked[k].alone,
             \A j \in LinkJobs : job[j].key = k => job[j].at \in {"none", "done"}
      PROVE  links[k] = asked[k].set
  <2>1. \A j \in LinkJobs : ~Replacing(job, j, k)
    BY <1>1 DEF Replacing
  <2>. QED BY <1>1, <2>1 DEF AccessInv, LinksInv, LinksOK
<1>2. ASSUME \A k \in Links : asked[k].alone,
             \A j \in LinkJobs : job[j].at \in {"none", "done"}
      PROVE  /\ links["guest"] = asked["guest"].set /\ links["reader"] = asked["reader"].set
             /\ links["guest"] \subseteq {"reader"}
             /\ links["reader"] \subseteq {"documents:view", "documents:*"}
  <2>1. \A k \in Links : links[k] = asked[k].set /\ links[k] \subseteq Targets(k)
    BY <1>1, <1>2 DEF AccessInv, LinksInv
  <2>. QED BY <2>1 DEF Links, Targets
<1>3. ASSUME \A k \in Links : asked[k].alone,
             \A j \in LinkJobs : job[j].at \in {"none", "done"}
      PROVE  LET Given == IF "reader" \in asked["guest"].set THEN asked["reader"].set ELSE {}
             IN  \A byKey \in BOOLEAN : LET p == Person("guest", byKey) IN
                /\ HasAllPermissions(p, {"documents:delete"}) = ("documents:*" \in Given)
                /\ HasAllPermissions(p, MenuCodes) = (Given # {})
                /\ ListMenus(p) = {"api-key:manage"} \cup
                     (IF Given = {} THEN {} ELSE {"documents:view"})
  BY <1>2, <1>3, GuestMay
<1>. QED BY <1>1, <1>3, RulesAgree DEF AccessAgrees

\* For every number of users, changes and requests, the list, the index and the
\* check of a document agree on who sees it, and links that are replaced are
\* what was asked (access control of the knowledge module).
THEOREM AccessIsTheSame == AccessSpec => []AccessAgrees
<1>1. AccessInit => AccessInv
  BY AccessInitSafe
<1>2. AccessInv /\ [AccessNext]_accessVars => AccessInv'
  BY AccessStepSafe
<1>3. AccessInv => AccessAgrees
  BY AccessIsAgreed
<1>. QED BY <1>1, <1>2, <1>3, PTL DEF AccessSpec

-----------------------------------------------------------------------------
(***************************************************************************)
(* That users, keys and roles are what was asked of them.                  *)
(***************************************************************************)

RequestRec == [at : {"none", "insert", "find", "save", "insert role",
                     "new role", "delete role", "save role"},
               name : AccountNames \cup RoleNames, field : Fields,
               old : Secrets \cup {""}, new : Secrets \cup {"", "sales"},
               row : Accounts, behind : SUBSET Fields, fits : BOOLEAN]
KeyRec == [user : AccountNames, made : BOOLEAN, active : BOOLEAN, revoked : BOOLEAN]

\* A request that saves holds the row it read, but for what has moved since; it
\* fits as long as the password is the one it was told.
RequestOK(r, us) ==
  /\ r.at \in {"insert", "find", "save"} => r.name \in AccountNames
  /\ r.at = "insert" => r.new \in Secrets
  /\ r.at = "find" => r.field = "password"
  /\ r.at \in {"find", "save"} => us[r.name].password \in Secrets
  /\ r.at \in {"find", "save"} /\ r.field = "password" =>
       r.new \in Secrets /\ (r.fits => us[r.name].password = r.old)
  /\ r.at = "save" =>
       /\ r.field = "department" => r.new \in {"", "sales"}
       /\ r.row.password \in Secrets
       /\ "password" \notin r.behind => r.row.password = us[r.name].password
       /\ "department" \notin r.behind => r.row.department = us[r.name].department
  /\ r.at = "delete role" => r.name # "admin"
\* A row is as agreed, but for the fields put back.
RowOK(row, deal, back) ==
  /\ row = NoAccount \/ row.password \in Secrets
  /\ "password" \notin back => row.password = deal.password
  /\ "department" \notin back => row.department = deal.department
UserInv ==
  /\ users \in [AccountNames -> Accounts] /\ agreed \in [AccountNames -> Accounts]
  /\ putBack \in [AccountNames -> SUBSET Fields] /\ ~taken
  /\ \A n \in AccountNames : RowOK(users[n], agreed[n], putBack[n])
  /\ request \in [Callers -> RequestRec]
  /\ \A c \in Callers : RequestOK(request[c], users)
KeyInv ==
  /\ keys \in [AccountKeys -> KeyRec]
  /\ \A k \in AccountKeys : keys[k].active <=> keys[k].made /\ ~keys[k].revoked
RoleInv ==
  /\ granted \subseteq roles /\ "admin" \in granted
  /\ \A code \in roles \ (granted \cup odd) :
       \E c \in Callers : request[c].at = "new role" /\ request[c].name = code
AccountInv == UserInv /\ KeyInv /\ RoleInv

\* A caller at rest holds nothing.
LEMMA NoRequestIs ==
  /\ NoRequest \in RequestRec /\ NoRequest.at = "none"
  /\ \A us : RequestOK(NoRequest, us)
BY DEF NoRequest, RequestRec, RequestOK, NoAccount, Accounts, Fields, AccountNames

\* The invariant holds at the start.
LEMMA AccountInitSafe ==
  ASSUME AccountInit
  PROVE  AccountInv
<1>1. /\ users = [n \in AccountNames |-> NoAccount] /\ agreed = [n \in AccountNames |-> NoAccount]
      /\ putBack = [n \in AccountNames |-> {}] /\ taken = FALSE
      /\ request = [c \in Callers |-> NoRequest] /\ keys = [k \in AccountKeys |-> NoKey]
      /\ roles = {"admin"} /\ granted = {"admin"} /\ odd = {}
  BY DEF AccountInit
<1>2. NoAccount \in Accounts /\ RowOK(NoAccount, NoAccount, {})
  BY DEF NoAccount, Accounts, RowOK
<1>3. UserInv
  BY <1>1, <1>2, NoRequestIs DEF UserInv
<1>4. NoKey \in KeyRec /\ ~NoKey.active /\ ~NoKey.made
  BY DEF NoKey, KeyRec, AccountNames
<1>5. KeyInv
  BY <1>1, <1>4 DEF KeyInv
<1>6. RoleInv
  BY <1>1 DEF RoleInv
<1>. QED BY <1>3, <1>5, <1>6 DEF AccountInv

\* A request begins, goes on or ends and the users stay.
LEMMA RequestStep ==
  ASSUME UserInv, NEW c \in Callers, NEW r \in RequestRec, RequestOK(r, users),
         request' = [request EXCEPT ![c] = r],
         UNCHANGED <<users, agreed, putBack, taken>>
  PROVE  UserInv'
<1>1. request' \in [Callers -> RequestRec] /\ request'[c] = r
      /\ \A d \in Callers \ {c} : request'[d] = request[d]
  BY DEF UserInv
<1>2. \A d \in Callers : RequestOK(request'[d], users)
  BY <1>1 DEF UserInv
<1>. QED BY <1>1, <1>2 DEF UserInv

\* What a request holds, part by part.
LEMMA RequestIs ==
  ASSUME UserInv, NEW c \in Callers
  PROVE  /\ request[c] \in RequestRec /\ RequestOK(request[c], users)
         /\ request[c].name \in AccountNames \cup RoleNames /\ request[c].field \in Fields
         /\ request[c].row \in Accounts /\ request[c].behind \subseteq Fields
         /\ request[c].fits \in BOOLEAN
BY DEF UserInv, RequestRec

\* What the row of a user holds, part by part.
LEMMA AccountsAre ==
  ASSUME UserInv, NEW n \in AccountNames
  PROVE  /\ users[n] \in Accounts /\ agreed[n] \in Accounts /\ putBack[n] \subseteq Fields
         /\ RowOK(users[n], agreed[n], putBack[n])
         /\ Exists(n) => users[n].password \in Secrets
BY DEF UserInv, Exists, RowOK

\* What begins a request of a user.
LEMMA UserAsksSafe ==
  ASSUME UserInv, NEW c \in Callers
  PROVE  /\ \A n \in AccountNames, new \in Secrets : RegisterUser(c, n, new) => UserInv'
         /\ \A n \in AccountNames, new \in Secrets, old \in Secrets :
              ChangePassword(c, n, old, new) => UserInv'
         /\ \A n \in AccountNames, dept \in {"", "sales"} : UpdateDepartment(c, n, dept) => UserInv'
         /\ FindAgain(c) => UserInv'
<1>1. ASSUME NEW n \in AccountNames, NEW new \in Secrets, RegisterUser(c, n, new)
      PROVE  UserInv'
  <2>1. PICK r \in RequestRec : r = [NoRequest EXCEPT !.at = "insert", !.name = n, !.new = new]
    BY NoRequestIs DEF RequestRec
  <2>2. r.at = "insert" /\ r.name = n /\ r.new = new
    BY <2>1, NoRequestIs DEF RequestRec
  <2>3. RequestOK(r, users)
    BY <2>2 DEF RequestOK
  <2>4. request' = [request EXCEPT ![c] = r] /\ UNCHANGED <<users, agreed, putBack, taken>>
    BY <1>1, <2>1 DEF RegisterUser, Proceed
  <2>. QED BY <2>3, <2>4, RequestStep
<1>2. ASSUME NEW n \in AccountNames, NEW new \in Secrets, NEW old \in Secrets,
             ChangePassword(c, n, old, new)
      PROVE  UserInv'
  <2>1. PICK r \in RequestRec :
          r = [NoRequest EXCEPT !.at = "find", !.name = n, !.old = old, !.new = new]
    BY NoRequestIs DEF RequestRec
  <2>2. r.at = "find" /\ r.name = n /\ r.new = new /\ r.old = old /\ r.field = "password"
    BY <2>1, NoRequestIs, ZenonT(30) DEF RequestRec, NoRequest
  <2>3. users[n].password = old
    BY <1>2 DEF ChangePassword, PasswordMatches
  <2>4. RequestOK(r, users)
    BY <2>2, <2>3 DEF RequestOK
  <2>5. request' = [request EXCEPT ![c] = r] /\ UNCHANGED <<users, agreed, putBack, taken>>
    BY <1>2, <2>1 DEF ChangePassword, Proceed
  <2>. QED BY <2>4, <2>5, RequestStep
<1>3. ASSUME NEW n \in AccountNames, NEW dept \in {"", "sales"}, UpdateDepartment(c, n, dept)
      PROVE  UserInv'
  <2>0. PICK u \in Accounts : u = users[n]
    BY AccountsAre
  <2>1. PICK r \in RequestRec :
          r = [NoRequest EXCEPT !.at = "save", !.name = n, !.field = "department",
                                !.new = dept, !.row = u]
    BY NoRequestIs DEF RequestRec, Fields
  <2>2. r.at = "save" /\ r.name = n /\ r.new = dept /\ r.field = "department" /\ r.row = u
    BY <2>1, NoRequestIs, ZenonT(30) DEF RequestRec
  <2>3. users[n].password \in Secrets
    BY <1>3, AccountsAre DEF UpdateDepartment
  <2>4. RequestOK(r, users)
    BY <2>0, <2>2, <2>3 DEF RequestOK
  <2>5. request' = [request EXCEPT ![c] = r] /\ UNCHANGED <<users, agreed, putBack, taken>>
    BY <1>3, <2>0, <2>1 DEF UpdateDepartment, Proceed
  <2>. QED BY <2>4, <2>5, RequestStep
<1>4. ASSUME FindAgain(c)
      PROVE  UserInv'
  <2>1. PICK q \in RequestRec : q = request[c]
    BY RequestIs
  <2>2. q.at = "find" /\ RequestOK(q, users) /\ q.name \in AccountNames
    BY <1>4, <2>1, RequestIs DEF FindAgain, RequestOK
  <2>3. PICK r \in RequestRec : r = [q EXCEPT !.at = "save", !.row = users[q.name], !.behind = {}]
    BY <2>2, AccountsAre DEF RequestRec
  <2>4. /\ r.at = "save" /\ r.name = q.name /\ r.new = q.new /\ r.old = q.old
        /\ r.field = q.field /\ r.row = users[q.name] /\ r.fits = q.fits /\ r.behind = {}
    BY <2>3, ZenonT(30) DEF RequestRec
  <2>5. RequestOK(r, users)
    BY <2>2, <2>4 DEF RequestOK
  <2>6. request' = [request EXCEPT ![c] = r] /\ UNCHANGED <<users, agreed, putBack, taken>>
    BY <1>4, <2>1, <2>3 DEF FindAgain
  <2>. QED BY <2>5, <2>6, RequestStep
<1>. QED BY <1>1, <1>2, <1>3, <1>4

\* What begins, goes on with or ends a request of a role.
LEMMA RoleAsksSafe ==
  ASSUME UserInv, NEW c \in Callers
  PROVE  /\ \A code \in RoleNames :
              CreateRole(c, code) \/ UpdateRole(c, code) \/ DeleteRoleAsked(c, code) => UserInv'
         /\ InsertRole(c) \/ RoleAnswers(c) \/ SaveRole(c) \/ DeleteRoleRow(c) => UserInv'
         /\ RequestBreaks(c) => UserInv'
<1>1. ASSUME NEW code \in RoleNames, NEW step \in {"insert role", "save role", "delete role"},
             step = "delete role" => code # "admin",
             Proceed(c, [NoRequest EXCEPT !.at = step, !.name = code])
      PROVE  UserInv'
  <2>1. PICK r \in RequestRec : r = [NoRequest EXCEPT !.at = step, !.name = code]
    BY NoRequestIs DEF RequestRec
  <2>2. r.at = step /\ r.name = code
    BY <2>1, NoRequestIs DEF RequestRec
  <2>3. RequestOK(r, users)
    BY <1>1, <2>2 DEF RequestOK
  <2>4. request' = [request EXCEPT ![c] = r] /\ UNCHANGED <<users, agreed, putBack, taken>>
    BY <1>1, <2>1 DEF Proceed
  <2>. QED BY <2>3, <2>4, RequestStep
<1>2. ASSUME Ends(c), UNCHANGED <<users, agreed, putBack, taken>>
      PROVE  UserInv'
  BY <1>2, NoRequestIs, RequestStep DEF Ends
<1>3. ASSUME InsertRole(c)
      PROVE  UserInv'
  <2>1. UNCHANGED <<users, agreed, putBack, taken>>
    BY <1>3 DEF InsertRole
  <2>2. CASE request[c].name \in roles
    BY <1>2, <1>3, <2>1, <2>2 DEF InsertRole
  <2>3. CASE request[c].name \notin roles
    <3>1. PICK q \in RequestRec : q = request[c]
      BY RequestIs
    <3>2. PICK r \in RequestRec : r = [q EXCEPT !.at = "new role"]
      BY DEF RequestRec
    <3>3. r.at = "new role"
      BY <3>2 DEF RequestRec
    <3>4. RequestOK(r, users)
      BY <3>3 DEF RequestOK
    <3>5. request' = [request EXCEPT ![c] = r]
      <4>1. request' = [request EXCEPT ![c].at = "new role"]
        BY <1>3, <2>3 DEF InsertRole
      <4>. QED BY <3>1, <3>2, <4>1
    <3>. QED BY <2>1, <3>4, <3>5, RequestStep
  <2>. QED BY <2>2, <2>3
<1>4. ASSUME RoleAnswers(c) \/ SaveRole(c) \/ DeleteRoleRow(c) \/ RequestBreaks(c)
      PROVE  UserInv'
  BY <1>2, <1>4 DEF RoleAnswers, SaveRole, DeleteRoleRow, RequestBreaks
<1>5. ASSUME NEW code \in RoleNames,
             CreateRole(c, code) \/ UpdateRole(c, code) \/ DeleteRoleAsked(c, code)
      PROVE  UserInv'
  <2>1. CASE CreateRole(c, code)
    BY <1>1, <2>1 DEF CreateRole
  <2>2. CASE UpdateRole(c, code)
    BY <1>1, <2>2 DEF UpdateRole
  <2>3. CASE DeleteRoleAsked(c, code)
    BY <1>1, <2>3 DEF DeleteRoleAsked, Builtin
  <2>. QED BY <1>5, <2>1, <2>2, <2>3
<1>. QED BY <1>3, <1>4, <1>5

\* A name is inserted once: the constraint refuses the second.
LEMMA InsertUserSafe ==
  ASSUME UserInv, NEW c \in Callers, InsertUser(c)
  PROVE  UserInv'
<1>1. PICK q \in RequestRec : q = request[c]
  BY RequestIs
<1>2. q.at = "insert" /\ q.name \in AccountNames /\ q.new \in Secrets
  BY <1>1, RequestIs DEF InsertUser, RequestOK
<1>3. request' = [request EXCEPT ![c] = NoRequest] /\ UNCHANGED <<putBack, taken>>
  BY DEF InsertUser, Ends
<1>4. CASE Exists(q.name)
  <2>1. UNCHANGED <<users, agreed>>
    BY <1>1, <1>4 DEF InsertUser
  <2>. QED BY <1>3, <2>1, NoRequestIs, RequestStep
<1>5. CASE ~Exists(q.name)
  <2>1. PICK row \in Accounts : row = [password |-> q.new, department |-> ""]
    BY <1>2 DEF Accounts
  <2>2. row.password \in Secrets
    BY <1>2, <2>1
  <2>3. users' = [users EXCEPT ![q.name] = row] /\ agreed' = [agreed EXCEPT ![q.name] = row]
    BY <1>1, <1>5, <2>1 DEF InsertUser
  <2>4. /\ users' \in [AccountNames -> Accounts] /\ agreed' \in [AccountNames -> Accounts]
        /\ users'[q.name] = row /\ agreed'[q.name] = row
        /\ \A n \in AccountNames \ {q.name} : users'[n] = users[n] /\ agreed'[n] = agreed[n]
    BY <1>2, <2>3 DEF UserInv
  <2>5. /\ request' \in [Callers -> RequestRec] /\ request'[c] = NoRequest
        /\ \A d \in Callers \ {c} : request'[d] = request[d]
    BY <1>3, NoRequestIs DEF UserInv
  <2>6. \A n \in AccountNames : RowOK(users'[n], agreed'[n], putBack[n])
    BY <2>2, <2>4, AccountsAre DEF RowOK
  <2>7. ASSUME NEW d \in Callers
        PROVE  RequestOK(request'[d], users')
    <3>1. CASE d = c
      BY <2>5, <3>1, NoRequestIs
    <3>2. CASE d # c
      <4>1. PICK r \in RequestRec : r = request[d]
        BY RequestIs
      <4>2. RequestOK(r, users)
        BY <4>1, RequestIs
      <4>3. r.at \in {"find", "save"} => r.name # q.name /\ r.name \in AccountNames
        <5>1. users[q.name] = NoAccount
          BY <1>5 DEF Exists
        <5>2. NoAccount.password \notin Secrets
          BY DEF NoAccount, Secrets
        <5>. QED BY <4>2, <5>1, <5>2 DEF RequestOK
      <4>4. RequestOK(r, users')
        BY <2>4, <4>2, <4>3 DEF RequestOK
      <4>. QED BY <2>5, <3>2, <4>1, <4>4
    <3>. QED BY <3>1, <3>2
  <2>. QED BY <1>3, <2>4, <2>5, <2>6, <2>7 DEF UserInv
<1>. QED BY <1>4, <1>5

\* A save writes every column as the request read it, the one it was asked for
\* with its new value.
LEMMA SaveUserSafe ==
  ASSUME UserInv, NEW c \in Callers, SaveUser(c)
  PROVE  UserInv'
<1>1. PICK q \in RequestRec : q = request[c]
  BY RequestIs
<1>2. q.at = "save" /\ q.name \in AccountNames /\ RequestOK(q, users)
  BY <1>1, RequestIs DEF SaveUser, RequestOK
<1>3. PICK u \in Accounts : u = users[q.name]
  BY <1>2, AccountsAre
<1>4. PICK g \in Accounts : g = agreed[q.name]
  BY <1>2, AccountsAre
<1>5. q.field \in {"password", "department"} /\ q.row \in Accounts /\ q.behind \subseteq Fields
  BY DEF RequestRec, Fields
<1>6. /\ q.row.password \in Secrets /\ u.password \in Secrets
      /\ q.field = "password" => q.new \in Secrets
      /\ q.field = "department" => q.new \in {"", "sales"}
  BY <1>2, <1>3 DEF RequestOK
<1>7. PICK row \in Accounts : row = [q.row EXCEPT ![q.field] = q.new]
  BY <1>5, <1>6 DEF Accounts
<1>8. /\ row.password = IF q.field = "password" THEN q.new ELSE q.row.password
      /\ row.department = IF q.field = "department" THEN q.new ELSE q.row.department
  BY <1>5, <1>7 DEF Accounts
<1>9. row.password \in Secrets
  BY <1>6, <1>8
<1>10. PICK deal \in Accounts : deal = [g EXCEPT ![q.field] = q.new]
  BY <1>5, <1>6 DEF Accounts
<1>11. /\ deal.password = IF q.field = "password" THEN q.new ELSE g.password
       /\ deal.department = IF q.field = "department" THEN q.new ELSE g.department
  BY <1>5, <1>10 DEF Accounts
<1>12. PICK moved \in SUBSET Fields : moved = {f \in Fields : row[f] # u[f]}
  OBVIOUS
<1>13. /\ "password" \notin moved => row.password = u.password
       /\ "department" \notin moved => row.department = u.department
  BY <1>12 DEF Fields
<1>14. RowOf(q) = row
  BY <1>7 DEF RowOf
<1>15. PICK back \in SUBSET Fields :
         back = (putBack[q.name] \ {q.field}) \cup (q.behind \ {q.field})
  BY <1>2, <1>5, AccountsAre
<1>16. /\ users' = [users EXCEPT ![q.name] = row]
       /\ agreed' = [agreed EXCEPT ![q.name][q.field] = q.new]
       /\ putBack' = [putBack EXCEPT ![q.name] = back]
       /\ taken' = (taken \/ (q.field = "password" /\ q.fits /\ users[q.name].password # q.old))
       /\ request' = [d \in Callers |->
           IF d = c THEN NoRequest
           ELSE IF request[d].name # q.name THEN request[d]
           ELSE [request[d] EXCEPT !.behind = @ \cup moved,
                                   !.fits = @ /\ "password" \notin moved]]
  <2>1. moved = {f \in Fields : RowOf(q)[f] # users[q.name][f]}
    BY <1>3, <1>12, <1>14
  <2>. QED BY <1>1, <1>14, <1>15, <2>1, Zenon DEF SaveUser
<1>17. /\ users' \in [AccountNames -> Accounts] /\ users'[q.name] = row
       /\ agreed' \in [AccountNames -> Accounts] /\ agreed'[q.name] = deal
       /\ putBack' \in [AccountNames -> SUBSET Fields] /\ putBack'[q.name] = back
       /\ \A n \in AccountNames \ {q.name} :
            users'[n] = users[n] /\ agreed'[n] = agreed[n] /\ putBack'[n] = putBack[n]
  <2>1. agreed' = [agreed EXCEPT ![q.name] = deal]
    BY <1>4, <1>10, <1>16
  <2>. QED BY <1>2, <1>16, <2>1 DEF UserInv
<1>18. ~taken'
  BY <1>2, <1>16 DEF UserInv, RequestOK
<1>19. \A n \in AccountNames : RowOK(users'[n], agreed'[n], putBack'[n])
  <2>1. RowOK(u, g, putBack[q.name])
    BY <1>2, <1>3, <1>4, AccountsAre
  <2>2. RowOK(row, deal, back)
    BY <1>2, <1>3, <1>5, <1>8, <1>9, <1>11, <1>15, <2>1 DEF RowOK, RequestOK
  <2>. QED BY <1>17, <2>2, AccountsAre
<1>20. ASSUME NEW d \in Callers
       PROVE  request'[d] \in RequestRec /\ RequestOK(request'[d], users')
  <2>1. CASE d = c
    BY <1>16, <2>1, NoRequestIs
  <2>2. CASE d # c
    <3>1. PICK r \in RequestRec : r = request[d]
      BY RequestIs
    <3>2. RequestOK(r, users)
      BY <3>1, RequestIs
    <3>3. CASE r.name # q.name
      <4>1. request'[d] = r
        BY <1>16, <2>2, <3>1, <3>3
      <4>2. RequestOK(r, users')
        BY <1>17, <3>2, <3>3 DEF RequestOK
      <4>. QED BY <4>1, <4>2
    <3>4. CASE r.name = q.name
      <4>1. PICK fits \in BOOLEAN : fits = (r.fits /\ "password" \notin moved)
        OBVIOUS
      <4>2. PICK others \in SUBSET Fields : others = r.behind \cup moved
        BY DEF RequestRec
      <4>3. PICK s \in RequestRec : s = [r EXCEPT !.behind = others, !.fits = fits]
        BY DEF RequestRec
      <4>4. /\ s.at = r.at /\ s.name = r.name /\ s.new = r.new /\ s.old = r.old
            /\ s.field = r.field /\ s.row = r.row /\ s.fits = fits /\ s.behind = others
        BY <4>3, ZenonT(30) DEF RequestRec
      <4>5. request'[d] = s
        <5>1. request'[d] = [r EXCEPT !.behind = @ \cup moved, !.fits = @ /\ "password" \notin moved]
          BY <1>16, <2>2, <3>1, <3>4, Zenon
        <5>2. [r EXCEPT !.behind = @ \cup moved, !.fits = @ /\ "password" \notin moved]
                = [r EXCEPT !.behind = others, !.fits = fits]
          BY <4>1, <4>2, Zenon
        <5>. QED BY <4>3, <5>1, <5>2
      <4>6. RequestOK(s, users')
        <5>1. users'[s.name] = row /\ users[r.name] = u
          BY <1>3, <1>17, <3>4, <4>4
        <5>. QED BY <1>9, <1>13, <3>2, <4>1, <4>2, <4>4, <5>1 DEF RequestOK
      <4>. QED BY <4>5, <4>6
    <3>. QED BY <3>3, <3>4
  <2>. QED BY <2>1, <2>2
<1>21. request' \in [Callers -> RequestRec]
  BY <1>16, <1>20
<1>. QED BY <1>17, <1>18, <1>19, <1>20, <1>21 DEF UserInv


\* Steps on the rows of users.
LEMMA UserStepSafe ==
  ASSUME UserInv, [AccountNext]_accountVars
  PROVE  UserInv'
<1>1. CASE \E c \in Callers :
             \/ \E n \in AccountNames, new \in Secrets :
                  \/ RegisterUser(c, n, new)
                  \/ \E old \in Secrets : ChangePassword(c, n, old, new)
             \/ \E n \in AccountNames, dept \in {"", "sales"} : UpdateDepartment(c, n, dept)
             \/ InsertUser(c) \/ FindAgain(c) \/ SaveUser(c)
  BY <1>1, UserAsksSafe, InsertUserSafe, SaveUserSafe
<1>2. CASE \E c \in Callers :
             \/ \E code \in RoleNames :
                  CreateRole(c, code) \/ UpdateRole(c, code) \/ DeleteRoleAsked(c, code)
             \/ RequestBreaks(c)
             \/ InsertRole(c) \/ RoleAnswers(c) \/ SaveRole(c) \/ DeleteRoleRow(c)
  BY <1>2, RoleAsksSafe
<1>3. CASE \/ \E n \in AccountNames, k \in AccountKeys : MakeApiKey(n, k) \/ RevokeApiKey(n, k)
           \/ UNCHANGED accountVars
  <2>1. users' = users /\ agreed' = agreed /\ putBack' = putBack /\ taken' = taken
        /\ request' = request
    BY <1>3 DEF MakeApiKey, RevokeApiKey, accountVars
  <2>. QED BY <2>1 DEF UserInv
<1>. QED BY <1>1, <1>2, <1>3 DEF AccountNext

\* Steps on API keys.
LEMMA KeyStepSafe ==
  ASSUME KeyInv, [AccountNext]_accountVars
  PROVE  KeyInv'
<1>1. ASSUME NEW n \in AccountNames, NEW k \in AccountKeys, MakeApiKey(n, k)
      PROVE  KeyInv'
  <2>1. PICK r \in KeyRec : r = [user |-> n, made |-> TRUE, active |-> TRUE, revoked |-> FALSE]
    BY DEF KeyRec
  <2>2. r.made /\ r.active /\ ~r.revoked
    BY <2>1
  <2>3. keys' = [keys EXCEPT ![k] = r]
    BY <1>1, <2>1 DEF MakeApiKey
  <2>. QED BY <2>2, <2>3 DEF KeyInv
<1>2. ASSUME NEW n \in AccountNames, NEW k \in AccountKeys, RevokeApiKey(n, k)
      PROVE  KeyInv'
  <2>1. PICK q \in KeyRec : q = keys[k]
    BY DEF KeyInv
  <2>2. q.made /\ q.user = n
    BY <1>2, <2>1 DEF RevokeApiKey, RevocableBy
  <2>3. PICK r \in KeyRec : r = [q EXCEPT !.active = FALSE, !.revoked = TRUE]
    BY DEF KeyRec
  <2>4. r.made = q.made /\ r.active = FALSE /\ r.revoked = TRUE
    BY <2>3 DEF KeyRec
  <2>5. keys' = [keys EXCEPT ![k] = r]
    <3>1. keys' = [keys EXCEPT ![k].active = FALSE, ![k].revoked = @ \/ n = keys[k].user]
      BY <1>2 DEF RevokeApiKey
    <3>2. (q.revoked \/ n = q.user) = TRUE
      BY <2>2
    <3>3. keys' = [keys EXCEPT ![k] = [q EXCEPT !.active = FALSE, !.revoked = (q.revoked \/ n = q.user)]]
      BY <2>1, <3>1 DEF KeyInv, KeyRec
    <3>. QED BY <2>3, <3>2, <3>3, Zenon
  <2>. QED BY <2>4, <2>5 DEF KeyInv
<1>3. ASSUME keys' = keys
      PROVE  KeyInv'
  BY <1>3 DEF KeyInv
<1>4. CASE UNCHANGED accountVars
  BY <1>3, <1>4 DEF accountVars
<1>5. ASSUME NEW c \in Callers,
             \/ \E n \in AccountNames, new \in Secrets :
                  \/ RegisterUser(c, n, new)
                  \/ \E old \in Secrets : ChangePassword(c, n, old, new)
             \/ \E n \in AccountNames, dept \in {"", "sales"} : UpdateDepartment(c, n, dept)
             \/ \E code \in RoleNames :
                  CreateRole(c, code) \/ UpdateRole(c, code) \/ DeleteRoleAsked(c, code)
             \/ InsertUser(c) \/ FindAgain(c) \/ SaveUser(c) \/ RequestBreaks(c)
             \/ InsertRole(c) \/ RoleAnswers(c) \/ SaveRole(c) \/ DeleteRoleRow(c)
      PROVE  keys' = keys
  BY <1>5 DEF RegisterUser, ChangePassword, UpdateDepartment, CreateRole, UpdateRole, DeleteRoleAsked,
              Proceed, InsertUser, FindAgain, SaveUser, RequestBreaks, InsertRole, RoleAnswers,
              SaveRole, DeleteRoleRow
<1>. QED BY <1>1, <1>2, <1>3, <1>4, <1>5 DEF AccountNext

\* Steps on roles and what they grant.
LEMMA RoleStepSafe ==
  ASSUME UserInv, RoleInv, [AccountNext]_accountVars
  PROVE  RoleInv'
<1>0. \A c \in Callers : RequestOK(request[c], users) /\ request \in [Callers -> RequestRec]
  BY DEF UserInv
\* Nothing of the roles changes, and no role being created is lost.
<1>1. ASSUME UNCHANGED <<roles, granted, odd>>,
             \A c \in Callers : request[c].at = "new role" =>
               request'[c].at = "new role" /\ request'[c].name = request[c].name
      PROVE  RoleInv'
  BY <1>1 DEF RoleInv
<1>2. ASSUME NEW c \in Callers, NEW r, Proceed(c, r)
      PROVE  RoleInv'
  <2>1. \A d \in Callers \ {c} : request'[d] = request[d]
    BY <1>0, <1>2 DEF Proceed
  <2>2. request[c].at # "new role" /\ UNCHANGED <<roles, granted, odd>>
    BY <1>2 DEF Proceed
  <2>. QED BY <1>1, <2>1, <2>2
<1>3. ASSUME NEW c \in Callers,
             \/ \E n \in AccountNames, new \in Secrets :
                  \/ RegisterUser(c, n, new)
                  \/ \E old \in Secrets : ChangePassword(c, n, old, new)
             \/ \E n \in AccountNames, dept \in {"", "sales"} : UpdateDepartment(c, n, dept)
             \/ \E code \in RoleNames :
                  CreateRole(c, code) \/ UpdateRole(c, code) \/ DeleteRoleAsked(c, code)
      PROVE  RoleInv'
  <2>1. \E r : Proceed(c, r)
    BY <1>3 DEF RegisterUser, ChangePassword, UpdateDepartment, CreateRole, UpdateRole,
                DeleteRoleAsked
  <2>. QED BY <1>2, <2>1
\* A request of a user.
<1>4. ASSUME NEW c \in Callers, InsertUser(c) \/ FindAgain(c)
      PROVE  RoleInv'
  <2>1. /\ request[c].at # "new role" /\ UNCHANGED <<roles, granted, odd>>
        /\ \E r : request' = [request EXCEPT ![c] = r]
    BY <1>4 DEF InsertUser, FindAgain, Ends
  <2>2. \A d \in Callers \ {c} : request'[d] = request[d]
    BY <1>0, <2>1
  <2>. QED BY <1>1, <2>1, <2>2
<1>5. ASSUME NEW c \in Callers, SaveUser(c)
      PROVE  RoleInv'
  <2>1. request[c].at = "save" /\ UNCHANGED <<roles, granted, odd>>
    BY <1>5 DEF SaveUser
  <2>2. PICK moved : request' = [d \in Callers |->
           IF d = c THEN NoRequest
           ELSE IF request[d].name # request[c].name THEN request[d]
           ELSE [request[d] EXCEPT !.behind = @ \cup moved,
                                   !.fits = @ /\ "password" \notin moved]]
    BY <1>5, Zenon DEF SaveUser
  <2>3. ASSUME NEW d \in Callers, request[d].at = "new role"
        PROVE  request'[d].at = "new role" /\ request'[d].name = request[d].name
    <3>1. PICK r \in RequestRec : r = request[d]
      BY <1>0
    <3>2. PICK others, fits : others = r.behind \cup moved
                              /\ fits = (r.fits /\ "password" \notin moved)
      OBVIOUS
    <3>3. \/ request'[d] = r
          \/ request'[d] = [r EXCEPT !.behind = others, !.fits = fits]
      <4>1. request'[d] = r \/ request'[d] = [r EXCEPT !.behind = @ \cup moved,
                                                       !.fits = @ /\ "password" \notin moved]
        BY <2>1, <2>2, <2>3, <3>1, Zenon
      <4>. QED BY <3>2, <4>1, Zenon
    <3>. QED BY <2>3, <3>1, <3>3 DEF RequestRec
  <2>. QED BY <1>1, <2>1, <2>3
\* A request of a role.
<1>6. ASSUME NEW c \in Callers, InsertRole(c)
      PROVE  RoleInv'
  <2>1. request[c].at = "insert role" /\ roles' = roles \cup {request[c].name}
        /\ UNCHANGED <<granted, odd>>
    BY <1>6 DEF InsertRole
  <2>2. CASE request[c].name \in roles
    <3>1. request' = [request EXCEPT ![c] = NoRequest]
      BY <1>6, <2>2 DEF InsertRole, Ends
    <3>2. \A d \in Callers \ {c} : request'[d] = request[d]
      BY <1>0, <3>1
    <3>3. roles' = roles
      BY <2>1, <2>2
    <3>. QED BY <1>1, <2>1, <3>2, <3>3
  <2>3. CASE request[c].name \notin roles
    <3>1. request' = [request EXCEPT ![c].at = "new role"]
      BY <1>6, <2>3 DEF InsertRole
    <3>2. /\ request'[c].at = "new role" /\ request'[c].name = request[c].name
          /\ \A d \in Callers \ {c} : request'[d] = request[d]
      BY <1>0, <3>1 DEF RequestRec
    <3>3. ASSUME NEW code \in roles' \ (granted' \cup odd')
          PROVE  \E d \in Callers : request'[d].at = "new role" /\ request'[d].name = code
      <4>1. CASE code = request[c].name
        BY <3>2, <4>1
      <4>2. CASE code # request[c].name
        <5>1. code \in roles \ (granted \cup odd)
          BY <2>1, <3>3, <4>2
        <5>2. PICK d \in Callers : request[d].at = "new role" /\ request[d].name = code
          BY <5>1 DEF RoleInv
        <5>3. d # c
          BY <2>1, <5>2
        <5>. QED BY <3>2, <5>2, <5>3
      <4>. QED BY <4>1, <4>2
    <3>. QED BY <2>1, <3>3 DEF RoleInv
  <2>. QED BY <2>2, <2>3
<1>7. ASSUME NEW c \in Callers, Ends(c)
      PROVE  \A d \in Callers \ {c} : request'[d] = request[d]
  BY <1>0, <1>7 DEF Ends
<1>8. ASSUME NEW c \in Callers, RequestBreaks(c)
      PROVE  RoleInv'
  <2>1. /\ roles' = roles /\ granted' = granted
        /\ odd' = IF request[c].at = "new role" THEN odd \cup {request[c].name} ELSE odd
        /\ \A d \in Callers \ {c} : request'[d] = request[d]
    BY <1>7, <1>8 DEF RequestBreaks
  <2>. QED BY <2>1 DEF RoleInv
<1>9. ASSUME NEW c \in Callers, RoleAnswers(c)
      PROVE  RoleInv'
  <2>1. /\ roles' = roles /\ odd' = odd
        /\ granted' = granted \cup ({request[c].name} \cap (roles \ odd))
        /\ \A d \in Callers \ {c} : request'[d] = request[d]
    BY <1>7, <1>9 DEF RoleAnswers
  <2>. QED BY <2>1 DEF RoleInv
<1>10. ASSUME NEW c \in Callers, SaveRole(c)
       PROVE  RoleInv'
  <2>1. /\ roles' = roles \cup {request[c].name} /\ odd' = odd \cup ({request[c].name} \ roles)
        /\ granted' = granted /\ request[c].at = "save role"
        /\ \A d \in Callers \ {c} : request'[d] = request[d]
    BY <1>7, <1>10 DEF SaveRole
  <2>2. ASSUME NEW code \in roles' \ (granted' \cup odd')
        PROVE  \E d \in Callers : request'[d].at = "new role" /\ request'[d].name = code
    <3>1. code \in roles \ (granted \cup odd)
      BY <2>1, <2>2
    <3>2. PICK d \in Callers : request[d].at = "new role" /\ request[d].name = code
      BY <3>1 DEF RoleInv
    <3>3. d # c
      BY <2>1, <3>2
    <3>. QED BY <2>1, <3>2, <3>3
  <2>. QED BY <2>1, <2>2 DEF RoleInv
<1>11. ASSUME NEW c \in Callers, DeleteRoleRow(c)
       PROVE  RoleInv'
  <2>1. /\ roles' = roles \ {request[c].name} /\ odd' = odd \ {request[c].name}
        /\ granted' = granted \ {request[c].name} /\ request[c].at = "delete role"
        /\ \A d \in Callers \ {c} : request'[d] = request[d]
    BY <1>7, <1>11 DEF DeleteRoleRow
  <2>2. request[c].name # "admin"
    BY <1>0, <2>1 DEF RequestOK
  <2>3. ASSUME NEW code \in roles' \ (granted' \cup odd')
        PROVE  \E d \in Callers : request'[d].at = "new role" /\ request'[d].name = code
    <3>1. code \in roles \ (granted \cup odd)
      BY <2>1, <2>3
    <3>2. PICK d \in Callers : request[d].at = "new role" /\ request[d].name = code
      BY <3>1 DEF RoleInv
    <3>3. d # c
      BY <2>1, <3>2
    <3>. QED BY <2>1, <3>2, <3>3
  <2>4. "admin" \in granted' /\ granted' \subseteq roles'
    BY <2>1, <2>2 DEF RoleInv
  <2>. QED BY <2>3, <2>4 DEF RoleInv
<1>12. CASE \/ \E n \in AccountNames, k \in AccountKeys : MakeApiKey(n, k) \/ RevokeApiKey(n, k)
            \/ UNCHANGED accountVars
  BY <1>1, <1>12 DEF MakeApiKey, RevokeApiKey, accountVars
<1>. QED BY <1>3, <1>4, <1>5, <1>6, <1>8, <1>9, <1>10, <1>11, <1>12 DEF AccountNext

\* The three parts together.
LEMMA AccountStepSafe ==
  ASSUME AccountInv, [AccountNext]_accountVars
  PROVE  AccountInv'
BY UserStepSafe, KeyStepSafe, RoleStepSafe DEF AccountInv

\* The invariant is what the property asks.
LEMMA AccountsAreAsAsked ==
  ASSUME AccountInv
  PROVE  AccountsStand
<1>1. ASSUME NEW n \in AccountNames, NEW f \in Fields \ putBack[n]
      PROVE  users[n][f] = agreed[n][f]
  <2>1. RowOK(users[n], agreed[n], putBack[n])
    BY DEF AccountInv, UserInv
  <2>2. f = "password" \/ f = "department"
    BY DEF Fields
  <2>. QED BY <1>1, <2>1, <2>2 DEF RowOK
<1>2. ASSUME NEW k \in AccountKeys
      PROVE  ValidateApiKey(k) = IF keys[k].made /\ ~keys[k].revoked THEN {keys[k].user} ELSE {}
  BY DEF AccountInv, KeyInv, ValidateApiKey
<1>3. roles \subseteq granted \cup odd \cup
        {request[c].name : c \in {d \in Callers : request[d].at = "new role"}}
  <2>1. ASSUME NEW code \in roles, code \notin granted \cup odd
        PROVE  code \in {request[c].name : c \in {d \in Callers : request[d].at = "new role"}}
    <3>1. PICK c \in Callers : request[c].at = "new role" /\ request[c].name = code
      BY <2>1 DEF AccountInv, RoleInv
    <3>2. c \in {d \in Callers : request[d].at = "new role"}
      BY <3>1
    <3>. QED BY <3>1, <3>2
  <2>. QED BY <2>1
<1>. QED BY <1>1, <1>2, <1>3 DEF AccountInv, UserInv, RoleInv, AccountsStand

\* For every number of callers and names, users, keys and roles are what was
\* asked of them, up to what the code admits: a field put back by a save that
\* read it earlier is recorded as such (users, API keys and roles).
THEOREM AccountsAsAsked == AccountSpec => []AccountsStand
<1>1. AccountInit => AccountInv
  BY AccountInitSafe
<1>2. AccountInv /\ [AccountNext]_accountVars => AccountInv'
  BY AccountStepSafe
<1>3. AccountInv => AccountsStand
  BY AccountsAreAsAsked
<1>. QED BY <1>1, <1>2, <1>3, PTL DEF AccountSpec

-----------------------------------------------------------------------------
(***************************************************************************)
(* That edits of a case stand. A request writes the row it read; a row     *)
(* that changed since is behind for it; and a case that runs is in         *)
(* someone's hand.                                                         *)
(***************************************************************************)

CaseRec == [there : BOOLEAN, question : Nat, review : Reviews,
            status : {"unrun", "running", "success", "failed"}]
HandRec == [job : {"none", "batch", "single", "update", "review", "remove"},
            read : [Cases -> CaseRec], left : SUBSET Cases, on : SUBSET Cases]

\* What a client has still to do it read, and read as it is unless it is behind;
\* of the case it is running it has read what users made of it.
HandOK(hand, aside, current) ==
  /\ hand.job = "none" => hand.left = {} /\ hand.on = {}
  /\ hand.on # {} => hand.job \in {"batch", "single"}
  /\ hand.left \cap hand.on = {} /\ \A c, d \in hand.on : c = d
  /\ \A c \in hand.left \cup hand.on : hand.read[c].there
  /\ \A c \in hand.left \ aside : hand.read[c] = current[c]
  /\ \A c \in hand.on \ aside : OfUsers(hand.read[c]) = OfUsers(current[c])
\* A case is as wanted, and runs where it is marked.
CaseOK(row, want, hands, c) ==
  /\ OfUsers(row) = want
  /\ row.there /\ row.status = "running" => \E k \in Curators : c \in hands[k].on
EvalInv ==
  /\ evalRows \in [Cases -> CaseRec] /\ inHand \in [Curators -> HandRec]
  /\ behind \in [Curators -> SUBSET Cases] /\ overrun \subseteq Cases
  /\ DOMAIN wanted = Cases /\ wanted = [c \in Cases |-> wanted[c]] /\ edits \in Nat
  /\ \A k \in Curators : HandOK(inHand[k], behind[k], evalRows)
  /\ \A c \in Cases \ overrun : CaseOK(evalRows[c], wanted[c], inHand, c)

\* The invariant is what the property asks.
LEMMA EvalStands ==
  ASSUME EvalInv
  PROVE  EditsStand
BY DEF EvalInv, CaseOK, EditsStand

\* A curator at rest holds nothing.
LEMMA AtRestIs ==
  /\ AtRest \in HandRec /\ AtRest.job = "none" /\ AtRest.left = {} /\ AtRest.on = {}
  /\ NoRow \in CaseRec /\ Fresh \in CaseRec /\ Fresh.status = "unrun" /\ NoRow.status = "unrun"
  /\ \A aside, current : HandOK(AtRest, aside, current)
BY DEF AtRest, HandRec, NoRow, Fresh, CaseRec, Reviews, HandOK

\* The invariant holds at the start.
LEMMA EvalInitSafe ==
  ASSUME EvalInit
  PROVE  EvalInv
<1>1. PICK made \in SUBSET Cases : evalRows = [c \in Cases |-> IF c \in made THEN Fresh ELSE NoRow]
  BY DEF EvalInit
<1>2. /\ inHand = [k \in Curators |-> AtRest] /\ behind = [k \in Curators |-> {}]
      /\ overrun = {} /\ wanted = [c \in Cases |-> OfUsers(evalRows[c])] /\ edits = 0
  BY DEF EvalInit
<1>3. evalRows \in [Cases -> CaseRec] /\ \A c \in Cases : evalRows[c].status = "unrun"
  BY <1>1, AtRestIs
<1>4. \A c \in Cases : CaseOK(evalRows[c], wanted[c], inHand, c)
  BY <1>2, <1>3 DEF CaseOK
<1>5. \A k \in Curators : HandOK(inHand[k], behind[k], evalRows)
  BY <1>2, AtRestIs
<1>. QED BY <1>2, <1>3, <1>4, <1>5, AtRestIs DEF EvalInv

\* What a curator holds, part by part.
LEMMA HandIs ==
  ASSUME EvalInv, NEW k \in Curators
  PROVE  /\ inHand[k] \in HandRec /\ HandOK(inHand[k], behind[k], evalRows)
         /\ behind[k] \subseteq Cases
BY DEF EvalInv

\* A client takes cases in hand or puts them down, and writes nothing.
LEMMA HandStep ==
  ASSUME EvalInv, NEW k \in Curators, NEW hand \in HandRec, NEW aside \in SUBSET Cases,
         inHand' = [inHand EXCEPT ![k] = hand], behind' = [behind EXCEPT ![k] = aside],
         HandOK(hand, aside, evalRows),
         UNCHANGED <<evalRows, wanted>>, edits' \in Nat,
         overrun' = overrun \cup (inHand[k].on \ hand.on)
  PROVE  EvalInv'
<1>1. /\ inHand' \in [Curators -> HandRec] /\ inHand'[k] = hand
      /\ behind' \in [Curators -> SUBSET Cases] /\ behind'[k] = aside
      /\ \A j \in Curators \ {k} : inHand'[j] = inHand[j] /\ behind'[j] = behind[j]
  BY DEF EvalInv
<1>2. \A j \in Curators : HandOK(inHand'[j], behind'[j], evalRows)
  BY <1>1, HandIs
<1>3. overrun' \subseteq Cases
  BY HandIs DEF EvalInv, HandRec
<1>4. ASSUME NEW c \in Cases \ overrun'
      PROVE  CaseOK(evalRows[c], wanted[c], inHand', c)
  <2>1. CaseOK(evalRows[c], wanted[c], inHand, c)
    BY <1>4 DEF EvalInv
  <2>2. ASSUME NEW j \in Curators, c \in inHand[j].on
        PROVE  c \in inHand'[j].on
    BY <1>1, <1>4, <2>2
  <2>. QED BY <2>1, <2>2 DEF CaseOK
<1>. QED BY <1>1, <1>2, <1>3, <1>4 DEF EvalInv

\* A row is written: by k, that then has no case it did not have; whoever else
\* has it in hand is behind.
LEMMA WriteStep ==
  ASSUME EvalInv, NEW k \in Curators, NEW c \in Cases, NEW row \in CaseRec, NEW hand \in HandRec,
         inHand' = [inHand EXCEPT ![k] = hand], Others(k, c),
         evalRows' = [evalRows EXCEPT ![c] = row],
         hand.job = "none" => hand.left = {} /\ hand.on = {},
         hand.on # {} => hand.job \in {"batch", "single"},
         hand.read = inHand[k].read \/ (hand.left = {} /\ hand.on = {}),
         hand.left \subseteq inHand[k].left \ {c}, hand.on \subseteq {c},
         inHand[k].on \subseteq {c},
         c \in hand.on => c \in inHand[k].left,
         c \in hand.on /\ c \notin behind[k] => OfUsers(inHand[k].read[c]) = OfUsers(row),
         c \notin overrun' /\ row.there /\ row.status = "running" =>
           c \in hand.on \/ \E j \in Curators \ {k} : c \in inHand[j].on,
         NEW want, wanted' = [wanted EXCEPT ![c] = want],
         c \notin overrun' => OfUsers(row) = want,
         edits' = edits, overrun \subseteq overrun', overrun' \subseteq overrun \cup {c}
  PROVE  EvalInv'
<1>1. /\ inHand' \in [Curators -> HandRec] /\ inHand'[k] = hand
      /\ \A j \in Curators \ {k} : inHand'[j] = inHand[j]
  BY DEF EvalInv
<1>2. /\ behind' \in [Curators -> SUBSET Cases]
      /\ behind'[k] = IF hand.job = "none" THEN {} ELSE behind[k]
      /\ \A j \in Curators \ {k} :
           behind'[j] = IF inHand[j].job # "none" THEN behind[j] \cup {c} ELSE behind[j]
  <2>1. \A j \in Curators : behind'[j] =
          CASE j = k /\ hand.job = "none" -> {}
            [] j # k /\ inHand[j].job # "none"  -> behind[j] \cup {c}
            [] OTHER                            -> behind[j]
    BY <1>1 DEF Others
  <2>2. \A j \in Curators : behind[j] \subseteq Cases
    BY HandIs
  <2>3. DOMAIN behind' = Curators /\ behind' = [j \in Curators |-> behind'[j]]
    BY DEF Others
  <2>4. behind'[k] = IF hand.job = "none" THEN {} ELSE behind[k]
    BY <2>1
  <2>5. ASSUME NEW j \in Curators \ {k}
        PROVE  behind'[j] = IF inHand[j].job # "none" THEN behind[j] \cup {c} ELSE behind[j]
    BY <2>1
  <2>6. \A j \in Curators : behind'[j] \subseteq Cases
    BY <2>2, <2>4, <2>5
  <2>. QED BY <2>3, <2>4, <2>5, <2>6
<1>3. /\ evalRows' \in [Cases -> CaseRec] /\ evalRows'[c] = row
      /\ \A d \in Cases \ {c} : evalRows'[d] = evalRows[d]
  BY DEF EvalInv
<1>4. /\ wanted'[c] = want /\ DOMAIN wanted' = Cases /\ wanted' = [d \in Cases |-> wanted'[d]]
      /\ \A d \in Cases \ {c} : wanted'[d] = wanted[d]
  BY DEF EvalInv
<1>5. HandOK(hand, behind'[k], evalRows')
  <2>1. HandOK(inHand[k], behind[k], evalRows)
    BY HandIs
  <2>2. CASE hand.left = {} /\ hand.on = {}
    BY <2>2 DEF HandOK
  <2>3. CASE hand.read = inHand[k].read /\ hand.job # "none"
    <3>1. behind'[k] = behind[k]
      BY <1>2, <2>3
    <3>2. hand.left \subseteq Cases
      BY DEF HandRec
    <3>3. \A d \in hand.left \cup hand.on : hand.read[d].there
      BY <2>1, <2>3 DEF HandOK
    <3>4. \A d \in hand.left \ behind[k] : hand.read[d] = evalRows'[d]
      BY <1>3, <2>1, <2>3, <3>2 DEF HandOK
    <3>5. \A d \in hand.on \ behind[k] : OfUsers(hand.read[d]) = OfUsers(evalRows'[d])
      BY <1>3, <2>3
    <3>. QED BY <2>3, <3>1, <3>3, <3>4, <3>5 DEF HandOK
  <2>. QED BY <2>2, <2>3
<1>6. ASSUME NEW j \in Curators \ {k}
      PROVE  HandOK(inHand[j], behind'[j], evalRows')
  <2>1. HandOK(inHand[j], behind[j], evalRows) /\ inHand[j] \in HandRec
    BY HandIs
  <2>2. inHand[j].left \subseteq Cases /\ inHand[j].on \subseteq Cases
    BY <2>1 DEF HandRec
  <2>3. CASE inHand[j].job = "none"
    BY <2>1, <2>3 DEF HandOK
  <2>4. CASE inHand[j].job # "none"
    <3>1. behind'[j] = behind[j] \cup {c}
      BY <1>2, <2>4
    <3>. QED BY <1>3, <2>1, <2>2, <3>1 DEF HandOK
  <2>. QED BY <2>3, <2>4
<1>7. ASSUME NEW d \in Cases \ overrun'
      PROVE  CaseOK(evalRows'[d], wanted'[d], inHand', d)
  <2>1. CASE d = c
    BY <1>1, <1>3, <1>4, <1>7, <2>1 DEF CaseOK
  <2>2. CASE d # c
    <3>1. CaseOK(evalRows[d], wanted[d], inHand, d)
      BY <1>7 DEF EvalInv
    <3>2. ASSUME NEW j \in Curators, d \in inHand[j].on
          PROVE  d \in inHand'[j].on
      BY <1>1, <2>2, <3>2
    <3>. QED BY <1>3, <1>4, <2>2, <3>1, <3>2 DEF CaseOK
  <2>. QED BY <2>1, <2>2
<1>8. overrun' \subseteq Cases /\ edits' \in Nat
  BY DEF EvalInv
<1>9. \A j \in Curators : HandOK(inHand'[j], behind'[j], evalRows')
  BY <1>1, <1>5, <1>6
<1>. QED BY <1>1, <1>2, <1>3, <1>4, <1>7, <1>8, <1>9 DEF EvalInv


\* A row with another question, ...
LEMMA SetQuestion ==
  ASSUME NEW q \in CaseRec, NEW question \in Nat
  PROVE  /\ [q EXCEPT !.question = question] \in CaseRec
         /\ OfUsers([q EXCEPT !.question = question]) = [OfUsers(q) EXCEPT !.question = question]
         /\ [q EXCEPT !.question = question].status = q.status
         /\ [q EXCEPT !.question = question].there = q.there
BY DEF CaseRec, OfUsers

\* ... with another review, ...
LEMMA SetReview ==
  ASSUME NEW q \in CaseRec, NEW review \in Reviews
  PROVE  /\ [q EXCEPT !.review = review] \in CaseRec
         /\ OfUsers([q EXCEPT !.review = review]) = [OfUsers(q) EXCEPT !.review = review]
         /\ [q EXCEPT !.review = review].status = q.status
         /\ [q EXCEPT !.review = review].there = q.there
BY DEF CaseRec, OfUsers

\* ... there or not, ...
LEMMA SetThere ==
  ASSUME NEW q \in CaseRec, NEW there \in BOOLEAN
  PROVE  /\ [q EXCEPT !.there = there] \in CaseRec
         /\ OfUsers([q EXCEPT !.there = there]) = [OfUsers(q) EXCEPT !.there = there]
         /\ [q EXCEPT !.there = there].status = q.status
         /\ [q EXCEPT !.there = there].there = there
BY DEF CaseRec, OfUsers

\* ... and with another status.
LEMMA SetStatus ==
  ASSUME NEW q \in CaseRec, NEW status \in {"unrun", "running", "success", "failed"}
  PROVE  /\ [q EXCEPT !.status = status] \in CaseRec
         /\ OfUsers([q EXCEPT !.status = status]) = OfUsers(q)
         /\ [q EXCEPT !.status = status].status = status
BY DEF CaseRec, OfUsers

\* A request reads the row it is about.
LEMMA FindSafe ==
  ASSUME EvalInv, NEW k \in Curators, NEW c \in Cases,
         NEW task \in {"update", "review", "remove", "single"},
         FindInKnowledge(k, c, task), edits' \in Nat
  PROVE  EvalInv'
<1>1. PICK hand \in HandRec : hand = [job |-> task, read |-> evalRows, left |-> {c}, on |-> {}]
  BY DEF HandRec, EvalInv
<1>2. hand.job = task /\ hand.read = evalRows /\ hand.left = {c} /\ hand.on = {}
  BY <1>1
<1>3. inHand' = [inHand EXCEPT ![k] = hand] /\ evalRows[c].there
      /\ UNCHANGED <<evalRows, wanted, behind, overrun>> /\ inHand[k].job = "none"
  BY <1>1 DEF FindInKnowledge
<1>4. HandOK(hand, behind[k], evalRows)
  BY <1>2, <1>3 DEF HandOK
<1>5. behind' = [behind EXCEPT ![k] = behind[k]] /\ behind[k] \in SUBSET Cases
  BY <1>3 DEF EvalInv
<1>6. inHand[k].on = {}
  BY <1>3, HandIs DEF HandOK
<1>. QED BY <1>2, <1>3, <1>4, <1>5, <1>6, HandStep

\* A batch takes the rows that are there; a run ends or dies.
LEMMA RunSafe ==
  ASSUME EvalInv, NEW k \in Curators
  PROVE  /\ RunBatchEvaluation(k) => EvalInv'
         /\ RunEnds(k) => EvalInv'
         /\ RunDies(k) => EvalInv'
<1>1. ASSUME RunBatchEvaluation(k)
      PROVE  EvalInv'
  <2>1. PICK those \in SUBSET Cases : those = {c \in Cases : evalRows[c].there}
    OBVIOUS
  <2>2. PICK hand \in HandRec :
          hand = [job |-> "batch", read |-> evalRows, on |-> {}, left |-> those]
    BY DEF HandRec, EvalInv
  <2>3. hand.job = "batch" /\ hand.read = evalRows /\ hand.left = those /\ hand.on = {}
    BY <2>2
  <2>4. inHand' = [inHand EXCEPT ![k] = hand] /\ inHand[k].job = "none"
        /\ UNCHANGED <<evalRows, wanted, behind, overrun, edits>>
    BY <1>1, <2>1, <2>2 DEF RunBatchEvaluation
  <2>5. HandOK(hand, behind[k], evalRows)
    BY <2>1, <2>3 DEF HandOK
  <2>6. behind' = [behind EXCEPT ![k] = behind[k]] /\ behind[k] \in SUBSET Cases /\ edits' \in Nat
    BY <2>4 DEF EvalInv
  <2>7. inHand[k].on = {}
    BY <2>4, HandIs DEF HandOK
  <2>. QED BY <2>3, <2>4, <2>5, <2>6, <2>7, HandStep
<1>2. ASSUME Released(k), behind' = [behind EXCEPT ![k] = {}], edits' = edits,
             UNCHANGED <<evalRows, wanted>>, overrun' = overrun \cup inHand[k].on
      PROVE  EvalInv'
  <2>1. edits' \in Nat /\ {} \in SUBSET Cases /\ inHand[k].on \ AtRest.on = inHand[k].on
    BY <1>2, AtRestIs DEF EvalInv
  <2>. QED BY <1>2, <2>1, AtRestIs, HandStep DEF Released
<1>3. ASSUME RunEnds(k)
      PROVE  EvalInv'
  <2>1. inHand[k].on = {} /\ overrun' = overrun \cup inHand[k].on
    BY <1>3 DEF RunEnds
  <2>. QED BY <1>2, <1>3, <2>1 DEF RunEnds
<1>4. ASSUME RunDies(k)
      PROVE  EvalInv'
  BY <1>2, <1>4 DEF RunDies
<1>. QED BY <1>1, <1>3, <1>4

\* A row saved by k is as its client read it, unless the client was behind.
LEMMA ReadIs ==
  ASSUME EvalInv, NEW k \in Curators, NEW c \in Cases
  PROVE  /\ inHand[k].read[c] \in CaseRec /\ evalRows[c] \in CaseRec
         /\ c \in inHand[k].left \ behind[k] => inHand[k].read[c] = evalRows[c]
         /\ c \in inHand[k].on \ behind[k] => OfUsers(inHand[k].read[c]) = OfUsers(evalRows[c])
         /\ c \notin overrun => OfUsers(evalRows[c]) = wanted[c]
         /\ c \notin overrun /\ evalRows[c].there /\ evalRows[c].status = "running" =>
              \E j \in Curators : c \in inHand[j].on
BY HandIs DEF EvalInv, HandOK, CaseOK, HandRec

\* The writes of a row a request read before.
LEMMA WritesSafe ==
  ASSUME EvalInv, NEW k \in Curators, NEW c \in Cases
  PROVE  /\ Update(k, c) => EvalInv'
         /\ UpdateReviewStatus(k, c) => EvalInv'
         /\ RemoveCase(k, c) => EvalInv'
         /\ MarkRunning(k, c) => EvalInv'
         /\ CaseRun(k, c) => EvalInv'
<1>1. PICK q \in CaseRec : q = inHand[k].read[c]
  BY ReadIs
<1>2. PICK current \in CaseRec : current = evalRows[c]
  BY ReadIs
<1>3. PICK hand \in HandRec : hand = inHand[k]
  BY HandIs
<1>4. edits \in Nat /\ HandOK(hand, behind[k], evalRows) /\ hand.left \subseteq Cases
      /\ hand.on \subseteq Cases
  BY <1>3, HandIs DEF EvalInv, HandRec
\* The client is done with the row it writes.
<1>5. ASSUME NEW row \in CaseRec, NEW want, Released(k), Others(k, c),
             c \in hand.left, hand.job \notin {"batch", "single"},
             evalRows' = [evalRows EXCEPT ![c] = row],
             wanted' = [wanted EXCEPT ![c] = want], edits' = edits,
             overrun \subseteq overrun', overrun' \subseteq overrun \cup {c},
             c \notin overrun' => /\ OfUsers(row) = want
                                  /\ row.there => current.there /\ row.status = current.status
      PROVE  EvalInv'
  <2>1. hand.on = {}
    BY <1>4, <1>5 DEF HandOK
  <2>2. c \notin overrun' /\ row.there /\ row.status = "running" =>
          \E j \in Curators \ {k} : c \in inHand[j].on
    BY <1>2, <1>3, <1>5, <2>1, ReadIs
  <2>3. OfUsers(row) = want \/ c \in overrun'
    BY <1>5
  <2>. QED BY <1>3, <1>5, <2>1, <2>2, <2>3, AtRestIs, WriteStep DEF Released
<1>6. ASSUME Update(k, c)
      PROVE  EvalInv'
  <2>1. PICK row \in CaseRec : row = [q EXCEPT !.question = edits]
    BY <1>4, SetQuestion
  <2>2. PICK want : want = [wanted[c] EXCEPT !.question = edits]
    OBVIOUS
  <2>3. /\ Released(k) /\ Others(k, c) /\ c \in hand.left /\ hand.job = "update" /\ edits' = edits
        /\ evalRows' = [evalRows EXCEPT ![c] = row] /\ wanted' = [wanted EXCEPT ![c] = want]
        /\ overrun' = IF c \in behind[k] THEN overrun \cup {c} ELSE overrun
    BY <1>1, <1>3, <1>6, <2>1, <2>2 DEF Update, Doing, Saved, EvalInv
  <2>4. c \notin overrun' => q = current /\ wanted[c] = OfUsers(current)
    BY <1>1, <1>2, <1>3, <2>3, ReadIs
  <2>5. c \notin overrun' => OfUsers(row) = want /\ row.there = current.there /\ row.status = current.status
    BY <1>4, <2>1, <2>2, <2>4, SetQuestion
  <2>. QED BY <1>5, <2>3, <2>5
<1>7. ASSUME UpdateReviewStatus(k, c)
      PROVE  EvalInv'
  <2>0. PICK v \in Reviews :
          /\ Doing(k, c, "review") /\ Released(k) /\ edits' = edits
          /\ wanted' = [wanted EXCEPT ![c].review = v]
          /\ Saved(k, c, [inHand[k].read[c] EXCEPT !.review = v])
    BY <1>7 DEF UpdateReviewStatus
  <2>1. PICK row \in CaseRec : row = [q EXCEPT !.review = v]
    BY SetReview
  <2>2. PICK want : want = [wanted[c] EXCEPT !.review = v]
    OBVIOUS
  <2>3. /\ Released(k) /\ Others(k, c) /\ c \in hand.left /\ hand.job = "review" /\ edits' = edits
        /\ evalRows' = [evalRows EXCEPT ![c] = row] /\ wanted' = [wanted EXCEPT ![c] = want]
        /\ overrun' = IF c \in behind[k] THEN overrun \cup {c} ELSE overrun
    BY <1>1, <1>3, <2>0, <2>1, <2>2 DEF Doing, Saved, EvalInv
  <2>4. c \notin overrun' => q = current /\ wanted[c] = OfUsers(current)
    BY <1>1, <1>2, <1>3, <2>3, ReadIs
  <2>5. c \notin overrun' => OfUsers(row) = want /\ row.there = current.there /\ row.status = current.status
    BY <2>1, <2>2, <2>4, SetReview
  <2>. QED BY <1>5, <2>3, <2>5
<1>8. ASSUME RemoveCase(k, c)
      PROVE  EvalInv'
  <2>1. PICK row \in CaseRec : row = [current EXCEPT !.there = FALSE]
    BY SetThere
  <2>2. PICK want : want = [wanted[c] EXCEPT !.there = FALSE]
    OBVIOUS
  <2>3. /\ Released(k) /\ Others(k, c) /\ c \in hand.left /\ hand.job = "remove" /\ edits' = edits
        /\ evalRows' = [evalRows EXCEPT ![c] = row] /\ wanted' = [wanted EXCEPT ![c] = want]
        /\ overrun' = overrun
    BY <1>2, <1>3, <1>8, <2>1, <2>2 DEF RemoveCase, Doing, EvalInv
  <2>4. c \notin overrun' => wanted[c] = OfUsers(current)
    BY <1>2, <2>3, ReadIs
  <2>5. ~row.there /\ (c \notin overrun' => OfUsers(row) = want)
    BY <2>1, <2>2, <2>4, SetThere
  <2>. QED BY <1>5, <2>3, <2>5
<1>9. ASSUME MarkRunning(k, c)
      PROVE  EvalInv'
  <2>1. PICK row \in CaseRec : row = [q EXCEPT !.status = "running"]
    BY SetStatus
  <2>2. PICK more \in HandRec : more = [hand EXCEPT !.on = {c}, !.left = hand.left \ {c}]
    BY <1>4 DEF HandRec
  <2>3. more.on = {c} /\ more.left = hand.left \ {c} /\ more.job = hand.job /\ more.read = hand.read
    BY <2>2 DEF HandRec
  <2>4. hand.job \in {"batch", "single"} /\ hand.on = {} /\ c \in hand.left
    BY <1>3, <1>9 DEF MarkRunning
  <2>5. inHand' = [inHand EXCEPT ![k] = more]
    <3>1. inHand' = [inHand EXCEPT ![k].on = {c}, ![k].left = inHand[k].left \ {c}]
      BY <1>9 DEF MarkRunning
    <3>. QED BY <1>3, <2>2, <3>1 DEF EvalInv, HandRec
  <2>6. /\ Others(k, c) /\ evalRows' = [evalRows EXCEPT ![c] = row]
        /\ overrun' = IF c \in behind[k] THEN overrun \cup {c} ELSE overrun
    BY <1>1, <1>9, <2>1 DEF MarkRunning, Saved
  <2>7. wanted' = [wanted EXCEPT ![c] = wanted[c]] /\ edits' = edits
    BY <1>9 DEF MarkRunning, EvalInv
  <2>8. c \notin overrun' => q = current /\ OfUsers(current) = wanted[c]
    BY <1>1, <1>2, <1>3, <2>4, <2>6, ReadIs
  <2>9. OfUsers(q) = OfUsers(row)
    BY <2>1, SetStatus
  <2>10. (c \notin overrun' => OfUsers(row) = wanted[c]) /\ OfUsers(inHand[k].read[c]) = OfUsers(row)
    BY <1>1, <2>8, <2>9
  <2>11. /\ more.job # "none" /\ more.job \in {"batch", "single"} /\ more.read = inHand[k].read
         /\ more.left \subseteq inHand[k].left \ {c} /\ more.on \subseteq {c}
         /\ inHand[k].on \subseteq {c} /\ c \in inHand[k].left /\ c \in more.on
    BY <1>3, <2>3, <2>4
  <2>12. overrun \subseteq overrun' /\ overrun' \subseteq overrun \cup {c}
    BY <2>6
  <2>. QED BY <2>5, <2>6, <2>7, <2>10, <2>11, <2>12, WriteStep
<1>10. ASSUME CaseRun(k, c)
       PROVE  EvalInv'
  <2>0. PICK status \in {"success", "failed"} :
          /\ c \in inHand[k].on /\ inHand' = [inHand EXCEPT ![k].on = {}]
          /\ Saved(k, c, [inHand[k].read[c] EXCEPT !.status = status])
          /\ UNCHANGED <<wanted, edits, runs>>
    BY <1>10 DEF CaseRun
  <2>1. status \in {"unrun", "running", "success", "failed"} /\ status # "running"
    OBVIOUS
  <2>2. PICK row \in CaseRec : row = [q EXCEPT !.status = status]
    BY <2>1, SetStatus
  <2>3. row.status # "running" /\ OfUsers(row) = OfUsers(q)
    BY <2>1, <2>2, SetStatus
  <2>4. PICK more \in HandRec : more = [hand EXCEPT !.on = {}]
    BY <1>4 DEF HandRec
  <2>5. more.on = {} /\ more.left = hand.left /\ more.job = hand.job /\ more.read = hand.read
    BY <2>4 DEF HandRec
  <2>6. /\ c \in hand.on /\ inHand' = [inHand EXCEPT ![k] = more] /\ Others(k, c)
        /\ evalRows' = [evalRows EXCEPT ![c] = row] /\ wanted' = wanted /\ edits' = edits
        /\ overrun' = IF c \in behind[k] THEN overrun \cup {c} ELSE overrun
    <3>1. inHand' = [inHand EXCEPT ![k] = [hand EXCEPT !.on = {}]]
      BY <1>3, <2>0 DEF EvalInv
    <3>. QED BY <1>1, <1>3, <2>0, <2>2, <2>4, <3>1 DEF Saved
  <2>7. hand.left \subseteq hand.left \ {c} /\ hand.on \subseteq {c} /\ hand.job # "none"
    BY <1>4, <2>6 DEF HandOK
  <2>8. c \notin overrun' => OfUsers(q) = OfUsers(current) /\ OfUsers(current) = wanted[c]
    BY <1>1, <1>2, <1>3, <2>6, ReadIs
  <2>9. c \notin overrun' => OfUsers(row) = wanted[c]
    BY <2>3, <2>8
  <2>10. wanted' = [wanted EXCEPT ![c] = wanted[c]]
    BY <2>6 DEF EvalInv
  <2>11. overrun \subseteq overrun' /\ overrun' \subseteq overrun \cup {c}
    BY <2>6
  <2>12. /\ more.job # "none" /\ more.read = inHand[k].read /\ inHand[k].on \subseteq {c}
         /\ more.left \subseteq inHand[k].left \ {c} /\ more.on \subseteq {c} /\ c \notin more.on
    BY <1>3, <2>5, <2>7
  <2>. QED BY <2>3, <2>5, <2>6, <2>9, <2>10, <2>11, <2>12, WriteStep
<1>. QED BY <1>6, <1>7, <1>8, <1>9, <1>10


\* A case is made.
LEMMA CreateSafe ==
  ASSUME EvalInv, NEW k \in Curators, NEW c \in Cases, Create(k, c)
  PROVE  EvalInv'
<1>1. edits \in Nat /\ edits' = edits + 1 /\ edits' \in Nat
  BY DEF Create, EvalInv
<1>2. PICK row \in CaseRec : row = [Fresh EXCEPT !.question = edits']
  BY <1>1, AtRestIs, SetQuestion
<1>3. row.status = "unrun"
  BY <1>1, <1>2, AtRestIs, SetQuestion
<1>4. /\ evalRows' = [evalRows EXCEPT ![c] = row] /\ evalRows'[c] = row
      /\ wanted' = [wanted EXCEPT ![c] = OfUsers(row)]
      /\ UNCHANGED <<inHand, behind, overrun>>
      /\ \A j \in Curators : ~inHand[j].read[c].there
  <2>1. evalRows' = [evalRows EXCEPT ![c] = row] /\ evalRows'[c] = row
    BY <1>2 DEF Create, EvalInv
  <2>2. wanted' = [wanted EXCEPT ![c] = OfUsers(evalRows'[c])]
    BY DEF Create
  <2>. QED BY <2>1, <2>2 DEF Create
<1>5. /\ evalRows' \in [Cases -> CaseRec]
      /\ \A d \in Cases \ {c} : evalRows'[d] = evalRows[d] /\ wanted'[d] = wanted[d]
      /\ wanted'[c] = OfUsers(row) /\ DOMAIN wanted' = Cases
      /\ wanted' = [d \in Cases |-> wanted'[d]]
  BY <1>4 DEF EvalInv
<1>6. ASSUME NEW j \in Curators
      PROVE  HandOK(inHand[j], behind[j], evalRows')
  <2>1. HandOK(inHand[j], behind[j], evalRows) /\ inHand[j] \in HandRec
    BY HandIs
  <2>2. c \notin inHand[j].left \cup inHand[j].on
    BY <1>4, <2>1 DEF HandOK
  <2>3. inHand[j].left \subseteq Cases /\ inHand[j].on \subseteq Cases
    BY <2>1 DEF HandRec
  <2>. QED BY <1>5, <2>1, <2>2, <2>3 DEF HandOK
<1>7. ASSUME NEW d \in Cases \ overrun
      PROVE  CaseOK(evalRows'[d], wanted'[d], inHand, d)
  <2>1. CASE d = c
    BY <1>3, <1>4, <1>5, <2>1 DEF CaseOK
  <2>2. CASE d # c
    BY <1>5, <1>7, <2>2 DEF EvalInv
  <2>. QED BY <2>1, <2>2
<1>. QED BY <1>1, <1>4, <1>5, <1>6, <1>7 DEF EvalInv

\* Every step keeps the invariant.
LEMMA EvalStepSafe ==
  ASSUME EvalInv, [EvalNext]_evalVars
  PROVE  EvalInv'
<1>1. ASSUME NEW k \in Curators, NEW c \in Cases,
             \/ \E task \in {"update", "review", "remove"} : BeginEdit(k, c, task)
             \/ RunSingleEvaluation(k, c)
      PROVE  EvalInv'
  <2>1. edits' \in Nat
    BY <1>1 DEF BeginEdit, RunSingleEvaluation, EvalInv
  <2>2. \E task \in {"update", "review", "remove", "single"} : FindInKnowledge(k, c, task)
    BY <1>1 DEF BeginEdit, RunSingleEvaluation
  <2>. QED BY <2>1, <2>2, FindSafe
<1>2. CASE UNCHANGED evalVars
  BY <1>2 DEF evalVars, EvalInv
<1>. QED BY <1>1, <1>2, WritesSafe, CreateSafe, RunSafe DEF EvalNext

\* For every number of cases, curators and edits, a case is what its users made
\* it unless a save that read it before wrote over it, and a case that runs is
\* run by someone unless it was overrun (evaluation of the knowledge module).
THEOREM EvalEditsStand == EvalSpec => []EditsStand
<1>1. EvalInit => EvalInv
  BY EvalInitSafe
<1>2. EvalInv /\ [EvalNext]_evalVars => EvalInv'
  BY EvalStepSafe
<1>. QED BY <1>1, <1>2, EvalStands, PTL DEF EvalSpec

-----------------------------------------------------------------------------
(***************************************************************************)
(* The health page blames no service that was there all along, for every   *)
(* number of ticks, outages and looks.  The inductive invariant follows the *)
(* heartbeat of the worker, and a request, probe by probe, to its answer.  *)
(***************************************************************************)

Probes == ToSet(ProbeOrder)

(* Nine probes, and the services among them.                                 *)
LEMMA NineProbes ==
  /\ Len(ProbeOrder) = 9 /\ DOMAIN ProbeOrder = 1 .. 9
  /\ Probes = {"db", "elasticsearch", "neo4j", "redis", "queue", "minio", "worker",
               "digitalHuman", "llm"}
  /\ HealthServices \subseteq Probes
<1>1. Len(ProbeOrder) = 9 /\ DOMAIN ProbeOrder = 1 .. 9
  BY DEF ProbeOrder
<1>2. /\ ProbeOrder[1] = "db" /\ ProbeOrder[2] = "elasticsearch" /\ ProbeOrder[3] = "neo4j"
      /\ ProbeOrder[4] = "redis" /\ ProbeOrder[5] = "queue" /\ ProbeOrder[6] = "minio"
      /\ ProbeOrder[7] = "worker" /\ ProbeOrder[8] = "digitalHuman" /\ ProbeOrder[9] = "llm"
  BY DEF ProbeOrder
<1>3. DOMAIN ProbeOrder = {1, 2, 3, 4, 5, 6, 7, 8, 9}
  BY <1>1
<1>4. Probes = {"db", "elasticsearch", "neo4j", "redis", "queue", "minio", "worker",
                "digitalHuman", "llm"}
  BY <1>2, <1>3 DEF Probes, ToSet
<1>. QED BY <1>1, <1>4 DEF HealthServices

\* A service that does not answer has been down since the check began, and only
\* such a service is blamed; ...
BlamesTheDown ==
  /\ HealthServices \ up \subseteq seenDown
  /\ \A s \in HealthServices : check.results[s] = "error" =>
       s \in seenDown \cup (Switches \ configured)
  /\ check.results["redis"] # "error" /\ check.results["queue"] # "error"

\* ... the heartbeat is not younger than the worker's last interval, nor is the
\* date that waits; and where it is older, the last interval waited for Redis.
BeatFollows ==
  /\ beat <= signs.lived /\ worker.waiting <= signs.lived /\ signs.lived <= now
  /\ signs.lived = Never \/ beat >= signs.lived \/ signs.waited >= signs.lived
  /\ worker.waiting # Never => signs.waited >= signs.lived

\* ... and what the probe of the worker said follows from what it read.
WorkerIsHonest ==
  /\ check.results["worker"] = "ok" => atRead.lived > atRead.now - FreshFor
  /\ check.results["worker"] = "error" =>
       \/ atRead.lived \in {Never} \cup (0 .. atRead.now - FreshFor)
       \/ atRead.waited > atRead.now - FreshFor

\* The page waits while there are probes to make, and shows all of them or nothing.
PageAfterAnswer ==
  /\ ~healthTab.error
  /\ healthTab.loading => healthTab.data = "none"
  /\ ~healthTab.loading => check.at \in {0, Len(ProbeOrder) + 1}
  /\ ~healthTab.loading /\ check.at = 0 => healthTab.data = "none"
  /\ ~healthTab.loading /\ check.at # 0 => (healthTab.data = "ok" <=> AllWell)

HealthInv ==
  HealthTypeOK /\ BlamesTheDown /\ BeatFollows /\ WorkerIsHonest /\ PageAfterAnswer

\* A probe with its result.
ProbedAs(p, r) ==
  /\ check.at \in DOMAIN ProbeOrder
  /\ check' = [at |-> check.at + 1, results |-> [check.results EXCEPT ![p] = r]]
  /\ p # "worker" => UNCHANGED atRead
  /\ p = "worker" => atRead' = [now |-> now, lived |-> signs.lived, waited |-> signs.waited]
  /\ UNCHANGED <<up, configured, worker, beat, now, healthTab, outages, looks, seenDown, signs>>

(* What one probe changes: one result, while the page waits.                 *)
LEMMA ProbedChanges ==
  ASSUME HealthInv, NEW p \in Probes, NEW r \in {"ok", "error"}, ProbedAs(p, r)
  PROVE  /\ healthTab.loading /\ UNCHANGED healthTab
         /\ check'.at \in 1 .. Len(ProbeOrder) + 1 /\ check'.results \in Results
         /\ check' \in [at : 0 .. Len(ProbeOrder) + 1, results : Results]
         /\ check'.results[p] = r
         /\ \A q \in Probes : q # p => check'.results[q] = check.results[q]
         /\ p # "worker" => UNCHANGED atRead
         /\ p = "worker" => atRead' = [now |-> now, lived |-> signs.lived, waited |-> signs.waited]
         /\ UNCHANGED <<up, configured, worker, beat, now, outages, looks, seenDown, signs>>
<1>0. HealthTypeOK /\ PageAfterAnswer
  BY DEF HealthInv
<1>1. check.at \in 1 .. 9 /\ Len(ProbeOrder) = 9
  BY NineProbes DEF ProbedAs
<1>2. /\ check' = [at |-> check.at + 1, results |-> [check.results EXCEPT ![p] = r]]
      /\ UNCHANGED <<up, configured, worker, beat, now, healthTab, outages, looks, seenDown, signs>>
  BY DEF ProbedAs
<1>3. check.results \in [Probes -> {"unknown", "ok", "error"}]
  BY <1>0 DEF HealthTypeOK, Results, Probes
<1>4. r \in {"unknown", "ok", "error"}
  OBVIOUS
<1>5. [check.results EXCEPT ![p] = r] \in Results
  BY <1>3, <1>4 DEF Results, Probes
<1>6. /\ check'.at = check.at + 1
      /\ check'.results = [check.results EXCEPT ![p] = r]
      /\ check'.at \in 0 .. Len(ProbeOrder) + 1
  BY <1>1, <1>2
<1>7. /\ check'.results[p] = r
      /\ \A q \in Probes : q # p => check'.results[q] = check.results[q]
  BY <1>3, <1>6
<1>8. healthTab.loading
  BY <1>0, <1>1 DEF PageAfterAnswer, HealthTypeOK
<1>9. check' \in [at : 0 .. Len(ProbeOrder) + 1, results : Results]
  BY <1>2, <1>5, <1>6
<1>10. check'.at \in 1 .. Len(ProbeOrder) + 1
  BY <1>1, <1>6
<1>11. /\ p # "worker" => UNCHANGED atRead
       /\ p = "worker" => atRead' = [now |-> now, lived |-> signs.lived, waited |-> signs.waited]
  BY DEF ProbedAs
<1>. QED BY <1>2, <1>5, <1>6, <1>7, <1>8, <1>9, <1>10, <1>11

(* A probe keeps the invariant when its service is blamed only if it is down *)
(* or switched off, and the worker only by what was read.                    *)
LEMMA ProbedKeeps ==
  ASSUME HealthInv, NEW p \in Probes, NEW r \in {"ok", "error"}, ProbedAs(p, r),
         p \in HealthServices /\ r = "error" => p \in seenDown \cup (Switches \ configured),
         p \in {"redis", "queue"} => r = "ok",
         p = "worker" => (r = "ok" <=> BeatIsFresh)
  PROVE  HealthInv'
<1>0. HealthTypeOK /\ BlamesTheDown /\ BeatFollows /\ WorkerIsHonest /\ PageAfterAnswer
  BY DEF HealthInv
<1>1. /\ healthTab.loading /\ UNCHANGED healthTab
      /\ check'.at \in 1 .. Len(ProbeOrder) + 1 /\ check'.results \in Results
      /\ check' \in [at : 0 .. Len(ProbeOrder) + 1, results : Results]
      /\ check'.results[p] = r
      /\ \A q \in Probes : q # p => check'.results[q] = check.results[q]
      /\ p # "worker" => UNCHANGED atRead
      /\ p = "worker" => atRead' = [now |-> now, lived |-> signs.lived, waited |-> signs.waited]
      /\ UNCHANGED <<up, configured, worker, beat, now, outages, looks, seenDown, signs>>
  BY ProbedChanges
<1>2. /\ now \in 0 .. MaxTicks /\ signs.lived \in Dates /\ signs.waited \in Dates /\ beat \in Dates
      /\ signs \in [lived : Dates, waited : Dates]
      /\ atRead \in [now : 0 .. MaxTicks, lived : Dates, waited : Dates]
  BY <1>0 DEF HealthTypeOK
<1>3. HealthTypeOK'
  <2>1. atRead' \in [now : 0 .. MaxTicks, lived : Dates, waited : Dates]
    BY <1>1, <1>2
  <2>. QED BY <1>0, <1>1, <2>1 DEF HealthTypeOK
<1>4. BlamesTheDown'
  <2>1. \A s \in HealthServices : check'.results[s] = "error" =>
          s \in seenDown \cup (Switches \ configured)
    BY <1>0, <1>1, NineProbes DEF BlamesTheDown
  <2>2. check'.results["redis"] # "error" /\ check'.results["queue"] # "error"
    BY <1>0, <1>1, NineProbes DEF BlamesTheDown
  <2>. QED BY <1>0, <1>1, <2>1, <2>2 DEF BlamesTheDown
<1>5. BeatFollows'
  BY <1>0, <1>1 DEF BeatFollows
<1>6. WorkerIsHonest'
  <2>1. CASE p # "worker"
    BY <1>0, <1>1, <2>1, NineProbes DEF WorkerIsHonest
  <2>2. CASE p = "worker"
    <3>1. atRead'.now = now /\ atRead'.lived = signs.lived /\ atRead'.waited = signs.waited
      BY <1>1, <2>2
    <3>2. check'.results["worker"] = r
      BY <1>1, <2>2
    <3>3. beat \in Int /\ now \in Int /\ signs.lived \in Int /\ signs.waited \in Int
      BY <1>2 DEF Dates, Never
    <3>4. CASE BeatIsFresh
      <4>1. check'.results["worker"] = "ok" /\ signs.lived > now - FreshFor
        BY <1>0, <3>2, <3>3, <2>2, <3>4 DEF BeatIsFresh, BeatFollows, FreshFor
      <4>. QED BY <3>1, <4>1 DEF WorkerIsHonest
    <3>5. CASE ~BeatIsFresh
      <4>1. check'.results["worker"] = "error"
        BY <2>2, <3>2, <3>5
      <4>2. \/ signs.lived \in {Never} \cup (0 .. now - FreshFor)
            \/ signs.waited > now - FreshFor
        BY <1>0, <1>2, <3>3, <3>5 DEF BeatIsFresh, BeatFollows, FreshFor, Never, Dates
      <4>. QED BY <3>1, <4>1, <4>2 DEF WorkerIsHonest
    <3>. QED BY <3>4, <3>5
  <2>. QED BY <2>1, <2>2
<1>7. PageAfterAnswer'
  BY <1>0, <1>1 DEF PageAfterAnswer
<1>. QED BY <1>3, <1>4, <1>5, <1>6, <1>7 DEF HealthInv

(* The nine probes.                                                          *)
LEMMA ChecksKeep ==
  ASSUME HealthInv,
         \/ CheckDb \/ CheckElasticsearch \/ CheckNeo4j \/ CheckRedis \/ CheckMinio \/ CheckWorker
         \/ CheckDigitalHuman \/ CheckLlm
  PROVE  HealthInv'
<1>0. \A s \in HealthServices : s \notin up => s \in seenDown
  BY DEF HealthInv, BlamesTheDown
<1>1. {"db", "elasticsearch", "neo4j", "redis", "minio"} = HealthServices
  BY DEF HealthServices
<1>2. PICK p \in Probes, r \in {"ok", "error"} :
        /\ ProbedAs(p, r)
        /\ p \in HealthServices /\ r = "error" => p \in seenDown \cup (Switches \ configured)
        /\ p \in {"redis", "queue"} => r = "ok"
        /\ p = "worker" => (r = "ok" <=> BeatIsFresh)
  <2>1. CASE CheckDb
    <3>1. ProbedAs("db", IF "db" \in up THEN "ok" ELSE "error")
      BY <2>1 DEF CheckDb, Probed, ProbedAs, StatusIf
    <3>. QED BY <1>0, <1>1, <3>1, NineProbes
  <2>2. CASE CheckElasticsearch
    <3>1. ProbedAs("elasticsearch", IF "elasticsearch" \in up \cap configured THEN "ok" ELSE "error")
      BY <2>2 DEF CheckElasticsearch, Probed, ProbedAs, StatusIf
    <3>2. "elasticsearch" \notin up \cap configured => "elasticsearch" \in seenDown \cup (Switches \ configured)
      BY <1>0, <1>1 DEF Switches
    <3>. QED BY <3>1, <3>2, NineProbes
  <2>3. CASE CheckNeo4j
    <3>1. ProbedAs("neo4j", IF "neo4j" \in up \cap configured THEN "ok" ELSE "error")
      BY <2>3 DEF CheckNeo4j, Probed, ProbedAs, StatusIf
    <3>2. "neo4j" \notin up \cap configured => "neo4j" \in seenDown \cup (Switches \ configured)
      BY <1>0, <1>1 DEF Switches
    <3>. QED BY <3>1, <3>2, NineProbes
  <2>4. CASE CheckRedis
    <3>1. ProbedAs("redis", "ok") \/ ProbedAs("queue", "ok")
      BY <2>4 DEF CheckRedis, Probed, ProbedAs, StatusIf
    <3>. QED BY <3>1, NineProbes
  <2>5. CASE CheckMinio
    <3>1. ProbedAs("minio", IF "minio" \in up THEN "ok" ELSE "error")
      BY <2>5 DEF CheckMinio, Probed, ProbedAs, StatusIf
    <3>. QED BY <1>0, <1>1, <3>1, NineProbes
  <2>6. CASE CheckWorker
    <3>1. ProbedAs("worker", IF BeatIsFresh THEN "ok" ELSE "error")
      BY <2>6 DEF CheckWorker, Probed, ProbedAs, StatusIf
    <3>. QED BY <1>1, <3>1, NineProbes
  <2>7. CASE CheckDigitalHuman
    <3>1. ProbedAs("digitalHuman", IF "digitalHuman" \in configured THEN "ok" ELSE "error")
      BY <2>7 DEF CheckDigitalHuman, Probed, ProbedAs, StatusIf
    <3>. QED BY <1>1, <3>1, NineProbes
  <2>8. CASE CheckLlm
    <3>1. ProbedAs("llm", IF "llm" \in configured THEN "ok" ELSE "error")
      BY <2>8 DEF CheckLlm, Probed, ProbedAs, StatusIf
    <3>. QED BY <1>1, <3>1, NineProbes
  <2>. QED BY <2>1, <2>2, <2>3, <2>4, <2>5, <2>6, <2>7, <2>8
<1>. QED BY <1>2, ProbedKeeps

(* The interval of the worker and its connection.                            *)
LEMMA WorkerKeeps ==
  ASSUME HealthInv,
         \/ HealthTick \/ WorkerReconnects \/ WorkerDies
         \/ \E on \in BOOLEAN : WorkerStalls(on)
  PROVE  HealthInv'
<1>. USE HealthBounds
<1>0. HealthTypeOK /\ BlamesTheDown /\ BeatFollows /\ WorkerIsHonest /\ PageAfterAnswer
  BY DEF HealthInv
<1>1. UNCHANGED <<up, configured, check, healthTab, looks, seenDown, atRead>>
  BY DEF HealthTick, WorkerReconnects, WorkerDies, WorkerStalls
<1>2. BlamesTheDown' /\ WorkerIsHonest' /\ PageAfterAnswer'
  BY <1>0, <1>1 DEF BlamesTheDown, WorkerIsHonest, PageAfterAnswer, AllWell
<1>3. /\ worker \in [alive : BOOLEAN, stalled : BOOLEAN, waiting : Dates]
      /\ beat \in Dates /\ now \in 0 .. MaxTicks /\ signs \in [lived : Dates, waited : Dates]
      /\ worker.waiting \in Dates /\ signs.lived \in Dates /\ signs.waited \in Dates
      /\ outages \in 0 .. MaxOutages
  BY <1>0 DEF HealthTypeOK
<1>4. SUFFICES
        /\ worker' \in [alive : BOOLEAN, stalled : BOOLEAN, waiting : Dates]
        /\ beat' \in Dates /\ now' \in 0 .. MaxTicks /\ signs' \in [lived : Dates, waited : Dates]
        /\ outages' \in 0 .. MaxOutages /\ BeatFollows'
  BY <1>0, <1>1, <1>2 DEF HealthInv, HealthTypeOK
<1>5. CASE HealthTick
  <2>1. /\ now' = now + 1 /\ now' \in 0 .. MaxTicks /\ now + 1 \in Dates /\ outages' = outages
        /\ signs.lived <= now /\ worker.waiting <= now
    BY <1>0, <1>3, <1>5 DEF HealthTick, BeatFollows, Dates, Never
  <2>2. CASE ~Beats
    <3>1. worker' = worker /\ beat' = beat /\ signs'.lived = signs.lived
          /\ signs'.waited = signs.waited /\ signs' \in [lived : Dates, waited : Dates]
      BY <1>3, <1>5, <2>2 DEF HealthTick
    <3>2. BeatFollows'
      BY <1>0, <1>3, <2>1, <3>1 DEF BeatFollows, Never, Dates
    <3>. QED BY <1>3, <2>1, <3>1, <3>2
  <2>3. CASE Beats /\ ConnectionUp
    <3>1. worker' = worker /\ beat' = now + 1 /\ signs'.lived = now + 1
          /\ signs'.waited = signs.waited /\ signs' \in [lived : Dates, waited : Dates]
      BY <1>3, <1>5, <2>1, <2>3 DEF HealthTick
    <3>2. worker.waiting = Never
      BY <2>3 DEF ConnectionUp
    <3>3. BeatFollows'
      BY <1>3, <2>1, <3>1, <3>2 DEF BeatFollows, Never, Dates
    <3>. QED BY <1>3, <2>1, <3>1, <3>3
  <2>4. CASE Beats /\ ~ConnectionUp
    <3>1. /\ worker' = [worker EXCEPT !.waiting = now + 1] /\ beat' = beat
          /\ signs' = [lived |-> now + 1, waited |-> now + 1]
      BY <1>5, <2>4 DEF HealthTick
    <3>2. /\ worker'.waiting = now + 1 /\ signs'.lived = now + 1 /\ signs'.waited = now + 1
          /\ worker' \in [alive : BOOLEAN, stalled : BOOLEAN, waiting : Dates]
          /\ signs' \in [lived : Dates, waited : Dates]
      BY <1>3, <2>1, <3>1
    <3>3. beat <= now + 1
      BY <1>0, <1>3, <2>1 DEF BeatFollows, Dates, Never
    <3>4. BeatFollows'
      BY <1>3, <2>1, <3>1, <3>2, <3>3 DEF BeatFollows, Never
    <3>. QED BY <1>3, <2>1, <3>1, <3>2, <3>4
  <2>. QED BY <2>2, <2>3, <2>4
<1>6. CASE WorkerReconnects
  <2>1. /\ beat' = worker.waiting /\ worker.waiting # Never
        /\ worker' = [worker EXCEPT !.waiting = Never]
        /\ UNCHANGED <<now, signs, outages>>
    BY <1>6 DEF WorkerReconnects
  <2>2. Never \in Dates
    BY <1>3 DEF Never, Dates
  <2>3. /\ worker'.waiting = Never
        /\ worker' \in [alive : BOOLEAN, stalled : BOOLEAN, waiting : Dates]
    BY <1>3, <2>1, <2>2
  <2>4. BeatFollows'
    BY <1>0, <1>3, <2>1, <2>3 DEF BeatFollows, Never, Dates
  <2>. QED BY <1>3, <2>1, <2>3, <2>4
<1>7. CASE WorkerDies
  <2>1. /\ worker' = [alive |-> FALSE, stalled |-> FALSE, waiting |-> Never]
        /\ UNCHANGED <<now, beat, signs>> /\ outages' \in 0 .. MaxOutages
    BY <1>3, <1>7 DEF WorkerDies
  <2>2. Never \in Dates
    BY <1>3 DEF Never, Dates
  <2>3. BeatFollows'
    BY <1>0, <1>3, <2>1 DEF BeatFollows, Never, Dates
  <2>. QED BY <1>3, <2>1, <2>2, <2>3
<1>8. CASE \E on \in BOOLEAN : WorkerStalls(on)
  <2>1. PICK on \in BOOLEAN : WorkerStalls(on)
    BY <1>8
  <2>2. /\ worker' = [worker EXCEPT !.stalled = on]
        /\ UNCHANGED <<now, beat, signs>> /\ outages' \in 0 .. MaxOutages
    BY <1>3, <2>1 DEF WorkerStalls
  <2>3. /\ worker'.waiting = worker.waiting
        /\ worker' \in [alive : BOOLEAN, stalled : BOOLEAN, waiting : Dates]
    BY <1>3, <2>2
  <2>. QED BY <1>0, <1>3, <2>2, <2>3 DEF BeatFollows
<1>. QED BY <1>5, <1>6, <1>7, <1>8

(* The services, and the page.                                               *)
LEMMA PageKeeps ==
  ASSUME HealthInv,
         \/ \E s \in HealthServices : GoesDown(s) \/ ComesBack(s)
         \/ OpenHealthTab \/ HealthAnswered \/ HealthUnanswered
  PROVE  HealthInv'
<1>0. HealthTypeOK /\ BlamesTheDown /\ BeatFollows /\ WorkerIsHonest /\ PageAfterAnswer
  BY DEF HealthInv
<1>1. UNCHANGED <<configured, worker, beat, now, signs, atRead>> /\ BeatFollows'
  BY <1>0 DEF GoesDown, ComesBack, OpenHealthTab, HealthAnswered, HealthUnanswered, BeatFollows
<1>2. /\ up \subseteq HealthServices /\ seenDown \subseteq HealthServices
      /\ outages \in 0 .. MaxOutages /\ looks \in 0 .. MaxLooks /\ Len(ProbeOrder) = 9
  BY <1>0, NineProbes DEF HealthTypeOK
<1>3. CASE \E s \in HealthServices : GoesDown(s) \/ ComesBack(s)
  <2>1. /\ UNCHANGED <<check, healthTab, looks>> /\ outages' \in 0 .. MaxOutages
        /\ HealthServices \ up' \subseteq seenDown' /\ up' \subseteq HealthServices
        /\ seenDown \subseteq seenDown' /\ seenDown' \subseteq HealthServices
    <3>1. ASSUME NEW s \in HealthServices, GoesDown(s)
          PROVE  /\ UNCHANGED <<check, healthTab, looks>> /\ outages' \in 0 .. MaxOutages
                 /\ up' = up \ {s} /\ seenDown' = seenDown \cup {s}
      BY <1>2, <3>1, HealthBounds DEF GoesDown
    <3>2. ASSUME NEW s \in HealthServices, ComesBack(s)
          PROVE  /\ UNCHANGED <<check, healthTab, looks, outages, seenDown>>
                 /\ up' = up \cup {s}
      BY <3>2 DEF ComesBack
    <3>3. HealthServices \ up \subseteq seenDown
      BY <1>0 DEF BlamesTheDown
    <3>. QED BY <1>2, <1>3, <3>1, <3>2, <3>3
  <2>2. HealthTypeOK'
    BY <1>0, <1>1, <2>1 DEF HealthTypeOK
  <2>3. BlamesTheDown'
    BY <1>0, <1>1, <2>1 DEF BlamesTheDown
  <2>4. WorkerIsHonest' /\ PageAfterAnswer'
    BY <1>0, <1>1, <2>1 DEF WorkerIsHonest, PageAfterAnswer, AllWell
  <2>. QED BY <1>1, <2>2, <2>3, <2>4 DEF HealthInv
<1>4. CASE OpenHealthTab \/ HealthUnanswered
  <2>0. /\ NoResult \in Results
        /\ \A p \in Probes : NoResult[p] = "unknown"
    BY DEF NoResult, Results, Probes
  <2>1. /\ check' \in [at : {0, 1}, results : {NoResult}]
        /\ healthTab' \in [loading : BOOLEAN, data : {"none"}, error : {FALSE}]
        /\ ~healthTab'.loading => check'.at = 0
        /\ UNCHANGED up /\ HealthServices \ up \subseteq seenDown' /\ seenDown' \subseteq HealthServices
        /\ outages' \in 0 .. MaxOutages /\ looks' \in 0 .. MaxLooks
    <3>1. CASE OpenHealthTab
      <4>1. /\ check' = [at |-> 1, results |-> NoResult]
            /\ healthTab' = [loading |-> TRUE, data |-> "none", error |-> FALSE]
            /\ UNCHANGED <<up, outages>> /\ seenDown' = HealthServices \ up
            /\ looks' \in 0 .. MaxLooks
        BY <1>2, <3>1, HealthBounds DEF OpenHealthTab
      <4>. QED BY <1>2, <4>1
    <3>2. CASE HealthUnanswered
      <4>1. /\ check' = [at |-> 0, results |-> NoResult]
            /\ healthTab' = [loading |-> FALSE, data |-> "none", error |-> FALSE]
            /\ UNCHANGED <<up, seenDown, looks>> /\ outages' \in 0 .. MaxOutages
        BY <1>2, <3>2, HealthBounds DEF HealthUnanswered
      <4>2. HealthServices \ up \subseteq seenDown
        BY <1>0 DEF BlamesTheDown
      <4>. QED BY <1>2, <4>1, <4>2
    <3>. QED BY <1>4, <3>1, <3>2
  <2>2. \A p \in Probes : check'.results[p] = "unknown"
    BY <2>0, <2>1
  <2>3. HealthTypeOK'
    <3>1. check' \in [at : 0 .. Len(ProbeOrder) + 1, results : Results]
      BY <1>2, <2>0, <2>1
    <3>2. healthTab' \in [loading : BOOLEAN, data : {"none", "ok"}, error : BOOLEAN]
      BY <2>1
    <3>. QED BY <1>0, <1>1, <2>1, <3>1, <3>2 DEF HealthTypeOK
  <2>4. BlamesTheDown' /\ WorkerIsHonest'
    BY <1>1, <2>1, <2>2, NineProbes DEF BlamesTheDown, WorkerIsHonest
  <2>5. PageAfterAnswer'
    BY <2>1 DEF PageAfterAnswer
  <2>. QED BY <1>1, <2>3, <2>4, <2>5 DEF HealthInv
<1>5. CASE HealthAnswered
  <2>1. /\ UNCHANGED <<check, up, seenDown, outages, looks>> /\ check.at = Len(ProbeOrder) + 1
        /\ healthTab' = [loading |-> FALSE, data |-> IF AllWell THEN "ok" ELSE "none",
                         error |-> FALSE]
    BY <1>5 DEF HealthAnswered
  <2>2. HealthTypeOK'
    BY <1>0, <1>1, <2>1 DEF HealthTypeOK
  <2>3. BlamesTheDown' /\ WorkerIsHonest'
    BY <1>0, <1>1, <2>1 DEF BlamesTheDown, WorkerIsHonest
  <2>4. PageAfterAnswer'
    BY <1>2, <2>1 DEF PageAfterAnswer, AllWell
  <2>. QED BY <1>1, <2>2, <2>3, <2>4 DEF HealthInv
<1>. QED BY <1>3, <1>4, <1>5

\* The health answer is honest however long the clock runs and however often
\* services go and come back: no service is blamed that was there since the
\* check began, the worker only when it ran no interval within the life of its
\* heartbeat or Redis kept one from landing, and the page's grid is shown of
\* every answer that is all well and of no other (HealthService.check,
\* HealthTab.vue).
THEOREM HealthHonest == HealthSpec => []HealthIsHonest
<1>1. HealthInit => HealthInv
  <2>. SUFFICES ASSUME HealthInit PROVE HealthInv
    OBVIOUS
  <2>0. Len(ProbeOrder) = 9 /\ Never \in Dates /\ 0 \in 0 .. MaxTicks
    BY NineProbes, HealthBounds DEF Never, Dates
  <2>1. /\ NoResult \in Results
        /\ \A p \in Probes : NoResult[p] = "unknown"
    BY DEF NoResult, Results, Probes
  <2>2. check \in [at : 0 .. Len(ProbeOrder) + 1, results : Results]
    BY <2>0, <2>1 DEF HealthInit
  <2>3. HealthTypeOK
    <3>1. /\ worker \in [alive : BOOLEAN, stalled : BOOLEAN, waiting : Dates]
          /\ signs \in [lived : Dates, waited : Dates]
          /\ atRead \in [now : 0 .. MaxTicks, lived : Dates, waited : Dates]
          /\ healthTab \in [loading : BOOLEAN, data : {"none", "ok"}, error : BOOLEAN]
      BY <2>0 DEF HealthInit
    <3>2. /\ up \subseteq HealthServices /\ configured \subseteq Switches
          /\ beat \in Dates /\ now \in 0 .. MaxTicks /\ seenDown \subseteq HealthServices
          /\ outages \in 0 .. MaxOutages /\ looks \in 0 .. MaxLooks
      BY <2>0, HealthBounds DEF HealthInit
    <3>. QED BY <2>2, <3>1, <3>2 DEF HealthTypeOK
  <2>4. BlamesTheDown /\ WorkerIsHonest
    BY <2>1, NineProbes DEF HealthInit, BlamesTheDown, WorkerIsHonest
  <2>5. BeatFollows /\ PageAfterAnswer
    BY DEF HealthInit, BeatFollows, PageAfterAnswer, Never
  <2>. QED BY <2>3, <2>4, <2>5 DEF HealthInv
<1>2. HealthInv /\ [HealthNext]_healthVars => HealthInv'
  <2>. SUFFICES ASSUME HealthInv, [HealthNext]_healthVars PROVE HealthInv'
    OBVIOUS
  <2>1. CASE UNCHANGED healthVars
    BY <2>1 DEF HealthInv, healthVars, HealthTypeOK, BlamesTheDown, BeatFollows, WorkerIsHonest,
                PageAfterAnswer, AllWell
  <2>2. CASE HealthNext
    BY <2>2, ChecksKeep, WorkerKeeps, PageKeeps DEF HealthNext
  <2>. QED BY <2>1, <2>2
<1>3. HealthInv => HealthIsHonest
  <2>. SUFFICES ASSUME HealthInv PROVE HealthIsHonest
    OBVIOUS
  <2>1. /\ healthTab.data \in {"none", "ok"} /\ ~healthTab.error /\ healthTab.loading \in BOOLEAN
        /\ check.at \in 0 .. 10 /\ Len(ProbeOrder) = 9
    BY NineProbes DEF HealthInv, HealthTypeOK, PageAfterAnswer
  <2>2. HealthShown = IF healthTab.loading THEN "loading"
                      ELSE IF healthTab.data = "none" THEN "blank" ELSE "grid"
    <3>1. CASE healthTab.loading
      BY <2>1, <3>1 DEF HealthShown
    <3>2. CASE ~healthTab.loading /\ healthTab.data = "none"
      BY <2>1, <3>2 DEF HealthShown
    <3>3. CASE ~healthTab.loading /\ healthTab.data # "none"
      BY <2>1, <3>3 DEF HealthShown
    <3>. QED BY <3>1, <3>2, <3>3
  <2>3. HealthShown # "banner" /\ (HealthShown = "grid" => AllWell)
    BY <2>1, <2>2 DEF HealthInv, PageAfterAnswer
  <2>4. ~healthTab.loading /\ check.at > Len(ProbeOrder) => (HealthShown = "grid") = AllWell
    <3>1. ~healthTab.loading /\ check.at # 0 => (healthTab.data = "ok" <=> AllWell)
      BY DEF HealthInv, PageAfterAnswer
    <3>2. ~healthTab.loading /\ check.at # 0 => (HealthShown = "grid" <=> AllWell)
      BY <2>1, <2>2, <3>1
    <3>3. AllWell \in BOOLEAN
      BY DEF AllWell
    <3>. QED BY <2>1, <3>2, <3>3
  <2>. QED BY <2>3, <2>4 DEF HealthInv, BlamesTheDown, WorkerIsHonest, HealthIsHonest
<1>. QED BY <1>1, <1>2, <1>3, PTL DEF HealthSpec

-----------------------------------------------------------------------------
(***************************************************************************)
(* A tab of the console shows the user its requests are made as, for every *)
(* number of tabs, users, sign-ins and calls.                              *)
(***************************************************************************)

SignTabs == [page : {"login", "inside"}, token : {NoToken} \cup Tokens,
             user : ShownUsers, leaving : BOOLEAN]
Issued == {NoToken} \cup DOMAIN issued

\* A tab is inside with a token only, and is only left from inside.
TabInside(tab) == (tab.page = "inside" => tab.token # NoToken) /\ (tab.leaving => tab.page = "inside")

\* A tab of which nothing was missed: its token, and who it shows with it.
TabInStep(tab) ==
  ~late /\ ~tab.leaving =>
    /\ tab.token # NoToken => tab.token = storage.token /\ tab.user = SignedInAs(storage.token)
    /\ tab.token = NoToken => storage.token = NoToken

\* A request that carries the token that is stored was made by a tab inside.
CallFromInside(c) ==
  /\ c.token \in Issued
  /\ c.kind # "login" /\ c.token = storage.token /\ c.token # NoToken =>
       tabs[c.tab].page = "inside"
  /\ c.kind = "login" => c.for \in Visitors

SignTypes ==
  /\ tabs \in [BrowserTabs -> SignTabs]
  /\ storage \in [token : {NoToken} \cup Tokens, user : ShownUsers]
  /\ issued \in Seq(Visitors) /\ Len(issued) <= MaxSignIns
  /\ expired \subseteq Tokens /\ calls \subseteq TabCalls
  /\ foreign \subseteq BrowserTabs /\ late \in BOOLEAN

StorageInStep ==
  /\ storage.token \in Issued
  /\ ~late => storage.user = SignedInAs(storage.token)

SignInv ==
  /\ SignTypes /\ StorageInStep
  /\ \A t \in BrowserTabs : TabInside(tabs[t])
  /\ \A t \in BrowserTabs \ foreign : TabInStep(tabs[t])
  /\ \A c \in calls : CallFromInside(c)

(* The user of a token that was issued.                                      *)
LEMMA SignedInAsShown ==
  ASSUME SignTypes, NEW token \in Issued
  PROVE  SignedInAs(token) \in ShownUsers
  BY DEF SignTypes, SignedInAs, Issued, ShownUsers, NoUser

(* A step that changes one tab only, so that it agrees with what is stored,  *)
(* and takes calls away or leaves them, while the others are foreign where   *)
(* what is stored changes.                                                   *)
LEMMA TabChanges ==
  ASSUME SignInv, NEW t \in BrowserTabs, NEW tab \in SignTabs,
         tabs' = [tabs EXCEPT ![t] = tab], SignTypes', StorageInStep',
         TabInside(tab), t \notin foreign' => TabInStep(tab)',
         foreign \ {t} \subseteq foreign',
         \/ UNCHANGED <<storage, issued>> /\ (late => late')
         \/ BrowserTabs \ {t} \subseteq foreign',
         \A c \in calls' : CallFromInside(c)'
  PROVE  SignInv'
<1>1. tabs'[t] = tab /\ \A u \in BrowserTabs \ {t} : tabs'[u] = tabs[u]
  BY DEF SignInv, SignTypes
<1>2. \A u \in BrowserTabs : TabInside(tabs[u])'
  BY <1>1 DEF SignInv, TabInside
<1>3. ASSUME NEW u \in BrowserTabs \ foreign' PROVE TabInStep(tabs[u])'
  <2>1. CASE u = t
    BY <1>1, <2>1 DEF TabInStep
  <2>2. CASE u # t
    <3>1. tabs'[u] = tabs[u] /\ TabInStep(tabs[u])
      BY <1>1, <2>2 DEF SignInv
    <3>2. UNCHANGED <<storage, issued>> /\ (late => late')
      BY <2>2
    <3>. QED BY <3>1, <3>2 DEF TabInStep, SignedInAs
  <2>. QED BY <2>1, <2>2
<1>. QED BY <1>2, <1>3 DEF SignInv

(* Steps that change nothing but the calls, or the tokens past their time.   *)
LEMMA CallChanges ==
  ASSUME SignInv, UNCHANGED <<tabs, storage, issued, foreign, late>>,
         expired' \subseteq Tokens, calls' \subseteq TabCalls,
         \A c \in calls' \ calls : CallFromInside(c)
  PROVE  SignInv'
<1>1. SignTypes' /\ StorageInStep'
  BY DEF SignInv, SignTypes, StorageInStep, SignedInAs, Issued
<1>2. \A c \in calls' : CallFromInside(c)'
  BY DEF SignInv, CallFromInside, Issued
<1>3. \A t \in BrowserTabs : TabInside(tabs[t])'
  BY DEF SignInv, TabInside
<1>4. \A t \in BrowserTabs \ foreign' : TabInStep(tabs[t])'
  BY DEF SignInv, TabInStep, SignedInAs
<1>. QED BY <1>1, <1>2, <1>3, <1>4 DEF SignInv

(* What the requests and the clock keep, ...                                 *)
LEMMA SendKeeps ==
  ASSUME SignInv,
         \/ \E t \in BrowserTabs : \/ \E u \in Visitors : Login(t, u)
                                   \/ \E kind \in {"profile", "other"} : RequestFrom(t, kind)
         \/ \E c \in calls : LoginFails(c)
         \/ \E n \in Tokens : Expire(n)
  PROVE  SignInv'
<1>0. SignTypes /\ StorageInStep
  BY DEF SignInv
<1>1. ASSUME NEW t \in BrowserTabs, NEW u \in Visitors, Login(t, u) PROVE SignInv'
  <2>. DEFINE call == [tab |-> t, kind |-> "login", token |-> NoToken, for |-> u]
  <2>1. calls' = calls \cup {call} /\ UNCHANGED <<tabs, storage, issued, expired, foreign, late>>
    BY <1>1 DEF Login, SendCall
  <2>2. call \in TabCalls
    BY DEF TabCalls, ShownUsers
  <2>3. CallFromInside(call)
    BY DEF CallFromInside, Issued
  <2>. HIDE DEF call
  <2>. QED BY <1>0, <2>1, <2>2, <2>3, CallChanges DEF SignTypes
<1>2. ASSUME NEW t \in BrowserTabs, NEW kind \in {"profile", "other"}, RequestFrom(t, kind)
      PROVE  SignInv'
  <2>. DEFINE call == [tab |-> t, kind |-> kind, token |-> storage.token, for |-> NoUser]
  <2>1. /\ calls' = calls \cup {call} /\ UNCHANGED <<tabs, storage, issued, expired, foreign, late>>
        /\ tabs[t].page = "inside"
    BY <1>2 DEF RequestFrom, SendCall
  <2>2. call \in TabCalls
    BY <1>0 DEF TabCalls, ShownUsers, SignTypes
  <2>3. CallFromInside(call)
    BY <1>0, <2>1 DEF CallFromInside, StorageInStep
  <2>. HIDE DEF call
  <2>. QED BY <1>0, <2>1, <2>2, <2>3, CallChanges DEF SignTypes
<1>3. ASSUME NEW c \in calls, LoginFails(c) PROVE SignInv'
  <2>1. calls' = calls \ {c} /\ UNCHANGED <<tabs, storage, issued, expired, foreign, late>>
    BY <1>3 DEF LoginFails
  <2>. QED BY <1>0, <2>1, CallChanges DEF SignTypes
<1>4. ASSUME NEW n \in Tokens, Expire(n) PROVE SignInv'
  <2>1. expired' = expired \cup {n} /\ UNCHANGED <<tabs, storage, issued, calls, foreign, late>>
    BY <1>4 DEF Expire
  <2>. QED BY <1>0, <2>1, CallChanges DEF SignTypes
<1>. QED BY <1>1, <1>2, <1>3, <1>4

(* ... what an answered sign-in keeps: its token is newer than any request's, ... *)
LEMMA LoginKeeps ==
  ASSUME SignBounds, SignInv, NEW c \in calls, LoginAnswered(c)
  PROVE  SignInv'
<1>0. SignTypes /\ CallFromInside(c)
  BY DEF SignInv
<1>. DEFINE t == c.tab
<1>a. PICK token : token = Len(issued) + 1
  OBVIOUS
<1>b. PICK tab : tab = [tabs[t] EXCEPT !.token = token, !.user = c.for]
  OBVIOUS
<1>1. /\ c.kind = "login" /\ token \in Tokens /\ issued' = Append(issued, c.for)
      /\ tabs' = [tabs EXCEPT ![t] = [@ EXCEPT !.token = token, !.user = c.for]]
      /\ storage' = [token |-> token, user |-> c.for]
      /\ foreign' = (foreign \cup BrowserTabs) \ {t} /\ late' = FALSE
      /\ calls' = calls \ {c} /\ expired' = expired
  BY <1>a DEF LoginAnswered, SetToken
<1>2. /\ t \in BrowserTabs /\ c.for \in Visitors /\ c.for \in ShownUsers /\ c.kind = "login"
      /\ tabs[t] \in SignTabs /\ Len(issued) \in Nat
  BY <1>0, <1>1 DEF SignTypes, TabCalls, CallFromInside, ShownUsers
<1>3. /\ tab \in SignTabs /\ tab.token = token /\ tab.user = c.for
      /\ tab.page = tabs[t].page /\ tab.leaving = tabs[t].leaving
  BY <1>1, <1>2, <1>b DEF SignTabs
<1>4. /\ issued' \in Seq(Visitors) /\ Len(issued') = token /\ issued'[token] = c.for
      /\ DOMAIN issued' = 1 .. token /\ DOMAIN issued = 1 .. Len(issued)
  BY <1>0, <1>1, <1>2, <1>a DEF SignTypes
<1>5. token # NoToken /\ token \notin Issued /\ Issued \subseteq Issued' /\ token \in Issued'
  BY <1>2, <1>4, <1>a DEF Issued, NoToken
<1>6. tabs' = [tabs EXCEPT ![t] = tab]
  BY <1>1, <1>b
<1>7. SignTypes'
  <2>1. tabs' \in [BrowserTabs -> SignTabs]
    BY <1>0, <1>3, <1>6 DEF SignTypes
  <2>2. Len(issued') <= MaxSignIns
    BY <1>1, <1>4, SignBounds DEF Tokens
  <2>3. storage' \in [token : {NoToken} \cup Tokens, user : ShownUsers]
    BY <1>1, <1>2
  <2>. QED BY <1>0, <1>1, <1>2, <1>4, <2>1, <2>2, <2>3 DEF SignTypes
<1>8. SignedInAs(token)' = c.for
  BY <1>4, <1>5 DEF SignedInAs
<1>9. StorageInStep'
  BY <1>1, <1>5, <1>8 DEF StorageInStep
<1>10. TabInside(tab)
  <2>1. TabInside(tabs[t])
    BY <1>2 DEF SignInv
  <2>. QED BY <1>3, <1>5, <2>1 DEF TabInside
<1>11. TabInStep(tab)'
  BY <1>1, <1>3, <1>5, <1>8 DEF TabInStep
<1>12. \A d \in calls' : CallFromInside(d)'
  <2>. SUFFICES ASSUME NEW d \in calls' PROVE CallFromInside(d)'
    OBVIOUS
  <2>1. CallFromInside(d)
    BY <1>1 DEF SignInv
  <2>2. d.token \in Issued /\ d.token # token
    BY <1>5, <2>1 DEF CallFromInside
  <2>3. storage'.token = token
    BY <1>1
  <2>4. d.token \in Issued'
    BY <1>5, <2>2
  <2>. QED BY <2>1, <2>2, <2>3, <2>4 DEF CallFromInside
<1>. HIDE DEF t
<1>. QED BY <1>1, <1>2, <1>3, <1>6, <1>7, <1>9, <1>10, <1>11, <1>12, TabChanges

(* ... a tab that enters, is loaded or is signed out, ...                    *)
LEMMA TabKeeps ==
  ASSUME SignInv, NEW t \in BrowserTabs, Enter(t) \/ LoadTab(t) \/ Logout(t)
  PROVE  SignInv'
<1>0. /\ SignTypes /\ StorageInStep /\ TabInside(tabs[t])
      /\ tabs[t] \in SignTabs /\ storage \in [token : {NoToken} \cup Tokens, user : ShownUsers]
  BY DEF SignInv, SignTypes
<1>1. CASE Enter(t)
  <2>0. PICK tab : tab = [tabs[t] EXCEPT !.page = "inside"]
    OBVIOUS
  <2>1. /\ tabs' = [tabs EXCEPT ![t] = tab] /\ tabs[t].token # NoToken /\ tabs[t].page = "login"
        /\ UNCHANGED <<storage, issued, expired, calls, foreign, late>>
    BY <1>1, <2>0 DEF Enter
  <2>2. /\ tab \in SignTabs /\ tab.page = "inside" /\ tab.token = tabs[t].token
        /\ tab.user = tabs[t].user /\ tab.leaving = tabs[t].leaving
    BY <1>0, <2>0 DEF SignTabs
  <2>3. tabs' \in [BrowserTabs -> SignTabs]
    BY <1>0, <2>1, <2>2 DEF SignTypes
  <2>4. SignTypes' /\ StorageInStep'
    BY <1>0, <2>1, <2>3 DEF SignTypes, StorageInStep, Issued, SignedInAs
  <2>5. TabInside(tab)
    BY <2>1, <2>2 DEF TabInside
  <2>6. t \notin foreign' => TabInStep(tab)'
    BY <2>1, <2>2 DEF SignInv, TabInStep, SignedInAs
  <2>7. \A c \in calls' : CallFromInside(c)'
    <3>. SUFFICES ASSUME NEW c \in calls PROVE CallFromInside(c)'
      BY <2>1
    <3>1. CallFromInside(c) /\ c.tab \in BrowserTabs
      BY <1>0 DEF SignInv, SignTypes, TabCalls
    <3>2. tabs'[c.tab].page = "inside" \/ tabs'[c.tab] = tabs[c.tab]
      BY <1>0, <2>1, <2>2, <3>1 DEF SignTypes
    <3>. QED BY <2>1, <3>1, <3>2 DEF CallFromInside, Issued
  <2>. QED BY <2>1, <2>2, <2>4, <2>5, <2>6, <2>7, TabChanges
<1>2. CASE LoadTab(t)
  <2>0. PICK tab :
          tab = [page |-> IF storage.token = NoToken THEN "login" ELSE "inside",
                 token |-> storage.token, user |-> storage.user, leaving |-> FALSE]
    OBVIOUS
  <2>1. /\ tabs' = [tabs EXCEPT ![t] = tab] /\ calls' = {c \in calls : c.tab # t}
        /\ foreign' = foreign \ {t} /\ UNCHANGED <<storage, issued, expired, late>>
    BY <1>2, <2>0 DEF LoadTab
  <2>2. /\ tab \in SignTabs /\ tab.token = storage.token /\ tab.user = storage.user
        /\ ~tab.leaving /\ (tab.page = "inside" <=> storage.token # NoToken)
    BY <1>0, <2>0 DEF SignTabs
  <2>3. tabs' \in [BrowserTabs -> SignTabs]
    BY <1>0, <2>1, <2>2 DEF SignTypes
  <2>4. SignTypes' /\ StorageInStep'
    BY <1>0, <2>1, <2>3 DEF SignTypes, StorageInStep, Issued, SignedInAs
  <2>5. TabInside(tab)
    BY <2>2 DEF TabInside
  <2>6. TabInStep(tab)'
    BY <1>0, <2>1, <2>2 DEF TabInStep, StorageInStep, SignedInAs
  <2>7. \A c \in calls' : CallFromInside(c)'
    <3>. SUFFICES ASSUME NEW c \in calls, c.tab # t PROVE CallFromInside(c)'
      BY <2>1
    <3>1. CallFromInside(c) /\ c.tab \in BrowserTabs
      BY <1>0 DEF SignInv, SignTypes, TabCalls
    <3>2. tabs'[c.tab] = tabs[c.tab]
      BY <1>0, <2>1, <3>1 DEF SignTypes
    <3>. QED BY <2>1, <3>1, <3>2 DEF CallFromInside, Issued
  <2>. QED BY <2>1, <2>2, <2>4, <2>5, <2>6, <2>7, TabChanges
<1>3. CASE Logout(t)
  <2>1. /\ tabs' = [tabs EXCEPT ![t] = SignedOut] /\ storage' = [token |-> NoToken, user |-> NoUser]
        /\ foreign' = foreign \cup (BrowserTabs \ {t}) /\ UNCHANGED <<issued, expired, calls, late>>
    BY <1>3 DEF Logout, OthersSee
  <2>2. /\ SignedOut \in SignTabs /\ SignedOut.token = NoToken /\ SignedOut.page = "login"
        /\ ~SignedOut.leaving
    BY DEF SignedOut, SignTabs, ShownUsers
  <2>3. tabs' \in [BrowserTabs -> SignTabs] /\ storage' \in [token : {NoToken} \cup Tokens, user : ShownUsers]
    BY <1>0, <2>1, <2>2 DEF SignTypes, ShownUsers
  <2>4. SignTypes' /\ StorageInStep'
    BY <1>0, <2>1, <2>3 DEF SignTypes, StorageInStep, Issued, SignedInAs
  <2>5. TabInside(SignedOut)
    BY <2>2 DEF TabInside
  <2>6. TabInStep(SignedOut)'
    BY <2>1, <2>2 DEF TabInStep
  <2>7. \A c \in calls' : CallFromInside(c)'
    BY <2>1 DEF SignInv, CallFromInside, Issued
  <2>. QED BY <2>1, <2>2, <2>4, <2>5, <2>6, <2>7, TabChanges
<1>. QED BY <1>1, <1>2, <1>3

(* ... and an answer that signs its tab out or shows it its profile.         *)
LEMMA AnswerKeeps ==
  ASSUME SignInv, NEW c \in calls, Unauthorized(c) \/ AnswerArrives(c)
  PROVE  SignInv'
<1>. DEFINE t == c.tab
<1>0. /\ SignTypes /\ StorageInStep /\ TabInside(tabs[t]) /\ CallFromInside(c)
      /\ t \in BrowserTabs /\ (t \notin foreign => TabInStep(tabs[t]))
      /\ tabs[t] \in SignTabs /\ storage \in [token : {NoToken} \cup Tokens, user : ShownUsers]
  BY DEF SignInv, SignTypes, TabCalls
<1>1. CASE Unauthorized(c)
  <2>0. PICK tab : tab = [tabs[t] EXCEPT !.leaving = (tabs[t].page # "login")]
    OBVIOUS
  <2>1. /\ c.kind # "login" /\ calls' = calls \ {c}
        /\ storage' = [token |-> NoToken, user |-> NoUser]
        /\ tabs' = [tabs EXCEPT ![t] = tab]
        /\ foreign' = foreign \cup (BrowserTabs \ {t})
        /\ late' = (late \/ (c.token # storage.token)) /\ UNCHANGED <<issued, expired>>
    BY <1>1, <2>0 DEF Unauthorized, OthersSee
  <2>2. /\ tab \in SignTabs /\ tab.token = tabs[t].token /\ tab.user = tabs[t].user
        /\ tab.page = tabs[t].page /\ (tab.leaving <=> tabs[t].page # "login")
    BY <1>0, <2>0 DEF SignTabs
  <2>3. tabs' \in [BrowserTabs -> SignTabs] /\ storage' \in [token : {NoToken} \cup Tokens, user : ShownUsers]
    BY <1>0, <2>1, <2>2 DEF SignTypes, ShownUsers
  <2>4. late' \in BOOLEAN
    BY <1>0, <2>1 DEF SignTypes
  <2>5. SignTypes' /\ StorageInStep'
    BY <1>0, <2>1, <2>3, <2>4 DEF SignTypes, StorageInStep, Issued, SignedInAs
  <2>6. TabInside(tab)
    BY <1>0, <2>2 DEF TabInside, SignTabs
  <2>7. ASSUME t \notin foreign' PROVE TabInStep(tab)'
    <3>. SUFFICES ASSUME ~late', ~tab.leaving PROVE tab.token = NoToken
      BY <2>1 DEF TabInStep
    <3>1. tabs[t].page = "login" /\ c.token = storage.token /\ ~late /\ ~tabs[t].leaving
      BY <1>0, <2>1, <2>2 DEF TabInside
    <3>2. storage.token = NoToken
      BY <1>0, <2>1, <3>1 DEF CallFromInside
    <3>. QED BY <1>0, <2>1, <2>2, <2>7, <3>1, <3>2 DEF TabInStep
  <2>8. \A d \in calls' : CallFromInside(d)'
    <3>1. storage'.token = NoToken
      BY <2>1
    <3>2. \A d \in calls : d.token \in Issued' /\ (d.kind = "login" => d.for \in Visitors)
      BY <2>1 DEF SignInv, CallFromInside, Issued
    <3>. QED BY <2>1, <3>1, <3>2 DEF CallFromInside
  <2>. HIDE DEF t
  <2>. QED BY <1>0, <2>1, <2>2, <2>5, <2>6, <2>7, <2>8, TabChanges
<1>2. CASE AnswerArrives(c) /\ c.kind = "profile"
  <2>a. PICK who : who = SignedInAs(c.token)
    OBVIOUS
  <2>b. PICK tab : tab = [tabs[t] EXCEPT !.user = who]
    OBVIOUS
  <2>1. /\ calls' = calls \ {c} /\ storage' = [storage EXCEPT !.user = who]
        /\ tabs' = [tabs EXCEPT ![t] = tab]
        /\ foreign' = foreign \cup (BrowserTabs \ {t})
        /\ late' = (late \/ (c.token # storage.token)) /\ UNCHANGED <<issued, expired>>
    BY <1>2, <2>a, <2>b DEF AnswerArrives, OthersSee
  <2>2. who \in ShownUsers
    BY <1>0, <2>a, SignedInAsShown DEF CallFromInside
  <2>3. /\ tab \in SignTabs /\ tab.token = tabs[t].token /\ tab.user = who
        /\ tab.page = tabs[t].page /\ tab.leaving = tabs[t].leaving
        /\ storage'.token = storage.token /\ storage'.user = who
        /\ storage' \in [token : {NoToken} \cup Tokens, user : ShownUsers]
    BY <1>0, <2>1, <2>2, <2>b DEF SignTabs
  <2>4. tabs' \in [BrowserTabs -> SignTabs]
    BY <1>0, <2>1, <2>3 DEF SignTypes
  <2>5. late' \in BOOLEAN /\ (~late' => ~late /\ c.token = storage.token)
    BY <1>0, <2>1 DEF SignTypes
  <2>6. SignTypes'
    BY <1>0, <2>1, <2>3, <2>4, <2>5 DEF SignTypes
  <2>7. StorageInStep'
    BY <1>0, <2>1, <2>3, <2>5, <2>a DEF StorageInStep, Issued, SignedInAs
  <2>8. TabInside(tab)
    BY <1>0, <2>3 DEF TabInside
  <2>9. ASSUME t \notin foreign' PROVE TabInStep(tab)'
    BY <1>0, <2>1, <2>3, <2>5, <2>9, <2>a DEF TabInStep, SignedInAs
  <2>10. \A d \in calls' : CallFromInside(d)'
    <3>. SUFFICES ASSUME NEW d \in calls PROVE CallFromInside(d)'
      BY <2>1
    <3>1. CallFromInside(d) /\ d.tab \in BrowserTabs
      BY <1>0 DEF SignInv, SignTypes, TabCalls
    <3>2. tabs'[d.tab].page = tabs[d.tab].page
      BY <1>0, <2>1, <2>3, <3>1 DEF SignTypes
    <3>. QED BY <2>1, <2>3, <3>1, <3>2 DEF CallFromInside, Issued
  <2>. HIDE DEF t
  <2>. QED BY <1>0, <2>1, <2>3, <2>6, <2>7, <2>8, <2>9, <2>10, TabChanges
<1>3. CASE AnswerArrives(c) /\ c.kind # "profile"
  <2>1. calls' = calls \ {c} /\ UNCHANGED <<tabs, storage, issued, expired, foreign, late>>
    BY <1>3 DEF AnswerArrives
  <2>. QED BY <1>0, <2>1, CallChanges DEF SignTypes
<1>. QED BY <1>1, <1>2, <1>3

\* A tab shows the user its requests are made as, and one that is signed out
\* makes none, for any tabs, visitors and number of sign-ins, through sign-ins,
\* sign-outs, reloads, expired tokens and answers in any order (stores/auth.ts,
\* main.ts, api/client.ts), save after what another tab stored or an answer to
\* an earlier sign-in.
THEOREM SignInShows == SignSpec => []ShowsWhoItIs
<1>1. SignInit => SignInv
  <2>. SUFFICES ASSUME SignInit PROVE SignInv
    OBVIOUS
  <2>1. SignedOut \in SignTabs /\ TabInside(SignedOut) /\ SignedOut.token = NoToken
    BY DEF SignedOut, SignTabs, ShownUsers, TabInside
  <2>2. \A t \in BrowserTabs : tabs[t] = SignedOut
    BY DEF SignInit
  <2>3. issued \in Seq(Visitors) /\ Len(issued) = 0
    BY DEF SignInit
  <2>4. SignTypes
    <3>1. tabs \in [BrowserTabs -> SignTabs]
      BY <2>1 DEF SignInit
    <3>2. storage \in [token : {NoToken} \cup Tokens, user : ShownUsers]
      BY DEF SignInit, ShownUsers
    <3>3. expired = {} /\ calls = {} /\ foreign = {} /\ late = FALSE
      BY DEF SignInit
    <3>4. Len(issued) <= MaxSignIns
      BY <2>3, SignBounds
    <3>. QED BY <2>3, <3>1, <3>2, <3>3, <3>4 DEF SignTypes
  <2>5. StorageInStep
    BY DEF SignInit, StorageInStep, SignedInAs, Issued
  <2>6. \A t \in BrowserTabs : TabInStep(tabs[t])
    BY <2>1, <2>2 DEF SignInit, TabInStep
  <2>. QED BY <2>1, <2>2, <2>4, <2>5, <2>6 DEF SignInv, SignInit
<1>2. SignInv /\ [SignNext]_signVars => SignInv'
  <2>. SUFFICES ASSUME SignInv, [SignNext]_signVars PROVE SignInv'
    OBVIOUS
  <2>1. CASE UNCHANGED signVars
    <3>1. expired' \subseteq Tokens /\ calls' \subseteq TabCalls
      BY <2>1 DEF signVars, SignInv, SignTypes
    <3>. QED BY <2>1, <3>1, CallChanges DEF signVars
  <2>2. CASE SignNext
    BY <2>2, SignBounds, SendKeeps, LoginKeeps, TabKeeps, AnswerKeeps DEF SignNext
  <2>. QED BY <2>1, <2>2
<1>3. SignInv => ShowsWhoItIs
  <2>. SUFFICES ASSUME SignInv, NEW t \in BrowserTabs \ foreign, ~late, ~tabs[t].leaving
                PROVE  /\ tabs[t].token = storage.token \/ tabs[t].page = "login"
                       /\ tabs[t].page = "inside" => tabs[t].user = SignedInAs(storage.token)
                       /\ tabs[t].token = NoToken => storage.token = NoToken
    BY DEF ShowsWhoItIs
  <2>1. TabInside(tabs[t]) /\ TabInStep(tabs[t]) /\ tabs[t].page \in {"login", "inside"}
    BY DEF SignInv, SignTypes, SignTabs
  <2>. QED BY <2>1 DEF TabInside, TabInStep
<1>. QED BY <1>1, <1>2, <1>3, PTL DEF SignSpec

-----------------------------------------------------------------------------
(***************************************************************************)
(* A file submitted in the upload drawer lands once and in the base that   *)
(* was selected, for every number of files and submissions.                *)
(***************************************************************************)

\* Where a file of a submission is, by how far its loop is: still to come, ...
FileInStep(s, i) ==
  LET loop == loops[s]
      stage == lines[<<s, i>>]
      place == landed[<<s, i>>]
  IN  /\ i > loop.at => stage = "pending" /\ place = NoShelf
      \* ... under way, ...
      /\ i = loop.at /\ loop.phase = "uploading" => stage = "running" /\ place = loop.base
      \* ... or done with, and if it landed nowhere then it failed.
      /\ i < loop.at \/ (i = loop.at /\ loop.phase # "uploading") =>
           /\ stage \in {"sent", "completed", "failed"} /\ place \in {NoShelf, loop.base}
           /\ place = NoShelf => stage = "failed"

\* A submission that was not begun left nothing, ...
NotBegun(s) ==
  loops[s].phase = "none" =>
    loops[s].files = 0 /\ \A i \in 1 .. MaxSelected : landed[<<s, i>>] = NoShelf

\* ... and while one of which the drawer was not turned away is under way, the
\* drawer has its base and its queue.
SubmissionInStep(s) ==
  LET loop == loops[s]
  IN  loop.phase # "none" =>
        /\ loop.phase # "dead" /\ loop.base \in Shelves /\ loop.at <= loop.files
        /\ loop.phase = "uploading" => loop.at >= 1
        /\ loop.phase = "over" => loop.at = loop.files
        /\ loop.phase \in {"next", "uploading"} => drawer.base = loop.base /\ drawer.queue = s
        /\ \A i \in 1 .. loop.files : FileInStep(s, i)

UploadInv ==
  /\ UploadTypeOK
  /\ \A s \in Submits : NotBegun(s)
  /\ \A s \in Submits \ turned : SubmissionInStep(s)

(* What a loop is.                                                           *)
LEMMA LoopTyped ==
  ASSUME UploadInv, NEW s \in Submits
  PROVE  /\ loops[s] \in [files : 0..MaxSelected, base : Shelves \cup {NoShelf},
                          at : 0..MaxSelected,
                          phase : {"none", "next", "uploading", "over", "dead"}]
         /\ loops[s].files \in 0 .. MaxSelected /\ loops[s].at \in 0 .. MaxSelected
         /\ MaxSelected \in Nat
BY UploadBounds DEF UploadInv, UploadTypeOK

(* A submission whose loop and files are left alone stays in step, when the  *)
(* drawer keeps its base and queue or the submission is not under way.       *)
LEMMA SubmissionStays ==
  ASSUME UploadInv, NEW s \in Submits, UNCHANGED loops[s],
         \A i \in 1 .. MaxSelected : UNCHANGED <<lines[<<s, i>>], landed[<<s, i>>]>>
  PROVE  /\ NotBegun(s)'
         /\ (s \notin turned /\ (UNCHANGED <<drawer.base, drawer.queue>> \/ s \notin Uploading)
               => SubmissionInStep(s)')
<1>0. loops[s].files \in 0 .. MaxSelected /\ MaxSelected \in Nat
  BY LoopTyped
<1>1. NotBegun(s)'
  BY DEF UploadInv, NotBegun
<1>2. ASSUME s \notin turned, UNCHANGED <<drawer.base, drawer.queue>> \/ s \notin Uploading
      PROVE  SubmissionInStep(s)'
  <2>1. SubmissionInStep(s)
    BY <1>2 DEF UploadInv
  <2>2. ASSUME NEW i \in 1 .. loops[s].files, FileInStep(s, i) PROVE FileInStep(s, i)'
    <3>1. i \in 1 .. MaxSelected
      BY <1>0
    <3>. QED BY <2>2, <3>1 DEF FileInStep
  <2>3. loops[s].phase \in {"next", "uploading"} => s \in Uploading
    BY DEF Uploading
  <2>. QED BY <1>2, <2>1, <2>2, <2>3 DEF SubmissionInStep
<1>. QED BY <1>1, <1>2

(* A step of the drawer's.                                                   *)
LEMMA DrawerKeeps ==
  ASSUME UploadInv,
         \/ \E b \in Shelves \cup {NoShelf} : OpenDrawer(b)
         \/ \E b \in Shelves : SelectShelf(b)
         \/ CloseDrawer
  PROVE  UploadInv'
<1>0. UploadTypeOK
  BY DEF UploadInv
<1>1. /\ UNCHANGED <<loops, lines, landed>> /\ turned \subseteq turned'
      /\ Uploading \subseteq turned' \/ UNCHANGED <<drawer.base, drawer.queue>>
  BY <1>0 DEF OpenDrawer, SelectShelf, CloseDrawer, Disturbed, UploadTypeOK
<1>2. UploadTypeOK'
  <2>1. drawer' \in [open : BOOLEAN, base : Shelves \cup {NoShelf}, queue : 0..MaxSubmits]
    <3>1. drawer \in [open : BOOLEAN, base : Shelves \cup {NoShelf}, queue : 0..MaxSubmits]
      BY <1>0 DEF UploadTypeOK
    <3>2. ASSUME NEW b \in Shelves \cup {NoShelf}, OpenDrawer(b) PROVE drawer' \in [open : BOOLEAN, base : Shelves \cup {NoShelf}, queue : 0..MaxSubmits]
      <4>1. drawer' = [open |-> TRUE, base |-> b, queue |-> 0] /\ 0 \in 0 .. MaxSubmits
        BY <3>2, UploadBounds DEF OpenDrawer
      <4>. QED BY <4>1
    <3>3. ASSUME NEW b \in Shelves, SelectShelf(b) PROVE drawer' \in [open : BOOLEAN, base : Shelves \cup {NoShelf}, queue : 0..MaxSubmits]
      BY <3>1, <3>3 DEF SelectShelf
    <3>4. CASE CloseDrawer
      BY <3>1, <3>4 DEF CloseDrawer
    <3>. QED BY <3>2, <3>3, <3>4
  <2>2. turned' \subseteq Submits
    BY <1>0 DEF OpenDrawer, SelectShelf, CloseDrawer, Disturbed, Uploading, UploadTypeOK
  <2>. QED BY <1>0, <1>1, <2>1, <2>2 DEF UploadTypeOK
<1>3. \A s \in Submits : NotBegun(s)'
  BY <1>1, SubmissionStays
<1>4. \A s \in Submits \ turned' : SubmissionInStep(s)'
  BY <1>1, SubmissionStays
<1>. QED BY <1>2, <1>3, <1>4 DEF UploadInv

(* A step of one submission.                                                 *)
LEMMA OneSubmissionMoves ==
  ASSUME UploadInv, NEW s \in Submits, UploadTypeOK',
         \A r \in Submits \ {s} :
           /\ UNCHANGED loops[r]
           /\ \A i \in 1 .. MaxSelected : UNCHANGED <<lines[<<r, i>>], landed[<<r, i>>]>>,
         UNCHANGED <<drawer.base, drawer.queue>> \/ Uploading \subseteq {s},
         UNCHANGED turned, NotBegun(s)', s \notin turned => SubmissionInStep(s)'
  PROVE  UploadInv'
<1>1. \A r \in Submits \ {s} :
        NotBegun(r)' /\ (r \notin turned => SubmissionInStep(r)')
  BY SubmissionStays
<1>. QED BY <1>1 DEF UploadInv

(* The files are handed in ...                                               *)
LEMMA SubmitKeeps ==
  ASSUME UploadInv, NEW k \in 1 .. MaxSelected, SubmitUpload(k)
  PROVE  UploadInv'
<1>0. UploadTypeOK /\ MaxSelected \in Nat
  BY UploadBounds DEF UploadInv
<1>1. PICK s \in Submits :
        /\ drawer.base # NoShelf /\ Uploading = {} /\ loops[s].phase = "none"
        /\ loops' = [loops EXCEPT ![s] =
             [NoLoop EXCEPT !.files = k, !.base = drawer.base, !.phase = "next"]]
        /\ lines' = [p \in Places |-> IF p[1] = s /\ p[2] <= k THEN "pending" ELSE lines[p]]
        /\ drawer' = [drawer EXCEPT !.queue = s] /\ UNCHANGED <<landed, turned>>
  BY DEF SubmitUpload
<1>2. /\ loops'[s] = [files |-> k, base |-> drawer.base, at |-> 0, phase |-> "next"]
      /\ \A r \in Submits \ {s} : loops'[r] = loops[r]
  BY <1>0, <1>1 DEF UploadTypeOK, NoLoop
<1>3. \A r \in Submits, i \in 1 .. MaxSelected :
        lines'[<<r, i>>] = IF r = s /\ i <= k THEN "pending" ELSE lines[<<r, i>>]
  BY <1>1 DEF Places
<1>4. drawer.base \in Shelves /\ drawer'.base = drawer.base /\ drawer'.queue = s
  BY <1>0, <1>1 DEF UploadTypeOK
<1>5. UploadTypeOK'
  <2>1. drawer' \in [open : BOOLEAN, base : Shelves \cup {NoShelf}, queue : 0..MaxSubmits]
    <3>1. s \in 0 .. MaxSubmits
      BY UploadBounds DEF Submits
    <3>2. drawer \in [open : BOOLEAN, base : Shelves \cup {NoShelf}, queue : 0..MaxSubmits]
      BY <1>0 DEF UploadTypeOK
    <3>. QED BY <1>1, <3>1, <3>2
  <2>2. lines' \in [Places -> RowStages]
    BY <1>0, <1>1 DEF UploadTypeOK, RowStages
  <2>3. loops'[s] \in [files : 0..MaxSelected, base : Shelves \cup {NoShelf}, at : 0..MaxSelected,
                       phase : {"none", "next", "uploading", "over", "dead"}]
    BY <1>0, <1>2, <1>4
  <2>4. loops' \in [Submits -> [files : 0..MaxSelected, base : Shelves \cup {NoShelf},
                                at : 0..MaxSelected,
                                phase : {"none", "next", "uploading", "over", "dead"}]]
    BY <1>0, <1>1, <1>2, <2>3 DEF UploadTypeOK
  <2>. QED BY <1>0, <1>1, <2>1, <2>2, <2>4 DEF UploadTypeOK
<1>6. NotBegun(s)'
  BY <1>2 DEF NotBegun
<1>7. SubmissionInStep(s)'
  <2>1. \A i \in 1 .. k : landed[<<s, i>>] = NoShelf
    BY <1>0, <1>1 DEF UploadInv, NotBegun
  <2>2. ASSUME NEW i \in 1 .. k PROVE FileInStep(s, i)'
    <3>1. i \in 1 .. MaxSelected /\ i > 0 /\ i # 0 /\ ~(i < 0) /\ i <= k
      BY <1>0
    <3>2. loops'[s].at = 0
      BY <1>2
    <3>3. lines'[<<s, i>>] = "pending"
      BY <1>3, <3>1
    <3>4. landed'[<<s, i>>] = NoShelf
      BY <1>1, <2>1
    <3>. QED BY <3>1, <3>2, <3>3, <3>4 DEF FileInStep
  <2>3. \A i \in 1 .. loops'[s].files : FileInStep(s, i)'
    BY <1>2, <2>2
  <2>. QED BY <1>0, <1>2, <1>4, <2>3 DEF SubmissionInStep
<1>8. \A r \in Submits \ {s} :
        /\ UNCHANGED loops[r]
        /\ \A i \in 1 .. MaxSelected : UNCHANGED <<lines[<<r, i>>], landed[<<r, i>>]>>
  BY <1>1, <1>2, <1>3
<1>. QED BY <1>1, <1>5, <1>6, <1>7, <1>8, OneSubmissionMoves

(* ... and go up one after the other.                                        *)
LEMMA FileKeeps ==
  ASSUME UploadInv, NEW s \in Submits,
         NextFile(s) \/ AllSubmitted(s) \/ \E ok \in BOOLEAN : UploadAnswers(s, ok)
  PROVE  UploadInv'
<1>0. /\ UploadTypeOK /\ MaxSelected \in Nat
      /\ loops[s] \in [files : 0..MaxSelected, base : Shelves \cup {NoShelf}, at : 0..MaxSelected,
                       phase : {"none", "next", "uploading", "over", "dead"}]
      /\ loops[s].files \in 0 .. MaxSelected /\ loops[s].at \in 0 .. MaxSelected
  BY LoopTyped DEF UploadInv
<1>a. s \notin turned => SubmissionInStep(s)
  BY DEF UploadInv
<1>1. CASE NextFile(s) /\ drawer.queue # s
  <2>1. /\ loops' = [loops EXCEPT ![s] = [loops[s] EXCEPT !.phase = "dead"]]
        /\ UNCHANGED <<lines, landed, drawer, turned>> /\ loops[s].phase = "next"
    BY <1>1 DEF NextFile
  <2>2. /\ loops'[s].phase = "dead" /\ \A r \in Submits \ {s} : loops'[r] = loops[r]
        /\ loops' \in [Submits -> [files : 0..MaxSelected, base : Shelves \cup {NoShelf},
                                   at : 0..MaxSelected,
                                   phase : {"none", "next", "uploading", "over", "dead"}]]
    BY <1>0, <2>1 DEF UploadTypeOK
  <2>3. s \in turned
    BY <1>1, <1>a, <2>1 DEF SubmissionInStep
  <2>4. UploadTypeOK' /\ NotBegun(s)'
    BY <1>0, <2>1, <2>2 DEF UploadTypeOK, NotBegun
  <2>. QED BY <2>1, <2>2, <2>3, <2>4, OneSubmissionMoves
<1>2. CASE NextFile(s) /\ drawer.queue = s
  <2>0. PICK i : i = loops[s].at + 1
    OBVIOUS
  <2>1. /\ loops[s].phase = "next" /\ i <= loops[s].files
        /\ loops' = [loops EXCEPT ![s] = [loops[s] EXCEPT !.at = i, !.phase = "uploading"]]
        /\ lines' = [lines EXCEPT ![<<s, i>>] = "running"]
        /\ landed' = [landed EXCEPT ![<<s, i>>] = drawer.base]
        /\ UNCHANGED <<drawer, turned>>
    BY <1>2, <2>0 DEF NextFile
  <2>2. i \in 1 .. MaxSelected /\ <<s, i>> \in Places
    BY <1>0, <2>0, <2>1 DEF Places
  <2>b. i \in 0 .. MaxSelected
    BY <1>0, <2>2
  <2>a. /\ [loops[s] EXCEPT !.at = i, !.phase = "uploading"]
             \in [files : 0..MaxSelected, base : Shelves \cup {NoShelf}, at : 0..MaxSelected,
                  phase : {"none", "next", "uploading", "over", "dead"}]
        /\ [loops[s] EXCEPT !.at = i, !.phase = "uploading"].at = i
        /\ [loops[s] EXCEPT !.at = i, !.phase = "uploading"].phase = "uploading"
        /\ [loops[s] EXCEPT !.at = i, !.phase = "uploading"].base = loops[s].base
        /\ [loops[s] EXCEPT !.at = i, !.phase = "uploading"].files = loops[s].files
    <3>. DEFINE phases == {"none", "next", "uploading", "over", "dead"}
                shelves == Shelves \cup {NoShelf}
    <3>1. "uploading" \in phases
      OBVIOUS
    <3>. HIDE DEF phases, shelves
    <3>2. loops[s] \in [files : 0..MaxSelected, base : shelves, at : 0..MaxSelected, phase : phases]
      BY <1>0 DEF phases, shelves
    <3>3. /\ [loops[s] EXCEPT !.at = i, !.phase = "uploading"]
               \in [files : 0..MaxSelected, base : shelves, at : 0..MaxSelected, phase : phases]
          /\ [loops[s] EXCEPT !.at = i, !.phase = "uploading"].at = i
          /\ [loops[s] EXCEPT !.at = i, !.phase = "uploading"].phase = "uploading"
          /\ [loops[s] EXCEPT !.at = i, !.phase = "uploading"].base = loops[s].base
          /\ [loops[s] EXCEPT !.at = i, !.phase = "uploading"].files = loops[s].files
      BY <2>b, <3>1, <3>2
    <3>. QED BY <3>3 DEF phases, shelves
  <2>3. /\ loops'[s].at = i /\ loops'[s].phase = "uploading" /\ loops'[s].base = loops[s].base
        /\ loops'[s].files = loops[s].files
        /\ \A r \in Submits \ {s} : loops'[r] = loops[r]
        /\ loops' \in [Submits -> [files : 0..MaxSelected, base : Shelves \cup {NoShelf},
                                   at : 0..MaxSelected,
                                   phase : {"none", "next", "uploading", "over", "dead"}]]
    BY <1>0, <2>1, <2>a DEF UploadTypeOK
  <2>4. \A r \in Submits, j \in 1 .. MaxSelected :
          /\ lines'[<<r, j>>] = IF r = s /\ j = i THEN "running" ELSE lines[<<r, j>>]
          /\ landed'[<<r, j>>] = IF r = s /\ j = i THEN drawer.base ELSE landed[<<r, j>>]
    BY <1>0, <2>1 DEF UploadTypeOK, Places
  <2>5. UploadTypeOK'
    <3>1. lines' \in [Places -> RowStages]
      BY <1>0, <2>1 DEF UploadTypeOK, RowStages
    <3>2. landed' \in [Places -> Shelves \cup {NoShelf}]
      BY <1>0, <2>1 DEF UploadTypeOK
    <3>. QED BY <1>0, <2>1, <2>3, <3>1, <3>2 DEF UploadTypeOK
  <2>6. NotBegun(s)'
    BY <2>3 DEF NotBegun
  <2>7. ASSUME s \notin turned PROVE SubmissionInStep(s)'
    <3>1. SubmissionInStep(s)
      BY <1>a, <2>7
    <3>2. /\ loops[s].base \in Shelves /\ drawer.base = loops[s].base /\ drawer.queue = s
          /\ \A j \in 1 .. loops[s].files : FileInStep(s, j)
      BY <2>1, <3>1 DEF SubmissionInStep
    <3>3. ASSUME NEW j \in 1 .. loops[s].files PROVE FileInStep(s, j)'
      <4>1. FileInStep(s, j) /\ j \in 1 .. MaxSelected /\ j \in Int
        BY <1>0, <3>2
      <4>2. CASE j < i
        <5>1. j < loops[s].at \/ j = loops[s].at
          BY <1>0, <2>0, <4>1, <4>2
        <5>2. /\ lines[<<s, j>>] \in {"sent", "completed", "failed"}
              /\ landed[<<s, j>>] \in {NoShelf, loops[s].base}
              /\ landed[<<s, j>>] = NoShelf => lines[<<s, j>>] = "failed"
          BY <2>1, <4>1, <5>1 DEF FileInStep
        <5>3. lines'[<<s, j>>] = lines[<<s, j>>] /\ landed'[<<s, j>>] = landed[<<s, j>>] /\ j # i
          BY <2>2, <2>4, <4>1, <4>2
        <5>. QED BY <2>2, <2>3, <4>1, <4>2, <5>2, <5>3 DEF FileInStep
      <4>3. CASE j = i
        BY <2>2, <2>3, <2>4, <3>2, <4>3 DEF FileInStep
      <4>4. CASE j > i
        <5>1. lines[<<s, j>>] = "pending" /\ landed[<<s, j>>] = NoShelf
          BY <1>0, <2>0, <4>1, <4>4 DEF FileInStep
        <5>2. lines'[<<s, j>>] = "pending" /\ landed'[<<s, j>>] = NoShelf
          BY <2>2, <2>4, <4>1, <4>4, <5>1
        <5>. QED BY <2>2, <2>3, <4>1, <4>4, <5>2 DEF FileInStep
      <4>. QED BY <2>2, <4>1, <4>2, <4>3, <4>4
    <3>. QED BY <2>1, <2>2, <2>3, <3>2, <3>3 DEF SubmissionInStep
  <2>8. \A r \in Submits \ {s} :
          /\ UNCHANGED loops[r]
          /\ \A j \in 1 .. MaxSelected : UNCHANGED <<lines[<<r, j>>], landed[<<r, j>>]>>
    BY <2>3, <2>4
  <2>. QED BY <2>1, <2>5, <2>6, <2>7, <2>8, OneSubmissionMoves
<1>3. CASE AllSubmitted(s)
  <2>1. /\ loops' = [loops EXCEPT ![s] = [loops[s] EXCEPT !.phase = "over"]]
        /\ UNCHANGED <<lines, landed, drawer, turned>>
        /\ loops[s].phase = "next" /\ loops[s].at = loops[s].files
    BY <1>3 DEF AllSubmitted
  <2>2. /\ loops'[s].phase = "over" /\ loops'[s].at = loops[s].at
        /\ loops'[s].base = loops[s].base /\ loops'[s].files = loops[s].files
        /\ \A r \in Submits \ {s} : loops'[r] = loops[r]
        /\ loops' \in [Submits -> [files : 0..MaxSelected, base : Shelves \cup {NoShelf},
                                   at : 0..MaxSelected,
                                   phase : {"none", "next", "uploading", "over", "dead"}]]
    BY <1>0, <2>1 DEF UploadTypeOK
  <2>3. UploadTypeOK' /\ NotBegun(s)'
    BY <1>0, <2>1, <2>2 DEF UploadTypeOK, NotBegun
  <2>4. ASSUME s \notin turned PROVE SubmissionInStep(s)'
    <3>1. SubmissionInStep(s)
      BY <1>a, <2>4
    <3>2. ASSUME NEW j \in 1 .. loops[s].files PROVE FileInStep(s, j)'
      <4>1. FileInStep(s, j)
        BY <2>1, <3>1 DEF SubmissionInStep
      <4>. QED BY <2>1, <2>2, <4>1 DEF FileInStep
    <3>. QED BY <2>1, <2>2, <3>1, <3>2 DEF SubmissionInStep
  <2>. QED BY <2>1, <2>2, <2>3, <2>4, OneSubmissionMoves
<1>4. ASSUME NEW ok \in BOOLEAN, UploadAnswers(s, ok) PROVE UploadInv'
  <2>0. PICK i : i = loops[s].at
    OBVIOUS
  <2>1. /\ loops[s].phase = "uploading"
        /\ loops' = [loops EXCEPT ![s] = [loops[s] EXCEPT !.phase = "next"]]
        /\ lines' = [lines EXCEPT ![<<s, i>>] = IF ok THEN "sent" ELSE "failed"]
        /\ landed' = IF ok THEN landed ELSE [landed EXCEPT ![<<s, i>>] = NoShelf]
        /\ UNCHANGED <<drawer, turned>>
    BY <1>4, <2>0 DEF UploadAnswers
  <2>3. /\ loops'[s].at = i /\ loops'[s].phase = "next" /\ loops'[s].base = loops[s].base
        /\ loops'[s].files = loops[s].files
        /\ \A r \in Submits \ {s} : loops'[r] = loops[r]
        /\ loops' \in [Submits -> [files : 0..MaxSelected, base : Shelves \cup {NoShelf},
                                   at : 0..MaxSelected,
                                   phase : {"none", "next", "uploading", "over", "dead"}]]
    BY <1>0, <2>0, <2>1 DEF UploadTypeOK
  <2>4. \A r \in Submits, j \in 1 .. MaxSelected :
          /\ lines'[<<r, j>>] = IF r = s /\ j = i THEN IF ok THEN "sent" ELSE "failed"
                                                  ELSE lines[<<r, j>>]
          /\ landed'[<<r, j>>] = IF r = s /\ j = i /\ ~ok THEN NoShelf ELSE landed[<<r, j>>]
    BY <1>0, <2>1 DEF UploadTypeOK, Places
  <2>5. UploadTypeOK'
    <3>1. lines' \in [Places -> RowStages]
      BY <1>0, <2>1 DEF UploadTypeOK, RowStages
    <3>2. landed' \in [Places -> Shelves \cup {NoShelf}]
      BY <1>0, <2>1 DEF UploadTypeOK
    <3>. QED BY <1>0, <2>1, <2>3, <3>1, <3>2 DEF UploadTypeOK
  <2>6. NotBegun(s)'
    BY <2>3 DEF NotBegun
  <2>7. ASSUME s \notin turned PROVE SubmissionInStep(s)'
    <3>1. SubmissionInStep(s)
      BY <1>a, <2>7
    <3>2. /\ loops[s].base \in Shelves /\ drawer.base = loops[s].base /\ drawer.queue = s
          /\ i >= 1 /\ i <= loops[s].files
          /\ \A j \in 1 .. loops[s].files : FileInStep(s, j)
      BY <2>0, <2>1, <3>1 DEF SubmissionInStep
    <3>3. ASSUME NEW j \in 1 .. loops[s].files PROVE FileInStep(s, j)'
      <4>1. FileInStep(s, j) /\ j \in 1 .. MaxSelected /\ j \in Int /\ i \in Int
        BY <1>0, <2>0, <3>2
      <4>2. CASE j # i
        <5>1. lines'[<<s, j>>] = lines[<<s, j>>] /\ landed'[<<s, j>>] = landed[<<s, j>>]
          BY <2>4, <4>1, <4>2
        <5>. QED BY <2>0, <2>3, <4>1, <4>2, <5>1 DEF FileInStep
      <4>3. CASE j = i
        <5>1. landed[<<s, j>>] = loops[s].base /\ loops[s].base # NoShelf
          BY <2>0, <2>1, <3>2, <4>1, <4>3, NoShelfIsNone DEF FileInStep
        <5>2. /\ lines'[<<s, j>>] = IF ok THEN "sent" ELSE "failed"
              /\ landed'[<<s, j>>] = IF ok THEN loops[s].base ELSE NoShelf
          BY <2>4, <4>1, <4>3, <5>1
        <5>3. lines'[<<s, j>>] \in {"sent", "completed", "failed"}
          BY <5>2
        <5>4. /\ landed'[<<s, j>>] \in {NoShelf, loops'[s].base}
              /\ landed'[<<s, j>>] = NoShelf => lines'[<<s, j>>] = "failed"
          BY <2>3, <5>1, <5>2
        <5>. QED BY <2>3, <4>1, <4>3, <5>3, <5>4 DEF FileInStep
      <4>. QED BY <4>2, <4>3
    <3>. QED BY <2>1, <2>3, <3>2, <3>3 DEF SubmissionInStep
  <2>8. \A r \in Submits \ {s} :
          /\ UNCHANGED loops[r]
          /\ \A j \in 1 .. MaxSelected : UNCHANGED <<lines[<<r, j>>], landed[<<r, j>>]>>
    BY <2>3, <2>4
  <2>. QED BY <2>1, <2>5, <2>6, <2>7, <2>8, OneSubmissionMoves
<1>. QED BY <1>1, <1>2, <1>3, <1>4

(* A row learns of its task.                                                 *)
LEMMA PollKeeps ==
  ASSUME UploadInv, NEW p \in Places, PollUploadTask(p)
  PROVE  UploadInv'
<1>0. UploadTypeOK
  BY DEF UploadInv
<1>1. PICK stage \in {"completed", "failed"} :
        /\ lines[p] = "sent" /\ lines' = [lines EXCEPT ![p] = stage]
        /\ UNCHANGED <<drawer, loops, landed, turned>>
  BY DEF PollUploadTask
<1>2. PICK s \in Submits, i \in 1 .. MaxSelected : p = <<s, i>>
  BY DEF Places
<1>3. \A r \in Submits, j \in 1 .. MaxSelected :
        lines'[<<r, j>>] = IF r = s /\ j = i THEN stage ELSE lines[<<r, j>>]
  BY <1>0, <1>1, <1>2 DEF UploadTypeOK, Places
<1>4. UploadTypeOK'
  BY <1>0, <1>1 DEF UploadTypeOK, RowStages
<1>5. NotBegun(s)'
  BY <1>1 DEF UploadInv, NotBegun
<1>6. ASSUME s \notin turned PROVE SubmissionInStep(s)'
  <2>1. SubmissionInStep(s)
    BY <1>6 DEF UploadInv
  <2>2. ASSUME NEW j \in 1 .. loops[s].files, FileInStep(s, j) PROVE FileInStep(s, j)'
    <3>0. j \in 1 .. MaxSelected
      BY LoopTyped
    <3>1. CASE j # i
      <4>1. lines'[<<s, j>>] = lines[<<s, j>>]
        BY <1>3, <3>0, <3>1
      <4>. QED BY <1>1, <2>2, <4>1 DEF FileInStep
    <3>2. CASE j = i
      <4>1. lines[<<s, j>>] = "sent" /\ lines'[<<s, j>>] = stage
        BY <1>1, <1>2, <1>3, <3>2
      <4>2. /\ j < loops[s].at \/ (j = loops[s].at /\ loops[s].phase # "uploading")
            /\ landed[<<s, j>>] \in {NoShelf, loops[s].base} /\ landed[<<s, j>>] # NoShelf
        BY <2>2, <4>1, LoopTyped DEF FileInStep
      <4>. QED BY <1>1, <4>1, <4>2, LoopTyped DEF FileInStep
    <3>. QED BY <3>1, <3>2
  <2>. QED BY <1>1, <2>1, <2>2 DEF SubmissionInStep
<1>7. \A r \in Submits \ {s} :
        /\ UNCHANGED loops[r]
        /\ \A j \in 1 .. MaxSelected : UNCHANGED <<lines[<<r, j>>], landed[<<r, j>>]>>
  BY <1>1, <1>3
<1>. QED BY <1>1, <1>4, <1>5, <1>6, <1>7, OneSubmissionMoves

LEMMA UploadInitSafe == UploadInit => UploadInv
<1>. SUFFICES ASSUME UploadInit PROVE UploadInv
  OBVIOUS
<1>1. NoLoop \in [files : 0..MaxSelected, base : Shelves \cup {NoShelf}, at : 0..MaxSelected,
                  phase : {"none", "next", "uploading", "over", "dead"}]
  BY UploadBounds DEF NoLoop
<1>2. UploadTypeOK
  BY <1>1, UploadBounds DEF UploadInit, UploadTypeOK, RowStages
<1>3. \A s \in Submits : loops[s].phase = "none" /\ loops[s].files = 0
  BY DEF UploadInit, NoLoop
<1>4. \A s \in Submits : NotBegun(s) /\ SubmissionInStep(s)
  BY <1>3 DEF UploadInit, NotBegun, SubmissionInStep, Places
<1>. QED BY <1>2, <1>4 DEF UploadInv

LEMMA UploadStepSafe == UploadInv /\ [UploadNext]_uploadVars => UploadInv'
<1>. SUFFICES ASSUME UploadInv, [UploadNext]_uploadVars PROVE UploadInv'
  OBVIOUS
<1>1. CASE UNCHANGED uploadVars
  <2>1. UploadTypeOK'
    BY <1>1 DEF uploadVars, UploadInv, UploadTypeOK
  <2>2. \A s \in Submits : NotBegun(s)' /\ (s \notin turned' => SubmissionInStep(s)')
    BY <1>1, SubmissionStays DEF uploadVars
  <2>. QED BY <2>1, <2>2 DEF UploadInv
<1>2. CASE UploadNext
  BY <1>2, DrawerKeeps, SubmitKeeps, FileKeeps, PollKeeps DEF UploadNext
<1>. QED BY <1>1, <1>2

LEMMA UploadsAreLanded == UploadInv => UploadsLand
<1>. SUFFICES ASSUME UploadInv, NEW s \in Submits \ turned
              PROVE  /\ loops[s].phase # "dead"
                     /\ \A i \in 1..loops[s].files :
                          LET stage == lines[<<s, i>>]
                          IN  /\ landed[<<s, i>>] \in {NoShelf, loops[s].base}
                              /\ stage \in {"sent", "completed"} => landed[<<s, i>>] # NoShelf
                              /\ loops[s].phase = "over" => stage \in {"sent", "completed", "failed"}
                              /\ landed[<<s, i>>] = NoShelf => stage \in {"pending", "failed"}
  BY DEF UploadsLand
<1>1. /\ SubmissionInStep(s) /\ NotBegun(s)
      /\ loops[s].files \in 0 .. MaxSelected /\ loops[s].at \in 0 .. MaxSelected
  BY LoopTyped DEF UploadInv
<1>2. CASE loops[s].phase = "none"
  BY <1>1, <1>2 DEF NotBegun
<1>3. CASE loops[s].phase # "none"
  <2>1. /\ loops[s].phase # "dead" /\ loops[s].base # NoShelf
        /\ loops[s].phase = "over" => loops[s].at = loops[s].files
        /\ \A i \in 1 .. loops[s].files : FileInStep(s, i)
    BY <1>1, <1>3, NoShelfIsNone DEF SubmissionInStep
  <2>2. ASSUME NEW i \in 1 .. loops[s].files, FileInStep(s, i)
        PROVE  /\ landed[<<s, i>>] \in {NoShelf, loops[s].base}
               /\ lines[<<s, i>>] \in {"sent", "completed"} => landed[<<s, i>>] # NoShelf
               /\ loops[s].phase = "over" => lines[<<s, i>>] \in {"sent", "completed", "failed"}
               /\ landed[<<s, i>>] = NoShelf => lines[<<s, i>>] \in {"pending", "failed"}
    <3>1. CASE i > loops[s].at
      BY <1>1, <2>1, <2>2, <3>1 DEF FileInStep
    <3>2. CASE i = loops[s].at /\ loops[s].phase = "uploading"
      BY <1>1, <2>1, <2>2, <3>2 DEF FileInStep
    <3>3. CASE i < loops[s].at \/ (i = loops[s].at /\ loops[s].phase # "uploading")
      BY <1>1, <2>1, <2>2, <3>3 DEF FileInStep
    <3>. QED BY <1>1, <3>1, <3>2, <3>3
  <2>. QED BY <2>1, <2>2
<1>. QED BY <1>2, <1>3

\* Every file lands once, in the base that was selected when it was submitted,
\* and its row says whether it did; a submission ends with all of its files sent
\* or failed: for any bases, submissions and files, unless the drawer is opened
\* again or turned to another base meanwhile (DocumentListView.vue).
THEOREM UploadsLandWhereSent == UploadSpec => []UploadsLand
BY UploadInitSafe, UploadStepSafe, UploadsAreLanded, PTL DEF UploadSpec
==============================================================================
