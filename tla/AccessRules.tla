----------------------------- MODULE AccessRules ----------------------------
(***************************************************************************)
(* Who sees a document.  Four implementations of the rule are compared:    *)
(* the filter of the listing and of the SQL searches                       *)
(* (applyDocumentAccessScope), the filter of the Elasticsearch and Neo4j   *)
(* searches over metadata that AclIndexRefreshService computes, and the    *)
(* last check of every answer (DataScopeService over                       *)
(* AuthorizationService.canAccessDocument).  RbacService changes roles and *)
(* rules; its replacements delete and insert in two steps.                 *)
(***************************************************************************)
EXTENDS Integers, FiniteSets

CONSTANTS MaxRules,     \* rules of the document at one time
          MaxRuleOps,   \* changes of the document, its rules, the users' and roles' links
          LinkJobs      \* replacements of a user's roles or a role's permissions

Staff == {"owner", "colleague", "guest"}
RoleCodes == {"user", "reader"}
Visibilities == {"company", "department", "private"}
\* What a token carries of its user; an API key leaves the department out.
Person(u, byKey) ==
  [id |-> u, dept |-> IF u = "guest" \/ byKey THEN "" ELSE "sales", role |-> "user"]
Subjects == {<<"user", "guest">>, <<"role", "user">>, <<"role", "reader">>,
             <<"department", "sales">>}
AclRules == [subject : Subjects, allow : BOOLEAN, read : BOOLEAN]
Links == {"guest", "reader"}
MenuCodes == {"documents:view", "api-key:manage"}
Targets(k) == IF k = "guest" THEN {"reader"} ELSE {"documents:view", "documents:*"}

VARIABLES
  doc,    \* the document: its visibility and its rules
  meta,   \* the access metadata of its chunks, as of the last refresh
  links,  \* user_role of the guest, role_permission of the reader role
  job,    \* by request: the replacement it is doing
  stale,  \* ghost: the document changed without a refresh being enqueued
  asked   \* ghost: by link, the set of the last replacement, if it ran alone

accessVars == <<doc, meta, links, job, stale, asked>>
Nobody == [level |-> 0, ids |-> {}, roles |-> {}, depts |-> {}]
NoLinkJob == [at |-> "none", key |-> "guest", set |-> {}]

AccessTypeOK ==
  /\ doc \in [visibility : Visibilities, rules : SUBSET AclRules, refresh : BOOLEAN,
              ops : 0..MaxRuleOps]
  /\ meta \in [level : {0, 20, 30, 40}, ids : SUBSET Staff, roles : SUBSET RoleCodes,
               depts : SUBSET {"sales"}]
  /\ links \in [Links -> SUBSET {"reader", "documents:view", "documents:*"}]
  /\ job \in [LinkJobs -> [at : {"none", "found", "deleted", "done"}, key : Links,
                       set : SUBSET {"reader", "documents:view", "documents:*"}]]
  /\ stale \in BOOLEAN
  /\ asked \in [Links -> [set : SUBSET {"reader", "documents:view", "documents:*"},
                          alone : BOOLEAN]]

AccessInit ==
  /\ doc = [visibility |-> "company", rules |-> {}, refresh |-> FALSE, ops |-> 0]
  /\ meta = Nobody
  /\ links = [k \in Links |-> {}] /\ job = [j \in LinkJobs |-> NoLinkJob]
  /\ stale = FALSE /\ asked = [k \in Links |-> [set |-> {}, alone |-> TRUE]]

-----------------------------------------------------------------------------
\* The decisions.
RoleCodesOf(p) == {p.role} \cup (IF p.id = "guest" THEN links["guest"] ELSE {})
Matches(rule, p) == \/ rule.subject = <<"user", p.id>>
                    \/ rule.subject[1] = "department" /\ rule.subject[2] = p.dept
                    \/ rule.subject[1] = "role" /\ rule.subject[2] \in RoleCodesOf(p)
Applying(p) == {r \in doc.rules : r.read /\ Matches(r, p)}
VisibleByScope(p) == \/ doc.visibility = "company"
                     \/ doc.visibility = "department" /\ p.dept = "sales"
                     \/ doc.visibility = "private" /\ p.id = "owner"
CanAccessDocument(p) ==
  /\ \A r \in Applying(p) : r.allow
  /\ Applying(p) # {} \/ VisibleByScope(p)
ListShows(p) == VisibleByScope(p)
IndexShows(p) == \/ meta.level = 0 \/ p.id \in meta.ids \/ p.dept \in meta.depts
                 \/ p.role \in meta.roles
\* The task that reads a file, before it names a document and after: who finds it
\* in the list, and who may look at it and retry it.
IsUploader(p) == p.id = "owner"
TaskListed(p, made) ==
  \/ made /\ doc.visibility = "company"
  \/ made /\ doc.visibility = "department" /\ p.dept = "sales"
  \/ made /\ doc.visibility = "private" /\ p.id = "owner"
  \/ ~made /\ IsUploader(p)
TaskVisible(p, made) == IF made THEN VisibleByScope(p) ELSE IsUploader(p)

\* What the roles of a user let it do; a code "documents:*" stands for all of
\* the resource.  Guards and menus ask the same list.
GetUserPermissions(p) ==
  UNION {IF code = "reader" THEN links["reader"] ELSE {"api-key:manage"} : code \in RoleCodesOf(p)}
ResourceOf(code) == IF code = "api-key:manage" THEN "api-key:*" ELSE "documents:*"
PermissionListAllows(list, required) == required \in list \/ ResourceOf(required) \in list
HasAllPermissions(p, required) ==
  \A code \in required : PermissionListAllows(GetUserPermissions(p), code)
ListMenus(p) == {code \in MenuCodes : PermissionListAllows(GetUserPermissions(p), code)}

\* Mutant: the owner of a private document is left out.
BuildMetadataWithoutOwner ==
  [level |-> CASE doc.visibility = "company" -> 0 [] doc.visibility = "department" -> 20
               [] OTHER -> 30,
   ids |-> {}, roles |-> {}, depts |-> {"sales"}]
BuildMetadata ==
  LET allowed == {r.subject : r \in {s \in doc.rules : s.allow /\ s.read}}
      named(kind) == {s[2] : s \in {t \in allowed : t[1] = kind}}
      base == CASE doc.visibility = "company" -> 0
                [] doc.visibility = "department" -> 20
                [] OTHER -> 30
  IN  [level |-> IF \E r \in doc.rules : ~r.allow THEN 40 ELSE base,
       ids |-> named("user") \cup (IF base = 30 THEN {"owner"} ELSE {}),
       roles |-> named("role"),
       depts |-> named("department") \cup (IF base = 20 THEN {"sales"} ELSE {})]

-----------------------------------------------------------------------------
\* One more change, while the bound allows.
RuleChange(d) == doc.ops < MaxRuleOps /\ doc' = [d EXCEPT !.ops = @ + 1]
CreateDocumentAcl(r) ==
  /\ Cardinality(doc.rules) < MaxRules /\ r \notin doc.rules
  /\ RuleChange([doc EXCEPT !.rules = @ \cup {r}, !.refresh = TRUE])
  /\ UNCHANGED <<meta, links, job, stale, asked>>
DeleteDocumentAcl(r) ==
  /\ r \in doc.rules
  /\ RuleChange([doc EXCEPT !.rules = @ \ {r}, !.refresh = TRUE])
  /\ UNCHANGED <<meta, links, job, stale, asked>>
\* The governance of a document changes; nothing enqueues a refresh.
UpdateVisibility(v) ==
  /\ v # doc.visibility /\ RuleChange([doc EXCEPT !.visibility = v])
  /\ stale' = TRUE /\ UNCHANGED <<meta, links, job, asked>>
RefreshMetadata ==
  /\ doc.refresh /\ doc' = [doc EXCEPT !.refresh = FALSE]
  /\ meta' = BuildMetadata /\ stale' = FALSE
  /\ UNCHANGED <<links, job, asked>>

\* assignUserRoles and replaceRolePermissions: look the codes up, delete all,
\* insert what was found.
Alone(j, k) == \A i \in LinkJobs \ {j} : job[i].key = k => job[i].at \notin {"found", "deleted"}
FindCodes(j, k, set) ==
  /\ job[j].at = "none" /\ set \subseteq Targets(k)
  /\ job' = [job EXCEPT ![j] = [at |-> "found", key |-> k, set |-> set]]
  /\ asked' = [asked EXCEPT ![k] = [set |-> set, alone |-> Alone(j, k)]]
  /\ RuleChange(doc) /\ UNCHANGED <<meta, links, stale>>
DeleteLinks(j) ==
  LET k == job[j].key
  IN  /\ job[j].at = "found"
      /\ links' = [links EXCEPT ![k] = {}]
      /\ job' = [job EXCEPT ![j].at = IF job[j].set = {} THEN "done" ELSE "deleted"]
      /\ UNCHANGED <<doc, meta, stale, asked>>
SaveLinks(j) ==
  LET k == job[j].key
  IN  /\ job[j].at = "deleted"
      /\ links' = [links EXCEPT ![k] = @ \cup job[j].set]
      /\ job' = [job EXCEPT ![j].at = "done"]
      /\ UNCHANGED <<doc, meta, stale, asked>>
\* The insert fails, or the process stops before it: nothing is left.
SaveLinksFails(j) ==
  LET k == job[j].key
  IN  /\ job[j].at = "deleted"
      /\ asked' = [asked EXCEPT ![k].alone = FALSE]
      /\ job' = [job EXCEPT ![j].at = "done"]
      /\ UNCHANGED <<doc, meta, links, stale>>
\* Deleting the role takes its links with it.
DeleteRole ==
  /\ RuleChange(doc)
  /\ links' = [k \in Links |-> {}]
  /\ asked' = [k \in Links |-> [set |-> {}, alone |-> \A j \in LinkJobs :
                                  job[j].at \notin {"found", "deleted"}]]
  /\ UNCHANGED <<meta, job, stale>>

AccessNext ==
  \/ \E r \in AclRules : CreateDocumentAcl(r) \/ DeleteDocumentAcl(r)
  \/ \E v \in Visibilities : UpdateVisibility(v)
  \/ RefreshMetadata \/ DeleteRole
  \/ \E j \in LinkJobs :
       \/ \E k \in Links : \E set \in SUBSET Targets(k) : FindCodes(j, k, set)
       \/ DeleteLinks(j) \/ SaveLinks(j) \/ SaveLinksFails(j)
AccessSpec == AccessInit /\ [][AccessNext]_accessVars

-----------------------------------------------------------------------------
(* A document without rules is shown by the listing, by the searches over  *)
(* the index and by the last check to the same people.  With rules, once   *)
(* refreshed, the index hides nothing the last check would show, but for   *)
(* two cases the metadata does not express: a denial, which hides a        *)
(* document from all who are not named, and a role a user has beside the   *)
(* one in the token.  A task is listed to those who may retry it: its      *)
(* uploader, then all who see its document.  A replacement that ran alone  *)
(* leaves what it asked, and a user is let in, by guards and menus, where  *)
(* the two replacements together say so.                                   *)
AccessAgrees ==
  /\ \A u \in Staff, byKey \in BOOLEAN :
       LET p == Person(u, byKey)
           named == {r \in Applying(p) :
                       r.subject[1] # "role" \/ r.subject[2] = p.role}
       IN  /\ doc.rules = {} => CanAccessDocument(p) = ListShows(p)
           /\ ~stale /\ ~doc.refresh /\ CanAccessDocument(p) =>
                \/ IndexShows(p)
                \/ meta.level = 40 /\ named = {}
                \/ named = {} /\ Applying(p) # {}
           /\ doc.rules = {} /\ ~stale /\ ~doc.refresh =>
                IndexShows(p) = CanAccessDocument(p)
           /\ \A made \in BOOLEAN : TaskListed(p, made) = TaskVisible(p, made)
           /\ doc.rules = {} => TaskVisible(p, TRUE) = CanAccessDocument(p)
  /\ \A k \in Links :
       asked[k].alone /\ (\A j \in LinkJobs : job[j].key = k => job[j].at \in {"none", "done"})
         => links[k] = asked[k].set
  /\ LET Granted == IF "reader" \in asked["guest"].set THEN asked["reader"].set ELSE {}
     IN  (\A k \in Links : asked[k].alone) /\ (\A j \in LinkJobs : job[j].at \in {"none", "done"})
           => \A byKey \in BOOLEAN : LET p == Person("guest", byKey) IN
                /\ HasAllPermissions(p, {"documents:delete"}) = ("documents:*" \in Granted)
                /\ HasAllPermissions(p, MenuCodes) = (Granted # {})
                /\ ListMenus(p) = {"api-key:manage"} \cup
                     (IF Granted = {} THEN {} ELSE {"documents:view"})
=============================================================================
