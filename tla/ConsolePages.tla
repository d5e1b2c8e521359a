---------------------------- MODULE ConsolePages ----------------------------
(***************************************************************************)
(* The pages of the console (views and tabs of src/frontend): each keeps   *)
(* panes with rows it asked the API for.  A request carries what it is     *)
(* about when it is made and answers when it does; the page writes the     *)
(* answer into the pane without looking at what it shows by then.  A       *)
(* behaviour is that of one page.  Rows are their age: how many writes of  *)
(* the page they show.                                                     *)
(***************************************************************************)
EXTENDS Integers, FiniteSets

CONSTANTS Aims,   \* queries, documents, bases, personas, questions, entities
          NoAim, MaxAsks, MaxPending, MaxWrites

PanesOf == [list |-> {"list"}, detail |-> {"chunks", "history"}, task |-> {"task"},
  documents |-> {"documents", "pieces"}, graph |-> {"overview", "entities", "relations"},
  hits |-> {"cases", "result"}, cases |-> {"cases"}, casetab |-> {"cases"},
  base |-> {"base"}, mounted |-> {"mounted", "memories"}, account |-> {"keys"},
  search |-> {"result", "context"}, users |-> {"users"}, notices |-> {"notices"},
  menu |-> {"permissions"}]
Pages == DOMAIN PanesOf

VARIABLES
  screen,    \* the page of this behaviour
  view,    \* what it is about, the tab, entity or question in it, a step to come,
           \* a drawer
  shown,   \* the panes
  turn,    \* how often each pane was asked for or cleared
  pending, \* the requests under way
  written, \* the writes the server has done
  told,    \* ghost: the last of them each pane must show
  stray    \* ghost: panes an overtaken answer was written into

consoleVars == <<screen, view, shown, turn, pending, written, told, stray>>

Someone == Aims \cup {NoAim}
Tabs == {"info", "chunks", "history"}
\* A pane with no rows, and a request that is not served yet.
Unserved == -1
NoRows == [of |-> NoAim, at |-> Unserved]
RequestKinds == {"read", "batch", "write", "toggle", "patch", "create", "rights"}

ConsoleTypeOK ==
  /\ screen \in Pages
  /\ view \in [about : Someone, focus : Someone \cup Tabs, next : BOOLEAN, drawer : BOOLEAN]
  /\ shown \in [PanesOf[screen] -> [of : Someone, at : Unserved..MaxWrites]]
  /\ turn \in [PanesOf[screen] -> 0..MaxAsks]
  /\ pending \subseteq [kind : RequestKinds, pane : PanesOf[screen], of : Someone,
                        n : 0..MaxAsks, at : Unserved..MaxWrites, know : 0..MaxWrites]
  /\ written \in 0..MaxWrites /\ told \in [PanesOf[screen] -> 0..MaxWrites] /\ stray \subseteq PanesOf[screen]

ConsoleInit ==
  /\ screen \in Pages
  /\ \E t \in Aims :
       view = [about |-> IF screen = "search" THEN NoAim ELSE t,
               focus |-> NoAim, next |-> FALSE, drawer |-> FALSE]
  /\ shown = [p \in PanesOf[screen] |-> NoRows] /\ turn = [p \in PanesOf[screen] |-> 0]
  /\ pending = {} /\ written = 0 /\ told = [p \in PanesOf[screen] |-> 0] /\ stray = {}

-----------------------------------------------------------------------------
(* Requests.                                                               *)
NewRequest(kind, p, of, n, know) ==
  [kind |-> kind, pane |-> p, of |-> of, n |-> n, at |-> Unserved, know |-> know]

\* What a pane is about: the entity, question or document in the page, or the page.
ByFocus == {"relations", "pieces", "memories", "result"}
Wanted(p) == IF p \in ByFocus THEN view.focus ELSE view.about

\* Asks for some panes and clears some, with `rest' the requests still under way.
Loads(asked, cleared, of, rest, know) ==
  /\ \A p \in asked \cup cleared : turn[p] < MaxAsks
  /\ turn' = [p \in DOMAIN turn |->
                IF p \in asked \cup cleared THEN turn[p] + 1 ELSE turn[p]]
  /\ shown' = [p \in DOMAIN shown |-> IF p \in cleared THEN NoRows ELSE shown[p]]
  /\ stray' = stray \ cleared
  /\ pending' = rest \cup {NewRequest("read", p, of, turn[p] + 1, know[p]) : p \in asked}
  /\ asked # {} => Cardinality(pending') <= MaxPending
Reads(asked, cleared, of) ==
  /\ Loads(asked, cleared, of, pending, told) /\ UNCHANGED <<screen, written, told>>

\* The page waits for one write at a time.
Writing == \E c \in pending : c.kind # "read"
Writes(kind, p, of) ==
  /\ ~Writing /\ written < MaxWrites
  /\ pending' = pending \cup {NewRequest(kind, p, of, turn[p], told[p])}
  /\ UNCHANGED <<screen, view, shown, turn, written, told, stray>>
RequestServed(c) ==
  /\ c.at = Unserved
  /\ written' = IF c.kind = "read" THEN written ELSE written + 1
  /\ pending' = (pending \ {c}) \cup {[c EXCEPT !.at = written']}
  /\ UNCHANGED <<screen, view, shown, turn, told, stray>>

\* An answer is older than the pane when it was asked for before the pane was
\* asked for again or cleared, or before a write the page was told of.
Older(c) == c.n # turn[c.pane] \/ (c.kind = "read" /\ c.know # told[c.pane])
Arrives(c) ==
  /\ c.kind \in {"read", "batch"} /\ c.at # Unserved
  /\ shown' = [shown EXCEPT ![c.pane] = [of |-> c.of, at |-> c.at]]
  /\ stray' = IF Older(c) THEN stray \cup {c.pane} ELSE stray \ {c.pane}
  /\ told' = IF c.kind = "batch" /\ c.of = view.about
             THEN [told EXCEPT ![c.pane] = c.at] ELSE told
  /\ pending' = pending \ {c}
  /\ view' = IF screen = "search" /\ c.pane = "result" THEN [view EXCEPT !.about = c.of]
             ELSE view
  /\ UNCHANGED <<screen, turn, written>>
\* A failed read leaves an empty pane (apiJson answers null); the context of a
\* passage stays as it is.  Of a write that fails the page knows nothing.
KeepsOnFailure == {"context"}
Fails(c) ==
  /\ pending' = pending \ {c}
  /\ IF c.kind \notin {"read", "batch"} THEN UNCHANGED shown
     ELSE IF c.pane \in KeepsOnFailure /\ shown[c.pane] # NoRows THEN UNCHANGED shown
     ELSE shown' = [shown EXCEPT ![c.pane] = NoRows]
  /\ stray' = IF \/ screen = "notices" /\ c.kind = "toggle"
                 \/ c.kind = "read" /\ c.pane \in KeepsOnFailure
              THEN stray \cup {c.pane} ELSE stray
  /\ UNCHANGED <<screen, view, turn, written, told>>

\* The write is done: the page is told, and asks again for some panes.
WriteDone(kind) == {c \in pending : c.kind = kind /\ c.at # Unserved}
Told(c) ==
  [p \in DOMAIN told |->
     IF /\ p = c.pane \/ screen = "graph"
        /\ c.of = IF c.kind = "toggle" THEN Wanted(p) ELSE view.about
     THEN c.at ELSE told[p]]
ThenLoads(c, asked, cleared, of) ==
  /\ told' = Told(c) /\ Loads(asked, cleared, of, pending \ {c}, Told(c))
  /\ UNCHANGED <<screen, written>>
\* The row of the answer replaces that of the list the page has by now.
ThenPatches(c) ==
  /\ told' = Told(c) /\ pending' = pending \ {c}
  /\ shown' = IF shown[c.pane] # NoRows /\ shown[c.pane].of = c.of
              THEN [shown EXCEPT ![c.pane].at = c.at] ELSE shown
  /\ UNCHANGED <<screen, view, turn, written, stray>>
\* The switch of the row that was clicked turns, wherever that row is by now.
ThenTurns(c) ==
  /\ told' = Told(c) /\ pending' = pending \ {c}
  /\ IF c.n = turn[c.pane]
     THEN shown' = [shown EXCEPT ![c.pane].at = c.at] /\ UNCHANGED stray
     ELSE /\ stray' = IF shown[c.pane].of = c.of THEN stray \cup {c.pane} ELSE stray
          /\ UNCHANGED shown
  /\ UNCHANGED <<screen, view, turn, written>>

TurnsTo(about, focus) == view' = [view EXCEPT !.about = about, !.focus = focus]
Stays == UNCHANGED view
\* A read of the pane under way.
Asking(p) == \E c \in pending : c.pane = p /\ c.kind = "read"
Mounts(p) == turn[p] = 0
\* The calls of the search, evaluation, mounting and graph parts of the API.
Searches(q, cleared) == ~Asking("result") /\ Reads({"result"}, cleared, q)
WritesCases(kind) == Writes(kind, "cases", view.about)
WritesMounts == Writes("write", "mounted", view.about)
GraphReads(asked, cleared, of) == Reads(asked, cleared, of)

-----------------------------------------------------------------------------
(* DocumentListView: what is typed is asked for when a timer fires.        *)
RefreshList(t) == Reads({"list"}, {}, t)
SelectFilter(t) ==
  screen = "list" /\ view' = [view EXCEPT !.about = t] /\ RefreshList(t)
TypeFilter(t) ==
  /\ screen = "list" /\ view' = [view EXCEPT !.about = t, !.next = TRUE]
  /\ UNCHANGED <<screen, shown, turn, pending, written, told, stray>>
TimerFires ==
  screen = "list" /\ view.next /\ view' = [view EXCEPT !.next = FALSE] /\ RefreshList(view.about)
WriteDocument == screen = "list" /\ Writes("write", "list", view.about)
DocumentWritten(c) == screen = "list" /\ Stays /\ ThenLoads(c, {"list"}, {}, view.about)

(* DocumentDetailDrawer: the tab that is opened is asked for.              *)
OpenDetail(t) ==
  /\ screen = "detail" /\ t # view.about /\ TurnsTo(t, "info")
  /\ Reads({}, {"chunks", "history"}, t)
SwitchDetailTab(p) ==
  screen = "detail" /\ TurnsTo(view.about, p) /\ Reads({p}, {}, view.about)
ToggleChunkRow ==
  /\ screen = "detail" /\ view.focus = "chunks" /\ shown["chunks"] # NoRows
  /\ ~Asking("chunks") /\ Writes("toggle", "chunks", view.about)
ChunkToggled(c) == screen = "detail" /\ ThenTurns(c)
ChangeVersion == screen = "detail" /\ Writes("write", "history", view.about)
VersionChanged(c) ==
  screen = "detail" /\ TurnsTo(view.about, "history") /\ ThenLoads(c, {"history"}, {}, view.about)

(* DocumentTaskModal: opened, or given another task while open.            *)
LoadTask(t) == TurnsTo(t, NoAim) /\ Reads({"task"}, {"task"}, t)
OpenTask(t) ==
  /\ screen = "task" /\ ~view.drawer /\ Reads({"task"}, {"task"}, t)
  /\ view' = [view EXCEPT !.about = t, !.drawer = TRUE]
OtherTask(t) == screen = "task" /\ view.drawer /\ LoadTask(t)
CloseTask ==
  /\ screen = "task" /\ view.drawer /\ view' = [view EXCEPT !.drawer = FALSE]
  /\ UNCHANGED <<screen, shown, turn, pending, written, told, stray>>

(* DocumentsTab: the passages of the document that is expanded.            *)
MountDocuments ==
  screen = "documents" /\ Mounts("documents") /\ Stays /\ Reads({"documents"}, {}, view.about)
ToggleExpand(t) ==
  /\ screen = "documents"
  /\ IF view.focus = t
     THEN TurnsTo(view.about, NoAim) /\ Reads({}, {"pieces"}, t)
     ELSE TurnsTo(view.about, t) /\ Reads({"pieces"}, {}, t)
ToggleEnabled ==
  /\ screen = "documents" /\ shown["pieces"] # NoRows /\ ~Asking("pieces")
  /\ view.focus = shown["pieces"].of /\ Writes("toggle", "pieces", view.focus)
EnabledToggled(c) == screen = "documents" /\ ThenTurns(c)
WriteInTab == screen = "documents" /\ Writes("write", "documents", view.about)
WrittenInTab(c) ==
  /\ screen = "documents" /\ Stays
  /\ ThenLoads(c, {"documents"}, {}, view.about)

(* GraphTab: what was found of an entity, in the graph of a base.          *)
MountGraph ==
  screen = "graph" /\ Mounts("overview") /\ Stays
  /\ GraphReads({"overview", "entities"}, {}, view.about)
OtherBase(t) ==
  /\ screen = "graph" /\ t # view.about /\ TurnsTo(t, NoAim)
  /\ GraphReads({"overview", "entities"}, {"relations"}, t)
SelectEntity(e) ==
  screen = "graph" /\ TurnsTo(view.about, e) /\ GraphReads({"relations"}, {}, e)
HandleRebuild == screen = "graph" /\ Writes("write", "overview", view.about)
\* The entities are asked for when the overview has answered.
Rebuilt(c) ==
  /\ screen = "graph" /\ view' = [view EXCEPT !.focus = NoAim, !.next = TRUE]
  /\ ThenLoads(c, {"overview"}, {"relations"}, view.about)
ThenEntities ==
  /\ screen = "graph" /\ view.next /\ ~Asking("overview")
  /\ view' = [view EXCEPT !.next = FALSE] /\ GraphReads({"entities"}, {}, view.about)

(* HitTestTab and EvaluationTab: the cases of a base, a search in it.      *)
MountCases ==
  /\ screen \in {"hits", "casetab", "cases"} /\ Mounts("cases") /\ Stays
  /\ Reads({"cases"}, {}, view.about)
HitsOfBase(t) ==
  screen = "hits" /\ t # view.about /\ TurnsTo(t, NoAim) /\ Reads({"cases"}, {"result"}, t)
RunHitSearch(q) ==
  screen = "hits" /\ TurnsTo(view.about, q) /\ Searches(q, {})
WriteCase == screen = "hits" /\ WritesCases("write")
CaseWritten(c) == screen = "hits" /\ Stays /\ ThenLoads(c, {"cases"}, {}, view.about)
CreateInTab == screen = "casetab" /\ WritesCases("write")
CreatedInTab(c) == screen = "casetab" /\ Stays /\ ThenLoads(c, {"cases"}, {}, view.about)
\* A batch answers with the cases themselves.
RunBatch ==
  /\ screen \in {"hits", "casetab", "cases"} /\ ~Writing /\ written < MaxWrites
  /\ turn["cases"] < MaxAsks /\ turn' = [turn EXCEPT !["cases"] = @ + 1]
  /\ pending' = pending
       \cup {NewRequest("batch", "cases", view.about, turn'["cases"], told["cases"])}
  /\ UNCHANGED <<screen, view, shown, written, told, stray>>

(* EvaluationView: the cases of the base that is selected.                 *)
SelectBase(t) ==
  screen = "cases" /\ t # view.about /\ TurnsTo(t, NoAim) /\ Reads({"cases"}, {}, t)
ChangeCase ==
  screen = "cases" /\ shown["cases"].of = view.about /\ WritesCases("patch")
CaseChanged(c) == screen = "cases" /\ ThenPatches(c)
SubmitCreate == screen = "cases" /\ WritesCases("create")
\* The new case joins the list the page has by now.
Created(c) ==
  /\ screen = "cases" /\ told' = Told(c) /\ pending' = pending \ {c}
  /\ shown' = [shown EXCEPT !["cases"] = [of |-> c.of, at |-> c.at]]
  /\ stray' = IF shown["cases"].of = c.of THEN stray ELSE stray \cup {"cases"}
  /\ UNCHANGED <<screen, view, turn, written>>

(* KnowledgeBaseDetailView with SettingsTab and PermissionsTab.            *)
LoadBase(t) ==
  /\ screen = "base" /\ (Mounts("base") \/ t # view.about)
  /\ TurnsTo(t, NoAim) /\ Reads({"base"}, {}, t)
SaveSettings ==
  screen = "base" /\ shown["base"].of = view.about /\ Writes("write", "base", view.about)
\* The page takes the row of the answer, of whatever base it is by then.
OnKbChanged(c) ==
  /\ screen = "base" /\ told' = Told(c) /\ pending' = pending \ {c}
  /\ shown' = [shown EXCEPT !["base"] = [of |-> c.of, at |-> c.at]]
  /\ stray' = IF c.of = view.about THEN stray \ {"base"} ELSE stray \cup {"base"}
  /\ UNCHANGED <<screen, view, turn, written>>
SavePermissions ==
  screen = "base" /\ shown["base"].of = view.about /\ Writes("rights", "base", view.about)
\* Who may see the base is saved, and the page keeps the row it had.
PermissionsSaved(c) ==
  /\ screen = "base" /\ told' = Told(c) /\ pending' = pending \ {c}
  /\ stray' = stray \cup {"base"} /\ UNCHANGED <<screen, view, shown, turn, written>>

(* MountedKnowledgeBaseDrawer and ProfileView: bases and keys, memories.   *)
LoadMounted(t) ==
  /\ screen = "mounted" /\ (Mounts("mounted") \/ t # view.about)
  /\ view' = [view EXCEPT !.about = t] /\ Reads({"mounted"}, {}, t)
Attach == screen = "mounted" /\ WritesMounts
BaseAttached(c) ==
  screen = "mounted" /\ c.pane = "mounted" /\ Stays /\ ThenLoads(c, {"mounted"}, {}, view.about)
LoadMemories(q) ==
  /\ screen = "mounted" /\ (Mounts("memories") \/ q # view.focus)
  /\ view' = [view EXCEPT !.focus = q] /\ Reads({"memories"}, {}, q)
AddMemory ==
  screen = "mounted" /\ Writes("write", "memories", view.about)
MemoryAdded(c) ==
  /\ screen = "mounted" /\ c.pane = "memories" /\ Stays
  /\ ThenLoads(c, {"memories"}, {}, view.focus)
LoadApiKeys ==
  screen = "account" /\ Mounts("keys") /\ Stays /\ Reads({"keys"}, {}, view.about)
CreateApiKey == screen = "account" /\ Writes("write", "keys", view.about)
ApiKeyCreated(c) ==
  screen = "account" /\ c.pane = "keys" /\ Stays /\ ThenLoads(c, {"keys"}, {}, view.about)

(* SmartSearchView: a question, the first passage found, its context.      *)
KbChanged ==
  /\ screen = "search" /\ ~view.drawer /\ TurnsTo(NoAim, NoAim)
  /\ Reads({}, {"result"}, NoAim)
RunSearch(q) ==
  screen = "search" /\ ~view.drawer /\ TurnsTo(NoAim, q) /\ Searches(q, {"result"})
SelectPassage(t) ==
  /\ screen = "search" /\ ~view.drawer /\ shown["result"] # NoRows /\ TurnsTo(t, view.focus)
  /\ UNCHANGED <<screen, shown, turn, pending, written, told, stray>>
InspectContext ==
  /\ screen = "search" /\ view.about # NoAim /\ view' = [view EXCEPT !.drawer = TRUE]
  /\ Reads({"context"}, {}, view.about)
CloseContext ==
  /\ screen = "search" /\ view.drawer /\ view' = [view EXCEPT !.drawer = FALSE]
  /\ Reads({}, {"context"}, NoAim)

(* RbacView, AppHeader and the permissions of the menu.                    *)
LoadAll == screen = "users" /\ Mounts("users") /\ Stays /\ Reads({"users"}, {}, view.about)
SaveUserAuth == screen = "users" /\ Writes("write", "users", view.about)
UserAuthSaved(c) == screen = "users" /\ Stays /\ ThenLoads(c, {"users"}, {}, view.about)
ChangeDepartment == screen = "users" /\ Writes("patch", "users", view.about)
DepartmentChanged(c) == screen = "users" /\ ThenPatches(c)
ToggleNotifications == screen = "notices" /\ Stays /\ Reads({"notices"}, {}, view.about)
ReadNotification ==
  /\ screen = "notices" /\ shown["notices"] # NoRows /\ ~Asking("notices")
  /\ Writes("toggle", "notices", view.about)
NotificationRead(c) == screen = "notices" /\ ThenTurns(c)
\* Loaded once per page load, whoever signs in after; a failure counts too.
LoadPermissions ==
  screen = "menu" /\ Mounts("permissions") /\ Stays /\ Reads({"permissions"}, {}, view.about)
SignInAgain(t) ==
  /\ screen = "menu" /\ t # view.about /\ TurnsTo(t, NoAim)
  /\ IF Mounts("permissions") THEN UNCHANGED <<stray, turn>>
     ELSE stray' = stray \cup {"permissions"} /\ turn' = [turn EXCEPT !["permissions"] = 2]
  /\ UNCHANGED <<screen, shown, pending, written, told>>

-----------------------------------------------------------------------------
ConsoleNext ==
  \/ \E c \in pending : RequestServed(c) \/ Arrives(c) \/ Fails(c)
  \/ \E t \in Aims :
       \/ SelectFilter(t) \/ TypeFilter(t) \/ OpenDetail(t) \/ OpenTask(t) \/ OtherTask(t)
       \/ ToggleExpand(t) \/ OtherBase(t) \/ SelectEntity(t) \/ HitsOfBase(t)
       \/ RunHitSearch(t) \/ SelectBase(t) \/ LoadBase(t) \/ LoadMounted(t)
       \/ RunSearch(t) \/ SelectPassage(t) \/ SignInAgain(t)
  \/ \E q \in Someone : LoadMemories(q)
  \/ TimerFires \/ WriteDocument \/ (\E p \in {"chunks", "history"} : SwitchDetailTab(p))
  \/ ToggleChunkRow \/ ChangeVersion \/ CloseTask \/ MountDocuments \/ ToggleEnabled
  \/ WriteInTab \/ MountGraph \/ HandleRebuild \/ ThenEntities \/ MountCases \/ WriteCase
  \/ CreateInTab \/ RunBatch \/ ChangeCase \/ SubmitCreate \/ SaveSettings
  \/ SavePermissions \/ Attach \/ AddMemory \/ LoadApiKeys \/ CreateApiKey \/ KbChanged
  \/ InspectContext \/ CloseContext \/ LoadAll \/ SaveUserAuth \/ ChangeDepartment
  \/ ToggleNotifications \/ ReadNotification \/ LoadPermissions
  \/ \E c \in WriteDone("write") :
       \/ DocumentWritten(c) \/ VersionChanged(c) \/ WrittenInTab(c) \/ Rebuilt(c)
       \/ CaseWritten(c) \/ CreatedInTab(c) \/ OnKbChanged(c) \/ BaseAttached(c)
       \/ MemoryAdded(c) \/ ApiKeyCreated(c) \/ UserAuthSaved(c)
  \/ \E c \in WriteDone("toggle") : ChunkToggled(c) \/ EnabledToggled(c) \/ NotificationRead(c)
  \/ \E c \in WriteDone("patch") : CaseChanged(c) \/ DepartmentChanged(c)
  \/ \E c \in WriteDone("create") : Created(c)
  \/ \E c \in WriteDone("rights") : PermissionsSaved(c)
ConsoleSpec == ConsoleInit /\ [][ConsoleNext]_consoleVars

-----------------------------------------------------------------------------
(* A page at rest shows what it is about, no older than the last write it  *)
(* was told of: what a handler changes it asks for again or clears.  Stray *)
(* panes are those an answer was written into that had been overtaken, or  *)
(* that the code leaves behind: the base after its permissions are saved,  *)
(* the menu after another sign-in, a row that was turned in an older list. *)
Visible(p) ==
  /\ screen = "detail" => view.focus = p
  /\ screen = "task" => view.drawer
PanesFollow == \A p \in DOMAIN shown :
  \/ p \in stray \/ ~Visible(p) \/ Asking(p) \/ view.next \/ Writing
  \/ shown[p] = NoRows
  \/ shown[p].of = Wanted(p) /\ shown[p].at >= told[p]
=============================================================================
