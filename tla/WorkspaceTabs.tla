---------------------------- MODULE WorkspaceTabs ----------------------------
(***************************************************************************)
(* The tabs of the desktop window.  The host's store (WorkspaceStore) owns *)
(* the tabs and is the only one written to disk.  Every tab is shown by a  *)
(* webview of its own that reads the disk once, makes its tab's session    *)
(* the active one of its own copy of the store, and reports what the user  *)
(* does there to the host as events: when it loads, when it navigates,     *)
(* when the host asks, and a while after its state changed.                *)
(*                                                                         *)
(* The events of one webview arrive in order.  An event that arrives       *)
(* before the host listens is lost; one of a tab that was closed meanwhile *)
(* still arrives.  A restart loses the stores, webviews and events and     *)
(* keeps the disk.                                                         *)
(***************************************************************************)
EXTENDS WorkspaceStore

CONSTANTS
  Unloaded,    \* for a tab that has no webview
  Unbound,     \* for one whose webview read a disk without the tab
  KnownAtStart,
  MaxActs, MaxEvents      \* bounds

ASSUME TabsAssumption ==
  /\ KnownAtStart \subseteq Repos
  /\ Unloaded \notin Store /\ Unbound \notin Store

VARIABLES
  host,        \* the store of the host
  disk,        \* what the host's store last persisted
  child,       \* the store of each tab's webview
  childRoute,  \* where each webview's router is
  dirty,       \* the webviews whose report timer is armed
  chan,        \* the events on their way from each webview
  requests,    \* the tabs whose request for a report is on its way
  listening,   \* how many of the host's two listeners are registered
  known,       \* the repositories of the backend
  drag,        \* the tab being dragged and the order previewed
  made,        \* ghost: the tabs ever created
  chosen,      \* ghost: the repositories chosen in each tab
  acts         \* ghost: the user's actions and the restarts so far

vars == <<host, disk, child, childRoute, dirty, chan, requests, listening,
          known, drag, made, chosen, acts>>

webviews == <<child, childRoute, dirty, chan>>
ghosts == <<made, chosen>>

Bound == {x \in SessionIds : child[x] \notin {Unloaded, Unbound}}

\* "first" marks the report that follows the word that the webview is ready;
\* the two events are delivered as one.
ReportOf(s, x, route, first) ==
  [ first |-> first, route |-> route,
    hasRepo |-> route = "git", repo |-> s.repo[x],
    snap |-> [ path |-> PathOf(s, x),
               view |-> s.view,
               sel |-> SelectionAt(s, x, ActivePath(s)) ] ]
Report(x) == ReportOf(child[x], x, childRoute[x], FALSE)

NoDrag == [tab |-> MainTab, order |-> <<>>]

Init ==
  /\ host = InitStore /\ disk = InitStore
  /\ child = [x \in SessionIds |-> Unloaded]
  /\ childRoute = [x \in SessionIds |-> "git"]
  /\ dirty = {}
  /\ chan = [x \in SessionIds |-> <<>>]
  /\ requests = {} /\ listening = 0
  /\ known = KnownAtStart
  /\ drag = NoDrag
  /\ made = {MainTab}
  /\ chosen = [x \in SessionIds |-> {}]
  /\ acts = 0

Act == acts < MaxActs /\ acts' = acts + 1

-----------------------------------------------------------------------------
(* The host *)

\* Array.filter: the elements of q that are in S, each at its rank among them.
Filtered(q, S) ==
  LET places == {i \in DOMAIN q : q[i] \in S}
  IN [n \in 1..Cardinality(places) |->
        q[CHOOSE i \in places : Cardinality({j \in places : j <= i}) = n]]

\* The order previewed follows the tabs; the drag of a closed tab ends.
Resynced(tabs) ==
  LET kept == Filtered(drag.order, ToSet(tabs))
      new == Filtered(tabs, SessionIds \ ToSet(drag.order))
  IN IF drag.order = <<>> \/ drag.tab \notin ToSet(tabs) THEN NoDrag
     ELSE [drag EXCEPT !.order = kept \o new]

HostBecomes(h) == host' = h /\ drag' = Resynced(h.tabs)

\* Deviation: the new tab takes over the repository of the one left.
HostDuplicatesTab(x) ==
  /\ Act /\ x \notin made
  /\ HostBecomes(CreateTab(host, x, host.route[host.activeTab],
                           host.tabRepo[host.activeTab]))
  /\ made' = made \cup {x}
  /\ UNCHANGED <<disk, webviews, requests, listening, known, chosen>>

HostCreatesTab(x) ==
  /\ Act /\ x \notin made
  /\ HostBecomes(CreateTab(host, x, host.route[host.activeTab], NoRepo))
  /\ made' = made \cup {x}
  /\ UNCHANGED <<disk, webviews, requests, listening, known, chosen>>

HostActivatesTab(x) ==
  /\ Act /\ x \in TabsOf(host) \ {host.activeTab}
  /\ HostBecomes(ActivateTab(host, x))
  /\ UNCHANGED <<disk, webviews, requests, listening, known, ghosts>>

HostClosesTab(x) ==
  /\ Act /\ x \in TabsOf(host) /\ Len(host.tabs) > 1
  /\ HostBecomes(CloseTab(host, x))
  /\ UNCHANGED <<disk, webviews, requests, listening, known, ghosts>>

\* Ctrl+Tab
HostAdvances(backward) ==
  LET n == Len(host.tabs)
      i == PlaceOf(host.tabs, host.activeTab)
      next == IF backward THEN ((i - 2 + n) % n) + 1 ELSE (i % n) + 1
  IN /\ Act /\ n > 1
     /\ HostBecomes(ActivateTab(host, host.tabs[next]))
     /\ UNCHANGED <<disk, webviews, requests, listening, known, ghosts>>

\* The window is hidden or left.
HostCaptures ==
  /\ Act
  /\ HostBecomes(CaptureSession(host, host.activeSession))
  /\ UNCHANGED <<disk, webviews, requests, listening, known, ghosts>>

HostEnsuresActiveTab ==
  /\ HostBecomes(EnsureActiveTab(host))
  /\ UNCHANGED <<disk, webviews, requests, listening, known, ghosts, acts>>

HostLoadsRepositories ==
  /\ HostBecomes(SetRepositories(host, known))
  /\ UNCHANGED <<disk, webviews, requests, listening, known, ghosts, acts>>

\* Deviation: the host waits for what the tabs report by themselves.
HostRegistersSilently ==
  /\ listening < 2
  /\ listening' = listening + 1
  /\ UNCHANGED <<host, disk, webviews, requests, known, drag, ghosts, acts>>

\* Once both listeners are registered the host asks every tab for a report.
HostRegistersListener ==
  /\ listening < 2
  /\ listening' = listening + 1
  /\ requests' = IF listening' = 2 THEN TabsOf(host) ELSE requests
  /\ UNCHANGED <<host, disk, webviews, known, drag, ghosts, acts>>

HostReceives(x) ==
  LET event == Head(chan[x])
  IN /\ chan[x] # <<>>
     /\ chan' = [chan EXCEPT ![x] = Tail(@)]
     /\ HostBecomes(IF listening >= 1
                    THEN SyncTabMetadata(host, x, event) ELSE host)
     /\ requests' = IF event.first /\ listening = 2
                    THEN requests \cup {x} ELSE requests
     /\ UNCHANGED <<disk, child, childRoute, dirty, listening, known, ghosts,
                    acts>>

Persist ==
  /\ disk' = Persisted(host)
  /\ UNCHANGED <<host, webviews, requests, listening, known, drag, ghosts, acts>>

-----------------------------------------------------------------------------
(* Dragging a tab *)

DragStarts(x) ==
  /\ Act /\ drag.order = <<>> /\ x \in TabsOf(host)
  /\ drag' = [tab |-> x, order |-> host.tabs]
  /\ UNCHANGED <<host, disk, webviews, requests, listening, known, ghosts>>

DragOver(y) ==
  /\ drag.order # <<>> /\ y \in ToSet(drag.order) \ {drag.tab}
  /\ drag' = [drag EXCEPT !.order =
                InsertAt(RemoveAt(@, PlaceOf(@, drag.tab)), PlaceOf(@, y), drag.tab)]
  /\ UNCHANGED <<host, disk, webviews, requests, listening, known, ghosts, acts>>

DragEnds ==
  /\ drag.order # <<>>
  /\ host' = IF drag.tab \in ToSet(drag.order)
             THEN ReorderTab(host, drag.tab, PlaceOf(drag.order, drag.tab)) ELSE host
  /\ drag' = NoDrag
  /\ UNCHANGED <<disk, webviews, requests, listening, known, ghosts, acts>>

DragCancels ==
  /\ drag.order # <<>>
  /\ drag' = NoDrag
  /\ UNCHANGED <<host, disk, webviews, requests, listening, known, ghosts, acts>>

-----------------------------------------------------------------------------
(* The webview of a tab *)

\* What a store read from the disk holds of other tabs, its webview neither
\* reads nor changes.
OnlyOwn(s, x) ==
  LET Own(f, g) == [y \in SessionIds |-> IF y = x THEN f[y] ELSE g[y]]
  IN [s EXCEPT
        !.tabs = <<x>>,
        !.tabRepo = Own(@, InitStore.tabRepo), !.route = Own(@, InitStore.route),
        !.life = [y \in SessionIds |-> IF y = x THEN @[y] ELSE "none"],
        !.repo = Own(@, InitStore.repo), !.snap = Own(@, InitStore.snap),
        !.sel = Own(@, InitStore.sel)]

Loaded(x) ==
  LET read == Rehydrated(disk)
  IN OnlyOwn(IF read.activeSession = x THEN read ELSE BindRuntime(read, x), x)

\* The webview says it is ready and reports at once; binding to its session
\* arms the timer.
WebviewLoads(x) ==
  /\ x \in TabsOf(host) /\ child[x] = Unloaded
  /\ Len(chan[x]) < MaxEvents
  /\ IF x \in TabsOf(disk)
     THEN /\ child' = [child EXCEPT ![x] = Loaded(x)]
          /\ childRoute' = [childRoute EXCEPT ![x] = host.route[x]]
          /\ dirty' = dirty \cup {x}
          /\ chan' = [chan EXCEPT ![x] = Append(@, ReportOf(Loaded(x), x, host.route[x], TRUE))]
     ELSE /\ child' = [child EXCEPT ![x] = Unbound]
          /\ UNCHANGED <<childRoute, dirty, chan>>
  /\ UNCHANGED <<host, disk, requests, listening, known, drag, ghosts, acts>>

WebviewCloses(x) ==
  /\ x \notin TabsOf(host) /\ child[x] # Unloaded
  /\ child' = [child EXCEPT ![x] = Unloaded]
  /\ childRoute' = [childRoute EXCEPT ![x] = "git"]
  /\ dirty' = dirty \ {x}
  /\ UNCHANGED <<host, disk, chan, requests, listening, known, drag, ghosts, acts>>

\* A change of the store that the report depends on arms the timer anew.
WebviewBecomes(x, s) ==
  /\ child' = [child EXCEPT ![x] = s]
  /\ dirty' = IF s = child[x] THEN dirty ELSE dirty \cup {x}
  /\ UNCHANGED <<host, disk, childRoute, chan, requests, listening, drag, made>>

Emit(x) ==
  /\ x \in dirty /\ Len(chan[x]) < MaxEvents
  /\ chan' = [chan EXCEPT ![x] = Append(@, Report(x))]
  /\ dirty' = dirty \ {x}
  /\ UNCHANGED <<host, disk, child, childRoute, requests, listening, known, drag,
                 ghosts, acts>>

\* A request is lost on a webview that is not there or not bound.
AnswerRequest(x) ==
  /\ x \in requests /\ (x \in Bound => Len(chan[x]) < MaxEvents)
  /\ requests' = requests \ {x}
  /\ chan' = IF x \in Bound
             THEN [chan EXCEPT ![x] = Append(@, Report(x))] ELSE chan
  /\ UNCHANGED <<host, disk, child, childRoute, dirty, listening, known, drag,
                 ghosts, acts>>

Navigate(x) ==
  LET to == IF childRoute[x] = "git" THEN "other" ELSE "git"
  IN /\ Act /\ x \in Bound /\ Len(chan[x]) < MaxEvents
     /\ childRoute' = [childRoute EXCEPT ![x] = to]
     /\ chan' = [chan EXCEPT ![x] = Append(@, ReportOf(child[x], x, to, FALSE))]
     /\ UNCHANGED <<host, disk, child, dirty, requests, listening, known, drag,
                    ghosts>>

ChooseRepository(x, r) ==
  /\ Act /\ x \in Bound /\ r \in child[x].repos
  /\ WebviewBecomes(x, SetSelectedRepository(child[x], r))
  /\ chosen' = [chosen EXCEPT ![x] = @ \cup {r}]
  /\ UNCHANGED known

\* The list added to is the one of the last rendering: what other calls have
\* listed since is overwritten.
AddRepository(x, r, rendered) ==
  /\ Act /\ x \in Bound /\ r \notin known
  /\ rendered \subseteq child[x].repos
  /\ known' = known \cup {r}
  /\ WebviewBecomes(x, SetSelectedRepository(
                          SetRepositories(child[x], rendered \cup {r}), r))
  /\ chosen' = [chosen EXCEPT ![x] = @ \cup {r}]

RemoveRepository(x, r) ==
  /\ Act /\ x \in Bound /\ r \in child[x].repos
  /\ known' = known \ {r}
  /\ WebviewBecomes(x, SetRepositories(child[x], child[x].repos \ {r}))
  /\ UNCHANGED chosen

WebviewLoadsRepositories(x) ==
  /\ x \in Bound
  /\ WebviewBecomes(x, SetRepositories(child[x], known))
  /\ UNCHANGED <<known, chosen, acts>>

\* The file lists show the files of the repository the keys are made of.
ChooseFile(x, kind) ==
  /\ Act /\ x \in Bound /\ ActivePath(child[x]) # NoRepo
  /\ WebviewBecomes(x, SelectFile(child[x], kind, ActivePath(child[x])))
  /\ UNCHANGED <<known, chosen>>

UnchooseFile(x, kind) ==
  /\ Act /\ x \in Bound
  /\ WebviewBecomes(x, ClearSelection(child[x], kind))
  /\ UNCHANGED <<known, chosen>>

ChooseView(x, v) ==
  /\ Act /\ x \in Bound
  /\ WebviewBecomes(x, SetMainWindowView(child[x], v))
  /\ UNCHANGED <<known, chosen>>

-----------------------------------------------------------------------------
\* The application ends at any point and is started again.
Restart ==
  /\ Act
  /\ host' = Rehydrated(disk)
  /\ child' = [x \in SessionIds |-> Unloaded]
  /\ childRoute' = [x \in SessionIds |-> "git"]
  /\ dirty' = {}
  /\ chan' = [x \in SessionIds |-> <<>>]
  /\ requests' = {} /\ listening' = 0
  /\ drag' = NoDrag
  /\ UNCHANGED <<disk, known, ghosts>>

HostStep ==
  \/ \E x \in SessionIds :
       \/ HostCreatesTab(x) \/ HostActivatesTab(x) \/ HostClosesTab(x)
       \/ HostReceives(x) \/ DragStarts(x) \/ DragOver(x)
  \/ \E backward \in BOOLEAN : HostAdvances(backward)
  \/ HostCaptures \/ HostEnsuresActiveTab \/ HostLoadsRepositories
  \/ HostRegistersListener \/ Persist
  \/ DragEnds \/ DragCancels

WebviewStep(x) ==
  \/ WebviewLoads(x) \/ WebviewCloses(x) \/ Emit(x) \/ AnswerRequest(x)
  \/ Navigate(x) \/ WebviewLoadsRepositories(x)
  \/ \E r \in Repos : ChooseRepository(x, r) \/ RemoveRepository(x, r)
  \/ \E r \in Repos, rendered \in SUBSET Repos : AddRepository(x, r, rendered)
  \/ \E kind \in Kinds : ChooseFile(x, kind) \/ UnchooseFile(x, kind)
  \/ \E v \in Views : ChooseView(x, v)

Next == HostStep \/ (\E x \in SessionIds : WebviewStep(x)) \/ Restart

Spec == Init /\ [][Next]_vars

-----------------------------------------------------------------------------
(* Properties *)

WellFormed(s) ==
  /\ s.tabs # <<>> /\ IsInjective(s.tabs)
  /\ s.activeTab \in TabsOf(s) /\ s.activeSession = s.activeTab
  /\ \A x \in SessionIds :
       s.life[x] = IF x \notin TabsOf(s) THEN "none"
                   ELSE IF x = s.activeTab THEN "active" ELSE "frozen"
  /\ s.repo = s.tabRepo
  /\ \A x \in SessionIds \ TabsOf(s) : s.repo[x] = NoRepo /\ s.snap[x] = NoSnap

\* Sessions and pointers stay in step with the tabs, in the host, on the disk
\* and in every webview, whichever of them changed last: the effect that
\* repairs the host's store (ensureActiveTab) never has anything to repair.
NothingToRepair ==
  /\ \A s \in {host, disk} \cup {child[x] : x \in Bound} :
       WellFormed(s) /\ s.selected = Known(s, s.repo[s.activeSession])
  /\ \A x \in Bound : child[x].activeSession = x

\* What is selected or recorded under a repository was selected in that
\* repository's files, and a tab shows only repositories chosen in that tab,
\* in every store and in every report on its way.
TabsAreIsolated ==
  LET snaps(x) == ({host.snap[x], disk.snap[x]} \ {NoSnap})
                  \cup {chan[x][i].snap : i \in DOMAIN chan[x]}
      stores(x) == {host, disk} \cup (IF x \in Bound THEN {child[x]} ELSE {})
  IN \A x \in SessionIds :
       /\ \A snap \in snaps(x) : \A f \in snap.sel : f[2] = snap.path
       /\ \A s \in stores(x) :
            /\ s.repo[x] \in chosen[x] \cup {NoRepo}
            /\ \A p \in Repos : \A f \in s.sel[x][p] : f[2] = p

\* A dropped tab lands where the preview showed it, the other tabs around it as
\* previewed, whatever was opened, closed or restored during the drag.
DropMatchesPreview == [][DragEnds => host'.tabs = drag.order]_vars

\* Once the host listens and nothing is on its way, it has the route and the
\* repository that each tab's webview shows, whatever was lost before.
Quiet(x) ==
  /\ x \in Bound \cap TabsOf(host) /\ listening = 2
  /\ x \notin dirty \cup requests /\ chan[x] = <<>>

HostLearnsWhatTabsShow ==
  \A x \in SessionIds :
    Quiet(x) => /\ host.route[x] = childRoute[x]
                /\ childRoute[x] = "git" => host.tabRepo[x] = child[x].repo[x]

=============================================================================
