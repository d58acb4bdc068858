--------------------------- MODULE WorkspaceStore ---------------------------
(***************************************************************************)
(* The application store of one webview (apps/desktop/src/store): the      *)
(* tabs, the session of each tab, the pointers to the active ones, what is *)
(* selected under each session and repository, and the operations of its   *)
(* slices as functions from a store to a store.                            *)
(*                                                                         *)
(* A repository stands for its id and its path.  A file selection is the   *)
(* set of <<kind, repository>> of the files selected, the repository being *)
(* the one whose file list the user chose the file from.  Titles, times,   *)
(* the settings that no operation below reads, and the state of the        *)
(* pickers and of the side panel, which follows the selection, are left    *)
(* out.                                                                    *)
(***************************************************************************)
EXTENDS Integers, Sequences, FiniteSets, SequencesExt

CONSTANTS SessionIds, MainTab, Repos, NoRepo, NoSnap,
          Kinds,                  \* "worktree", "stash", "history"
          Views                   \* of the main window

ASSUME StoreAssumption ==
  /\ MainTab \in SessionIds
  /\ NoRepo \notin Repos
  /\ {"none", "FileDiff"} \subseteq Views
  /\ Views \subseteq {"none", "FileDiff", "HistoryGraph", "Pickaxe"}

MaybeRepo == Repos \cup {NoRepo}
Routes == {"git", "other"}
Selection == SUBSET (Kinds \X Repos)
Snapshot == [path : MaybeRepo, view : Views, sel : Selection]

\* A tab and its session are two records with one id; life "none" is a
\* session that sessionsById does not hold.
Store ==
  [ tabs : Seq(SessionIds),
    tabRepo : [SessionIds -> MaybeRepo],
    route : [SessionIds -> Routes],
    activeTab : SessionIds,
    activeSession : SessionIds,
    life : [SessionIds -> {"none", "active", "frozen"}],
    repo : [SessionIds -> MaybeRepo],
    snap : [SessionIds -> Snapshot \cup {NoSnap}],
    repos : SUBSET Repos,
    selected : MaybeRepo,
    sel : [SessionIds -> [Repos -> Selection]],
    view : Views ]

NothingSelected == [x \in SessionIds |-> [p \in Repos |-> {}]]

InitStore ==
  [ tabs |-> <<MainTab>>,
    tabRepo |-> [x \in SessionIds |-> NoRepo],
    route |-> [x \in SessionIds |-> "git"],
    activeTab |-> MainTab,
    activeSession |-> MainTab,
    life |-> [x \in SessionIds |-> IF x = MainTab THEN "active" ELSE "none"],
    repo |-> [x \in SessionIds |-> NoRepo],
    snap |-> [x \in SessionIds |-> NoSnap],
    repos |-> {},
    selected |-> NoRepo,
    sel |-> NothingSelected,
    view |-> "none" ]

TabsOf(s) == {s.tabs[i] : i \in DOMAIN s.tabs}
PlaceOf(q, x) == CHOOSE i \in DOMAIN q : q[i] = x

-----------------------------------------------------------------------------
(* Looking up *)

\* getRepositoryById
Known(s, r) == IF r \in s.repos THEN r ELSE NoRepo

\* getSessionRepositoryPath: the snapshot's path stands in for a repository
\* that the session does not have or the list does not hold.
PathOf(s, x) ==
  IF Known(s, s.repo[x]) # NoRepo THEN s.repo[x]
  ELSE IF s.snap[x] # NoSnap THEN s.snap[x].path ELSE NoRepo

\* selectActiveRepositoryPath, and the path in the key that the selection
\* operations write to.
ActivePath(s) ==
  IF Known(s, s.repo[s.activeSession]) # NoRepo
  THEN s.repo[s.activeSession] ELSE s.selected

SelectionAt(s, x, p) == IF p = NoRepo THEN {} ELSE s.sel[x][p]

-----------------------------------------------------------------------------
(* Snapshots *)

SnapshotOf(s, x) ==
  [ path |-> PathOf(s, x),
    view |-> s.view,
    sel |-> SelectionAt(s, x, PathOf(s, x)) ]

EmptySnapshot(p) == [path |-> p, view |-> "none", sel |-> {}]

CaptureSession(s, x) ==
  IF s.life[x] = "none" THEN s
  ELSE [s EXCEPT !.snap[x] = SnapshotOf(s, x)]

FreezeSession(s, x) ==
  IF s.life[x] = "none" THEN s
  ELSE [s EXCEPT !.snap[x] = SnapshotOf(s, x), !.life[x] = "frozen"]

\* The snapshot counts only for the repository it was taken of.
SnapshotToRestore(s, x) ==
  IF s.snap[x] # NoSnap /\ s.snap[x].path = PathOf(s, x)
  THEN s.snap[x] ELSE EmptySnapshot(PathOf(s, x))

RestoreSession(s, x) ==
  LET p == PathOf(s, x)
      shown == SnapshotToRestore(s, x)
  IN [s EXCEPT !.view = shown.view,
               !.sel[x] = IF p = NoRepo THEN @ ELSE [@ EXCEPT ![p] = shown.sel]]

\* normalizeRuntimeSnapshot
NormalizedSnapshot(snap, fallback) ==
  [snap EXCEPT
     !.path = IF @ = NoRepo THEN fallback ELSE @,
     !.view = IF @ \in {"FileDiff", "HistoryGraph"} THEN @ ELSE "none"]

-----------------------------------------------------------------------------
(* Tabs and sessions *)

\* What every change of the active tab ends with.
PointAt(s, x) ==
  [s EXCEPT !.activeTab = x, !.activeSession = x,
            !.selected = Known(s, s.tabRepo[x])]

\* A new tab's session starts from a copy of the snapshot of the one left.
CreateTab(s, x, route, r) ==
  LET left == s.activeSession
      f == FreezeSession(s, left)
      n == [f EXCEPT !.tabs = Append(@, x), !.tabRepo[x] = r,
                     !.route[x] = route, !.repo[x] = r,
                     !.life[x] = "active", !.snap[x] = f.snap[left]]
  IN PointAt(RestoreSession(n, x), x)

ActivateTab(s, x) ==
  LET f == IF s.activeSession # x THEN FreezeSession(s, s.activeSession) ELSE s
      n == [f EXCEPT !.repo[x] = s.tabRepo[x], !.life[x] = "active"]
  IN IF x = s.activeTab \/ x \notin TabsOf(s) THEN s
     ELSE PointAt(RestoreSession(n, x), x)

\* The neighbour on the left takes over from an active tab that is closed.
CloseTab(s, x) ==
  LET i == PlaceOf(s.tabs, x)
      rest == RemoveAt(s.tabs, i)
      next == rest[IF i > 1 THEN i - 1 ELSE 1]
      gone == [s EXCEPT !.tabs = rest, !.life[x] = "none", !.snap[x] = NoSnap,
                        !.repo[x] = NoRepo, !.tabRepo[x] = NoRepo,
                        !.route[x] = "git"]
      woken == [gone EXCEPT
                  !.life[next] = IF @ = "none" THEN @ ELSE "active"]
  IN IF Len(s.tabs) <= 1 \/ x \notin TabsOf(s) THEN s
     ELSE IF x = s.activeTab
          THEN PointAt(IF woken.life[next] = "none" THEN woken
                       ELSE RestoreSession(woken, next), next)
          ELSE gone

\* Deviation: the target is taken for a place among the tabs before the move.
ReorderTabBefore(s, x, target) ==
  LET i == PlaceOf(s.tabs, x)
      j == IF target > i THEN target - 1 ELSE target
  IN IF Len(s.tabs) <= 1 \/ x \notin TabsOf(s) \/ j = i THEN s
     ELSE [s EXCEPT !.tabs = InsertAt(RemoveAt(@, i), j, x)]

ReorderTab(s, x, target) ==
  LET i == PlaceOf(s.tabs, x)
      j == IF target < 1 THEN 1
           ELSE IF target > Len(s.tabs) THEN Len(s.tabs) ELSE target
  IN IF Len(s.tabs) <= 1 \/ x \notin TabsOf(s) \/ j = i THEN s
     ELSE [s EXCEPT !.tabs = InsertAt(RemoveAt(@, i), j, x)]

\* What a tab's webview reports: route, repository (left out away from the
\* git page) and snapshot.
SyncTabMetadata(s, x, report) ==
  LET r == IF report.hasRepo THEN report.repo ELSE s.tabRepo[x]
      snap == NormalizedSnapshot(report.snap, Known(s, r))
      changed == \/ report.route # s.route[x]
                 \/ r # s.tabRepo[x]
                 \/ snap # s.snap[x]
      kept == IF s.life[x] = "none" THEN "frozen" ELSE s.life[x]
      n == [s EXCEPT !.route[x] = report.route, !.tabRepo[x] = r,
                     !.repo[x] = r, !.snap[x] = snap,
                     !.life[x] = IF s.activeSession = x THEN "active" ELSE kept]
  IN IF x \notin TabsOf(s) \/ ~changed THEN s
     ELSE IF s.activeTab = x THEN [n EXCEPT !.selected = Known(s, r)] ELSE n

\* The effect of the title bar: sessions follow their tabs and the pointers
\* follow the active one.
EnsureActiveTab(s) ==
  LET active == IF s.activeTab \in TabsOf(s) THEN s.activeTab ELSE s.tabs[1]
      n == [s EXCEPT
              !.life = [x \in SessionIds |->
                          IF x \notin TabsOf(s) THEN "none"
                          ELSE IF x = active THEN "active" ELSE "frozen"],
              !.repo = [x \in SessionIds |->
                          IF x \in TabsOf(s) THEN s.tabRepo[x] ELSE NoRepo],
              !.snap = [x \in SessionIds |->
                          IF x \in TabsOf(s) THEN s.snap[x] ELSE NoSnap]]
  IN PointAt(n, active)

\* setEmbeddedRuntimeSession: a tab's webview makes its own session the
\* active one of its store.
BindRuntime(s, x) ==
  LET r == IF s.life[x] # "none" /\ s.repo[x] # NoRepo
           THEN s.repo[x] ELSE s.tabRepo[x]
      n == [s EXCEPT !.repo[x] = r, !.life[x] = "active"]
  IN IF s.life[x] = "none" /\ x \notin TabsOf(s) THEN s
     ELSE [RestoreSession(n, x) EXCEPT
             !.activeSession = x,
             !.activeTab = IF x \in TabsOf(s) THEN x ELSE @,
             !.selected = Known(s, r)]

-----------------------------------------------------------------------------
(* Repositories *)

\* Deviation: the tab keeps its repository.
SetSessionRepository(s, r) ==
  LET a == s.activeSession
      moved == s.life[a] # "none" /\ s.repo[a] # r
      n == IF moved THEN [s EXCEPT !.repo[a] = r, !.life[a] = "active"] ELSE s
  IN [n EXCEPT !.selected = r]

SetSelectedRepository(s, r) ==
  LET a == s.activeSession
      moved == s.life[a] # "none" /\ s.repo[a] # r
      n == IF moved THEN [s EXCEPT !.repo[a] = r, !.life[a] = "active"] ELSE s
  IN [n EXCEPT !.selected = r,
               !.tabRepo[s.activeTab] =
                  IF s.activeTab \in TabsOf(s) THEN r ELSE @]

SetRepositories(s, rs) ==
  LET n == [s EXCEPT !.repos = rs]
  IN [n EXCEPT !.selected = Known(n, s.repo[s.activeSession])]

-----------------------------------------------------------------------------
(* Selections and views, under the key of the active session's repository *)

SelectFile(s, kind, r) ==
  LET p == ActivePath(s)
      others(set) == {f \in set : f[1] # kind}
  IN IF p = NoRepo THEN s
     ELSE [s EXCEPT !.sel[s.activeSession][p] = others(@) \cup {<<kind, r>>},
                    !.view = "FileDiff"]

ClearSelection(s, kind) ==
  LET p == ActivePath(s)
  IN IF p = NoRepo THEN s
     ELSE [s EXCEPT !.sel[s.activeSession][p] = {f \in @ : f[1] # kind}]

SetMainWindowView(s, v) == [s EXCEPT !.view = v]

-----------------------------------------------------------------------------
(* The disk *)

\* partialize keeps neither the selections nor the view.
Persisted(s) == [s EXCEPT !.sel = NothingSelected, !.view = "none"]

\* hydrateActiveSessionUiState, once the store has read what was persisted.
Rehydrated(d) ==
  LET a == d.activeSession
  IN IF d.life[a] = "none" THEN d
     ELSE [RestoreSession(d, a) EXCEPT !.selected = Known(d, d.repo[a])]
=============================================================================
