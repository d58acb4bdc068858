--------------------------- MODULE RepositoryQueries ---------------------------
(***************************************************************************)
(* How a query of the desktop application keeps up with its repository:    *)
(* the repository changes, by a command of the application or behind its   *)
(* back; the watcher drops the namespaces of the backend cache that the    *)
(* change concerns and announces it; the change bridge cancels and         *)
(* refetches the queries it concerns; the hooks of the commands refetch    *)
(* some queries themselves; and when the window regains the focus          *)
(* everything is refetched past the cache, which is all there is where     *)
(* watching failed.                                                        *)
(*                                                                         *)
(* One query of a context that is not disposed of meanwhile is followed,   *)
(* any of those below.  Its data is the number of changes it reflects.     *)
(* The query library is external: an invalidation refetches a query with   *)
(* data anew, yet leaves the first fetch of one without data alone, whose  *)
(* answer clears the invalidation; a query that is cancelled returns to    *)
(* the state before the fetch; a fetch that failed is retried while the    *)
(* focus manager has the focus, or in the end given up.  The backend       *)
(* answers from its cache with anything since the last invalidation before *)
(* the call (CacheContract).                                               *)
(***************************************************************************)
EXTENDS Integers, Sequences, FiniteSets, FiniteSetsExt

CONSTANTS
  Watched,                                          \* the queries to choose from
  Kinds,                                            \* the kinds of changes to choose from
  Commands,                                         \* the commands to choose from
  MaxChanges, MaxCommands, MaxFocus, MaxFailures    \* bounds

-----------------------------------------------------------------------------
(* The queries, and what the backend reads for them *)

RepositoryChangeKind ==
  {"worktree", "index", "head", "refs", "stash", "operation", "config"}

BranchQueries ==
  {"branch list", "branch current", "ahead behind", "has uncommitted", "branch stash"}
DiffQueries == {"diff worktree", "diff stash", "diff commit"}
CommitQueries ==
  {"commit last", "commit authors", "commit history", "commit by id",
   "graph", "graph with stash", "activity", "activity with stash"}
StashQueries == {"stash list", "stash stat", "stash show"}
Queries ==
  BranchQueries \cup DiffQueries \cup CommitQueries \cup StashQueries
    \cup {"status", "operation", "origin", "worktree file"}

ASSUME WatchedAssumption == Watched \subseteq Queries /\ Kinds \subseteq RepositoryChangeKind

Reads(q) ==
  CASE q \in {"status", "diff worktree", "has uncommitted"} ->
         {"worktree", "index", "head", "refs", "config"}
    [] q = "worktree file" -> {"worktree"}
    [] q \in {"diff commit", "origin"} -> {"config"}
    [] q = "operation" -> {"index", "operation"}
    [] q = "branch current" -> {"head"}
    [] q \in {"branch list", "ahead behind"} -> {"head", "refs", "config"}
    [] q = "branch stash" -> {"head", "stash"}
    [] q \in {"commit last", "commit history", "graph", "activity"} -> {"head", "refs"}
    [] q \in {"graph with stash", "activity with stash"} -> {"head", "refs", "stash"}
    [] q = "commit authors" -> {"head", "refs", "config"}
    [] q = "commit by id" -> {}
    [] q = "diff stash" -> {"stash", "config"}
    [] q \in StashQueries -> {"stash"}

\* The namespaces of the backend cache that a query is answered from.
Namespaces(q) ==
  CASE q = "status" -> {"status"}
    [] q = "has uncommitted" -> {"has_uncommitted_changes"}
    [] q \in DiffQueries -> {"patch_by_file_path"}
    [] q = "branch current" -> {"current_branch"}
    [] q = "branch list" -> {"list_branches"}
    [] q = "ahead behind" -> {"ahead_behind_status", "branch_info"}
    [] q = "commit last" -> {"last_commit"}
    [] q = "commit history" -> {"history"}
    [] q = "commit by id" -> {"commit_by_id"}
    [] q = "origin" -> {"repository_origin"}
    [] q = "stash list" -> {"stash_list"}
    [] OTHER -> {}

-----------------------------------------------------------------------------
(* What a change concerns *)

\* cache_namespaces_for_changes
Dropped(kind) ==
  LET local == {"status", "has_uncommitted_changes", "patch_by_file_path"}
      branches == {"list_branches", "ahead_behind_status", "branch_info"}
      timeline == {"last_commit", "history"}
  IN CASE kind \in {"worktree", "index"} -> local
       [] kind = "head" -> local \cup branches \cup timeline \cup {"current_branch"}
       [] kind = "refs" -> local \cup branches \cup timeline
       [] kind = "stash" -> {"stash_list", "patch_by_file_path"}
       [] kind = "operation" -> local \cup {"current_branch"}
       [] kind = "config" -> local \cup branches \cup {"repository_origin"}

CommitTimeline ==
  {"commit last", "commit history", "graph", "graph with stash", "activity",
   "activity with stash"}

\* Deviation: the stash of the branch is forgotten when the head moves.
AffectedButStash(kind) ==
  LET local == {"status", "diff worktree", "has uncommitted"}
  IN CASE kind = "worktree" -> local \cup {"worktree file"}
       [] kind = "index" -> local \cup {"operation"}
       [] kind = "head" ->
            local \cup CommitTimeline \cup (BranchQueries \ {"branch stash"})
       [] kind = "refs" ->
            local \cup CommitTimeline \cup {"branch list", "ahead behind"}
       [] kind = "stash" ->
            StashQueries \cup
              {"diff stash", "graph with stash", "activity with stash", "branch stash"}
       [] kind = "operation" -> local \cup {"operation", "branch current"}
       [] kind = "config" ->
            {"status", "origin", "has uncommitted", "branch list", "ahead behind"}
              \cup DiffQueries

\* isAffectedByChange
Affected(kind) ==
  LET local == {"status", "diff worktree", "has uncommitted"}
  IN CASE kind = "worktree" -> local \cup {"worktree file"}
       [] kind = "index" -> local \cup {"operation"}
       [] kind = "head" -> local \cup CommitTimeline \cup BranchQueries
       [] kind = "refs" ->
            local \cup CommitTimeline \cup {"branch list", "ahead behind"}
       [] kind = "stash" ->
            StashQueries \cup
              {"diff stash", "graph with stash", "activity with stash", "branch stash"}
       [] kind = "operation" -> local \cup {"operation", "branch current"}
       [] kind = "config" ->
            {"status", "origin", "has uncommitted", "branch list", "ahead behind"}
              \cup DiffQueries

-----------------------------------------------------------------------------
(* The commands: what they may change, and the queries that the hook of each
   invalidates once it has succeeded, one domain after the other *)

Local == {"worktree", "index"}

\* The tables of several domains in one; as @@ of TLC, which the provers do not know.
Merged(tables) ==
  [x \in UNION {DOMAIN t : t \in tables} |-> (CHOOSE t \in tables : x \in DOMAIN t)[x]]

FileCommands ==
  [ add |-> {"index"}, unstage |-> {"index"}, discard |-> Local,
    applyPatchBlock |-> Local, fetch |-> {"refs"}, publishBranch |-> {"refs", "config"},
    push |-> {"refs"}, pull |-> Local \cup {"head", "refs", "operation"} ]
BranchCommands ==
  [ switchBranch |-> Local \cup {"head", "stash"},
    createBranch |-> Local \cup {"head", "refs", "stash"},
    renameBranch |-> {"head", "refs", "config"},
    deleteBranch |-> {"refs", "config"},
    setUpstream |-> {"config"}, unsetUpstream |-> {"config"},
    popCurrentBranchStash |-> Local \cup {"stash"} ]
CommitCommands == [createCommit |-> {"index", "head", "refs"}]
StashCommands ==
  [ stashPush |-> Local \cup {"stash"}, stashPop |-> Local \cup {"stash"},
    stashApply |-> Local, stashDrop |-> {"stash"}, stashClear |-> {"stash"},
    stashBranch |-> Local \cup {"head", "refs", "stash"},
    stashRestoreFile |-> Local ]
OperationCommands ==
  Merged({
    [x \in {"start", "continue", "skip", "abort"} |->
       Local \cup {"head", "refs", "stash", "operation"}],
    [updateTodo |-> {"operation"}, resolveConflict |-> Local] })

Changes ==
  Merged({FileCommands, BranchCommands, CommitCommands, StashCommands, OperationCommands})

ASSUME CommandsAssumption == Commands \subseteq DOMAIN Changes

Timelines == BranchQueries \cup CommitQueries \cup {"status"}

FileHooks ==
  Merged({
    [x \in {"add", "unstage", "discard"} |-> {"status"}],
    [x \in {"fetch", "publishBranch", "push", "pull"} |-> Timelines],
    [applyPatchBlock |-> {"status"} \cup DiffQueries] })
CommitHooks ==
  [createCommit |-> {"status", "ahead behind", "has uncommitted", "operation"}
                      \cup CommitQueries]
BranchHooks == [x \in DOMAIN BranchCommands |-> Timelines]
StashHooks ==
  Merged({
    [x \in {"stashPush", "stashPop", "stashBranch"} |->
       StashQueries \cup BranchQueries \cup {"status"}],
    [x \in {"stashClear", "stashDrop"} |-> StashQueries \cup BranchQueries],
    [stashApply |-> {"status"}, stashRestoreFile |-> StashQueries \cup {"status"}] })
OperationHooks ==
  Merged({
    [x \in {"continue", "skip", "abort"} |-> Queries \ {"worktree file"}],
    [start |-> Timelines \cup {"operation"}, updateTodo |-> {"operation"},
     resolveConflict |-> {"status", "operation"}] })

Invalidates ==
  Merged({FileHooks, CommitHooks, BranchHooks, StashHooks, OperationHooks})
\* These hooks do so even when the command fails.
RecoveringHooks == {"continue", "skip", "abort"}

-----------------------------------------------------------------------------
VARIABLES
  query, watching,
  version,      \* how often what the query reads has changed
  floor,        \* the version at the last invalidation of its namespaces
  pending,      \* the kinds of changes the watcher has not reported yet
  events,       \* the reports on their way to the webview
  entry,        \* the query in the cache of the library
  active,       \* a component shows it
  command,      \* the command under way
  focused,      \* of the focus manager
  generation,   \* nativeFocusGeneration
  refreshes,    \* the refreshes under way since the window got the focus
  owed,         \* ghost: the version that was announced to the query
  done          \* ghost: how often each bounded action was taken

backend == <<version, floor, pending>>
focus == <<focused, generation, refreshes>>
vars == <<query, watching, backend, events, entry, active, command, focus, owed, done>>

NoData == -1
NoFetch == [floor |-> 0, failed |-> FALSE, was |-> FALSE, awaited |-> {0}]
NoCommand == [name |-> "none", stage |-> "none", version |-> 0]

Init ==
  /\ query \in Watched /\ watching \in BOOLEAN
  /\ version = 0 /\ floor = 0 /\ pending = {} /\ events = <<>>
  /\ entry = [data |-> NoData, invalid |-> FALSE, error |-> FALSE, fetch |-> NoFetch]
  /\ active = FALSE /\ command = NoCommand
  /\ focused = TRUE /\ generation = 0 /\ refreshes = {}
  /\ owed = 0
  /\ done = [change |-> 0, command |-> 0, failure |-> 0]

Do(what, bound) == done[what] < bound /\ done' = [done EXCEPT ![what] = @ + 1]

-----------------------------------------------------------------------------
(* The query library *)

\* A fetch has the version the backend answers at least, whether it failed and
\* is to be retried, whether the query was invalid before, and the refreshes that
\* wait for it.  What the backend does not cache it reads when it is asked.
NewFetch(e) ==
  [ floor |-> IF Namespaces(query) = {} THEN version ELSE floor,
    failed |-> FALSE, was |-> e.invalid, awaited |-> {} ]

Stale(e) == e.data = NoData \/ e.invalid
Cancelled(e) ==
  IF e.fetch = NoFetch THEN e
  ELSE [e EXCEPT !.fetch = NoFetch, !.invalid = e.fetch.was]
GivenUp(e) == [e EXCEPT !.fetch = NoFetch, !.invalid = TRUE, !.error = TRUE]
Fetched(e) == IF e.fetch = NoFetch THEN [e EXCEPT !.fetch = NewFetch(e)] ELSE e
Refetched(e) ==
  IF e.data = NoData THEN Fetched(e) ELSE [e EXCEPT !.fetch = NewFetch(e)]
Invalidated(e) ==
  LET i == [e EXCEPT !.invalid = TRUE] IN IF active THEN Refetched(i) ELSE i

\* An invalidation without a cancellation leaves alone the first fetch of a query
\* and any fetch of one that nothing shows, and their answers clear it.
Announced(e, v) ==
  IF e.fetch # NoFetch /\ (e.data = NoData \/ ~active) THEN owed ELSE Max({owed, v})

Mount ==
  /\ ~active /\ active' = TRUE
  /\ \E aged \in BOOLEAN :
       entry' = IF Stale(entry) \/ aged THEN Fetched(entry) ELSE entry
  /\ UNCHANGED <<query, watching, backend, events, command, focus, owed, done>>

Unmount ==
  /\ active /\ active' = FALSE
  /\ UNCHANGED <<query, watching, backend, events, entry, command, focus, owed, done>>

Answered ==
  /\ entry.fetch # NoFetch /\ ~entry.fetch.failed
  /\ \E v \in entry.fetch.floor..version :
       entry' = [data |-> v, invalid |-> FALSE, error |-> FALSE, fetch |-> NoFetch]
  /\ UNCHANGED <<query, watching, backend, events, active, command, focus, owed, done>>

FetchFails ==
  /\ entry.fetch # NoFetch /\ ~entry.fetch.failed
  /\ Do("failure", MaxFailures)
  /\ \/ entry' = [entry EXCEPT !.fetch.failed = TRUE]
     \/ entry' = GivenUp(entry)
  /\ UNCHANGED <<query, watching, backend, events, active, command, focus, owed>>

\* A retry that comes due without the focus is paused until the focus is back;
\* one that no component waits for is given up.
Retry ==
  /\ entry.fetch # NoFetch /\ entry.fetch.failed
  /\ \/ /\ active /\ focused
        /\ entry' = [entry EXCEPT !.fetch.failed = FALSE,
                                 !.fetch.floor = NewFetch(entry).floor]
     \/ ~active /\ entry' = GivenUp(entry)
  /\ UNCHANGED <<query, watching, backend, events, active, command, focus, owed, done>>

-----------------------------------------------------------------------------
(* The repository, its watcher and the change bridge *)

Moves(kinds) ==
  /\ version' = IF kinds \cap Reads(query) # {} THEN version + 1 ELSE version
  /\ pending' = IF watching THEN pending \cup kinds ELSE {}

RepositoryChanges(kind) ==
  /\ Do("change", MaxChanges)
  /\ Moves({kind})
  /\ UNCHANGED <<query, watching, floor, events, entry, active, command, focus, owed>>

\* The callback of the watcher
Report ==
  /\ pending # {}
  /\ pending' = {}
  /\ floor' = IF Namespaces(query) \subseteq UNION {Dropped(k) : k \in pending}
              THEN version ELSE floor
  /\ events' = Append(events, [kinds |-> pending, version |-> version])
  /\ UNCHANGED <<query, watching, version, entry, active, command, focus, owed, done>>

\* Deviation: the queries are invalidated without being cancelled first.
ChangeInvalidates ==
  LET event == Head(events)
  IN /\ events # <<>> /\ events' = Tail(events)
     /\ IF \E k \in event.kinds : query \in Affected(k)
        THEN entry' = Invalidated(entry) /\ owed' = Max({owed, event.version})
        ELSE UNCHANGED <<entry, owed>>
     /\ UNCHANGED <<query, watching, backend, active, command, focus, done>>

\* invalidateRepositoryQueries: nothing that waits for more than its turn comes
\* between the cancellation and the invalidation.
ChangeArrives ==
  LET event == Head(events)
  IN /\ events # <<>> /\ events' = Tail(events)
     /\ IF \E k \in event.kinds : query \in Affected(k)
        THEN /\ entry' = Invalidated(Cancelled(entry))
             /\ owed' = Max({owed, event.version})
        ELSE UNCHANGED <<entry, owed>>
     /\ UNCHANGED <<query, watching, backend, active, command, focus, done>>

-----------------------------------------------------------------------------
(* Commands of the application *)

CommandChanges(name) ==
  /\ command = NoCommand /\ Do("command", MaxCommands)
  /\ Moves(Changes[name])
  /\ command' = [name |-> name, stage |-> "changed", version |-> 0]
  /\ UNCHANGED <<query, watching, floor, events, entry, active, focus, owed>>

\* It drops the whole cache before it returns.
CommandReturns ==
  /\ command.stage = "changed"
  /\ floor' = version
  /\ command' = [command EXCEPT !.stage = "returned", !.version = version]
  /\ UNCHANGED <<query, watching, version, pending, events, entry, active, focus, owed,
                 done>>

CommandFails ==
  /\ command.stage = "changed" /\ command.name \notin RecoveringHooks
  /\ command' = NoCommand
  /\ UNCHANGED <<query, watching, backend, events, entry, active, focus, owed, done>>

HookInvalidates ==
  /\ command.stage = "returned"
  /\ IF query \in Invalidates[command.name]
     THEN /\ entry' = Invalidated(entry)
          /\ owed' = Announced(entry, command.version)
     ELSE UNCHANGED <<entry, owed>>
  /\ command' = NoCommand
  /\ UNCHANGED <<query, watching, backend, events, active, focus, done>>

-----------------------------------------------------------------------------
(* The focus of the window *)

\* handleFocus of the focus manager: what is shown and stale is refetched
HandleFocus(to) ==
  /\ focused' = to
  /\ \E aged \in BOOLEAN :
       entry' = IF to /\ ~focused /\ active /\ (Stale(entry) \/ aged)
                THEN Fetched(entry) ELSE entry

\* Events of the document come in any order with the native ones.
DocumentFocus(to) ==
  /\ to # focused
  /\ HandleFocus(to)
  /\ UNCHANGED <<query, watching, backend, events, active, command, generation,
                 refreshes, owed, done>>

NativeFocus ==
  /\ generation < MaxFocus
  /\ generation' = generation + 1 /\ focused' = FALSE
  /\ refreshes' = refreshes \cup
       {[generation |-> generation', stage |-> "clearing", version |-> 0]}
  /\ entry' = IF active THEN Cancelled(entry) ELSE entry
  /\ UNCHANGED <<query, watching, backend, events, active, command, owed, done>>

NativeBlur ==
  /\ generation < MaxFocus
  /\ generation' = generation + 1 /\ focused' = FALSE
  /\ UNCHANGED <<query, watching, backend, events, entry, active, command, refreshes,
                 owed, done>>

Moved(r, to) == refreshes' = (refreshes \ {r}) \cup {to}

\* invalidateRepoContextCaches; its failure is ignored.
CachesCleared(r) ==
  /\ r.stage = "clearing"
  /\ \/ floor' = version /\ Moved(r, [r EXCEPT !.stage = "cleared", !.version = version])
        /\ UNCHANGED done
     \/ UNCHANGED floor /\ Moved(r, [r EXCEPT !.stage = "cleared"])
        /\ Do("failure", MaxFailures)
  /\ UNCHANGED <<query, watching, version, pending, events, entry, active, command,
                 focused, generation, owed>>

RefreshInvalidates(r) ==
  LET i == Invalidated(entry)
  IN /\ r.stage = "cleared"
     /\ Moved(r, [r EXCEPT !.stage = "refetching"])
     /\ entry' = IF active THEN [i EXCEPT !.fetch.awaited = @ \cup {r.generation}] ELSE i
     /\ owed' = Announced(entry, r.version)
     /\ UNCHANGED <<query, watching, backend, events, active, command, focused,
                    generation, done>>

\* The focus returns once what was refetched has settled.
RefreshEnds(r) ==
  /\ r.stage = "refetching"
  /\ entry.fetch = NoFetch \/ r.generation \notin entry.fetch.awaited
  /\ refreshes' = refreshes \ {r}
  /\ IF r.generation = generation THEN HandleFocus(TRUE) ELSE UNCHANGED <<focused, entry>>
  /\ UNCHANGED <<query, watching, backend, events, active, command, generation, owed,
                 done>>

-----------------------------------------------------------------------------
Next ==
  \/ Mount \/ Unmount \/ Answered \/ FetchFails \/ Retry
  \/ Report \/ ChangeArrives
  \/ CommandReturns \/ CommandFails \/ HookInvalidates
  \/ \E k \in Kinds : RepositoryChanges(k)
  \/ \E c \in Commands : CommandChanges(c)
  \/ \E to \in BOOLEAN : DocumentFocus(to)
  \/ NativeFocus \/ NativeBlur
  \/ \E r \in refreshes : CachesCleared(r) \/ RefreshInvalidates(r) \/ RefreshEnds(r)

Spec == Init /\ [][Next]_vars

-----------------------------------------------------------------------------
(* Properties *)

\* The query shows a result, and nothing that would change it is under way in the webview.
Quiet ==
  /\ active /\ entry.fetch = NoFetch /\ ~entry.error
  /\ \A r \in refreshes : r.stage = "refetching"

\* A result from before a change never outlasts the announcement of the change,
\* whether a report of the watcher, the hook of a command or a refresh announced
\* it and whatever was being fetched meanwhile; except that a hook or a refresh
\* that meets a fetch it does not start anew announces nothing.
AnnouncedIsShown == Quiet => entry.data >= owed

\* Where watching works, a query that is shown catches up with every change,
\* whoever made it: what the backend drops and what the bridge refetches for the
\* change both cover it.  Only the authors are not watched.
WatchedIsCurrent ==
  watching /\ pending = {} /\ events = <<>> /\ Quiet /\ query # "commit authors"
    => entry.data = version

\* The queries and the kinds of changes on which the tables of the two sides
\* disagree: the query reads what the change touches, and either the backend does
\* not drop what it answers it from (cache_namespaces_for_changes) or the bridge
\* does not refetch it (isAffectedByChange).
Disagreements ==
  {p \in Queries \X RepositoryChangeKind :
     /\ p[2] \in Reads(p[1])
     /\ p[1] \notin Affected(p[2]) \/ ~(Namespaces(p[1]) \subseteq Dropped(p[2]))}

\* The tables agree on every query but the authors, which no change refetches.
TablesAgree == watching => Disagreements \subseteq {"commit authors"} \X RepositoryChangeKind

=============================================================================
