# Verification of gitru

gitru is a desktop Git client: a Tauri program whose back end (`crates/git`,
`crates/ipc`, `apps/desktop/src-tauri`) is Rust and whose front end
(`apps/desktop/src`) is React. This directory holds TLA+ modules for the parts
of it that carry state across tasks, threads, webviews, commands and crashes, the
TLC configurations that check them, and proofs checked by TLAPS.

Run TLC as `tlc -workers 2 -config X.cfg M`, with the pairs of module and
configuration listed under *Runs*, and the proofs with `tlapm RepoCacheProofs.tla`
and so on. A run takes between a second and four minutes.

## Inventory

Back end:

| Component | State it keeps | Operations | What is hard |
|---|---|---|---|
| Repository cache (`crates/git/cache.rs`) | `generation`, `namespace_generations`, `entries`, `inflight` | `get_or_refresh`, `invalidate_all`, `invalidate_namespaces` | fetches and invalidations interleave between five critical sections; wake-ups |
| Change coalescer (`crates/ipc/src/repository_watcher.rs`) | pending kinds and revision, wake-up channel of one, `active`, callback gate | `push`, the debouncing task, `activate`, `stop` | a push during the quiet period; a stop during a callback |
| Repository contexts (`repository_watcher.rs`, `commands.rs`) | owner generations, registered contexts and watchers, `AppState.services` | `create_repo_context`, `dispose_repo_context`, `dispose_repo_context_owner` | commands hold neither lock between their steps; a tab closes during a create |
| Interactive rebase (`crates/git/service/rebase.rs`, `operation.rs`) | HEAD, branch, index; `.git/gitru-rebase/*`; the autostash and its marker | start, continue, skip, abort, edit the todo, resolve a conflict | errors and crashes between durable writes; state files read by a later command |
| Diff request queue (`service/request_queue.rs`, `diff.rs`) | latest request per file, cancel flags, worker count | `register_request`, `acquire_worker_slot`, `cleanup_request`, `release_worker_slot` | three separately locked maps, a two-step counter |
| Branch and stash services (`service/branch.rs`, `stash.rs`) | HEAD, branches, worktree, the stash list | switch and create with a strategy, push, pop, drop | sequences of Git commands without a transaction; stashes named by position |
| Commit service (`service/commit.rs`) | HEAD | commit; amend under a lease | HEAD moving between loading a commit and amending it |
| Command runner (`runner.rs`) | a lock per repository path | run, transaction | what a transaction covers |
| Repository store (`crates/ipc/src/repo_manager.rs`) | the list of repositories and the selected one | add, list with refresh, refresh, remove | whole lists written back from snapshots read before an await |
| Clone and pickaxe search (`repository.rs`, `pickaxe.rs`) | registries of cancel flags | start, cancel, finish | a cancellation before the flag exists or after the work is done |
| Session history (`session_manager.rs`) | a list and a position | open, back, forward | sequential |

Front end (`apps/desktop/src`):

| Component | State it keeps | Operations | What is hard |
|---|---|---|---|
| Workspace store and tabs (`store/*`, `bootstrap/app-root.tsx`, `lib/workspace-*`) | tabs, sessions with their snapshots, selections; a store per webview; the persisted one | create, switch, close, drag tabs; choose repository, file, view; report, capture, rehydrate | every tab runs in a webview with a copy of the store; reports cross switches, closings and restarts |
| Tab webviews (`components/webview-tab-host.tsx`) | managed webviews, creations in flight, the desired and the visible tab | ensure, activate, reconcile, prewarm, close | asynchronous functions that overtake one another; creations that fail or outlast their timeout |
| Context registry (`state/core/repo-context-registry.ts`, `tab-context-provider.tsx`, `repository-manager.ts`) | a chain of promises and a context per scope; queries keyed by context | ensure, dispose, disposeAll | switches during a create; queries that return after the disposal |
| Queries and change bridge (`state/core/repository-change-bridge.ts`, `state-manager.ts`, `hooks/use-repository.ts`) | the query cache, generations of the window's focus | announce a change, invalidate after a command, refresh on focus | an invalidation that meets a fetch; two tables in two languages that must agree |
| Commit drafts (`store/use-commit-draft-store.ts`, `write-commit-box.tsx`, `rebase-actions-bar.tsx`) | one draft per webview | type, prefill, load to amend, submit, continue a rebase | one draft for three uses while repository and tab move |
| Branch switching (`current-branch-control.tsx`, action panel, `stash-poc-view.tsx`) | dialogs and their pending choice, the cached "has changes" | choose, confirm, restore and discard stashes | decisions taken on cached state, several callers |
| Action panel, history graph, parsers, command bindings, website, API, component libraries | - | - | nothing that these modules could show, see *Not modelled* |

How they interact. The host window owns the tabs (`WorkspaceTabs`) and a native
webview for each (`TabWebviews`). In a tab's webview the provider follows the
repository of the session and asks the registry, and through it
`create_repo_context`, for a context (`ScopeContexts` over `RepoContexts`). The
context's services hold the cache (`RepoCache`) that every query reads through;
its watcher's coalescer (`ChangeCoalescer`) calls back with the kinds of change,
whereupon the matching cache namespaces are dropped and an event makes the front
end refetch its queries (`RepositoryQueries`). Commands that change the repository
run under the runner's lock (`GitruRebase`, `BranchSwitch`, `CommitDraft`). Diffs go
through the request queue before the cache (`RequestQueue`).

What makes each correct. The *cache* never answers a call with something older
than an invalidation before it, shares fetches, and answers every call. The
*coalescer* loses no change and does not call back after `stop`. *Contexts* do
not outlive their owner and leak neither services nor watchers. A *rebase*
applies what the todo says exactly once, never leaves the branch half-replayed,
can be aborted from everywhere, and gives the user's changes back. The *queue*
tells superseded requests and bounds the others. *Tabs* show and report their own
session and nobody else's. *Webviews* go with their tab, and the active one is
the one that is seen. A *scope* ends with the context of the repository chosen
last and leaves nothing of the others. A *query* shows no result from before a
change it was told of. A *draft* ends up in the commit it was written for. A
*switch* never loses uncommitted work.

## Modules

- `CacheContract` is the abstract specification of the cache: a repository
  version, one floor per namespace, calls that are answered with an error or with
  a version between the floor at the call and now.
- `RepoCache` is the cache step by step. One call of `get_or_refresh` is: read
  the generation, read the namespace generation, look up under the state lock
  (`Hit`, `JoinFlight` or `TakeOff`), then `Subscribe`/`FollowerReturns` for a
  follower and `FetchReturns`/`Store`/`Notify` for a leader. An invalidation is a
  bump and a sweep. A value is the version the fetch read; a ttl may run out at
  any moment (`Expire`). `AtomicSubscribe` tells a current-thread runtime, where
  a follower's lookup and subscription cannot be separated, from the application's
  multi-threaded one. It implements `CacheContract`
  (`ImplementsContract`, refinement mapping: a namespace's floor is the floor of
  its current key).
- `ChangeCoalescer` has three threads: the file watcher in `push`, the task, and
  the owner. The quiet period is one action that may happen whenever the task is
  armed; what the task observed decides what it does then.
- `RepoContexts` names a context by the create that makes it. One action is what
  runs under one lock, or one statement between two.
- `GitruRebase` abstracts a commit to the planned commits whose changes it carries
  and the commit whose message it has; one action is one durable write, so an
  error or a crash may separate any two, the detachment of HEAD and the hard reset
  included (`Detach`, `ResetToOnto`). `written` counts the files of
  `.git/gitru-rebase` that exist, in the order in which they are written, and `named`
  says whether `head-name` names a branch: a rebase may start from a detached HEAD, and
  then has no branch to move at its end (`StayDetached`). Commands run one at a time:
  the runner's transaction is around each of them.
- `RequestQueue` has one action per lock or atomic access of a registration, an
  acquisition and a cleanup, where merging two cannot be told apart from keeping
  them, one for both. A request with a slot goes through the cache: a hit, the
  flight of another request of its file, whose result it shares, or a flight of its
  own, which obeys its own flag. Expired entries may stand in for errors
  (`TakeResult`). `QueueOf` gives the queue of each request; the run has one for all,
  as the type's unit tests do. That followers are woken is assumed here
  (`AtomicSubscribe` of `RepoCache`).
- `WorkspaceStore` holds the operations of the store's slices as functions from a
  store to a store: what the host and every webview run. A file selection is the set
  of kinds and repositories it was chosen from, so that one that lands under another
  tab can be told.
- `WorkspaceTabs` composes one such store for the host, one for each tab's webview
  and one on disk. Events of a webview arrive in order, are lost before the host
  listens, and arrive after their tab was closed; a restart keeps only the disk.
- `TabWebviews` has one action per stretch of code between two awaits of the host's
  asynchronous functions. A call that shows, hides or closes a native webview takes
  effect when made and returns later; a creation may outlast its timeout or fail.
- `ScopeContexts` is the registry's chain of promises for one scope, the effect that
  feeds it, and the queries keyed by its contexts. Of the backend it has what
  `RepoContexts` shows: a context being created retires those of its owner.
- `RepositoryQueries` follows one query, any of twenty-three, through fetches,
  retries, announcements, hooks and refreshes. It holds four tables: what a query
  reads, what the backend drops for a change (Rust), what the bridge refetches for it
  and what each command's hook invalidates (TypeScript). The query library
  (`@tanstack/react-query`) is not part of the repository and is modelled by what
  the code relies on.
- `CommitDraft` abstracts a text to what it was written for: typed in a context, the
  message of a commit, or of a step of a rebase. What was prefilled at a pause is keyed by
  the step of the pause and the message that was on offer there, which may be that of an
  earlier reword (`Offered`). A rebase in progress is running, paused for a reason, or
  stopped by an error without one (`Outcomes`, `StepFails`); the webview cannot tell the
  first from the last (`Seen`). A command of the rebase controls answers after what it did
  (`BarActs`, `RunsOn`, `BarReturns`), or with an error after part of it. A submission is made with the box's button or in the dialog of an empty
  commit, which stays open while a commit is being loaded to be amended
  (`ConfirmsEmpty`). The repository moves under the webview's own commands and others.
- `BranchSwitch` has the picker with its dialogs, panels and the stash view as callers
  of `switch`, `create`, `pop` and `drop`; one action is one Git command, which is
  what the runner's lock keeps whole. Two changes may conflict: a stash applies for
  certain only on the branch and the worktree it was made on.
- `MC...` modules give plans, queue assignments and symmetry to TLC.
- `...Proofs` modules hold the theorems.

Definitions that begin with *Deviation* are plausible bugs: a property is only
kept if putting one of them in place of the definition that follows it makes TLC
find the property violated.

## Runs

| Run (module, cfg) | Question | Bounds, and why they suffice |
|---|---|---|
| `cache_safety` (MCRepoCache, RepoCacheSafety) | freshness, single flight, woken followers, refinement | 3 calls, 1 invalidation, 2 namespaces, 1 change: two leaders of a swept key, a follower, and a call of an untouched namespace; 2.6 million states |
| `cache_lost_wakeup` (MCRepoCache, RepoCacheLostWakeup) | does every call return on many threads: **no** | 2 calls |
| `coalescer` (ChangeCoalescer) | no lost change, hard stop, reporting | 2 kinds, 4 pushes: a push before, during and after a quiet period and one that fills the channel |
| `contexts` (MCRepoContexts, RepoContexts) | epochs, one context per owner, no context returned dead | 3 creates, 1 disposal, 1 closing, 2 owners: a create overtaken by a create and a closing; 620 000 states |
| `rebase` (MCGitruRebase, GitruRebase) | replay, autostash, pauses, the branch and abort under faults, termination | plans of 3 commits, every todo the user can edit them to, from a branch and from a detached HEAD; one fault out of a refused plan, a failing initialisation, pick or pop, and a crash; 6.3 million states |
| `queue_shared` (MCRequestQueue, RequestQueueShared) | supersession, slots, cleanup, shared fetches, termination on one queue | 3 requests, 2 files, 2 slots: a chain of two displacements, a race for the last slot, a follower of a displaced leader; 670 000 states |
| `sessions` (MCWorkspaceTabs, WorkspaceTabs) | tabs isolated, the host told, nothing to repair, drops as previewed | 2 tabs, 2 repositories, 3 acts of the user or restarts, 1 event on its way per webview: a report that arrives after a switch or a closing, a restart with a report pending; 1.5 million states |
| `tab_webviews` (MCTabWebviews, TabWebviews) | no leaked webview, open tabs served, the active one seen alone | 3 tabs, 4 acts: an activation overtaken twice, a tab closed during its prewarm; 3.6 million states |
| `scope_contexts` (ScopeContexts) | the context shown is live and of the repository chosen last, nothing stays behind, the scope settles | 2 repositories, 3 runs of the effect, 3 contexts: a switch during the creation that a switch had begun, an unmount behind it; 3.2 million states |
| `queries` (RepositoryQueries) | what was announced is shown, watched queries catch up, the tables agree | the status and a command that changes all it reads; 1 change, 1 command, 2 focus events, 1 failure: two announcements during one fetch with one to answer before them, two refreshes; 2.5 million states. `TablesAgree` is about all queries and kinds |
| `commit_draft` (MCCommitDraft, CommitDraft) | amends replace what was loaded, new commits have new text, the draft fits the screen | 2 repositories, 1 rebase of 2 steps (reworded or edited, so that the message of the first is left at the second), 2 further commits, 1 submission, 2 calls under way: HEAD moves during an amend, the tab changes during a submission, a commit is loaded under the dialog of an empty one, a command of the rebase fails on the way to the next pause; 9.3 million states |
| `branch_switch` (MCBranchSwitch, BranchSwitch) | no change is lost, rollbacks add up | 2 branches, 2 changes, the picker, 1 panel and the stash view, 2 stashes: a switch that stashes between the stash and the rollback of another; 5.6 million states |

Deadlock is not checked where calls are finite in number and all end, where the
user may stop acting, or where a rebase that has finished is not started again.

### Bounds in the modules

`RepoCache`: `MaxVersion` changes of the repository; each call and invalidation
is made once. `ChangeCoalescer`: `MaxPushes`. `GitruRebase`: `MaxFaults`; a branch that
has been rebased is not rebased again; a directory without a todo can be skipped
in once. `RepoContexts` and `RequestQueue`: each call is made once. `WorkspaceTabs`:
`MaxActs` acts, `MaxEvents` on their way from a webview; a closed tab does not come
back. `TabWebviews`: `MaxActs`; each tab is opened once. `ScopeContexts`: `MaxSwitches`
runs of the effect, `MaxContexts`. `RepositoryQueries`: `MaxChanges`, `MaxCommands`,
`MaxFocus`, `MaxFailures`. `CommitDraft`: `Steps`, `MaxCommits`, `MaxRebases`, `MaxCalls`;
one repository is being rebased at a time. `BranchSwitch`: each change is made once,
`MaxStashes`.

### Fairness

Cache: each call is polled and its fetch returns. Coalescer: the task is polled and its
timer fires, a push and a stop that began end; nothing forces events or a stop.
Rebase: a command gets to its end, and the user who started it resolves conflicts
and continues (`EveryRebaseEnds` is about the sequencer, given such a user).
Queue: a request that was called is polled; slots are polled for, not queued for,
so with finitely many requests weak fairness is enough. Scope contexts: the components
render what changed, and the operation under way goes on, since every call of the
back end is answered or fails; the user is free to go on switching
(`ScopeSettles`). The other front-end modules are
checked for safety only; what must come about there is stated of the states in
which nothing is under way (`LastSwitchWins`, `HostLearnsWhatTabsShow`,
`OpenTabsAreServed`, `WatchedIsCurrent`), which needs no fairness.

## What the models found

With a run: **lost wake-up in the cache** (`cache.rs:162`). A follower leaves the
state lock before it calls `notified()`; `notify_waiters` stores no permit, so a
leader that finishes in between leaves it waiting for ever. Enabling the
`Notified` future before the lock is released, or checking the result again
after subscribing, removes it: that is `AtomicSubscribe = TRUE`, with which the same
configuration passes.

The other disagreements have no run of their own; the properties exempt them, by
name, where the code does not keep them.

Rebase
- Squash and fixup (`rebase.rs:929`) create the amended commit on `HEAD` with HEAD's
  parents, which libgit2 refuses; the next Continue commits the change separately. The
  comments there (898, 910, 928) and the hint "Meld into previous"
  (`rebase-todo-list.tsx:22`) say that the entry amends the commit before.
  `EveryChangeReplayed` leaves open which of the two happens: it asks that the change is
  in HEAD once and in its place, alone or in the commit before it.
- The autostash is saved before the plan is validated and not restored when it is
  refused (`rebase.rs:524`; `StartRefused`, exempted by `AutostashReturned`).
- A failed cherry-pick writes no pause reason, and Continue goes past the commit
  (`rebase.rs:846`; `EveryChangeReplayed` and `PausedChangeIsCommitted` are about
  behaviours without errors).
- A directory without `onto`, left by an interrupted start, makes every start fail
  while the rest of the program calls the repository clean (`rebase.rs:683`,
  `operation.rs:44`).
- The file `message` of a reword outlives it, and a later pick that conflicts is
  committed under it (`rebase.rs:992`, `clear_pause` at 1170; `ContinueMessage`).
- A crash between removing the directory and restoring the autostash leaves the changes
  in the stash list, with nothing that restores them (`rebase.rs:1126`).

Diffs
- Every command makes a queue of its own (`diff.rs:43`, `core.rs:26`), so neither
  the limit on concurrent diffs nor supersession acts between commands. Sharing
  the queue would need care: the token of a leader is used inside the shared fetch
  of the cache (`diff.rs:176`), so that its cancellation reaches the newer request
  that joined it, in the shared queue that the run is about. `SupersededForCause` says
  that this is the only such way.

Tabs and webviews
- Creating or switching a tab freezes the host's own, default selection over the one
  the tab reported last (`store-helpers.ts:440`); a restart shows the loss.
- The normalisation of a persisted snapshot drops the view "Pickaxe"
  (`store-helpers.ts:227`).
- An activation overtaken while `show()` is under way hides or shows the wrong tab;
  a creation that outlasts its timeout leaks its webview when its tab is closed;
  after a failed one the tab stays blank, since `close()` rejects and the entry is
  kept. `ActiveIsSeenAlone`, `NothingOutlivesItsTab` and `OpenTabsAreServed` exempt
  these (ghosts `overtaken`, `late`, `failed`). `docs/testing.md:64` leaves the
  lifecycle of the host's tabs out of the test suite.

Contexts and queries
- `authors()` puts its result in the cache after the context was disposed of
  (`repository-state.ts:444`; ghost `late`).
- An ensure that failed is not tried again until the repository changes (ghost
  `failed`); between render and effect components key the new path with the old
  context.
- The hooks of commands invalidate without cancelling: one that meets a first fetch
  is cleared by its older answer, until the watcher reports (`Announced`). Where
  watching failed nothing reports until the next focus.
- A refresh of the window's focus waits for fetches whose retry is paused until the
  focus is back (`state-manager.ts:75`): neither happens.
- The page cursor of the history graph is shared by all tabs of a repository
  (`graph.rs:271`), so that interleaved page requests skip rows; not modelled.

Drafts
- Continue sends what is in the draft, also where the commit box that would have
  prefilled it is not mounted (`rebase-actions-bar.tsx:66`), contrary to the comment
  in `write-commit-box.tsx:159`; with an empty draft a conflicted pick is committed
  with an empty message (`rebase.rs:991`).
- A submission with nothing staged awaits the staging and then commits to the
  repository shown by then (`write-commit-box.tsx:258`; `NewCommitsHaveNewText` exempts
  it as to the repository).
- The button of the empty-commit dialog does not look at the mode of the draft
  (`write-commit-box.tsx:571`). A commit that was being loaded to be amended when the box
  was left and shown again can land while the dialog is open, and confirming makes a new
  commit with its message (`ConfirmsEmpty`; exempted by `NewCommitsHaveNewText`).
- The file `message` of a reword stays (see *Rebase*), and the back end prefers it
  (`operation.rs:226`): every later pause of that rebase is prefilled with the message of
  the earlier step. `DraftFitsTheScreen` compares the draft with the pause it was
  prefilled at, not with the commit the pause is about.
- A Continue or Skip that fails after it has removed the pause reason
  (`rebase.rs:1017`, `846`) leaves a rebase without one. There the box neither prefills nor
  clears (`write-commit-box.tsx:161`, `186`), so that the draft of the former pause stays
  and the next Continue would send it. `DraftFitsTheScreen` says nothing of such a rebase,
  and of a running one, but holds again at the next pause with a reason and at the end.
- Text typed during a submission is cleared with it (`:273`); remounting the box
  during the amend of an edited step prefills it again; leaving the box loses
  `busy`, so that a second submission can follow the first, which an amend's lease
  refuses.

Branches and stashes
- The view names a stash by the position it had when listed
  (`stash-poc-view.tsx:469`), and switching and creating do not invalidate that list:
  another one can be discarded. The rollback of a failed switch pops whatever is
  first by then (`branch.rs:268`). `NothingIsLost` says that even so a change is
  in the worktree, in a stash, or was discarded by the user.
- `toast.promise` of sonner 2 does not return a promise, so that the panel closes and
  its guard is released at once.

## Proofs

`RepoCacheProofs` proves, for any sets of calls, invalidations and namespaces and
any bound: type correctness; `FreshnessInv` by induction and from it
`FreshAfterInvalidation`; `FlightInv` and from it `SingleFlight` and
`WokenFindsResult`; and `Spec => Contract!Spec`.
The argument: freshness alone is not inductive, since it says nothing of values
not yet returned. `FreshnessInv` adds that every generation has a floor, a version
that the repository had reached when the generation began; that every value held
under a key - in an entry, a flight, a stale local - is no older than the floor
of its key; and that a call's key was current at some moment after the call
began, so that the key's floor is at least the call's. `FlightInv` adds which
call leads each flight, and that a key led by two was swept.

`ContextsProofs` proves `ContextInv` of `RepoContexts` and its consequences for any
number of calls and owners. The key is `TokensInv`: a create's token equals its owner's
generation exactly as long as nothing has superseded it, and no two creates of an
owner have the same one. `CallsInv` says what each call holds at each place.
It assumes `CallsAssumption`: the three kinds of call are disjoint sets.
Of the coalescer that the watcher of each context has (`ChangeCoalescer`), the same
module proves `CoalescerInv` and the safety properties. What makes them inductive: a
batch exists only between its taking and the end of the callback, and while the task is
armed the revision is what it observed plus the pushes since, so that an equal revision
means no push.

Of the registry that a tab's webview keeps of its contexts (`ScopeContexts`) it proves the
four safety properties, and type correctness, for any repositories and any number of
switches and contexts, from `ScopeAssumption` (the two null values are no repository and
no context). The invariant `ScopeInv` says what each stage of the operation under way has
left of the entry and the backend (`Stages`), that components and queries hold on to the
current context or the one being left (`Traces`), that the queue of operations
ends with the one of the effect's last run, which no other has the number of
(`LastRun`), or after an unmount with a disposal (`LastDisposal`), and what the last
operation leaves (`Settled`). Without the run numbers `ReadyIsCurrent` would not be
inductive: only the settling of the last run may end the initialisation.

`RequestQueueProofs` proves `QueueInv` and its consequences for any number of
requests, paths, queues and slots. `SlotsInv` says that the worker count is the
number of live guards, which makes a claim that finds the count it loaded safe;
`DisplacementInv` that a request under way is the latest of its path until it is
displaced and never again, which is why a flag that a registration misses does
no harm; `CausesInv` follows "superseded" from the flag of a leader to its followers.
`NoCircularWait` adds what `EveryRequestReturns` rests on and no run states: full slots
are held by requests at work, and a follower waits for a leader that has its answer or
is fetching it with a slot of its own (`LeadersInv`). No request that waits for a slot
holds up one that has a slot.

`BranchSwitchProofs` proves `NothingIsLost` and `RollbacksAddUp` for any branches,
changes, panels and number of stashes, from `BranchAssumption`. `NothingIsLost` is
inductive with the types. `RollbacksAddUp` is not: rollbacks pop whatever stash is
first, so that no stash belongs to a caller. What holds is a count (`PopsInv`): while
no stash was left behind or discarded, there are no more stashes than callers that
still have one to pop, so that when all are done the last stash is gone.

`GitruRebaseProofs` proves the five safety properties of the rebase for any plans and
any number of faults, from `PlansAssumption` (a plan lists each commit once, as the
revision walk of `plan_rebase` does) and `FaultsAssumption`. `SafeInv` is what holds
whatever fails: which files of the directory exist at each label (`DirInv`), that HEAD
is detached only while all of them do, unless it was from the start (`HeadInv`), where the loop is in the todo
(`LoopInv`), that the branch has moved only when nothing is left to replay
(`BranchInv`), and how far an abort has come (`AbortInv`). From it follow `AbortRestores`
and `BranchMovesLast`. `FaultlessInv` holds while nothing has failed: it matches the
replayed commits with the entries that are done (`Matched`, an order-preserving
function onto the positions that were not skipped), says what the index holds while an
entry awaits its answer (`StagedInv`), why a command paused (`PauseInv`) and where the
autostash is (`StashInv`). `EveryChangeReplayed` is stated with such a function, and not
with the sequences it relates, so that the prover needs no induction over the todo.

`RepositoryQueriesProofs` proves the three properties of `RepositoryQueries` for every
query, changes, commands and bounds, from `WatchedAssumption` and `CommandsAssumption`
(they are of the tables). Three facts make them inductive. `Sound`: a fetch under way
will bring at least what was announced, and a query without one has it, or is stale, or
was when the fetch that would be cancelled began. `ReachInv` and `EventsInv`: whatever
was announced, or will be by a report on its way, a hook or a refresh, can be fetched
already, since the backend drops its namespaces first; for reports this is the lemma
`AffectedIsDropped` about the tables of the two languages. `CoveredInv`: the last change
that the query reads is announced, pending or in a report, which needs
`ReadsAreCovered`, the table lemma behind `TablesAgree`.

`WebviewProofs` is about the webviews of the tabs and the draft that each of them has.
Of `TabWebviews` it proves the three properties for any tabs and any number of actions.
The invariant names, for every webview, the code that will still deal with it:
`CreationInv`, that a webview being created is waited for and that one which outlived
its tab has the end of its task ahead; `ServedInv`, how far the webview of an open tab
has come; `SeenInv`, that what is to be seen besides the active tab's webview is visible
and about to be hidden, or has just been made. The last one rests on the scheduling of
the host: the user acts when no code is ready to run, so that an activation which has
not shown its webview by then waits for a webview that is not there (`SeenWhenIdle`).
Of `CommitDraft` it proves the three properties for any repositories, pauses, steps,
commits and calls, from `DraftAssumption`. `TextInv` ties what a draft says to its key
and to amend mode, with what amend mode has put aside; `BoxEffectsOK` shows that the
effects of the commit box make any such draft fit what is on display (`Fits`), and leave
it as it is where a rebase has no pause reason; `SubmissionsInv` says that a submission
carries what it was made from, however HEAD, the draft and the tab go on, by its kind,
since an empty commit may be confirmed in amend mode; `OrigInv` that an abort has a commit
to return to.

`WorkspaceTabsProofs` proves the four properties of `WorkspaceTabs` for any tabs,
repositories, kinds of selection and any number of acts, events and restarts, from
`StoreAssumption` and `TabsAssumption` (null values are not among the values; a webview
without a store is not a store). It goes in three layers. Each operation of
`WorkspaceStore` has a lemma that says it takes a `Sound` store to a sound one - sessions
and pointers agree with the tabs, what is selected under a repository is of its files -
and what it does to tabs, routes and repositories. About sequences there are lemmas on
order: `SameOrder` compares how two sequences order the elements of a set, and two
sequences without repetition that order the same elements alike are equal
(`SameOrderEqual`), which is proved by counting what comes before an element
(`NotEarlier`), without induction over the length. `Filtered` is written by ranks for the
same reason. The invariant relates the stores: repositories are within what was chosen in the tab, in stores and
events alike (`StoresInv`, `EventsInv`); once the host listens, each bound webview has its
timer armed or is asked for a report, or the last event on its way says what it shows, or
nothing is on its way and the host has it already (`ReportsInv`, which is where the
request for a report after the second listener is needed); and the order previewed has
the tabs and orders all but the dragged one as they are (`DragInv`), so that taking that
one out leaves the same sequence in both, and putting it where the preview has it gives
the preview (`Dropped`).

So every invariant and every action property that a run checks is a theorem, as is the
refinement of the cache contract. Only model-checked: what is temporal beyond that
(`EveryCallReturns`, `ChangesAreReported`, `EveryRebaseEnds`, `EveryRequestReturns`,
`ScopeSettles`), since fairness and ENABLED are beyond the prover. The counterexample of
`cache_lost_wakeup` is TLC's.

## Not modelled

Within the components modelled: plain libgit2 rebases and native ones, the
message set during a pause, dropped or panicking futures, poisoned locks; the
classification of paths by the watcher; the selected repository of a create;
`cleanupAllWebviews` and the resizing of webviews; the view settings that travel as
the view does; what queries return, pagination; merges, reverts, cherry-picks,
co-authors and the message of a Continue in the draft; renaming, deleting and upstreams of branches, labels, `apply`,
`clear` and `restore_file` of stashes. Logging, progress events, the text of messages and the wrapping of
64-bit counters are left out everywhere.

Left out as a whole:
- *Repository store*: its lost updates (`repo_manager.rs:100` and `118`,
  `use-repositories.ts:46`) are two assignments of a list read before an await; a
  model would restate them.
- *Command runner*: its lock is what makes each command one step in the other modules;
  the rest is processes, timeouts and output.
- *Clone and pickaxe search*: registries of cancel flags whose races decide about a
  message.
- *Session history*: a list and a position behind one lock.
- *Action panel*: a stack of views with a search box; its checkout and create views are
  callers in `BranchSwitch`. Most of the front end's lines are components of this
  sort, which render what the stores and queries hold.
- *History graph and parsers*: pure transformations of Git's output, generated
  bindings, the website, its API and the component libraries.

## Plan

What a theorem could still say: for the other liveness properties, as `NoCircularWait`
does for the diff queue, that whoever waits has someone to wait for, such as the disposal
in `ScopeContexts` that waits for components to render without the context; and that the
backend of `ScopeContexts` is `RepoContexts` seen by one owner (it takes for granted
`OneContextPerOwner` and `ReturnedContextsLive`, which `ContextsProofs` proves). What a
model could still say is under *Not modelled*; of it the merges and co-authors of the
draft and the upstreams of branches would change the modules that exist.
