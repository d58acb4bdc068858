---------------------------- MODULE ScopeContexts ----------------------------
(***************************************************************************)
(* How the webview of a tab comes by the repository context it shows: the  *)
(* provider (tab-context-provider.tsx) follows the repository of the       *)
(* session, the registry (repo-context-registry.ts) runs the ensures and   *)
(* disposals of the scope one after the other, the backend creates and     *)
(* disposes the contexts, and the queries cached for a context go with it  *)
(* (repository-manager.ts).                                                *)
(*                                                                         *)
(* The backend is what RepoContexts shows of it: a context that is being   *)
(* created retires those its owner has.  The components render before the  *)
(* backend answers the next call.                                          *)
(***************************************************************************)
EXTENDS Naturals, Sequences, FiniteSets

CONSTANTS Repos, NoRepo, NoScopeContext,
          MaxSwitches, MaxContexts        \* bounds

ASSUME ScopeAssumption ==
  /\ NoRepo \notin Repos
  /\ NoScopeContext \notin Nat
  /\ MaxSwitches \in Nat /\ MaxContexts \in Nat

VARIABLES
  repo,          \* of the active session
  synced,        \* the repository that the last run of the effect was for
  run,           \* the number of that run; the runs before it are cancelled
  mounted, initializing,
  queue,         \* operationsByScope: the operations not settled yet
  stage,         \* where the first of them is
  leaving,       \* the context it disposes of
  entry,         \* contextsByScope
  rendered,      \* the context and the repository the components rendered with
  cached,        \* the contexts and paths that queries are cached for
  listing,       \* those whose authors are being fetched
  live, repoOf,  \* the contexts of the backend
  next,
  failed, late   \* ghosts: the last ensure failed; contexts whose authors came late

session == <<repo, synced, run, mounted>>
registry == <<queue, stage, leaving, entry>>
queries == <<cached, listing, late>>
backend == <<live, repoOf, next>>
scopeVars == <<session, initializing, registry, rendered, queries, backend, failed>>

Contexts == 1..MaxContexts
MaybeRepo == Repos \cup {NoRepo}
NoEntry == [repo |-> NoRepo, context |-> NoScopeContext]
Entry == [repo : Repos, context : Contexts] \cup {NoEntry}
\* repo NoRepo for disposeScope
Operation == [repo : MaybeRepo, run : 0..MaxSwitches]

ScopeTypeOK ==
  /\ repo \in MaybeRepo /\ synced \in MaybeRepo /\ run \in 0..MaxSwitches
  /\ mounted \in BOOLEAN /\ initializing \in BOOLEAN
  /\ queue \in Seq(Operation)
  /\ stage \in {"waiting", "disposing", "forgetting", "creating"}
  /\ leaving \in Contexts \cup {NoScopeContext} /\ entry \in Entry
  /\ rendered \in [context : Contexts \cup {NoScopeContext}, repo : MaybeRepo]
  /\ cached \subseteq Contexts \X Repos
  /\ listing \subseteq Contexts \X Repos /\ late \subseteq Contexts
  /\ live \subseteq Contexts /\ repoOf \in [Contexts -> MaybeRepo]
  /\ next \in 1..(MaxContexts + 1) /\ failed \in BOOLEAN

ScopeInit ==
  /\ repo \in MaybeRepo /\ synced = repo /\ run = 0
  /\ mounted = TRUE /\ initializing = (repo # NoRepo)
  /\ queue = <<[repo |-> repo, run |-> 0]>> /\ stage = "waiting"
  /\ leaving = NoScopeContext /\ entry = NoEntry
  /\ rendered = [context |-> NoScopeContext, repo |-> repo]
  /\ cached = {} /\ listing = {} /\ late = {}
  /\ live = {} /\ repoOf = [c \in Contexts |-> NoRepo] /\ next = 1
  /\ failed = FALSE

-----------------------------------------------------------------------------
(* The provider *)

\* The user chooses a repository, or the session loses the one it has.
SwitchRepository(r) ==
  /\ r # repo
  /\ repo' = r
  /\ UNCHANGED <<synced, run, mounted, initializing, registry, rendered, queries,
                 backend, failed>>

Render ==
  /\ mounted
  /\ rendered' = [context |-> entry.context, repo |-> repo]
  /\ UNCHANGED <<session, initializing, registry, queries, backend, failed>>

\* The effect that follows the repository; its earlier runs are cancelled.
Sync ==
  /\ mounted /\ synced # repo /\ rendered.repo = repo /\ run < MaxSwitches
  /\ synced' = repo /\ run' = run + 1
  /\ initializing' = (repo # NoRepo)
  /\ queue' = Append(queue, [repo |-> repo, run |-> run'])
  /\ UNCHANGED <<repo, mounted, stage, leaving, entry, rendered, queries, backend,
                 failed>>

\* Deviation: the scopes that have a context, and no others.
DisposeAllKnown ==
  IF entry # NoEntry THEN Append(queue, [repo |-> NoRepo, run |-> run]) ELSE queue

\* disposeAll, when the provider unmounts: every scope that has a context or an
\* operation under way.
DisposeAll ==
  IF entry # NoEntry \/ queue # <<>>
  THEN Append(queue, [repo |-> NoRepo, run |-> run]) ELSE queue

Unmount ==
  /\ mounted /\ synced = repo
  /\ mounted' = FALSE
  /\ rendered' = [rendered EXCEPT !.context = NoScopeContext]
  /\ queue' = DisposeAll
  /\ UNCHANGED <<repo, synced, run, initializing, stage, leaving, entry, queries,
                 backend, failed>>

\* React mounts the provider again at once, as in its strict mode.
Remount ==
  /\ mounted /\ synced = repo /\ run < MaxSwitches
  /\ run' = run + 1 /\ initializing' = (repo # NoRepo)
  /\ queue' = Append(DisposeAll, [repo |-> repo, run |-> run'])
  /\ UNCHANGED <<repo, synced, mounted, stage, leaving, entry, rendered, queries,
                 backend, failed>>

-----------------------------------------------------------------------------
(* The operations of the registry; the first of the queue is under way *)

Operating == Head(queue)

\* Deviation: any call of the effect clears the flag.
SettleAnyRun ==
  /\ queue' = Tail(queue) /\ stage' = "waiting" /\ leaving' = NoScopeContext
  /\ initializing' = FALSE

\* The operation settles, and so does the call of the effect, which heeds it
\* unless it was cancelled.
Settle ==
  /\ queue' = Tail(queue) /\ stage' = "waiting" /\ leaving' = NoScopeContext
  /\ initializing' = (initializing /\ ~(mounted /\ Operating.run = run))

\* What the operation asks for is there: no entry for a disposal, the context of
\* the repository for an ensure.  Otherwise the backend begins a context, which
\* retires the ones the owner may still have.
GoOn ==
  IF entry.repo = Operating.repo
  THEN Settle /\ failed' = FALSE /\ UNCHANGED live
  ELSE /\ stage' = "creating" /\ leaving' = NoScopeContext /\ live' = {}
       /\ UNCHANGED <<initializing, queue, failed>>

OperationBegins ==
  /\ queue # <<>> /\ stage = "waiting"
  /\ entry = NoEntry \/ entry.repo = Operating.repo
  /\ GoOn
  /\ UNCHANGED <<session, entry, rendered, queries, repoOf, next>>

\* Deviation: the entry stays until the next context replaces it.
DropLater ==
  /\ queue # <<>> /\ stage = "waiting"
  /\ entry # NoEntry /\ entry.repo # Operating.repo
  /\ leaving' = entry.context /\ stage' = "disposing"
  /\ UNCHANGED <<session, initializing, queue, entry, rendered, queries, backend, failed>>

\* The entry is dropped, and the listeners told, before the context is disposed of.
Drop ==
  /\ queue # <<>> /\ stage = "waiting"
  /\ entry # NoEntry /\ entry.repo # Operating.repo
  /\ entry' = NoEntry /\ leaving' = entry.context /\ stage' = "disposing"
  /\ UNCHANGED <<session, initializing, queue, rendered, queries, backend, failed>>

\* disposeRepoContext returns, or fails because the context is gone.
ContextDisposed ==
  /\ stage = "disposing" /\ rendered.context # leaving
  /\ live' = live \ {leaving}
  /\ stage' = "forgetting"
  /\ UNCHANGED <<session, initializing, queue, leaving, entry, rendered, queries,
                 repoOf, next, failed>>

\* Deviation: the queries of the context's own path.
ForgottenByPath(c) == {key \in cached : key = <<c, repoOf[c]>>}

\* The queries of the context, whatever their path.
Forgotten(c) == {key \in cached : key[1] = c}

QueriesRemoved ==
  /\ stage = "forgetting"
  /\ cached' = cached \ Forgotten(leaving)
  /\ GoOn
  /\ UNCHANGED <<session, entry, rendered, listing, late, repoOf, next>>

ContextCreated ==
  /\ stage = "creating" /\ next <= MaxContexts
  /\ live' = live \cup {next} /\ repoOf' = [repoOf EXCEPT ![next] = Operating.repo]
  /\ next' = next + 1
  /\ entry' = [repo |-> Operating.repo, context |-> next]
  /\ Settle /\ failed' = FALSE
  /\ UNCHANGED <<session, rendered, queries>>

\* Deviation: the flag is cleared after the call, not in a finally.
CreationFailsUncaught ==
  /\ stage = "creating"
  /\ queue' = Tail(queue) /\ stage' = "waiting" /\ leaving' = NoScopeContext
  /\ failed' = TRUE
  /\ UNCHANGED <<session, initializing, entry, rendered, queries, backend>>

CreationFails ==
  /\ stage = "creating"
  /\ Settle
  /\ failed' = TRUE
  /\ UNCHANGED <<session, entry, rendered, queries, backend>>

-----------------------------------------------------------------------------
(* The queries of the components *)

\* A query is cached, or fetched again, under the context and the path that the
\* component rendered with.
Query ==
  /\ rendered.context # NoScopeContext /\ rendered.repo # NoRepo
  /\ cached' = cached \cup {<<rendered.context, rendered.repo>>}
  /\ UNCHANGED <<session, initializing, registry, rendered, listing, late, backend,
                 failed>>

\* The authors are put into the cache when they arrive, whether or not the
\* query that fetched them was cancelled and removed.
ListAuthors ==
  /\ <<rendered.context, rendered.repo>> \in cached
  /\ listing' = listing \cup {<<rendered.context, rendered.repo>>}
  /\ UNCHANGED <<session, initializing, registry, rendered, cached, late, backend,
                 failed>>

AuthorsArrive(key) ==
  /\ key \in listing
  /\ listing' = listing \ {key}
  /\ cached' = cached \cup {key}
  /\ late' = IF key[1] \in {entry.context, leaving} THEN late ELSE late \cup {key[1]}
  /\ UNCHANGED <<session, initializing, registry, rendered, backend, failed>>

Operate ==
  \/ Drop \/ ContextDisposed \/ QueriesRemoved
  \/ OperationBegins \/ ContextCreated \/ CreationFails

ScopeNext ==
  \/ \E r \in MaybeRepo : SwitchRepository(r)
  \/ Render \/ Sync \/ Unmount \/ Remount
  \/ Operate
  \/ Query \/ ListAuthors \/ \E key \in listing : AuthorsArrive(key)

ScopeSpec == ScopeInit /\ [][ScopeNext]_scopeVars

\* The components render what they are told, and the backend answers.
ScopeFairness == WF_scopeVars(Render) /\ WF_scopeVars(Operate)
ScopeFairSpec == ScopeSpec /\ ScopeFairness

-----------------------------------------------------------------------------
(* Properties *)

\* A context is shown from its creation until before its disposal, and for the
\* repository it was created for.
ShownIsLive ==
  entry # NoEntry => entry.context \in live /\ repoOf[entry.context] = entry.repo

\* While the provider calls the context ready, it is the context of the session's
\* repository, after any sequence of switches, failures and remounts.
ReadyIsCurrent ==
  mounted /\ synced = repo /\ repo # NoRepo /\ ~initializing /\ entry # NoEntry
    => entry.repo = repo

\* No context, and no query of one, stays behind when the scope moves on, but for
\* authors that arrive after it did.
NothingStaysBehind ==
  /\ live \subseteq {entry.context, leaving}
  /\ \A key \in cached : key[1] \in {entry.context, leaving} \cup late

\* When the operations have settled the scope has the context of the session's
\* repository, if the backend could create it, and none once it is unmounted.
LastSwitchWins ==
  queue = <<>> /\ synced = repo =>
    IF mounted /\ repo # NoRepo THEN entry.repo = repo \/ failed
    ELSE entry = NoEntry

\* Whatever is overtaken or fails, the scope comes to rest again and its provider
\* does not go on initializing.
ScopeSettles == []<>(queue = <<>> /\ (mounted => ~initializing))
=============================================================================
