------------------------ MODULE RepositoryQueriesProofs ------------------------
(***************************************************************************)
(* For any query, changes, commands and bounds.                            *)
(*                                                                         *)
(* What is announced to a query is shown: a fetch under way brings at      *)
(* least what was announced, and a query without one has it, or is stale   *)
(* and will be refetched before it is quiet.  Where watching works the     *)
(* last change of what the query reads is announced, or on its way, since  *)
(* the tables of the backend and of the bridge agree.                      *)
(***************************************************************************)
EXTENDS RepositoryQueries, SequenceTheorems, TLAPS

Event == [kinds : SUBSET RepositoryChangeKind, version : Nat]
Fetch == [floor : Nat, failed : BOOLEAN, was : BOOLEAN, awaited : SUBSET Nat]
Entry == [data : Nat \cup {NoData}, invalid : BOOLEAN, error : BOOLEAN, fetch : Fetch]
Refresh ==
  [generation : Nat \ {0}, stage : {"clearing", "cleared", "refetching"}, version : Nat]
Command ==
  [name : DOMAIN Changes \cup {"none"}, stage : {"none", "changed", "returned"}, version : Nat]

TypeOK ==
  /\ query \in Watched /\ watching \in BOOLEAN
  /\ version \in Nat /\ floor \in Nat /\ pending \subseteq RepositoryChangeKind
  /\ events \in Seq(Event) /\ entry \in Entry /\ active \in BOOLEAN /\ command \in Command
  /\ focused \in BOOLEAN /\ generation \in Nat /\ refreshes \subseteq Refresh
  /\ owed \in Nat /\ done \in [{"change", "command", "failure"} -> Nat]

\* What a fetch that starts now is answered with at least.
Reach == IF Namespaces(query) = {} THEN version ELSE floor

Concerns(kinds) == \E k \in kinds : query \in Affected(k)

\* What is announced can be fetched, ...
ReachInv ==
  /\ floor <= version /\ owed <= Reach
  /\ command.stage = "returned" => command.version <= Reach
  /\ \A r \in refreshes : r.version <= Reach

\* ... and so can what the reports on their way will announce.
EventsInv ==
  \A i \in 1..Len(events) :
    /\ events[i].version <= version
    /\ Concerns(events[i].kinds) => events[i].version <= Reach

\* A fetch brings what was announced.  The query has it or is stale, also after a
\* cancellation.
Sound(e, announced) ==
  /\ e.data <= version
  /\ e.fetch # NoFetch =>
       /\ announced <= e.fetch.floor /\ e.fetch.floor <= version
       /\ 0 \notin e.fetch.awaited
  /\ \/ e.data >= announced \/ e.data = NoData
     \/ IF e.fetch = NoFetch THEN e.invalid ELSE e.fetch.was

EntryInv == Sound(entry, owed)

\* What is shown is not stale, unless its last fetch was given up or a refresh is
\* about to refetch it.
ShownInv ==
  active /\ entry.fetch = NoFetch /\ ~entry.error =>
    entry.data >= owed \/ \E r \in refreshes : r.stage # "refetching"

\* What the query reads has its last change announced, or on its way.
CoveredInv == watching /\ query # "commit authors" =>
  \/ owed = version
  \/ pending \cap Reads(query) # {}
  \/ \E i \in 1..Len(events) :
       events[i].kinds \cap Reads(query) # {} /\ events[i].version = version

IInv == TypeOK /\ ReachInv /\ EventsInv /\ EntryInv /\ ShownInv /\ CoveredInv

-----------------------------------------------------------------------------
(* The tables *)

LEMMA ReadsAreKinds == \A q \in Queries : Reads(q) \subseteq RepositoryChangeKind
  BY DEF Queries, BranchQueries, DiffQueries, CommitQueries, StashQueries, Reads,
     RepositoryChangeKind

\* A change of what a query reads drops what the backend answers it from, and has
\* the bridge refetch it.
LEMMA ReadsAreCovered ==
  ASSUME NEW q \in Queries \ {"commit authors"}, NEW k \in Reads(q)
  PROVE  q \in Affected(k) /\ Namespaces(q) \subseteq Dropped(k)
<1> USE DEF Queries, BranchQueries, DiffQueries, CommitQueries, StashQueries, Reads,
        Affected, Namespaces, Dropped, CommitTimeline
<1>1. CASE k = "worktree"
  BY <1>1
<1>2. CASE k = "index"
  BY <1>2
<1>3. CASE k = "head"
  BY <1>3
<1>4. CASE k = "refs"
  BY <1>4
<1>5. CASE k = "stash"
  BY <1>5
<1>6. CASE k = "operation"
  BY <1>6
<1>7. CASE k = "config"
  BY <1>7
<1> QED
  BY ReadsAreKinds, <1>1, <1>2, <1>3, <1>4, <1>5, <1>6, <1>7 DEF RepositoryChangeKind

\* What the bridge refetches, the backend has dropped.
LEMMA AffectedIsDropped ==
  ASSUME NEW k \in RepositoryChangeKind, NEW q \in Queries, q \in Affected(k)
  PROVE  Namespaces(q) \subseteq Dropped(k)
<1> USE DEF Queries, BranchQueries, DiffQueries, CommitQueries, StashQueries, Affected,
        Namespaces, Dropped, CommitTimeline
<1>1. CASE k = "worktree"
  BY <1>1
<1>2. CASE k = "index"
  BY <1>2
<1>3. CASE k = "head"
  BY <1>3
<1>4. CASE k = "refs"
  BY <1>4
<1>5. CASE k = "stash"
  BY <1>5
<1>6. CASE k = "operation"
  BY <1>6
<1>7. CASE k = "config"
  BY <1>7
<1> QED
  BY <1>1, <1>2, <1>3, <1>4, <1>5, <1>6, <1>7 DEF RepositoryChangeKind

LEMMA MergedKinds ==
  ASSUME NEW tables,
         \A t \in tables : \A x \in DOMAIN t : t[x] \subseteq RepositoryChangeKind
  PROVE  \A x \in DOMAIN Merged(tables) : Merged(tables)[x] \subseteq RepositoryChangeKind
<1> SUFFICES ASSUME NEW x \in DOMAIN Merged(tables)
             PROVE  Merged(tables)[x] \subseteq RepositoryChangeKind
  OBVIOUS
<1> DEFINE t == CHOOSE t \in tables : x \in DOMAIN t
<1>1. x \in UNION {DOMAIN s : s \in tables} /\ Merged(tables)[x] = t[x]
  BY DEF Merged
<1>2. t \in tables /\ x \in DOMAIN t
  BY <1>1
<1> QED
  BY <1>1, <1>2

LEMMA ChangesAreKinds ==
  \A c \in DOMAIN Changes : Changes[c] \subseteq RepositoryChangeKind
<1> USE DEF Local, RepositoryChangeKind
<1>1. \A c \in DOMAIN FileCommands : FileCommands[c] \subseteq RepositoryChangeKind
  BY DEF FileCommands
<1>2. \A c \in DOMAIN BranchCommands : BranchCommands[c] \subseteq RepositoryChangeKind
  BY DEF BranchCommands
<1>3. \A c \in DOMAIN CommitCommands : CommitCommands[c] \subseteq RepositoryChangeKind
  BY DEF CommitCommands
<1>4. \A c \in DOMAIN StashCommands : StashCommands[c] \subseteq RepositoryChangeKind
  BY DEF StashCommands
<1>5. \A c \in DOMAIN OperationCommands : OperationCommands[c] \subseteq RepositoryChangeKind
  <2> DEFINE steps == [x \in {"start", "continue", "skip", "abort"} |->
                         Local \cup {"head", "refs", "stash", "operation"}]
             edits == [updateTodo |-> {"operation"}, resolveConflict |-> Local]
  <2>1. /\ \A x \in DOMAIN steps : steps[x] \subseteq RepositoryChangeKind
        /\ \A x \in DOMAIN edits : edits[x] \subseteq RepositoryChangeKind
    OBVIOUS
  <2> HIDE DEF Local, RepositoryChangeKind, steps, edits
  <2>2. OperationCommands = Merged({steps, edits})
    BY DEF OperationCommands, steps, edits
  <2> QED
    BY <2>1, <2>2, MergedKinds
<1> HIDE DEF Local, RepositoryChangeKind
<1> QED
  BY <1>1, <1>2, <1>3, <1>4, <1>5, MergedKinds DEF Changes

-----------------------------------------------------------------------------
(* The operators of the query library *)

USE DEF backend, focus

LEMMA MaxOfTwo ==
  ASSUME NEW a \in Int, NEW b \in Int
  PROVE  /\ Max({a, b}) \in {a, b} /\ Max({a, b}) >= a /\ Max({a, b}) >= b
<1>1. \E x \in {a, b} : \A y \in {a, b} : x >= y
  OBVIOUS
<1> QED
  BY <1>1 DEF Max

LEMMA NoFetchIsFetch == NoFetch \in Fetch
  BY DEF NoFetch, Fetch

LEMMA NewFetchFacts ==
  ASSUME TypeOK, NEW e \in Entry
  PROVE  /\ NewFetch(e) \in Fetch /\ NewFetch(e) # NoFetch /\ NewFetch(e).floor = Reach
         /\ NewFetch(e).was = e.invalid /\ NewFetch(e).awaited = {} /\ ~NewFetch(e).failed
<1>1. NewFetch(e) = [floor |-> Reach, failed |-> FALSE, was |-> e.invalid, awaited |-> {}]
  BY DEF NewFetch, Reach
<1>2. NewFetch(e).awaited # NoFetch.awaited
  BY <1>1 DEF NoFetch
<1> QED
  BY <1>1, <1>2 DEF TypeOK, Entry, Fetch, Reach

\* A fetch is started unless one is under way.
LEMMA FetchedFacts ==
  ASSUME TypeOK, NEW e \in Entry
  PROVE  /\ Fetched(e) \in Entry /\ Fetched(e).fetch # NoFetch
         /\ Fetched(e).data = e.data /\ Fetched(e).invalid = e.invalid
         /\ Fetched(e).error = e.error
         /\ Fetched(e).fetch = IF e.fetch = NoFetch THEN NewFetch(e) ELSE e.fetch
<1>1. NewFetch(e) \in Fetch /\ NewFetch(e) # NoFetch
  BY NewFetchFacts
<1> QED
  BY <1>1 DEF Fetched, Entry

LEMMA CancelledFacts ==
  ASSUME NEW e \in Entry
  PROVE  /\ Cancelled(e) \in Entry /\ Cancelled(e).fetch = NoFetch
         /\ Cancelled(e).data = e.data /\ Cancelled(e).error = e.error
         /\ Cancelled(e).invalid = IF e.fetch = NoFetch THEN e.invalid ELSE e.fetch.was
<1>1. NoFetch \in Fetch /\ e.fetch \in Fetch /\ e.fetch.was \in BOOLEAN
  BY NoFetchIsFetch DEF Entry, Fetch
<1> QED
  BY <1>1 DEF Cancelled, Entry

\* An invalidation starts a fetch of a query that is shown, anew if it has data.
LEMMA InvalidatedFacts ==
  ASSUME TypeOK, NEW e \in Entry
  PROVE  /\ Invalidated(e) \in Entry /\ Invalidated(e).invalid
         /\ Invalidated(e).data = e.data /\ Invalidated(e).error = e.error
         /\ active => Invalidated(e).fetch # NoFetch
         /\ IF active /\ (e.data # NoData \/ e.fetch = NoFetch)
            THEN /\ Invalidated(e).fetch.floor = Reach /\ Invalidated(e).fetch.was
                 /\ Invalidated(e).fetch.awaited = {}
            ELSE Invalidated(e).fetch = e.fetch
<1> DEFINE i == [e EXCEPT !.invalid = TRUE]
<1>1. /\ i \in Entry /\ i.invalid /\ i.data = e.data /\ i.error = e.error
      /\ i.fetch = e.fetch
  BY DEF Entry
<1>2. Invalidated(e) = IF active THEN Refetched(i) ELSE i
  BY DEF Invalidated
<1> HIDE DEF i
<1>3. /\ NewFetch(i) \in Fetch /\ NewFetch(i) # NoFetch /\ NewFetch(i).floor = Reach
      /\ NewFetch(i).was /\ NewFetch(i).awaited = {}
  BY <1>1, NewFetchFacts
<1>4. CASE ~active
  BY <1>1, <1>2, <1>4
<1>5. CASE active /\ e.data = NoData
  BY <1>1, <1>2, <1>3, <1>5, FetchedFacts DEF Refetched
<1>6. CASE active /\ e.data # NoData
  <2>1. Invalidated(e) = [i EXCEPT !.fetch = NewFetch(i)]
    BY <1>1, <1>2, <1>6 DEF Refetched
  <2> QED
    BY <1>1, <1>3, <1>6, <2>1 DEF Entry
<1> QED
  BY <1>4, <1>5, <1>6 DEF TypeOK

LEMMA DoFacts ==
  ASSUME TypeOK, NEW what \in {"change", "command", "failure"}, NEW bound, Do(what, bound)
  PROVE  done' \in [{"change", "command", "failure"} -> Nat]
  BY DEF TypeOK, Do

LEMMA AnnouncedFacts ==
  ASSUME TypeOK, NEW v \in Nat
  PROVE  /\ Announced(entry, v) \in Nat /\ Announced(entry, v) \in {owed, v}
         /\ Announced(entry, v) >= owed
         /\ \/ entry.fetch = NoFetch \/ (active /\ entry.data # NoData)
            \/ Announced(entry, v) = owed
<1>1. owed \in Nat /\ owed \in Int /\ v \in Int /\ active \in BOOLEAN
  BY DEF TypeOK
<1>2. CASE entry.fetch # NoFetch /\ (entry.data = NoData \/ ~active)
  BY <1>1, <1>2 DEF Announced
<1>3. CASE ~(entry.fetch # NoFetch /\ (entry.data = NoData \/ ~active))
  <2>1. Announced(entry, v) = Max({owed, v})
    BY <1>3 DEF Announced
  <2>2. Max({owed, v}) \in {owed, v} /\ Max({owed, v}) >= owed
    BY <1>1, MaxOfTwo
  <2> QED
    BY <1>1, <1>3, <2>1, <2>2
<1> QED
  BY <1>2, <1>3

LEMMA SoundFetched ==
  ASSUME TypeOK, NEW e \in Entry, NEW o \in Nat, Sound(e, o), o <= Reach, Reach <= version
  PROVE  Sound(Fetched(e), o)
<1>1. CASE e.fetch = NoFetch
  <2>1. /\ Fetched(e).fetch.floor = Reach /\ Fetched(e).fetch.was = e.invalid
        /\ Fetched(e).fetch.awaited = {} /\ Fetched(e).data = e.data
        /\ Fetched(e).fetch # NoFetch
    BY <1>1, FetchedFacts, NewFetchFacts
  <2> QED
    BY <1>1, <2>1 DEF Sound
<1>2. CASE e.fetch # NoFetch
  BY <1>2 DEF Fetched
<1> QED
  BY <1>1, <1>2

LEMMA SoundCancelled ==
  ASSUME NEW e \in Entry, NEW o \in Nat, Sound(e, o)
  PROVE  Sound(Cancelled(e), o)
  BY CancelledFacts DEF Sound

LEMMA SoundInvalidated ==
  ASSUME TypeOK, NEW e \in Entry, NEW o \in Nat, NEW p \in Nat, Sound(e, o),
         p <= Reach, Reach <= version,
         e.fetch = NoFetch \/ (active /\ e.data # NoData) \/ p = o
  PROVE  Sound(Invalidated(e), p)
<1> DEFINE i == Invalidated(e)
<1>1. i.data = e.data /\ i.invalid /\ (active => i.fetch # NoFetch)
  BY InvalidatedFacts
<1>2. CASE active /\ (e.data # NoData \/ e.fetch = NoFetch)
  <2>1. i.fetch.floor = Reach /\ i.fetch.was /\ i.fetch.awaited = {}
    BY <1>2, InvalidatedFacts
  <2> HIDE DEF i
  <2>2. Sound(i, p)
    BY <1>1, <1>2, <2>1 DEF Sound
  <2> QED
    BY <2>2 DEF i
<1>3. CASE ~(active /\ (e.data # NoData \/ e.fetch = NoFetch))
  <2>1. i.fetch = e.fetch
    BY <1>3, InvalidatedFacts
  <2> HIDE DEF i
  <2>2. Sound(i, p)
    BY <1>1, <1>3, <2>1 DEF Sound
  <2> QED
    BY <2>2 DEF i
<1> QED
  BY <1>2, <1>3

LEMMA GivenUpFacts ==
  ASSUME NEW e \in Entry, NEW o \in Nat, Sound(e, o)
  PROVE  GivenUp(e) \in Entry /\ GivenUp(e).error /\ Sound(GivenUp(e), o)
<1>1. /\ GivenUp(e) \in Entry /\ GivenUp(e).error /\ GivenUp(e).invalid
      /\ GivenUp(e).data = e.data /\ GivenUp(e).fetch = NoFetch
  BY NoFetchIsFetch DEF GivenUp, Entry
<1> QED
  BY <1>1 DEF Sound

LEMMA EventFacts ==
  ASSUME TypeOK, NEW i \in 1..Len(events)
  PROVE  /\ events[i] \in Event /\ events[i].version \in Nat
         /\ events[i].kinds \subseteq RepositoryChangeKind
<1>1. events \in Seq(Event)
  BY DEF TypeOK
<1>2. events[i] \in Event
  BY <1>1, ElementOfSeq
<1> QED
  BY <1>2 DEF Event

LEMMA ReachFacts ==
  ASSUME IInv
  PROVE  Reach \in Nat /\ Reach <= version /\ owed <= Reach
  BY DEF IInv, TypeOK, ReachInv, Reach

-----------------------------------------------------------------------------
\* What only concerns the webview leaves the backend and the reports alone.
LEMMA WebviewKeeps ==
  ASSUME IInv, UNCHANGED <<query, watching, backend, events>>,
         owed' \in Nat, owed' >= owed, owed' <= Reach,
         command' = command \/ command' = NoCommand,
         \A r \in refreshes' : r.version <= Reach
  PROVE  ReachInv' /\ EventsInv' /\ CoveredInv'
<1>1. Reach' = Reach
  BY DEF Reach
<1>2. ReachInv'
  BY <1>1 DEF IInv, ReachInv, NoCommand
<1>3. EventsInv'
  BY <1>1 DEF IInv, EventsInv, Concerns
<1>4. CoveredInv'
  <2>1. owed = version => owed' = version'
    BY ReachFacts DEF IInv, TypeOK
  <2> QED
    BY <2>1 DEF IInv, CoveredInv
<1> QED
  BY <1>2, <1>3, <1>4

\* What only concerns the backend leaves the query alone.
LEMMA BackendKeeps ==
  ASSUME IInv, UNCHANGED <<query, entry, active, owed, refreshes>>,
         version' \in Nat, version' >= version
  PROVE  EntryInv' /\ ShownInv'
<1>1. EntryInv'
  BY DEF IInv, TypeOK, EntryInv, Sound, Entry, Fetch, NoData
<1>2. ShownInv'
  BY DEF IInv, ShownInv
<1> QED
  BY <1>1, <1>2

\* What is announced to a query that is refetched, or shown as it is and not stale.
LEMMA SettledEntry ==
  ASSUME IInv, UNCHANGED <<version, owed>>, UNCHANGED active \/ ~Stale(entry),
         \A r \in refreshes : r.stage # "refetching" => r \in refreshes',
         entry' = Fetched(entry) \/ entry' = entry
  PROVE  entry' \in Entry /\ EntryInv' /\ ShownInv'
<1>1. entry \in Entry /\ owed \in Nat /\ TypeOK /\ Sound(entry, owed)
  BY DEF IInv, TypeOK, EntryInv
<1>2. CASE entry' = Fetched(entry)
  <2>1. entry' \in Entry /\ entry'.fetch # NoFetch
    BY <1>1, <1>2, FetchedFacts
  <2>2. Sound(entry', owed')
    BY <1>1, <1>2, SoundFetched, ReachFacts
  <2> QED
    BY <2>1, <2>2 DEF EntryInv, ShownInv, Sound
<1>3. CASE entry' = entry
  <2>1. EntryInv'
    BY <1>1, <1>3 DEF EntryInv, Sound
  <2>2. CASE active' = active
    <3>1. ShownInv /\ owed' = owed
      BY DEF IInv
    <3> QED
      BY <1>1, <1>3, <2>1, <2>2, <3>1 DEF ShownInv
  <2>3. CASE ~Stale(entry)
    <3>1. entry.fetch = NoFetch => entry.data >= owed
      BY <1>1, <2>3 DEF Sound, Stale
    <3> QED
      BY <1>1, <1>3, <2>1, <3>1 DEF ShownInv
  <2> QED
    BY <1>1, <1>3, <2>1, <2>2, <2>3
<1> QED
  BY <1>2, <1>3

-----------------------------------------------------------------------------
(* The actions of the webview *)

LEMMA MountKeeps ==
  ASSUME IInv, Mount
  PROVE  IInv'
<1>1. entry' \in Entry /\ EntryInv' /\ ShownInv'
  <2>1. CASE entry' = Fetched(entry)
    <3>1. entry \in Entry /\ owed \in Nat /\ TypeOK /\ Sound(entry, owed)
      BY DEF IInv, TypeOK, EntryInv
    <3>2. entry' \in Entry /\ entry'.fetch # NoFetch
      BY <2>1, <3>1, FetchedFacts
    <3>3. Sound(entry', owed')
      BY <2>1, <3>1, SoundFetched, ReachFacts DEF Mount
    <3> QED
      BY <3>2, <3>3 DEF Mount, EntryInv, ShownInv, Sound
  <2>2. CASE entry' = entry /\ ~Stale(entry)
    BY <2>2, SettledEntry DEF Mount
  <2> QED
    BY <2>1, <2>2 DEF Mount
<1>2. ReachInv' /\ EventsInv' /\ CoveredInv'
  BY WebviewKeeps, ReachFacts DEF Mount, IInv, TypeOK, ReachInv
<1>3. TypeOK'
  BY <1>1 DEF Mount, IInv, TypeOK
<1> QED
  BY <1>1, <1>2, <1>3 DEF IInv

LEMMA UnmountKeeps ==
  ASSUME IInv, Unmount
  PROVE  IInv'
<1>1. EntryInv' /\ ShownInv'
  BY DEF Unmount, IInv, EntryInv, Sound, ShownInv
<1>2. ReachInv' /\ EventsInv' /\ CoveredInv'
  BY WebviewKeeps, ReachFacts DEF Unmount, IInv, TypeOK, ReachInv
<1>3. TypeOK'
  BY DEF Unmount, IInv, TypeOK
<1> QED
  BY <1>1, <1>2, <1>3 DEF IInv

LEMMA AnsweredKeeps ==
  ASSUME IInv, Answered
  PROVE  IInv'
<1>1. PICK v \in entry.fetch.floor..version :
        entry' = [data |-> v, invalid |-> FALSE, error |-> FALSE, fetch |-> NoFetch]
  BY DEF Answered
<1>2. entry.fetch.floor \in Nat /\ version \in Nat /\ owed \in Nat
  BY DEF IInv, TypeOK, Entry, Fetch
<1>3. owed <= entry.fetch.floor
  BY DEF Answered, IInv, EntryInv, Sound
<1>4. v \in Nat /\ owed <= v /\ v <= version
  BY <1>2, <1>3
<1>5. entry' \in Entry
  BY <1>1, <1>4, NoFetchIsFetch DEF Entry
<1>6. EntryInv' /\ ShownInv'
  BY <1>1, <1>2, <1>4 DEF Answered, EntryInv, Sound, ShownInv
<1>7. ReachInv' /\ EventsInv' /\ CoveredInv'
  BY WebviewKeeps, ReachFacts DEF Answered, IInv, TypeOK, ReachInv
<1>8. TypeOK'
  BY <1>5 DEF Answered, IInv, TypeOK
<1> QED
  BY <1>6, <1>7, <1>8 DEF IInv

\* A fetch that waits for its retry, or that was given up.
LEMMA FetchFailsKeeps ==
  ASSUME IInv, FetchFails
  PROVE  IInv'
<1>1. entry \in Entry /\ entry.fetch \in Fetch /\ Sound(entry, owed) /\ owed \in Nat
  BY DEF IInv, TypeOK, EntryInv, Entry
<1>2. entry' \in Entry /\ EntryInv' /\ ShownInv'
  <2>1. CASE entry' = [entry EXCEPT !.fetch.failed = TRUE]
    <3>1. /\ entry' \in Entry /\ entry'.fetch.failed /\ entry'.data = entry.data
          /\ entry'.fetch.floor = entry.fetch.floor
          /\ entry'.fetch.was = entry.fetch.was
          /\ entry'.fetch.awaited = entry.fetch.awaited
      BY <1>1, <2>1 DEF Entry, Fetch
    <3>2. entry'.fetch # NoFetch
      BY <3>1 DEF NoFetch
    <3> QED
      BY <1>1, <3>1, <3>2 DEF FetchFails, EntryInv, Sound, ShownInv
  <2>2. CASE entry' = GivenUp(entry)
    BY <1>1, <2>2, GivenUpFacts DEF FetchFails, EntryInv, Sound, ShownInv
  <2> QED
    BY <2>1, <2>2 DEF FetchFails
<1>3. ReachInv' /\ EventsInv' /\ CoveredInv'
  BY WebviewKeeps, ReachFacts DEF FetchFails, IInv, TypeOK, ReachInv
<1>4. done' \in [{"change", "command", "failure"} -> Nat]
  BY DoFacts DEF FetchFails, IInv
<1>5. TypeOK'
  BY <1>2, <1>4 DEF FetchFails, IInv, TypeOK
<1> QED
  BY <1>2, <1>3, <1>5 DEF IInv

\* A retry fetches what can be fetched then.
LEMMA RetryKeeps ==
  ASSUME IInv, Retry
  PROVE  IInv'
<1>1. /\ entry \in Entry /\ entry.fetch \in Fetch /\ Sound(entry, owed) /\ owed \in Nat
      /\ TypeOK
  BY DEF IInv, TypeOK, EntryInv, Entry
<1>2. entry' \in Entry /\ EntryInv' /\ ShownInv'
  <2>1. CASE entry' = [entry EXCEPT !.fetch.failed = FALSE,
                                    !.fetch.floor = NewFetch(entry).floor]
    <3>1. NewFetch(entry).floor = Reach /\ Reach \in Nat
      BY <1>1, NewFetchFacts, ReachFacts
    <3>2. /\ entry' \in Entry /\ entry'.data = entry.data
          /\ entry'.fetch.floor = Reach
          /\ entry'.fetch.was = entry.fetch.was
          /\ entry'.fetch.awaited = entry.fetch.awaited
      BY <1>1, <2>1, <3>1 DEF Entry, Fetch
    <3>3. 0 \notin entry'.fetch.awaited
      BY <1>1, <3>2 DEF Retry, Sound
    <3>4. entry'.fetch # NoFetch
      BY <3>3 DEF NoFetch
    <3> QED
      BY <1>1, <3>2, <3>3, <3>4, ReachFacts DEF Retry, EntryInv, Sound, ShownInv
  <2>2. CASE entry' = GivenUp(entry)
    BY <1>1, <2>2, GivenUpFacts DEF Retry, EntryInv, Sound, ShownInv
  <2> QED
    BY <2>1, <2>2 DEF Retry
<1>3. ReachInv' /\ EventsInv' /\ CoveredInv'
  BY WebviewKeeps, ReachFacts DEF Retry, IInv, TypeOK, ReachInv
<1>4. TypeOK'
  BY <1>2 DEF Retry, IInv, TypeOK
<1> QED
  BY <1>2, <1>3, <1>4 DEF IInv

LEMMA CommandFailsKeeps ==
  ASSUME IInv, CommandFails
  PROVE  IInv'
<1>1. NoCommand \in Command
  BY DEF NoCommand, Command
<1>2. EntryInv' /\ ShownInv'
  BY SettledEntry DEF CommandFails
<1>3. ReachInv' /\ EventsInv' /\ CoveredInv'
  BY WebviewKeeps, ReachFacts DEF CommandFails, IInv, TypeOK, ReachInv
<1>4. TypeOK'
  BY <1>1 DEF CommandFails, IInv, TypeOK
<1> QED
  BY <1>2, <1>3, <1>4 DEF IInv

\* What a hook or a refresh announces is fetched, or not announced after all.
LEMMA AnnouncedEntry ==
  ASSUME IInv, UNCHANGED <<version, active>>, NEW v \in Nat, v <= Reach,
         owed' = Announced(entry, v)
  PROVE  /\ Invalidated(entry) \in Entry /\ Sound(Invalidated(entry), owed')
         /\ active => Invalidated(entry).fetch # NoFetch
         /\ owed' \in Nat /\ owed' >= owed /\ owed' <= Reach
<1>1. entry \in Entry /\ owed \in Nat /\ TypeOK /\ Sound(entry, owed)
  BY DEF IInv, TypeOK, EntryInv
<1>2. /\ owed' \in Nat /\ owed' >= owed /\ owed' <= Reach
      /\ entry.fetch = NoFetch \/ (active /\ entry.data # NoData) \/ owed' = owed
  BY <1>1, AnnouncedFacts, ReachFacts
<1>3. Sound(Invalidated(entry), owed')
  BY <1>1, <1>2, SoundInvalidated, ReachFacts
<1> QED
  BY <1>1, <1>2, <1>3, InvalidatedFacts

LEMMA HookInvalidatesKeeps ==
  ASSUME IInv, HookInvalidates
  PROVE  IInv'
<1>1. command.version \in Nat /\ command.version <= Reach
  BY DEF HookInvalidates, IInv, TypeOK, Command, ReachInv
<1>2. /\ entry' \in Entry /\ EntryInv' /\ ShownInv'
      /\ owed' \in Nat /\ owed' >= owed /\ owed' <= Reach
  <2>1. CASE query \in Invalidates[command.name]
    <3>1. entry' = Invalidated(entry) /\ owed' = Announced(entry, command.version)
      BY <2>1 DEF HookInvalidates
    <3>2. /\ entry' \in Entry /\ Sound(entry', owed')
          /\ active => entry'.fetch # NoFetch
          /\ owed' \in Nat /\ owed' >= owed /\ owed' <= Reach
      BY <1>1, <3>1, AnnouncedEntry DEF HookInvalidates
    <3> QED
      BY <3>2 DEF HookInvalidates, EntryInv, ShownInv, Sound
  <2>2. CASE UNCHANGED <<entry, owed>>
    <3>1. entry' \in Entry /\ EntryInv' /\ ShownInv'
      BY <2>2, SettledEntry DEF HookInvalidates
    <3> QED
      BY <2>2, <3>1, ReachFacts DEF IInv, TypeOK
  <2> QED
    BY <2>1, <2>2 DEF HookInvalidates
<1>3. NoCommand \in Command
  BY DEF NoCommand, Command
<1>4. ReachInv' /\ EventsInv' /\ CoveredInv'
  BY <1>2, WebviewKeeps DEF HookInvalidates, IInv, ReachInv
<1>5. TypeOK'
  BY <1>2, <1>3 DEF HookInvalidates, IInv, TypeOK
<1> QED
  BY <1>2, <1>4, <1>5 DEF IInv

-----------------------------------------------------------------------------
(* The focus *)

LEMMA DocumentFocusKeeps ==
  ASSUME IInv, NEW to \in BOOLEAN, DocumentFocus(to)
  PROVE  IInv'
<1>1. entry' \in Entry /\ EntryInv' /\ ShownInv'
  BY SettledEntry DEF DocumentFocus, HandleFocus
<1>2. ReachInv' /\ EventsInv' /\ CoveredInv'
  BY WebviewKeeps, ReachFacts DEF DocumentFocus, IInv, TypeOK, ReachInv
<1>3. TypeOK'
  BY <1>1 DEF DocumentFocus, HandleFocus, IInv, TypeOK
<1> QED
  BY <1>1, <1>2, <1>3 DEF IInv

\* What was being fetched is cancelled, for the refresh that begins to fetch.
LEMMA NativeFocusKeeps ==
  ASSUME IInv, NativeFocus
  PROVE  IInv'
<1> DEFINE r == [generation |-> generation', stage |-> "clearing", version |-> 0]
<1>1. r \in Refresh /\ r.stage # "refetching" /\ r.version = 0 /\ generation' \in Nat
  BY DEF NativeFocus, IInv, TypeOK, Refresh
<1>2. refreshes' = refreshes \cup {r}
  BY DEF NativeFocus
<1> HIDE DEF r
<1>3. entry \in Entry /\ owed \in Nat /\ Sound(entry, owed)
  BY DEF IInv, TypeOK, EntryInv
<1>4. entry' \in Entry /\ Sound(entry', owed)
  BY <1>3, CancelledFacts, SoundCancelled DEF NativeFocus
<1>5. EntryInv' /\ ShownInv'
  BY <1>1, <1>2, <1>4 DEF NativeFocus, EntryInv, Sound, ShownInv
<1>6. \A s \in refreshes' : s.version <= Reach
  BY <1>1, <1>2, ReachFacts DEF IInv, ReachInv
<1>7. ReachInv' /\ EventsInv' /\ CoveredInv'
  BY <1>6, WebviewKeeps, ReachFacts DEF NativeFocus, IInv, TypeOK
<1>8. TypeOK'
  BY <1>1, <1>2, <1>4 DEF NativeFocus, IInv, TypeOK
<1> QED
  BY <1>5, <1>7, <1>8 DEF IInv

LEMMA NativeBlurKeeps ==
  ASSUME IInv, NativeBlur
  PROVE  IInv'
<1>1. EntryInv' /\ ShownInv'
  BY SettledEntry DEF NativeBlur
<1>2. ReachInv' /\ EventsInv' /\ CoveredInv'
  BY WebviewKeeps, ReachFacts DEF NativeBlur, IInv, TypeOK, ReachInv
<1>3. TypeOK'
  <2>1. generation' \in Nat
    BY DEF NativeBlur, IInv, TypeOK
  <2>2. focused' \in BOOLEAN
    BY DEF NativeBlur
  <2> QED
    BY <2>1, <2>2 DEF NativeBlur, IInv, TypeOK
<1> QED
  BY <1>1, <1>2, <1>3 DEF IInv

\* A refresh fetches past what was cached when it cleared the cache.
LEMMA RefreshInvalidatesKeeps ==
  ASSUME IInv, NEW r \in refreshes, RefreshInvalidates(r)
  PROVE  IInv'
<1> DEFINE i == Invalidated(entry)
           to == [r EXCEPT !.stage = "refetching"]
<1>1. /\ r \in Refresh /\ r.version \in Nat /\ r.version <= Reach
      /\ to \in Refresh /\ to.version = r.version /\ refreshes' = (refreshes \ {r}) \cup {to}
  BY DEF IInv, TypeOK, Refresh, ReachInv, RefreshInvalidates, Moved
<1>2. /\ i \in Entry /\ Sound(i, owed') /\ (active => i.fetch # NoFetch)
      /\ owed' \in Nat /\ owed' >= owed /\ owed' <= Reach
  BY <1>1, AnnouncedEntry DEF RefreshInvalidates
<1>3. entry' = IF active THEN [i EXCEPT !.fetch.awaited = @ \cup {r.generation}] ELSE i
  BY DEF RefreshInvalidates
<1> HIDE DEF i, to
<1>4. entry' \in Entry /\ Sound(entry', owed') /\ (active => entry'.fetch # NoFetch)
  <2>1. CASE active
    <3>1. r.generation \in Nat \ {0} /\ i.fetch \in Fetch /\ 0 \notin i.fetch.awaited
      BY <1>1, <1>2, <2>1 DEF Refresh, Entry, Sound
    <3>2. /\ entry' \in Entry /\ entry'.data = i.data /\ entry'.invalid = i.invalid
          /\ entry'.fetch.floor = i.fetch.floor /\ entry'.fetch.was = i.fetch.was
          /\ entry'.fetch.awaited = i.fetch.awaited \cup {r.generation}
      BY <1>2, <1>3, <2>1, <3>1 DEF Entry, Fetch
    <3>3. 0 \notin entry'.fetch.awaited
      BY <3>1, <3>2
    <3>4. entry'.fetch # NoFetch
      BY <3>3 DEF NoFetch
    <3> QED
      BY <1>2, <2>1, <3>2, <3>3, <3>4 DEF Sound
  <2>2. CASE ~active
    BY <1>2, <1>3, <2>2
  <2> QED
    BY <2>1, <2>2
<1>5. EntryInv' /\ ShownInv'
  BY <1>4 DEF RefreshInvalidates, EntryInv, Sound, ShownInv
<1>6. \A s \in refreshes' : s.version <= Reach
  BY <1>1 DEF IInv, ReachInv
<1>7. ReachInv' /\ EventsInv' /\ CoveredInv'
  BY <1>2, <1>6, WebviewKeeps DEF RefreshInvalidates
<1>8. TypeOK'
  BY <1>1, <1>2, <1>4 DEF RefreshInvalidates, IInv, TypeOK
<1> QED
  BY <1>5, <1>7, <1>8 DEF IInv

LEMMA RefreshEndsKeeps ==
  ASSUME IInv, NEW r \in refreshes, RefreshEnds(r)
  PROVE  IInv'
<1>1. entry' = Fetched(entry) \/ entry' = entry
  BY DEF RefreshEnds, HandleFocus
<1>2. refreshes' = refreshes \ {r} /\ r.stage = "refetching"
  BY DEF RefreshEnds
<1>3. entry' \in Entry /\ EntryInv' /\ ShownInv'
  BY <1>1, <1>2, SettledEntry DEF RefreshEnds
<1>4. ReachInv' /\ EventsInv' /\ CoveredInv'
  BY <1>2, WebviewKeeps, ReachFacts DEF RefreshEnds, IInv, TypeOK, ReachInv
<1>5. TypeOK'
  BY <1>2, <1>3 DEF RefreshEnds, HandleFocus, IInv, TypeOK
<1> QED
  BY <1>3, <1>4, <1>5 DEF IInv

-----------------------------------------------------------------------------
(* The actions of the backend *)

\* A change raises the version only, and what the query reads is pending then.
LEMMA MovesFacts ==
  ASSUME IInv, NEW kinds \in SUBSET RepositoryChangeKind, Moves(kinds),
         UNCHANGED <<query, watching, floor, events, owed, refreshes>>,
         command'.stage = "returned" => UNCHANGED command
  PROVE  /\ version' \in Nat /\ version' >= version /\ pending' \subseteq RepositoryChangeKind
         /\ ReachInv' /\ EventsInv' /\ CoveredInv'
<1>1. version \in Nat /\ floor \in Nat /\ pending \subseteq RepositoryChangeKind
  BY DEF IInv, TypeOK
<1>2. version' \in Nat /\ version' >= version /\ pending' \subseteq RepositoryChangeKind
  BY <1>1 DEF Moves
<1>3. Reach \in Nat /\ Reach' \in Nat /\ Reach' >= Reach /\ owed \in Nat
  BY <1>1, <1>2 DEF Reach, IInv, TypeOK
<1>4. ReachInv'
  <2>1. command'.stage = "returned" => command'.version <= Reach'
    BY <1>3 DEF IInv, ReachInv, TypeOK, Command
  <2>2. \A r \in refreshes' : r.version <= Reach'
    BY <1>3 DEF IInv, ReachInv, TypeOK, Refresh
  <2> QED
    BY <1>1, <1>2, <1>3, <2>1, <2>2 DEF IInv, ReachInv
<1>5. EventsInv'
  <2> SUFFICES ASSUME NEW i \in 1..Len(events)
               PROVE  /\ events[i].version <= version'
                      /\ Concerns(events[i].kinds) => events[i].version <= Reach'
    BY DEF EventsInv, Concerns
  <2>1. events[i].version \in Nat
    BY EventFacts DEF IInv
  <2> QED
    BY <1>1, <1>2, <1>3, <2>1 DEF IInv, EventsInv
<1>6. CoveredInv'
  <2>1. CASE kinds \cap Reads(query) # {}
    BY <2>1 DEF Moves, CoveredInv
  <2>2. CASE kinds \cap Reads(query) = {}
    BY <2>2 DEF Moves, IInv, CoveredInv
  <2> QED
    BY <2>1, <2>2
<1> QED
  BY <1>2, <1>4, <1>5, <1>6

LEMMA RepositoryChangesKeeps ==
  ASSUME IInv, NEW k \in Kinds, RepositoryChanges(k)
  PROVE  IInv'
<1>1. {k} \in SUBSET RepositoryChangeKind
  BY WatchedAssumption
<1>2. /\ version' \in Nat /\ version' >= version /\ pending' \subseteq RepositoryChangeKind
      /\ ReachInv' /\ EventsInv' /\ CoveredInv'
  BY <1>1, MovesFacts DEF RepositoryChanges
<1>3. EntryInv' /\ ShownInv'
  BY <1>2, BackendKeeps DEF RepositoryChanges
<1>4. done' \in [{"change", "command", "failure"} -> Nat]
  BY DoFacts DEF RepositoryChanges, IInv
<1>5. TypeOK'
  BY <1>2, <1>4 DEF RepositoryChanges, IInv, TypeOK
<1> QED
  BY <1>2, <1>3, <1>5 DEF IInv

LEMMA CommandChangesKeeps ==
  ASSUME IInv, NEW c \in Commands, CommandChanges(c)
  PROVE  IInv'
<1>1. c \in DOMAIN Changes /\ Changes[c] \in SUBSET RepositoryChangeKind
  BY CommandsAssumption, ChangesAreKinds
<1>2. command' \in Command /\ command'.stage = "changed"
  BY <1>1 DEF CommandChanges, Command
<1>3. /\ version' \in Nat /\ version' >= version /\ pending' \subseteq RepositoryChangeKind
      /\ ReachInv' /\ EventsInv' /\ CoveredInv'
  BY <1>1, <1>2, MovesFacts DEF CommandChanges
<1>4. EntryInv' /\ ShownInv'
  BY <1>3, BackendKeeps DEF CommandChanges
<1>5. done' \in [{"change", "command", "failure"} -> Nat]
  BY DoFacts DEF CommandChanges, IInv
<1>6. TypeOK'
  BY <1>2, <1>3, <1>5 DEF CommandChanges, IInv, TypeOK
<1> QED
  BY <1>3, <1>4, <1>6 DEF IInv

\* Dropping more of the cache lets more be fetched.
LEMMA DroppedFacts ==
  ASSUME IInv, UNCHANGED <<query, watching, version, pending, events, owed>>,
         floor' \in {floor, version},
         command'.stage = "returned" => command'.version <= Reach',
         \A r \in refreshes' : r.version <= Reach'
  PROVE  /\ floor' \in Nat /\ Reach' \in Nat /\ Reach' >= Reach
         /\ ReachInv' /\ EventsInv' /\ CoveredInv'
<1>1. version \in Nat /\ floor \in Nat /\ floor <= version /\ owed \in Nat
  BY DEF IInv, TypeOK, ReachInv
<1>2. floor' \in Nat /\ floor' <= version' /\ Reach' \in Nat /\ Reach \in Nat /\ Reach' >= Reach
  BY <1>1 DEF Reach
<1>3. ReachInv'
  BY <1>1, <1>2 DEF IInv, ReachInv
<1>4. EventsInv'
  <2> SUFFICES ASSUME NEW i \in 1..Len(events), Concerns(events[i].kinds)
               PROVE  events[i].version <= Reach'
    BY DEF IInv, EventsInv, Concerns
  <2>1. events[i].version \in Nat
    BY EventFacts DEF IInv
  <2> QED
    BY <1>2, <2>1 DEF IInv, EventsInv
<1>5. CoveredInv'
  BY DEF IInv, CoveredInv
<1> QED
  BY <1>2, <1>3, <1>4, <1>5

LEMMA CommandReturnsKeeps ==
  ASSUME IInv, CommandReturns
  PROVE  IInv'
<1>1. version \in Nat /\ floor \in Nat /\ command \in Command /\ floor <= version
  BY DEF IInv, TypeOK, ReachInv
<1>2. /\ command' \in Command /\ command'.version = version
      /\ floor' \in {floor, version} /\ Reach' = version
  BY <1>1 DEF CommandReturns, Command, Reach
<1>3. \A r \in refreshes' : r.version <= Reach'
  BY <1>2 DEF CommandReturns, IInv, ReachInv, TypeOK, Refresh, Reach
<1>4. floor' \in Nat /\ ReachInv' /\ EventsInv' /\ CoveredInv'
  BY <1>1, <1>2, <1>3, DroppedFacts DEF CommandReturns
<1>5. EntryInv' /\ ShownInv'
  BY <1>1, BackendKeeps DEF CommandReturns
<1>6. TypeOK'
  BY <1>2, <1>4 DEF CommandReturns, IInv, TypeOK
<1> QED
  BY <1>4, <1>5, <1>6 DEF IInv

LEMMA CachesClearedKeeps ==
  ASSUME IInv, NEW r \in refreshes, CachesCleared(r)
  PROVE  IInv'
<1>1. /\ version \in Nat /\ floor \in Nat /\ floor <= version /\ r \in Refresh
      /\ Reach \in Nat /\ r.version <= Reach
  BY ReachFacts DEF IInv, TypeOK, ReachInv
<1>2. PICK to \in Refresh :
        /\ refreshes' = (refreshes \ {r}) \cup {to} /\ to.stage = "cleared"
        /\ \/ floor' = version /\ to.version = version /\ UNCHANGED done
           \/ floor' = floor /\ to.version = r.version /\ Do("failure", MaxFailures)
  <2>1. /\ [r EXCEPT !.stage = "cleared"] \in Refresh
        /\ [r EXCEPT !.stage = "cleared", !.version = version] \in Refresh
    BY <1>1 DEF Refresh
  <2> QED
    BY <1>1, <2>1 DEF CachesCleared, Moved, Refresh
<1>3. Reach' >= Reach /\ Reach' \in Nat /\ to.version <= Reach'
  BY <1>1, <1>2 DEF CachesCleared, Reach
<1>4. \A s \in refreshes' : s.version <= Reach'
  BY <1>1, <1>2, <1>3 DEF IInv, ReachInv, TypeOK, Refresh
<1>5. command'.stage = "returned" => command'.version <= Reach'
  BY <1>1, <1>3 DEF CachesCleared, IInv, ReachInv, TypeOK, Command
<1>6. floor' \in Nat /\ ReachInv' /\ EventsInv' /\ CoveredInv'
  BY <1>2, <1>4, <1>5, DroppedFacts DEF CachesCleared
<1>7. EntryInv' /\ ShownInv'
  BY <1>2 DEF CachesCleared, IInv, EntryInv, Sound, ShownInv
<1>8. done' \in [{"change", "command", "failure"} -> Nat]
  BY <1>2, DoFacts DEF IInv, TypeOK
<1>9. TypeOK'
  BY <1>2, <1>6, <1>8 DEF CachesCleared, IInv, TypeOK
<1> QED
  BY <1>6, <1>7, <1>9 DEF IInv

\* A report drops what the bridge will refetch for it.
LEMMA ReportKeeps ==
  ASSUME IInv, Report
  PROVE  IInv'
<1> DEFINE event == [kinds |-> pending, version |-> version]
<1>1. /\ version \in Nat /\ floor \in Nat /\ floor <= version /\ event \in Event
      /\ events \in Seq(Event) /\ Reach \in Nat /\ query \in Queries
  BY ReachFacts, WatchedAssumption DEF IInv, TypeOK, ReachInv, Event
<1>2. /\ events' = Append(events, event) /\ pending' = {} /\ floor' \in {floor, version}
      /\ event.kinds = pending /\ event.version = version
  BY DEF Report
<1> HIDE DEF event
<1>3. /\ events' \in Seq(Event) /\ Len(events') = Len(events) + 1
      /\ events'[Len(events) + 1] = event
      /\ \A i \in 1..Len(events) : events'[i] = events[i]
  BY <1>1, <1>2, AppendProperties
<1>4. Len(events) + 1 \in 1..Len(events') /\ 1..Len(events) \subseteq 1..Len(events')
  <2>1. Len(events) \in Nat
    BY <1>1, LenProperties
  <2>2. Len(events') = Len(events) + 1
    BY <1>3
  <2> QED
    BY <2>1, <2>2
<1>5. Reach' >= Reach /\ Reach' \in Nat /\ floor' <= version' /\ floor' \in Nat
  BY <1>1, <1>2 DEF Report, Reach
<1>6. ReachInv'
  BY <1>1, <1>5 DEF Report, IInv, ReachInv, TypeOK, Command, Refresh
<1>7. EventsInv'
  <2> SUFFICES ASSUME NEW i \in 1..Len(events')
               PROVE  /\ events'[i].version <= version
                      /\ Concerns(events'[i].kinds) => events'[i].version <= Reach'
    BY DEF EventsInv, Concerns, Report
  <2>1. CASE i \in 1..Len(events)
    <3>1. events[i].version \in Nat /\ events'[i] = events[i]
      BY <1>3, <2>1, EventFacts DEF IInv
    <3> QED
      BY <1>1, <1>5, <2>1, <3>1 DEF IInv, EventsInv
  <2>2. CASE i = Len(events) + 1
    <3>1. events'[i].version = version /\ events'[i].kinds = pending
      BY <1>2, <1>3, <2>2
    <3>2. ASSUME Concerns(pending)
          PROVE  Reach' = version
      <4>1. PICK k \in pending : query \in Affected(k)
        BY <3>2 DEF Concerns
      <4>2. Namespaces(query) \subseteq Dropped(k)
        BY <1>1, <4>1, AffectedIsDropped DEF IInv, TypeOK
      <4>3. Namespaces(query) \subseteq UNION {Dropped(l) : l \in pending}
        BY <4>2
      <4>4. floor' = version
        BY <4>3 DEF Report
      <4> QED
        BY <4>4 DEF Report, Reach
    <3> QED
      BY <1>1, <3>1, <3>2
  <2> QED
    BY <1>3, <1>4, <2>1, <2>2
<1>8. CoveredInv'
  <2> SUFFICES ASSUME watching, query # "commit authors", owed # version
               PROVE  \E i \in 1..Len(events') :
                        events'[i].kinds \cap Reads(query) # {} /\ events'[i].version = version
    BY DEF CoveredInv, Report
  <2>1. CASE pending \cap Reads(query) # {}
    BY <1>2, <1>3, <1>4, <2>1
  <2>2. CASE pending \cap Reads(query) = {}
    <3>1. PICK i \in 1..Len(events) :
            events[i].kinds \cap Reads(query) # {} /\ events[i].version = version
      BY <2>2 DEF IInv, CoveredInv
    <3>2. i \in 1..Len(events') /\ events'[i] = events[i]
      BY <1>3, <1>4
    <3> QED
      BY <3>1, <3>2
  <2> QED
    BY <2>1, <2>2
<1>9. EntryInv' /\ ShownInv'
  BY <1>1, BackendKeeps DEF Report
<1>10. TypeOK'
  BY <1>2, <1>3, <1>5 DEF Report, IInv, TypeOK
<1> QED
  BY <1>6, <1>7, <1>8, <1>9, <1>10 DEF IInv

LEMMA EarlierPlace ==
  ASSUME NEW n \in Nat, NEW i \in 1..n, i # 1
  PROVE  \E j \in 1..(n - 1) : j + 1 = i
<1>1. i - 1 \in 1..(n - 1) /\ (i - 1) + 1 = i
  OBVIOUS
<1> QED
  BY <1>1

\* The bridge announces a change that it can fetch, and none is lost that the query reads.
LEMMA ChangeArrivesKeeps ==
  ASSUME IInv, ChangeArrives
  PROVE  IInv'
<1> DEFINE event == Head(events)
<1>0. /\ events \in Seq(Event) /\ events # <<>> /\ query \in Queries
      /\ entry \in Entry /\ Sound(entry, owed) /\ TypeOK
  BY WatchedAssumption DEF ChangeArrives, IInv, TypeOK, EntryInv
<1>1. /\ version \in Nat /\ owed \in Nat /\ Reach \in Nat /\ Reach <= version
      /\ owed <= Reach
  BY ReachFacts DEF IInv, TypeOK
<1>2. /\ events' = Tail(events) /\ events' \in Seq(Event) /\ Len(events) \in Nat \ {0}
      /\ Len(events') = Len(events) - 1 /\ event = events[1]
      /\ \A i \in 1..Len(events') : i + 1 \in 1..Len(events) /\ events'[i] = events[i + 1]
  <2>1. Len(events) \in Nat /\ Len(events) # 0
    BY <1>0, EmptySeq, LenProperties
  <2>2. events' = Tail(events) /\ events' \in Seq(Event)
    BY <1>0, HeadTailProperties DEF ChangeArrives
  <2>3. /\ Len(events') = Len(events) - 1 /\ event = events[1]
        /\ \A i \in 1..Len(events') : events'[i] = events[i + 1]
    BY <1>0, <2>1, <2>2
  <2> QED
    BY <2>1, <2>2, <2>3
<1>3. 1 \in 1..Len(events) /\ event.version \in Nat /\ event.version <= version
  BY <1>0, <1>2, EventFacts DEF IInv, EventsInv
<1>4. Concerns(event.kinds) => event.version <= Reach
  BY <1>2, <1>3 DEF IInv, EventsInv
<1>5. UNCHANGED <<query, watching, version, floor, pending, active, command, refreshes>>
  BY DEF ChangeArrives
<1> HIDE DEF event
<1>6. /\ entry' \in Entry /\ EntryInv' /\ ShownInv'
      /\ owed' \in Nat /\ owed' >= owed /\ owed' <= Reach
      /\ Concerns(event.kinds) => owed' >= event.version
  <2>1. CASE Concerns(event.kinds)
    <3>1. entry' = Invalidated(Cancelled(entry)) /\ owed' = Max({owed, event.version})
      BY <2>1 DEF ChangeArrives, Concerns, event
    <3>2. owed' \in {owed, event.version} /\ owed' >= owed /\ owed' >= event.version
      <4>1. owed \in Int /\ event.version \in Int
        BY <1>1, <1>3
      <4> QED
        BY <3>1, <4>1, MaxOfTwo
    <3>3. owed' \in Nat /\ owed' <= Reach
      BY <1>1, <1>3, <1>4, <2>1, <3>2
    <3>4. /\ Cancelled(entry) \in Entry /\ Cancelled(entry).fetch = NoFetch
          /\ Sound(Cancelled(entry), owed)
      BY <1>0, <1>1, CancelledFacts, SoundCancelled
    <3>5. Sound(entry', owed')
      BY <1>0, <1>1, <3>1, <3>3, <3>4, SoundInvalidated
    <3>6. entry' \in Entry /\ (active => entry'.fetch # NoFetch)
      BY <1>0, <3>1, <3>4, InvalidatedFacts
    <3> QED
      BY <1>5, <3>2, <3>3, <3>5, <3>6 DEF EntryInv, ShownInv, Sound
  <2>2. CASE ~Concerns(event.kinds)
    <3>1. UNCHANGED <<entry, owed>>
      BY <2>2 DEF ChangeArrives, Concerns, event
    <3>2. entry' \in Entry /\ EntryInv' /\ ShownInv'
      BY <1>5, <3>1, SettledEntry
    <3> QED
      BY <1>1, <2>2, <3>1, <3>2
  <2> QED
    BY <2>1, <2>2
<1>7. Reach' = Reach
  BY <1>5 DEF Reach
<1>8. ReachInv'
  BY <1>5, <1>6, <1>7 DEF IInv, ReachInv
<1>9. EventsInv'
  BY <1>2, <1>5, <1>7 DEF IInv, EventsInv, Concerns
<1>10. owed = version => owed' = version
  BY <1>1, <1>6
<1>11. Concerns(event.kinds) /\ event.version = version => owed' = version
  BY <1>1, <1>3, <1>6
<1>12. CoveredInv'
  <2> SUFFICES ASSUME watching, query # "commit authors", owed' # version,
                      pending \cap Reads(query) = {}
               PROVE  \E i \in 1..Len(events') :
                        events'[i].kinds \cap Reads(query) # {} /\ events'[i].version = version
    BY <1>5 DEF CoveredInv
  <2>1. PICK i \in 1..Len(events) :
          events[i].kinds \cap Reads(query) # {} /\ events[i].version = version
    BY <1>10 DEF IInv, CoveredInv
  <2>2. i # 1
    <3> SUFFICES ASSUME i = 1
                 PROVE  FALSE
      OBVIOUS
    <3>1. PICK k \in event.kinds : k \in Reads(query)
      BY <1>2, <2>1
    <3>2. query \in Affected(k)
      BY <1>0, <3>1, ReadsAreCovered
    <3>3. Concerns(event.kinds) /\ event.version = version
      BY <1>2, <2>1, <3>1, <3>2 DEF Concerns
    <3> QED
      BY <1>11, <3>3
  <2>3. PICK j \in 1..Len(events') : j + 1 = i
    BY <1>2, <2>2, EarlierPlace
  <2>4. events'[j] = events[i]
    BY <1>2, <2>3
  <2> QED
    BY <2>1, <2>3, <2>4
<1>13. TypeOK'
  BY <1>2, <1>6 DEF ChangeArrives, IInv, TypeOK
<1> QED
  BY <1>6, <1>8, <1>9, <1>12, <1>13 DEF IInv

-----------------------------------------------------------------------------
(* The invariant *)

LEMMA InitIInv == Init => IInv
<1> SUFFICES ASSUME Init
             PROVE  IInv
  OBVIOUS
<1>1. entry \in Entry /\ entry.fetch = NoFetch /\ entry.data = NoData /\ ~entry.invalid
  BY NoFetchIsFetch DEF Init, Entry
<1>2. command \in Command /\ command.stage = "none"
  BY DEF Init, NoCommand, Command
<1>3. TypeOK
  <2>1. events \in Seq(Event)
    BY EmptySeq DEF Init
  <2>2. done \in [{"change", "command", "failure"} -> Nat]
    BY DEF Init
  <2> QED
    BY <1>1, <1>2, <2>1, <2>2 DEF Init, TypeOK
<1>4. ReachInv
  BY <1>2 DEF Init, ReachInv, Reach
<1>5. EntryInv
  BY <1>1 DEF Init, EntryInv, Sound, NoData
<1>6. EventsInv /\ ShownInv /\ CoveredInv
  <2>1. events = <<>> /\ 1..Len(events) = {}
    BY EmptySeq DEF Init
  <2> QED
    BY <2>1 DEF Init, EventsInv, ShownInv, CoveredInv
<1> QED
  BY <1>3, <1>4, <1>5, <1>6 DEF IInv

LEMMA NextIInv == IInv /\ [Next]_vars => IInv'
<1> SUFFICES ASSUME IInv, [Next]_vars
             PROVE  IInv'
  OBVIOUS
<1>1. CASE Mount \/ Unmount \/ Answered \/ FetchFails \/ Retry
  BY <1>1, MountKeeps, UnmountKeeps, AnsweredKeeps, FetchFailsKeeps, RetryKeeps
<1>2. CASE Report \/ ChangeArrives
  BY <1>2, ReportKeeps, ChangeArrivesKeeps
<1>3. CASE CommandReturns \/ CommandFails \/ HookInvalidates
  BY <1>3, CommandReturnsKeeps, CommandFailsKeeps, HookInvalidatesKeeps
<1>4. CASE \E k \in Kinds : RepositoryChanges(k)
  BY <1>4, RepositoryChangesKeeps
<1>5. CASE \E c \in Commands : CommandChanges(c)
  BY <1>5, CommandChangesKeeps
<1>6. CASE \E to \in BOOLEAN : DocumentFocus(to)
  BY <1>6, DocumentFocusKeeps
<1>7. CASE NativeFocus \/ NativeBlur
  BY <1>7, NativeFocusKeeps, NativeBlurKeeps
<1>8. CASE \E r \in refreshes : CachesCleared(r) \/ RefreshInvalidates(r) \/ RefreshEnds(r)
  BY <1>8, CachesClearedKeeps, RefreshInvalidatesKeeps, RefreshEndsKeeps
<1>9. CASE UNCHANGED vars
  BY <1>9 DEF vars, IInv, TypeOK, ReachInv, Reach, EventsInv, Concerns, EntryInv, Sound,
     ShownInv, CoveredInv
<1> QED
  BY <1>1, <1>2, <1>3, <1>4, <1>5, <1>6, <1>7, <1>8, <1>9 DEF Next

\* Every fetch under way will bring what was announced, and every change of what
\* the query reads is announced or on its way (the cancellation before the
\* invalidation in invalidateRepositoryQueries, and the caches that are cleared
\* before the refetch in useNativeWindowFocus).
THEOREM Invariance == Spec => []IInv
  BY InitIInv, NextIInv, PTL DEF Spec

\* The query, its fetch, the reports, the command and the refreshes keep their types.
THEOREM TypesHold == Spec => []TypeOK
<1>1. IInv => TypeOK
  BY DEF IInv
<1> QED
  BY <1>1, Invariance, PTL

\* Whoever announced a change (the change bridge, the hook of a command or the
\* refresh of the focus), a result from before it is not what remains on the
\* screen, whatever was being fetched, cancelled, retried or paused meanwhile.
THEOREM AnnouncementsShown == Spec => []AnnouncedIsShown
<1>1. IInv => AnnouncedIsShown
  BY DEF IInv, ShownInv, AnnouncedIsShown, Quiet
<1> QED
  BY <1>1, Invariance, PTL

\* A watched query that is shown catches up with every change:
\* cache_namespaces_for_changes drops and isAffectedByChange refetches all that a
\* change concerns, in an order in which no report is fetched too early.
THEOREM WatchedCurrent == Spec => []WatchedIsCurrent
<1>1. ASSUME IInv
      PROVE  entry.data \in Int /\ entry.data <= version /\ version \in Int /\ owed \in Int
  BY <1>1 DEF IInv, TypeOK, Entry, EntryInv, Sound, NoData
<1>2. ASSUME IInv, watching, query # "commit authors", pending = {}, Len(events) = 0
      PROVE  owed = version
  <2>1. pending \cap Reads(query) = {}
    BY <1>2
  <2>2. 1..Len(events) = {}
    <3>1. 1..0 = {}
      OBVIOUS
    <3> QED
      BY <1>2, <3>1
  <2>3. CoveredInv
    BY <1>2 DEF IInv
  <2> QED
    BY <1>2, <2>1, <2>2, <2>3 DEF CoveredInv
<1>3. ASSUME IInv, Quiet
      PROVE  entry.data >= owed
  BY <1>3 DEF IInv, ShownInv, Quiet
<1>4. IInv => WatchedIsCurrent
  <2>1. ASSUME IInv, owed = version, Quiet
        PROVE  entry.data = version
    BY <1>1, <1>3, <2>1
  <2> QED
    BY <1>2, <2>1, EmptySeq DEF WatchedIsCurrent
<1> QED
  BY <1>4, Invariance, PTL

\* cache_namespaces_for_changes and isAffectedByChange agree with each other, and
\* with what the queries read, on all queries but the authors.
THEOREM TablesAlwaysAgree == Spec => []TablesAgree
<1>1. Disagreements \subseteq {"commit authors"} \X RepositoryChangeKind
  <2> SUFFICES ASSUME NEW p \in Disagreements
               PROVE  p \in {"commit authors"} \X RepositoryChangeKind
    OBVIOUS
  <2>1. /\ p \in Queries \X RepositoryChangeKind /\ p[2] \in Reads(p[1])
        /\ p[1] \notin Affected(p[2]) \/ ~(Namespaces(p[1]) \subseteq Dropped(p[2]))
    BY DEF Disagreements
  <2>2. p[1] = "commit authors"
    BY <2>1, ReadsAreCovered
  <2> QED
    BY <2>1, <2>2
<1>2. TablesAgree
  BY <1>1 DEF TablesAgree
<1> QED
  BY <1>2, PTL
=============================================================================
