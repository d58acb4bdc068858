----------------------------- MODULE RequestQueue -----------------------------
(****************************************************************************)
(* The supersession of diff requests: RequestQueueManager of crates/git/    *)
(* service/request_queue.rs and its one user, DiffService::                 *)
(* get_patch_by_file_path of service/diff.rs.  Each of the queue's three    *)
(* maps has a lock of its own, so a registration and a cleanup are several  *)
(* steps, and the worker count is an atomic claimed by compare-exchange.    *)
(* A request with a slot reads its patch through the repository's cache,    *)
(* whose flights are modelled here as far as requests share their fate: a   *)
(* follower takes the result of its leader, error included.  That followers *)
(* are woken is RepoCache's matter (AtomicSubscribe there).                 *)
(*                                                                          *)
(* QueueOf says which queue a request goes through.  The program makes a    *)
(* DiffService, and with it a queue, for every command; the type is written *)
(* (and unit-tested) for requests that share one.                           *)
(****************************************************************************)
EXTENDS Naturals, FiniteSets

CONSTANTS
    Requests,    \* calls of get_patch_by_file_path
    Paths,       \* scope keys
    Queues,      \* RequestQueueManagers
    QueueOf,     \* the queue each request goes through
    MaxWorkers,  \* MAX_CONCURRENT_OPERATIONS
    NoRequest

ASSUME QueueAssumption ==
    /\ QueueOf \in [Requests -> Queues]
    /\ MaxWorkers \in Nat \ {0}
    /\ NoRequest \notin Requests

VARIABLES
    latest,      \* latest_by_scope of each queue
    active,      \* the keys of active_requests
    cancelled,   \* each request's flag
    workers,     \* active_workers of each queue
    guarded,     \* requests with a live WorkerSlotGuard
    path,        \* the file each request names
    previous,    \* the request each registration displaced
    seen,        \* the worker count each acquisition loaded
    leader,      \* the request whose flight each follower joined
    fetched,     \* the result of each leader's fetch
    outcome,     \* "none", "superseded", "answered" (a diff or another error)
    pc

mapVars == <<latest, active>>
slotVars == <<workers, guarded>>
flightVars == <<leader, fetched>>
vars == <<mapVars, cancelled, slotVars, path, previous, seen, flightVars, outcome, pc>>

Goto(r, label) == pc' = [pc EXCEPT ![r] = label]

Init ==
    /\ latest = [q \in Queues |-> [p \in Paths |-> NoRequest]]
    /\ active = {}
    /\ cancelled = [r \in Requests |-> FALSE]
    /\ workers = [q \in Queues |-> 0]
    /\ guarded = {}
    /\ path \in [Requests -> Paths]
    /\ previous = [r \in Requests |-> NoRequest]
    /\ seen = [r \in Requests |-> 0]
    /\ leader = [r \in Requests |-> NoRequest]
    /\ fetched = [r \in Requests |-> "none"]
    /\ outcome = [r \in Requests |-> "none"]
    /\ pc = [r \in Requests |-> "idle"]

(* The call has its result; what remains is the cleanup. *)
FinishWith(r, result) ==
    outcome' = [outcome EXCEPT ![r] = result] /\ Goto(r, "cleaning")

----------------------------------------------------------------------------
(* register_request                                                         *)

Displace(r) ==
    LET q == QueueOf[r] IN
    /\ pc[r] = "idle"
    /\ previous' = [previous EXCEPT ![r] = latest[q][path[r]]]
    /\ latest' = [latest EXCEPT ![q][path[r]] = r]
    /\ Goto(r, IF latest[q][path[r]] = NoRequest THEN "inserting" ELSE "looking")
    /\ UNCHANGED <<active, cancelled, slotVars, path, seen, flightVars, outcome>>

(* The flag of the displaced request is looked up and set: it has none      *)
(* while its own registration is on the way, or once it is cleaned up.  It  *)
(* could be set a moment after the lookup, which no one can tell from a     *)
(* later lookup.                                                            *)
CancelPrevious(r) ==
    /\ pc[r] = "looking"
    /\ cancelled' =
         IF previous[r] \in active THEN [cancelled EXCEPT ![previous[r]] = TRUE] ELSE cancelled
    /\ Goto(r, "inserting")
    /\ UNCHANGED <<mapVars, slotVars, path, previous, seen, flightVars, outcome>>

(* active_requests; request_scopes, which is written along with it, is      *)
(* never read and left out.                                                 *)
InsertFlag(r) ==
    /\ pc[r] = "inserting"
    /\ active' = active \cup {r}
    /\ Goto(r, "checking")
    /\ UNCHANGED <<latest, cancelled, slotVars, path, previous, seen, flightVars, outcome>>

----------------------------------------------------------------------------
(* acquire_worker_slot                                                      *)

IsLatest(r) == latest[QueueOf[r]][path[r]] = r

(* Deviation: only the flag is checked. *)
MayProceedByFlag(r) == ~cancelled[r]

(* The flag, then is_latest_request.  A cancelled request is not the latest *)
(* one, so the two reads are one step.                                      *)
MayProceed(r) == ~cancelled[r] /\ IsLatest(r)

CheckSuperseded(r) ==
    /\ pc[r] = "checking"
    /\ IF MayProceed(r)
       THEN Goto(r, "loading") /\ UNCHANGED outcome
       ELSE FinishWith(r, "superseded")
    /\ UNCHANGED <<mapVars, cancelled, slotVars, path, previous, seen, flightVars>>

(* With every slot taken the request sleeps and starts over. *)
LoadWorkers(r) ==
    LET count == workers[QueueOf[r]] IN
    /\ pc[r] = "loading"
    /\ IF count < MaxWorkers
       THEN seen' = [seen EXCEPT ![r] = count] /\ Goto(r, "claiming")
       ELSE UNCHANGED seen /\ Goto(r, "checking")
    /\ UNCHANGED <<mapVars, cancelled, slotVars, path, previous, flightVars, outcome>>

(* Deviation: a store in place of the compare-exchange. *)
ClaimSlotByStore(r) ==
    /\ pc[r] = "claiming"
    /\ seen' = [seen EXCEPT ![r] = 0]
    /\ workers' = [workers EXCEPT ![QueueOf[r]] = seen[r] + 1]
    /\ guarded' = guarded \cup {r}
    /\ Goto(r, "working")
    /\ UNCHANGED <<mapVars, cancelled, path, previous, flightVars, outcome>>

(* compare_exchange; a lost race starts over.  Either way the loaded count  *)
(* is gone.                                                                 *)
ClaimSlot(r) ==
    LET q == QueueOf[r] IN
    /\ pc[r] = "claiming"
    /\ seen' = [seen EXCEPT ![r] = 0]
    /\ IF workers[q] = seen[r]
       THEN /\ workers' = [workers EXCEPT ![q] = @ + 1]
            /\ guarded' = guarded \cup {r}
            /\ Goto(r, "working")
       ELSE UNCHANGED slotVars /\ Goto(r, "checking")
    /\ UNCHANGED <<mapVars, cancelled, path, previous, flightVars, outcome>>

----------------------------------------------------------------------------
(* get_patch_by_file_path, slot in hand                                     *)

(* The flag is read again before the cache is asked; a request whose        *)
(* arguments are malformed is answered here.                                *)
CheckBeforeCache(r) ==
    /\ pc[r] = "working"
    /\ IF cancelled[r] THEN FinishWith(r, "superseded")
       ELSE \/ FinishWith(r, "answered")
            \/ Goto(r, "reading") /\ UNCHANGED outcome
    /\ UNCHANGED <<mapVars, cancelled, slotVars, path, previous, seen, flightVars>>

Flying(s) == pc[s] \in {"fetching", "aborting"}

Hit(r) ==
    /\ pc[r] = "reading"
    /\ Goto(r, "resolving")
    /\ UNCHANGED <<mapVars, cancelled, slotVars, path, previous, seen, flightVars, outcome>>

(* The key of a patch names the file, so only a request of the same file    *)
(* can be joined.                                                           *)
JoinFlight(r) ==
    /\ pc[r] = "reading"
    /\ \E s \in Requests :
        Flying(s) /\ path[s] = path[r] /\ leader' = [leader EXCEPT ![r] = s]
    /\ Goto(r, "waiting")
    /\ UNCHANGED <<mapVars, cancelled, slotVars, path, previous, seen, fetched, outcome>>

(* Even with a flight of the same file in the air: it may be of another     *)
(* commit or scope, or swept by an invalidation.  The fetch begins by       *)
(* reading the flag.                                                        *)
TakeOff(r) ==
    /\ pc[r] = "reading"
    /\ Goto(r, IF cancelled[r] THEN "aborting" ELSE "fetching")
    /\ UNCHANGED <<mapVars, cancelled, slotVars, path, previous, seen, flightVars, outcome>>

(* What the cache returns for the result of a fetch.  A diff is gone on     *)
(* with, and so is an expired entry, which stands in for an error if there  *)
(* is one; else the error ends the request.                                 *)
TakeResult(r, result) ==
    \/ Goto(r, "resolving") /\ UNCHANGED outcome
    \/ FinishWith(r, result)

(* Git runs until it is done or the leader's flag is seen. *)
FetchReturns(r) ==
    /\ Flying(r)
    /\ \E result \in {"answered", "superseded"} :
        /\ result = "superseded" => cancelled[r]
        /\ pc[r] = "aborting" => result = "superseded"
        /\ fetched' = [fetched EXCEPT ![r] = result]
        /\ TakeResult(r, result)
    /\ UNCHANGED <<mapVars, cancelled, slotVars, path, previous, seen, leader>>

FollowerReturns(r) ==
    /\ pc[r] = "waiting"
    /\ fetched[leader[r]] # "none"
    /\ TakeResult(r, fetched[leader[r]])
    /\ UNCHANGED <<mapVars, cancelled, slotVars, path, previous, seen, flightVars>>

(* The flag is read for the last time before the contents of the file are   *)
(* looked for.                                                              *)
ResolveFiles(r) ==
    /\ pc[r] = "resolving"
    /\ FinishWith(r, IF cancelled[r] THEN "superseded" ELSE "answered")
    /\ UNCHANGED <<mapVars, cancelled, slotVars, path, previous, seen, flightVars>>

(* cleanup_request *)
RemoveFlag(r) ==
    /\ pc[r] = "cleaning"
    /\ active' = active \ {r}
    /\ Goto(r, "unlisting")
    /\ UNCHANGED <<latest, cancelled, slotVars, path, previous, seen, flightVars, outcome>>

(* Deviation: the path is removed whoever is its latest request. *)
UnlistAnyway(r) ==
    /\ pc[r] = "unlisting"
    /\ latest' = [latest EXCEPT ![QueueOf[r]][path[r]] = NoRequest]
    /\ Goto(r, IF r \in guarded THEN "releasing" ELSE "returned")
    /\ UNCHANGED <<active, cancelled, slotVars, path, previous, seen, flightVars, outcome>>

(* The path is removed only while this request is its latest.  A request    *)
(* that was refused a slot then returns; the others drop their guard first. *)
Unlist(r) ==
    /\ pc[r] = "unlisting"
    /\ latest' = IF IsLatest(r)
                 THEN [latest EXCEPT ![QueueOf[r]][path[r]] = NoRequest] ELSE latest
    /\ Goto(r, IF r \in guarded THEN "releasing" ELSE "returned")
    /\ UNCHANGED <<active, cancelled, slotVars, path, previous, seen, flightVars, outcome>>

(* Deviation: a superseded request keeps its slot. *)
ReleaseSlotIfAnswered(r) ==
    /\ pc[r] = "releasing"
    /\ workers' = IF outcome[r] # "superseded"
                  THEN [workers EXCEPT ![QueueOf[r]] = @ - 1] ELSE workers
    /\ guarded' = guarded \ {r}
    /\ Goto(r, "returned")
    /\ UNCHANGED <<mapVars, cancelled, path, previous, seen, flightVars, outcome>>

(* WorkerSlotGuard::drop, release_worker_slot *)
ReleaseSlot(r) ==
    /\ pc[r] = "releasing"
    /\ workers' = [workers EXCEPT ![QueueOf[r]] = @ - 1]
    /\ guarded' = guarded \ {r}
    /\ Goto(r, "returned")
    /\ UNCHANGED <<mapVars, cancelled, path, previous, seen, flightVars, outcome>>

----------------------------------------------------------------------------
Step(r) ==
    \/ Displace(r) \/ CancelPrevious(r) \/ InsertFlag(r)
    \/ CheckSuperseded(r) \/ LoadWorkers(r) \/ ClaimSlot(r)
    \/ CheckBeforeCache(r) \/ Hit(r) \/ JoinFlight(r) \/ TakeOff(r)
    \/ FetchReturns(r) \/ FollowerReturns(r) \/ ResolveFiles(r)
    \/ RemoveFlag(r) \/ Unlist(r) \/ ReleaseSlot(r)

Next == \E r \in Requests : Step(r)

Spec == Init /\ [][Next]_vars

(* A request once called is polled to its end; whether it is called at all  *)
(* is the user's affair.                                                    *)
FairSpec == Spec /\ \A r \in Requests : WF_vars(pc[r] # "idle" /\ Step(r))

----------------------------------------------------------------------------
(* Properties                                                               *)

Registering == {"idle", "looking", "inserting"}
AtWork == {"working", "reading", "waiting", "fetching", "aborting", "resolving"}
Results == {"answered", "superseded"}
GuardsOf(q) == {r \in guarded : QueueOf[r] = q}
Displaced(r) == \E s \in Requests : previous[s] = r

TypeOK ==
    /\ latest \in [Queues -> [Paths -> Requests \cup {NoRequest}]]
    /\ active \subseteq Requests
    /\ cancelled \in [Requests -> BOOLEAN]
    /\ workers \in [Queues -> 0 .. MaxWorkers]
    /\ guarded \subseteq Requests
    /\ path \in [Requests -> Paths]
    /\ previous \in [Requests -> Requests \cup {NoRequest}]
    /\ seen \in [Requests -> 0 .. MaxWorkers]
    /\ leader \in [Requests -> Requests \cup {NoRequest}]
    /\ fetched \in [Requests -> Results \cup {"none"}]
    /\ outcome \in [Requests -> Results \cup {"none"}]
    /\ pc \in [Requests -> Registering \cup AtWork \cup
            {"checking", "loading", "claiming", "cleaning", "unlisting",
             "releasing", "returned"}]

(* A queue never has more requests at work than MAX_CONCURRENT_OPERATIONS,  *)
(* although the count is loaded and claimed in two steps.                   *)
SlotsBounded == \A q \in Queues : Cardinality(GuardsOf(q)) <= MaxWorkers

(* A request at work that was displaced is told so: its flag is set by the  *)
(* time the registration that displaced it has returned.  A registration    *)
(* can miss the flag of one that is still registering; that one is refused  *)
(* its slot, because it is no longer the latest (lines 86, 118).            *)
DisplacedAreCancelled ==
    \A r, s \in Requests :
        previous[s] = r /\ pc[s] \notin Registering /\ pc[r] \in AtWork => cancelled[r]

(* "Superseded" is answered only for a cause: the request was displaced, or *)
(* it shared the fetch of one that was.  The second way is open to the      *)
(* latest request of a file, since the shared fetch obeys the flag of its   *)
(* leader.                                                                  *)
SupersededForCause ==
    \A r \in Requests :
        outcome[r] = "superseded" =>
            Displaced(r) \/ (leader[r] # NoRequest /\ Displaced(leader[r]))

(* When no request is under way the queue holds nothing of the past ones.   *)
NothingLeftBehind ==
    (\A r \in Requests : pc[r] \in {"idle", "returned"}) =>
        /\ active = {}
        /\ \A q \in Queues : workers[q] = 0 /\ latest[q] = [p \in Paths |-> NoRequest]

(* No two wait for each other: where every slot of a queue is taken,        *)
(* requests at work hold them, and whoever waits for the fetch of another   *)
(* has its answer, or that one is fetching and waits for nobody, itself     *)
(* with a slot.                                                             *)
NobodyWaitsInVain ==
    /\ \A q \in Queues : workers[q] = MaxWorkers => GuardsOf(q) # {}
    /\ \A r \in Requests :
        pc[r] = "waiting" =>
            fetched[leader[r]] # "none" \/ (Flying(leader[r]) /\ leader[r] \in guarded)

(* Every request returns, however many compete for the slots.               *)
EveryRequestReturns == \A r \in Requests : pc[r] # "idle" ~> pc[r] = "returned"

----------------------------------------------------------------------------
(* The inductive invariant                                                  *)

(* A request past its first check for supersession. *)
Admitted == AtWork \cup {"loading", "claiming"}

(* The worker count is the number of live guards. *)
SlotsInv ==
    /\ IsFiniteSet(guarded)
    /\ \A q \in Queues : workers[q] = Cardinality(GuardsOf(q))
    /\ \A r \in Requests :
        /\ r \in guarded => pc[r] \in AtWork \cup {"cleaning", "unlisting", "releasing"}
        /\ pc[r] \in AtWork \cup {"releasing"} => r \in guarded
        /\ pc[r] = "claiming" => seen[r] < MaxWorkers

(* Which requests the maps hold. *)
MapsInv ==
    /\ \A r \in Requests :
        r \in active <=> pc[r] \in Admitted \cup {"checking", "cleaning"}
    /\ \A q \in Queues, p \in Paths, r \in Requests :
        latest[q][p] = r => /\ QueueOf[r] = q /\ path[r] = p
                            /\ pc[r] \notin {"idle", "releasing", "returned"}

(* A request under way is the latest of its path until it is displaced, and *)
(* never again.                                                             *)
DisplacementInv ==
    /\ \A r \in Requests :
        /\ Displaced(r) => pc[r] # "idle" /\ ~IsLatest(r)
        /\ pc[r] \notin {"idle", "releasing", "returned"} => IsLatest(r) \/ Displaced(r)
        /\ pc[r] = "idle" => previous[r] = NoRequest
        /\ pc[r] = "looking" => previous[r] \in Requests
        /\ cancelled[r] => Displaced(r)
    /\ \A r, s \in Requests :
        previous[s] = r /\ pc[s] # "looking" /\ pc[r] \in Admitted => cancelled[r]

(* Where a request can be answered "superseded". *)
CausesInv ==
    /\ \A r \in Requests :
        /\ fetched[r] = "superseded" => Displaced(r)
        /\ pc[r] = "aborting" => cancelled[r]
        /\ pc[r] = "waiting" => leader[r] \in Requests
        /\ outcome[r] # "none" => pc[r] \in {"cleaning", "unlisting", "releasing", "returned"}
    /\ SupersededForCause

QueueInv == TypeOK /\ SlotsInv /\ MapsInv /\ DisplacementInv /\ CausesInv
=============================================================================
