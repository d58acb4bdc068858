------------------------------ MODULE RepoCache ------------------------------
(****************************************************************************)
(* RepoCache::get_or_refresh and the two invalidations of crates/git/       *)
(* cache.rs.  Every call of get_or_refresh runs between the cache's locks:  *)
(* it reads the two generations one after the other, looks its storage key  *)
(* up under the state lock, and then either returns a hit, waits for the    *)
(* flight of another call, or fetches, stores and notifies.                 *)
(*                                                                          *)
(* A value is the version of the repository the fetch read.  Time is one    *)
(* action, Expire: an entry may outlive its ttl at any moment.              *)
(****************************************************************************)
EXTENDS Naturals

CONSTANTS
    Requests,         \* the calls of get_or_refresh, each made once
    Invalidations,    \* the calls of invalidate_all / invalidate_namespaces
    Namespaces,       \* cache namespaces, with one key in each
    MaxVersion,       \* bound: how often the repository may change
    AtomicSubscribe   \* a follower registers with its flight's Notify before
                      \* another thread can run (a current-thread runtime)

ASSUME MaxVersionAssumption == MaxVersion \in Nat
ASSUME SubscribeAssumption == AtomicSubscribe \in BOOLEAN

VARIABLES
    version,        \* the repository's version (the outside world)
    generation,     \* RepoCache.generation
    nsGeneration,   \* RepoCache.namespace_generations
    entries,        \* state.entries: at most one entry per key
    inflight,       \* state.inflight: at most one flight per key
    pc,             \* where each call stands
    key,            \* the call's storage_key
    stale,          \* the call's `stale` local
    flight,         \* the call that leads the InFlight this call holds
    result,         \* InFlight.result of the flight this call leads
    ret,            \* what the call returned
    ipc,            \* where each invalidation stands
    scope,          \* the namespaces it invalidates
    genFloor,       \* history: the version when each generation began
    nsFloor,        \* history: the version when each namespace generation began
    callFloor,      \* history: the newest version the call must reflect
    swept           \* history: keys whose flight an invalidation dropped

cacheVars   == <<generation, nsGeneration, entries, inflight>>
callVars    == <<pc, key, stale, flight, result, ret, callFloor>>
invalVars   == <<ipc, scope>>
historyVars == <<genFloor, nsFloor, swept>>
vars == <<version, cacheVars, callVars, invalVars, historyVars>>

NoOutcome == [tag |-> "none", ver |-> 0]
Failed    == [tag |-> "err", ver |-> 0]
Value(v)  == [tag |-> "ok", ver |-> v]
Outcome   == {o \in [tag : {"none", "ok", "err"}, ver : Nat] : o.tag # "ok" => o.ver = 0}

StorageKey == [gen : Nat, nsGen : Nat, ns : Namespaces]
Entry  == [key : StorageKey, ver : Nat, fresh : BOOLEAN]
Flight == [key : StorageKey, leader : Requests]

Larger(a, b) == IF a >= b THEN a ELSE b

(* The newest version every value under storage key k must reflect: the one *)
(* at the younger of the two invalidations the key's generations stand for. *)
KeyFloor(k) == Larger(genFloor[k.gen], nsFloor[k.ns][k.nsGen])

CurrentKey(ns) == [gen |-> generation, nsGen |-> nsGeneration[ns], ns |-> ns]
CurrentFloor(ns) == KeyFloor(CurrentKey(ns))

(* resolve_result, and the same choice at the end of a leader's call: an    *)
(* error is replaced by the stale entry the call saw, when it saw one.  A   *)
(* flight without a result is the error "In-flight result missing".         *)
Resolve(outcome, fallback) ==
    IF outcome.tag = "none" THEN Failed
    ELSE IF outcome.tag = "err" /\ fallback.tag = "ok" THEN fallback
    ELSE outcome

Leading(r) == pc[r] \in {"fetching", "published"}

Init ==
    /\ version = 0
    /\ generation = 0
    /\ nsGeneration = [ns \in Namespaces |-> 0]
    /\ entries = {}
    /\ inflight = {}
    /\ pc = [r \in Requests |-> "idle"]
    /\ key \in [Requests -> {[gen |-> 0, nsGen |-> 0, ns |-> n] : n \in Namespaces}]
    /\ stale = [r \in Requests |-> NoOutcome]
    /\ flight = [r \in Requests |-> r]
    /\ result = [r \in Requests |-> NoOutcome]
    /\ ret = [r \in Requests |-> NoOutcome]
    /\ ipc = [i \in Invalidations |-> "idle"]
    /\ scope = [i \in Invalidations |-> {}]
    /\ genFloor = [g \in {0} |-> 0]
    /\ nsFloor = [ns \in Namespaces |-> [g \in {0} |-> 0]]
    /\ callFloor = [r \in Requests |-> 0]
    /\ swept = {}

(* The repository changes on disk, seen by the cache only through fetches.  *)
RepositoryChanges ==
    /\ version < MaxVersion
    /\ version' = version + 1
    /\ UNCHANGED <<cacheVars, callVars, invalVars, historyVars>>

(* An entry grows older than its ttl (CacheEntry::is_fresh turns false).    *)
Expire ==
    \E e \in entries :
        /\ e.fresh
        /\ entries' = (entries \ {e}) \cup {[e EXCEPT !.fresh = FALSE]}
        /\ UNCHANGED <<version, generation, nsGeneration, inflight, callVars,
                       invalVars, historyVars>>

----------------------------------------------------------------------------
(* get_or_refresh *)

(* build_storage_key, its first half: the atomic load of `generation`.      *)
(* Each call's namespace is chosen by Init.                                 *)
ReadGeneration(r) ==
    /\ pc[r] = "idle"
    /\ pc' = [pc EXCEPT ![r] = "keying"]
    /\ key' = [key EXCEPT ![r].gen = generation]
    /\ callFloor' = [callFloor EXCEPT ![r] = CurrentFloor(key[r].ns)]
    /\ UNCHANGED <<version, cacheVars, stale, flight, result, ret, invalVars,
                   historyVars>>

(* build_storage_key, its second half: the namespace's generation, read     *)
(* under the namespace_generations lock.                                    *)
ReadNamespaceGeneration(r) ==
    /\ pc[r] = "keying"
    /\ pc' = [pc EXCEPT ![r] = "keyed"]
    /\ key' = [key EXCEPT ![r].nsGen = nsGeneration[key[r].ns]]
    /\ UNCHANGED <<version, cacheVars, stale, flight, result, ret, callFloor,
                   invalVars, historyVars>>

(* Deviation: entries found by namespace, whatever their generation. *)
EntriesOfNamespace(k) == {e \in entries : e.key.ns = k.ns}

EntriesOf(k) == {e \in entries : e.key = k}
FlightsOf(k) == {f \in inflight : f.key = k}

(* The section under the state lock that returns a fresh entry. *)
Hit(r) ==
    /\ pc[r] = "keyed"
    /\ \E e \in EntriesOf(key[r]) :
        /\ e.fresh
        /\ ret' = [ret EXCEPT ![r] = Value(e.ver)]
    /\ pc' = [pc EXCEPT ![r] = "done"]
    /\ UNCHANGED <<version, cacheVars, key, stale, flight, result, callFloor,
                   invalVars, historyVars>>

(* What the call keeps to fall back on: the expired entry under its key.    *)
StaleValue(k) ==
    IF EntriesOf(k) = {} THEN NoOutcome
    ELSE Value((CHOOSE e \in EntriesOf(k) : TRUE).ver)

Misses(r) == pc[r] = "keyed" /\ \A e \in EntriesOf(key[r]) : ~ e.fresh

(* The same section when there is a flight for the key: become a follower.  *)
(* notified() registers only after the lock is released.                    *)
JoinFlight(r) ==
    /\ Misses(r)
    /\ \E f \in FlightsOf(key[r]) : flight' = [flight EXCEPT ![r] = f.leader]
    /\ stale' = [stale EXCEPT ![r] = StaleValue(key[r])]
    /\ pc' = [pc EXCEPT ![r] = IF AtomicSubscribe THEN "waiting" ELSE "joined"]
    /\ UNCHANGED <<version, cacheVars, key, result, ret, callFloor, invalVars,
                   historyVars>>

(* Deviation: the leader does not announce its flight. *)
TakeOffUnannounced(r) ==
    /\ Misses(r)
    /\ FlightsOf(key[r]) = {}
    /\ flight' = [flight EXCEPT ![r] = r]
    /\ stale' = [stale EXCEPT ![r] = StaleValue(key[r])]
    /\ pc' = [pc EXCEPT ![r] = "fetching"]
    /\ UNCHANGED <<version, cacheVars, key, result, ret, callFloor, invalVars, historyVars>>

(* The same section when there is none: insert a new InFlight and lead it.  *)
TakeOff(r) ==
    /\ Misses(r)
    /\ FlightsOf(key[r]) = {}
    /\ inflight' = inflight \cup {[key |-> key[r], leader |-> r]}
    /\ flight' = [flight EXCEPT ![r] = r]
    /\ stale' = [stale EXCEPT ![r] = StaleValue(key[r])]
    /\ pc' = [pc EXCEPT ![r] = "fetching"]
    /\ UNCHANGED <<version, generation, nsGeneration, entries, key, result, ret,
                   callFloor, invalVars, historyVars>>

(* A follower creates its Notified future; notify_waiters wakes only those  *)
(* that exist when it is called.                                            *)
Subscribe(r) ==
    /\ pc[r] = "joined"
    /\ pc' = [pc EXCEPT ![r] = "waiting"]
    /\ UNCHANGED <<version, cacheVars, key, stale, flight, result, ret, callFloor,
                   invalVars, historyVars>>

(* Deviation: the result is only filled in for a value. *)
FetchReturnsValueOnly(r) ==
    /\ pc[r] = "fetching"
    /\ \E outcome \in {Value(version), NoOutcome} :
           result' = [result EXCEPT ![r] = outcome]
    /\ pc' = [pc EXCEPT ![r] = "published"]
    /\ UNCHANGED <<version, cacheVars, key, stale, flight, ret, callFloor,
                   invalVars, historyVars>>

(* fetcher().await ends, with the version it read or an error, and the      *)
(* leader fills InFlight.result.                                            *)
FetchReturns(r) ==
    /\ pc[r] = "fetching"
    /\ \E outcome \in {Value(version), Failed} :
           result' = [result EXCEPT ![r] = outcome]
    /\ pc' = [pc EXCEPT ![r] = "published"]
    /\ UNCHANGED <<version, cacheVars, key, stale, flight, ret, callFloor,
                   invalVars, historyVars>>

(* The leader's second section under the state lock: insert the entry when  *)
(* there is a value, and remove the flight stored under the key, whoever    *)
(* leads it.                                                                *)
Store(r) ==
    /\ pc[r] = "published"
    /\ entries' = IF result[r].tag = "ok"
                  THEN (entries \ EntriesOf(key[r]))
                         \cup {[key |-> key[r], ver |-> result[r].ver, fresh |-> TRUE]}
                  ELSE entries
    /\ inflight' = inflight \ FlightsOf(key[r])
    /\ pc' = [pc EXCEPT ![r] = "stored"]
    /\ UNCHANGED <<version, generation, nsGeneration, key, stale, flight, result,
                   ret, callFloor, invalVars, historyVars>>

(* notify_waiters wakes the followers that are registered, and the leader   *)
(* returns.                                                                 *)
Notify(r) ==
    /\ pc[r] = "stored"
    /\ pc' = [q \in Requests |->
                IF q = r THEN "done"
                ELSE IF pc[q] = "waiting" /\ flight[q] = r THEN "woken"
                ELSE pc[q]]
    /\ ret' = [ret EXCEPT ![r] = Resolve(result[r], stale[r])]
    /\ UNCHANGED <<version, cacheVars, key, stale, flight, result, callFloor,
                   invalVars, historyVars>>

(* A woken follower reads its flight's result and returns. *)
FollowerReturns(r) ==
    /\ pc[r] = "woken"
    /\ ret' = [ret EXCEPT ![r] = Resolve(result[flight[r]], stale[r])]
    /\ pc' = [pc EXCEPT ![r] = "done"]
    /\ UNCHANGED <<version, cacheVars, key, stale, flight, result, callFloor,
                   invalVars, historyVars>>

----------------------------------------------------------------------------
(* invalidate_all and invalidate_namespaces *)

Extend(f, x, v) == [y \in DOMAIN f \cup {x} |-> IF y = x THEN v ELSE f[y]]

(* invalidate_all: the fetch_add on generation. *)
BumpAll(i) ==
    /\ ipc[i] = "idle"
    /\ ipc' = [ipc EXCEPT ![i] = "bumped"]
    /\ scope' = [scope EXCEPT ![i] = Namespaces]
    /\ generation' = generation + 1
    /\ genFloor' = Extend(genFloor, generation + 1, version)
    /\ UNCHANGED <<version, nsGeneration, entries, inflight, callVars, nsFloor, swept>>

(* Deviation: the maps are swept without opening a new generation. *)
BumpNamespacesNot(i) ==
    /\ ipc[i] = "idle"
    /\ \E hit \in (SUBSET Namespaces) \ {{}} :
        /\ scope' = [scope EXCEPT ![i] = hit]
        /\ nsFloor' = [ns \in Namespaces |->
               IF ns \in hit THEN Extend(nsFloor[ns], nsGeneration[ns], version)
               ELSE nsFloor[ns]]
    /\ ipc' = [ipc EXCEPT ![i] = "bumped"]
    /\ UNCHANGED <<version, generation, nsGeneration, entries, inflight, callVars,
                   genFloor, swept>>

(* invalidate_namespaces: the loop under the namespace_generations lock.    *)
BumpNamespaces(i) ==
    /\ ipc[i] = "idle"
    /\ \E hit \in (SUBSET Namespaces) \ {{}} :
        /\ scope' = [scope EXCEPT ![i] = hit]
        /\ nsGeneration' = [ns \in Namespaces |->
               IF ns \in hit THEN nsGeneration[ns] + 1 ELSE nsGeneration[ns]]
        /\ nsFloor' = [ns \in Namespaces |->
               IF ns \in hit THEN Extend(nsFloor[ns], nsGeneration[ns] + 1, version)
               ELSE nsFloor[ns]]
    /\ ipc' = [ipc EXCEPT ![i] = "bumped"]
    /\ UNCHANGED <<version, generation, entries, inflight, callVars, genFloor, swept>>

(* Both: the section under the state lock.  clear() is retain() over every  *)
(* namespace; storage_key_matches_namespace looks at the namespace alone,   *)
(* so keys of the new generation are dropped with the old ones.             *)
Sweep(i) ==
    /\ ipc[i] = "bumped"
    /\ ipc' = [ipc EXCEPT ![i] = "done"]
    /\ entries' = {e \in entries : e.key.ns \notin scope[i]}
    /\ inflight' = {f \in inflight : f.key.ns \notin scope[i]}
    /\ swept' = swept \cup {f.key : f \in {g \in inflight : g.key.ns \in scope[i]}}
    /\ UNCHANGED <<version, generation, nsGeneration, callVars, scope, genFloor, nsFloor>>

----------------------------------------------------------------------------
RequestStep(r) ==
    \/ ReadGeneration(r) \/ ReadNamespaceGeneration(r)
    \/ Hit(r) \/ JoinFlight(r) \/ TakeOff(r)
    \/ Subscribe(r) \/ FetchReturns(r) \/ Store(r) \/ Notify(r) \/ FollowerReturns(r)

InvalidationStep(i) == BumpAll(i) \/ BumpNamespaces(i) \/ Sweep(i)

Next ==
    \/ RepositoryChanges
    \/ Expire
    \/ \E r \in Requests : RequestStep(r)
    \/ \E i \in Invalidations : InvalidationStep(i)

Spec == Init /\ [][Next]_vars

(* A task of the async runtime that can run does run, and a fetch ends: the *)
(* git process or git2 call behind it is assumed to.                        *)
Fairness == \A r \in Requests : WF_vars(RequestStep(r))
FairSpec == Spec /\ Fairness

----------------------------------------------------------------------------
PCs == {"idle", "keying", "keyed", "joined", "waiting", "woken", "fetching",
        "published", "stored", "done"}

(* Types of the cache's state, the calls' locals and the history.           *)
TypeOK ==
    /\ version \in Nat
    /\ generation \in Nat
    /\ nsGeneration \in [Namespaces -> Nat]
    /\ entries \in SUBSET Entry
    /\ inflight \in SUBSET Flight
    /\ pc \in [Requests -> PCs]
    /\ key \in [Requests -> StorageKey]
    /\ stale \in [Requests -> Outcome]
    /\ flight \in [Requests -> Requests]
    /\ result \in [Requests -> Outcome]
    /\ ret \in [Requests -> Outcome]
    /\ ipc \in [Invalidations -> {"idle", "bumped", "done"}]
    /\ scope \in [Invalidations -> SUBSET Namespaces]
    /\ genFloor \in [0 .. generation -> Nat]
    /\ DOMAIN nsFloor = Namespaces
    /\ \A ns \in Namespaces : nsFloor[ns] \in [0 .. nsGeneration[ns] -> Nat]
    /\ callFloor \in [Requests -> Nat]
    /\ swept \in SUBSET StorageKey

(* A call that starts after an invalidation of its namespace never returns  *)
(* a value that was fetched before it: not as a hit, not from a flight of   *)
(* the old generation that lands late, and not as the stale fallback of a   *)
(* failed refresh (cache.rs, build_storage_key and the two invalidations).  *)
FreshAfterInvalidation ==
    \A r \in Requests :
        ret[r].tag = "ok" => ret[r].ver >= callFloor[r]

(* Two fetches run for one storage key at the same time only if an          *)
(* invalidation dropped a flight of that key: deduplication is lost to a    *)
(* race with an invalidation and to nothing else.                           *)
SingleFlight ==
    \A r, q \in Requests :
        Leading(r) /\ Leading(q) /\ r # q /\ key[r] = key[q] => key[r] \in swept

(* A flight that can be joined has a leader that has yet to land it: no     *)
(* request attaches itself to a flight that is over.                        *)
JoinableFlightsAreLive ==
    \A f \in inflight : Leading(f.leader) /\ key[f.leader] = f.key

(* A follower that is woken finds the result of its flight: the error       *)
(* "In-flight result missing" of get_or_refresh cannot occur.               *)
WokenFindsResult ==
    \A r \in Requests : pc[r] = "woken" => result[flight[r]].tag # "none"

(* Every call of get_or_refresh returns. *)
EveryCallReturns ==
    \A r \in Requests : pc[r] = "keying" ~> pc[r] = "done"

Contract == INSTANCE CacheContract WITH
    floor  <- [ns \in Namespaces |-> CurrentFloor(ns)],
    phase  <- [r \in Requests |-> IF pc[r] = "idle" THEN "idle"
                                  ELSE IF pc[r] = "done" THEN "closed" ELSE "open"],
    answer <- ret

(* The cache implements its contract: an invalidation takes effect at the   *)
(* instant its generation is bumped, whatever is in flight.                 *)
ImplementsContract == Contract!Spec
----------------------------------------------------------------------------
(* The inductive invariant behind the safety properties, in parts.          *)

(* A generation's floor is a version the repository has had, and a younger  *)
(* generation has no older floor.                                           *)
FloorsOrdered ==
    /\ version <= MaxVersion
    /\ \A g \in 0 .. generation : genFloor[g] <= version
    /\ \A g, h \in 0 .. generation : g <= h => genFloor[g] <= genFloor[h]
    /\ \A ns \in Namespaces :
        /\ \A g \in 0 .. nsGeneration[ns] : nsFloor[ns][g] <= version
        /\ \A g, h \in 0 .. nsGeneration[ns] : g <= h => nsFloor[ns][g] <= nsFloor[ns][h]

(* Keys name generations that exist. *)
Issued(k) == k.gen <= generation /\ k.nsGen <= nsGeneration[k.ns]

KeysIssued ==
    /\ \A r \in Requests : Issued(key[r])
    /\ \A e \in entries : Issued(e.key)

(* A value filed under key k was fetched after both invalidations that k's  *)
(* generations stand for, and is a version the repository has had.          *)
WithinKey(v, k) == KeyFloor(k) <= v /\ v <= version

ValuesWithinKey ==
    /\ \A e \in entries : WithinKey(e.ver, e.key)
    /\ \A r \in Requests : result[r].tag = "ok" => WithinKey(result[r].ver, key[r])
    /\ \A r \in Requests : stale[r].tag = "ok" => WithinKey(stale[r].ver, key[r])

(* The key a call uses is at least as young as the call: half way through   *)
(* build_storage_key the namespace's generation is still to be read, and    *)
(* can only have grown since the call began.                                *)
CallsWithinKey ==
    \A r \in Requests :
        /\ pc[r] = "keying" =>
              callFloor[r] <= Larger(genFloor[key[r].gen],
                                     nsFloor[key[r].ns][nsGeneration[key[r].ns]])
        /\ pc[r] \notin {"idle", "keying"} => callFloor[r] <= KeyFloor(key[r])

(* Locals are set where the code sets them. *)
Following(r) == pc[r] \in {"joined", "waiting", "woken"}

LocalsInOrder ==
    \A r \in Requests :
        /\ pc[r] \in {"idle", "keying", "keyed"} => stale[r].tag = "none"
        /\ pc[r] \notin {"published", "stored", "done"} => result[r].tag = "none"
        /\ pc[r] \in {"published", "stored"} => result[r].tag # "none"
        /\ pc[r] # "done" => ret[r].tag = "none"
        /\ Following(r) =>
              /\ key[flight[r]] = key[r]
              /\ pc[flight[r]] \in {"fetching", "published", "stored", "done"}

(* What a call returned is inside its key, hence inside its contract.       *)
AnswersWithinContract ==
    \A r \in Requests :
        ret[r].tag = "ok" => callFloor[r] <= ret[r].ver /\ ret[r].ver <= version

(* A leader's flight is on the map unless an invalidation swept its key.    *)
FlightsOnMap ==
    /\ \A f, g \in inflight : f.key = g.key => f = g
    /\ \A r \in Requests :
          Leading(r) => \/ key[r] \in swept
                        \/ [key |-> key[r], leader |-> r] \in inflight

FreshnessInv ==
    /\ TypeOK
    /\ FloorsOrdered
    /\ KeysIssued
    /\ ValuesWithinKey
    /\ CallsWithinKey
    /\ LocalsInOrder
    /\ WokenFindsResult
    /\ AnswersWithinContract

FlightInv ==
    /\ TypeOK
    /\ JoinableFlightsAreLive
    /\ FlightsOnMap
==============================================================================
