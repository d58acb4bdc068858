----------------------------- MODULE RepoContexts -----------------------------
(****************************************************************************)
(* The lifetime of repository contexts: create_repo_context,                *)
(* dispose_repo_context and dispose_repo_context_owner of crates/ipc/src/   *)
(* commands.rs, over the ContextRegistry of repository_watcher.rs (behind   *)
(* one mutex) and the map AppState.services (behind a read-write lock).     *)
(* The commands run concurrently and hold neither lock between their steps. *)
(*                                                                          *)
(* A context is named by the call that creates it (its id is a fresh UUID). *)
(****************************************************************************)
EXTENDS Naturals

CONSTANTS
    Creates,     \* calls of create_repo_context; also the contexts they make
    Disposals,   \* calls of dispose_repo_context
    Closings,    \* calls of dispose_repo_context_owner
    Owners,      \* owner ids: a webview and a tab of it
    NoContext    \* what a disposal holds before it is called

Calls == Creates \cup Disposals \cup Closings

ASSUME CallsAssumption ==
    /\ Creates \cap Disposals = {} /\ Creates \cap Closings = {}
    /\ Disposals \cap Closings = {}
    /\ NoContext \notin Creates

VARIABLES
    generations,   \* owner_generations
    registered,    \* the keys of `contexts`; a context's owner is in `owner`
    services,      \* the keys of AppState.services
    watcher,       \* each context's watcher: "none", "idle", "active", "stopped"
    owner,         \* the owner each create or closing names
    token,         \* each create's owner_generation
    target,        \* the context each disposal names
    removed,       \* each call's contexts taken out of the registry, not yet of services
    pc,            \* where each call stands
    superseded     \* history: creates whose owner began anew or was disposed since

registryVars == <<generations, registered>>
localVars    == <<owner, token, target, removed>>
vars == <<registryVars, services, watcher, localVars, pc, superseded>>

RegisteredOf(o) == {c \in registered : owner[c] = o}
BegunOf(o) == {c \in Creates : pc[c] # "idle" /\ owner[c] = o}

Init ==
    /\ generations = [o \in Owners |-> 0]
    /\ registered = {}
    /\ services = {}
    /\ watcher = [c \in Creates |-> "none"]
    /\ owner \in [Creates \cup Closings -> Owners]
    /\ token = [c \in Creates |-> 0]
    /\ target = [d \in Disposals |-> NoContext]
    /\ removed = [k \in Calls |-> {}]
    /\ pc = [k \in Calls |-> "idle"]
    /\ superseded = {}

(* RepositoryWatchers are dropped, which stops the active and idle ones.    *)
Stopped(cs) ==
    [c \in Creates |-> IF c \in cs /\ watcher[c] # "none" THEN "stopped" ELSE watcher[c]]

Goto(k, label) == pc' = [pc EXCEPT ![k] = label]

----------------------------------------------------------------------------
(* create_repo_context                                                      *)

(* begin_owner: a new generation, and the owner's contexts are retired.     *)
BeginOwner(c) ==
    /\ pc[c] = "idle"
    /\ generations' = [generations EXCEPT ![owner[c]] = @ + 1]
    /\ token' = [token EXCEPT ![c] = generations[owner[c]] + 1]
    /\ removed' = [removed EXCEPT ![c] = RegisteredOf(owner[c])]
    /\ registered' = registered \ RegisteredOf(owner[c])
    /\ superseded' = superseded \cup BegunOf(owner[c])
    /\ Goto(c, "retiring")
    /\ UNCHANGED <<services, watcher, owner, target>>

(* The retired watchers are dropped after the registry's lock. *)
StopRetired(c) ==
    /\ pc[c] = "retiring"
    /\ watcher' = Stopped(removed[c])
    /\ Goto(c, "unserving")
    /\ UNCHANGED <<registryVars, services, localVars, superseded>>

UnserveRetired(c) ==
    /\ pc[c] = "unserving"
    /\ services' = services \ removed[c]
    /\ removed' = [removed EXCEPT ![c] = {}]
    /\ Goto(c, "opening")
    /\ UNCHANGED <<registryVars, watcher, owner, token, target, superseded>>

(* list_repositories, RepoServices::new and RepositoryWatcher::new: an      *)
(* unknown or unreadable repository ends the call, a watcher that cannot be *)
(* made does not.                                                           *)
Open(c) ==
    /\ pc[c] = "opening"
    /\ \/ Goto(c, "failed") /\ UNCHANGED watcher
       \/ /\ Goto(c, "opened")
          /\ \E w \in {"none", "idle"} : watcher' = [watcher EXCEPT ![c] = w]
    /\ UNCHANGED <<registryVars, services, localVars, superseded>>

Serve(c) ==
    /\ pc[c] = "opened"
    /\ services' = services \cup {c}
    /\ Goto(c, "served")
    /\ UNCHANGED <<registryVars, watcher, localVars, superseded>>

(* Deviation: the owner's generation is not compared. *)
CanRegisterAnyway(c) == c \notin registered

(* can_register *)
CanRegister(c) ==
    /\ generations[owner[c]] = token[c]
    /\ c \notin registered

(* RepoContextRuntime::register: under the lock, the check, the activation  *)
(* of the watcher and the insertion.  A refused watcher is dropped.         *)
Register(c) ==
    /\ pc[c] = "served"
    /\ IF CanRegister(c)
       THEN /\ registered' = registered \cup {c}
            /\ watcher' = [watcher EXCEPT ![c] = IF @ = "none" THEN @ ELSE "active"]
            /\ Goto(c, "registered")
       ELSE /\ watcher' = Stopped({c})
            /\ Goto(c, "undoing")
            /\ UNCHANGED registered
    /\ UNCHANGED <<generations, services, localVars, superseded>>

(* The selected repository is saved, or the context is disposed again.      *)
PersistSucceeds(c) ==
    /\ pc[c] = "registered"
    /\ Goto(c, "done")
    /\ UNCHANGED <<registryVars, services, watcher, localVars, superseded>>

PersistFails(c) ==
    /\ pc[c] = "registered"
    /\ registered' = registered \ {c}
    /\ removed' = [removed EXCEPT ![c] = registered \cap {c}]
    /\ Goto(c, "stopping")
    /\ UNCHANGED <<generations, services, watcher, owner, token, target, superseded>>

(* The watcher that dispose_context removed is dropped after the lock.      *)
StopFailed(c) ==
    /\ pc[c] = "stopping"
    /\ watcher' = Stopped(removed[c])
    /\ removed' = [removed EXCEPT ![c] = {}]
    /\ Goto(c, "undoing")
    /\ UNCHANGED <<registryVars, services, owner, token, target, superseded>>

(* Deviation: a create that failed to save the selection returns its id.    *)
UnserveFailedReturnsId(c) ==
    /\ pc[c] = "undoing"
    /\ services' = services \ {c}
    /\ Goto(c, "done")
    /\ UNCHANGED <<registryVars, watcher, localVars, superseded>>

UnserveFailed(c) ==
    /\ pc[c] = "undoing"
    /\ services' = services \ {c}
    /\ Goto(c, "failed")
    /\ UNCHANGED <<registryVars, watcher, localVars, superseded>>

Create(c) ==
    \/ BeginOwner(c) \/ StopRetired(c) \/ UnserveRetired(c) \/ Open(c) \/ Serve(c)
    \/ Register(c) \/ PersistSucceeds(c) \/ PersistFails(c) \/ StopFailed(c)
    \/ UnserveFailed(c)

----------------------------------------------------------------------------
(* dispose_repo_context, of a context whose id the frontend was given.      *)

RemoveContext(d) ==
    /\ pc[d] = "idle"
    /\ \E c \in Creates :
        /\ pc[c] = "done"
        /\ target' = [target EXCEPT ![d] = c]
        /\ removed' = [removed EXCEPT ![d] = registered \cap {c}]
        /\ registered' = registered \ {c}
    /\ Goto(d, "stopping")
    /\ UNCHANGED <<generations, services, watcher, owner, token, superseded>>

(* dispose_repo_context_owner: dispose_owner, a generation of its own.      *)
RemoveOwner(k) ==
    /\ pc[k] = "idle"
    /\ generations' = [generations EXCEPT ![owner[k]] = @ + 1]
    /\ removed' = [removed EXCEPT ![k] = RegisteredOf(owner[k])]
    /\ registered' = registered \ RegisteredOf(owner[k])
    /\ superseded' = superseded \cup BegunOf(owner[k])
    /\ Goto(k, "stopping")
    /\ UNCHANGED <<services, watcher, owner, token, target>>

StopRemoved(k) ==
    /\ pc[k] = "stopping"
    /\ watcher' = Stopped(removed[k])
    /\ Goto(k, "unserving")
    /\ UNCHANGED <<registryVars, services, localVars, superseded>>

(* A disposal removes its context from the map, found in the registry or    *)
(* not; a closing removes those it found.                                   *)
UnserveRemoved(k) ==
    /\ pc[k] = "unserving"
    /\ services' = services \ IF k \in Disposals THEN {target[k]} ELSE removed[k]
    /\ removed' = [removed EXCEPT ![k] = {}]
    /\ Goto(k, "done")
    /\ UNCHANGED <<registryVars, watcher, owner, token, target, superseded>>

Next ==
    \/ \E c \in Creates : Create(c)
    \/ \E d \in Disposals : RemoveContext(d)
    \/ \E k \in Closings : RemoveOwner(k)
    \/ \E k \in Disposals \cup Closings : StopRemoved(k) \/ UnserveRemoved(k)

Spec == Init /\ [][Next]_vars

----------------------------------------------------------------------------
(* Types of the registry, the map and the calls. *)
TypeOK ==
    /\ generations \in [Owners -> Nat]
    /\ registered \in SUBSET Creates
    /\ services \in SUBSET Creates
    /\ watcher \in [Creates -> {"none", "idle", "active", "stopped"}]
    /\ owner \in [Creates \cup Closings -> Owners]
    /\ token \in [Creates -> Nat]
    /\ target \in [Disposals -> Creates \cup {NoContext}]
    /\ removed \in [Calls -> SUBSET Creates]
    /\ pc \in [Calls -> {"idle", "retiring", "unserving", "opening", "opened", "served",
                         "registered", "undoing", "stopping", "done", "failed"}]
    /\ superseded \in SUBSET Creates

(* An in-flight create cannot register after its owner was disposed or      *)
(* began another context (commands.rs, create_repo_context).                *)
NoneOutlivesItsOwner == registered \cap superseded = {}

(* An owner has at most one registered context.                             *)
OneContextPerOwner ==
    \A c, d \in registered : owner[c] = owner[d] => c = d

(* Commands on a registered context find its services.                      *)
RegisteredAreServed == registered \subseteq services

(* No leak: services outlive the registration of their context only while   *)
(* the call that will remove them is running.                               *)
Unserving(c) ==
    \/ pc[c] \in {"served", "stopping", "undoing"}
    \/ \E k \in Calls : c \in removed[k]
ServicesAreOwned == \A c \in services : c \in registered \/ Unserving(c)

(* No leak: a watcher reports only for a registered context, or until the   *)
(* call that took the context out of the registry has dropped it.           *)
ActiveWatchersAreOwned ==
    \A c \in Creates : watcher[c] = "active" =>
        \/ c \in registered
        \/ \E k \in Calls : c \in removed[k] /\ pc[k] \in {"retiring", "stopping"}

(* A context id given to the frontend is of a live context, unless its      *)
(* owner moved on or the frontend disposed it.                              *)
ReturnedContextsLive ==
    \A c \in Creates : pc[c] = "done" =>
        c \in registered \/ c \in superseded \/ \E d \in Disposals : target[d] = c
----------------------------------------------------------------------------
(* The inductive invariant behind these properties.                         *)

(* A create's token is its own, and current until its owner moves on.       *)
Begun(c) == pc[c] # "idle"
TokensInv ==
    \A c \in Creates :
        /\ token[c] <= generations[owner[c]]
        /\ ~ Begun(c) => c \notin superseded
        /\ Begun(c) => (c \in superseded <=> token[c] # generations[owner[c]])
        /\ \A d \in Creates :
            Begun(c) /\ Begun(d) /\ owner[c] = owner[d] /\ token[c] = token[d] => c = d

(* A context is registered only in these places of its create, and what was *)
(* removed from the registry does not come back.                            *)
RegisteredInv ==
    /\ \A c \in registered :
        /\ pc[c] \in {"registered", "done"}
        /\ token[c] = generations[owner[c]]
    /\ \A k \in Calls, c \in Creates : c \in removed[k] =>
        /\ c \notin registered
        /\ pc[c] \in {"registered", "stopping", "undoing", "done", "failed"}
    /\ \A d \in Disposals : target[d] # NoContext =>
        pc[target[d]] = "done" /\ target[d] \notin registered

(* What each call holds where. *)
CallsInv ==
    /\ \A k \in Calls :
        pc[k] \notin {"retiring", "stopping", "unserving"} => removed[k] = {}
    /\ \A c \in Creates :
        /\ pc[c] = "stopping" => removed[c] \subseteq {c}
        /\ pc[c] \in {"idle", "retiring", "unserving", "opening"} => watcher[c] = "none"
        /\ pc[c] \in {"opened", "served"} => watcher[c] # "active"
        /\ pc[c] = "served" => c \in services
    /\ \A d \in Disposals :
        /\ pc[d] = "idle" => target[d] = NoContext
        /\ removed[d] \subseteq {target[d]}
    /\ \A k \in Disposals \cup Closings :
        pc[k] \in {"idle", "stopping", "unserving", "done"}

LiveInv ==
    \A c \in Creates : pc[c] \in {"registered", "done"} =>
        c \in registered \/ c \in superseded \/ \E d \in Disposals : target[d] = c

ContextInv ==
    /\ TypeOK
    /\ TokensInv
    /\ RegisteredInv
    /\ CallsInv
    /\ RegisteredAreServed
    /\ ServicesAreOwned
    /\ ActiveWatchersAreOwned
    /\ LiveInv
==============================================================================
