---------------------------- MODULE CacheContract ----------------------------
(****************************************************************************)
(* What RepoCache promises the services that read through it, without       *)
(* keys, generations, flights or time.  The repository has a version that   *)
(* changes behind the cache's back; an invalidation of a namespace is the   *)
(* statement "whatever I was told before is out of date", made at one       *)
(* instant; a call is answered, at one instant, with an error or with a     *)
(* version that is at least as new as the last invalidation of its          *)
(* namespace that preceded the call.                                        *)
(****************************************************************************)
EXTENDS Naturals

CONSTANTS
    Requests,    \* the calls of get_or_refresh
    Namespaces,  \* the cache namespaces ("status", "history", ...)
    MaxVersion   \* bound: how often the repository may change

VARIABLES
    version,     \* the repository's current version
    floor,       \* the version at the last invalidation of each namespace
    phase,       \* "idle", "open" or "closed" for each call
    callFloor,   \* the floor of the call's namespace when the call was made
    answer       \* what the call returned

cvars == <<version, floor, phase, callFloor, answer>>

NoOutcome == [tag |-> "none", ver |-> 0]
Failed    == [tag |-> "err", ver |-> 0]
Value(v)  == [tag |-> "ok", ver |-> v]

Init ==
    /\ version = 0
    /\ floor = [ns \in Namespaces |-> 0]
    /\ phase = [r \in Requests |-> "idle"]
    /\ callFloor = [r \in Requests |-> 0]
    /\ answer = [r \in Requests |-> NoOutcome]

Change ==
    /\ version < MaxVersion
    /\ version' = version + 1
    /\ UNCHANGED <<floor, phase, callFloor, answer>>

Invalidate(scope) ==
    /\ floor' = [ns \in Namespaces |-> IF ns \in scope THEN version ELSE floor[ns]]
    /\ UNCHANGED <<version, phase, callFloor, answer>>

Call(r, ns) ==
    /\ phase[r] = "idle"
    /\ phase' = [phase EXCEPT ![r] = "open"]
    /\ callFloor' = [callFloor EXCEPT ![r] = floor[ns]]
    /\ UNCHANGED <<version, floor, answer>>

Answer(r, outcome) ==
    /\ phase[r] = "open"
    /\ \/ outcome = Failed
       \/ \E v \in callFloor[r] .. version : outcome = Value(v)
    /\ phase' = [phase EXCEPT ![r] = "closed"]
    /\ answer' = [answer EXCEPT ![r] = outcome]
    /\ UNCHANGED <<version, floor, callFloor>>

Next ==
    \/ Change
    \/ \E scope \in SUBSET Namespaces : Invalidate(scope)
    \/ \E r \in Requests, ns \in Namespaces : Call(r, ns)
    \/ \E r \in Requests :
        \/ Answer(r, Failed)
        \/ \E v \in 0 .. MaxVersion : Answer(r, Value(v))

Spec == Init /\ [][Next]_cvars
==============================================================================
