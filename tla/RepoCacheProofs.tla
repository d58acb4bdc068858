--------------------------- MODULE RepoCacheProofs ---------------------------
(****************************************************************************)
(* Theorems about RepoCache, for any sets of calls, invalidations and       *)
(* namespaces and any bound on the repository's versions.                   *)
(****************************************************************************)
EXTENDS RepoCache, TLAPS

(* Extending a floor history by the next generation. *)
LEMMA ExtendHistory ==
    ASSUME NEW n \in Nat, NEW f \in [0 .. n -> Nat], NEW v \in Nat
    PROVE  /\ Extend(f, n + 1, v) \in [0 .. (n + 1) -> Nat]
           /\ Extend(f, n + 1, v)[n + 1] = v
  BY DEF Extend

LEMMA ExtendKeeps ==
    ASSUME NEW n \in Nat, NEW f \in [0 .. n -> Nat], NEW v, NEW m \in 0 .. n
    PROVE  Extend(f, n + 1, v)[m] = f[m]
  BY DEF Extend

(* The two lemmas at the generation counter. *)
LEMMA BumpedGeneration ==
    ASSUME TypeOK, NEW i \in Invalidations, BumpAll(i)
    PROVE  /\ genFloor'[generation + 1] = version
           /\ \A g \in 0 .. generation : genFloor'[g] = genFloor[g]
  <1>1. /\ generation \in Nat /\ genFloor \in [0 .. generation -> Nat] /\ version \in Nat
        /\ genFloor' = Extend(genFloor, generation + 1, version)
    BY DEF BumpAll, TypeOK
  <1>2. Extend(genFloor, generation + 1, version)[generation + 1] = version
    BY <1>1, ExtendHistory
  <1>3. \A g \in 0 .. generation : Extend(genFloor, generation + 1, version)[g] = genFloor[g]
    BY <1>1, ExtendKeeps
  <1>4. QED
    BY <1>1, <1>2, <1>3

(* A key's floor is a number whenever the key was issued. *)
LEMMA FloorIsNat ==
    ASSUME TypeOK, NEW k \in StorageKey, Issued(k)
    PROVE  /\ KeyFloor(k) \in Nat
           /\ genFloor[k.gen] \in Nat
           /\ nsFloor[k.ns][k.nsGen] \in Nat
           /\ k.gen \in 0 .. generation
           /\ k.nsGen \in 0 .. nsGeneration[k.ns]
           /\ k.ns \in Namespaces
  <1>1. k.gen \in 0 .. generation /\ k.nsGen \in 0 .. nsGeneration[k.ns] /\ k.ns \in Namespaces
    BY DEF TypeOK, StorageKey, Issued
  <1>2. genFloor[k.gen] \in Nat /\ nsFloor[k.ns][k.nsGen] \in Nat
    BY <1>1 DEF TypeOK
  <1>3. QED
    BY <1>1, <1>2 DEF KeyFloor, Larger

(* The key a call would build now is an issued key. *)
LEMMA CurrentKeyIssued ==
    ASSUME TypeOK, NEW ns \in Namespaces
    PROVE  /\ CurrentKey(ns) \in StorageKey
           /\ Issued(CurrentKey(ns))
           /\ CurrentFloor(ns) \in Nat
  <1>1. CurrentKey(ns) \in StorageKey /\ Issued(CurrentKey(ns))
    BY DEF TypeOK, CurrentKey, StorageKey, Issued
  <1>2. QED
    BY <1>1, FloorIsNat DEF CurrentFloor

(* Bumping the generation keeps the histories well formed. *)
LEMMA BumpAllTyped ==
    ASSUME TypeOK, NEW i \in Invalidations, BumpAll(i)
    PROVE  TypeOK'
  <1>1. genFloor' \in [0 .. generation' -> Nat]
    BY ExtendHistory DEF BumpAll, TypeOK
  <1>2. QED
    BY <1>1 DEF BumpAll, TypeOK, callVars, Outcome

LEMMA BumpNamespacesTyped ==
    ASSUME TypeOK, NEW i \in Invalidations, BumpNamespaces(i)
    PROVE  TypeOK'
  <1>1. PICK hit \in (SUBSET Namespaces) \ {{}} :
          /\ scope' = [scope EXCEPT ![i] = hit]
          /\ nsGeneration' = [ns \in Namespaces |->
                 IF ns \in hit THEN nsGeneration[ns] + 1 ELSE nsGeneration[ns]]
          /\ nsFloor' = [ns \in Namespaces |->
                 IF ns \in hit THEN Extend(nsFloor[ns], nsGeneration[ns] + 1, version)
                 ELSE nsFloor[ns]]
    BY DEF BumpNamespaces
  <1>2. nsGeneration' \in [Namespaces -> Nat]
    BY <1>1 DEF TypeOK
  <1>3. ASSUME NEW ns \in Namespaces
        PROVE  nsFloor'[ns] \in [0 .. nsGeneration'[ns] -> Nat]
    <2>1. CASE ns \in hit
      <3>1. nsFloor'[ns] = Extend(nsFloor[ns], nsGeneration[ns] + 1, version)
        BY <1>1, <2>1
      <3>2. nsGeneration'[ns] = nsGeneration[ns] + 1
        BY <1>1, <2>1
      <3>3. nsGeneration[ns] \in Nat /\ nsFloor[ns] \in [0 .. nsGeneration[ns] -> Nat]
            /\ version \in Nat
        BY DEF TypeOK
      <3>4. Extend(nsFloor[ns], nsGeneration[ns] + 1, version)
              \in [0 .. (nsGeneration[ns] + 1) -> Nat]
        BY <3>3, ExtendHistory
      <3>5. QED
        BY <3>1, <3>2, <3>4
    <2>2. CASE ns \notin hit
      BY <1>1, <2>2 DEF TypeOK
    <2>3. QED
      BY <2>1, <2>2
  <1>4. DOMAIN nsFloor' = Namespaces
    BY <1>1
  <1>5. scope' \in [Invalidations -> SUBSET Namespaces]
    BY <1>1 DEF TypeOK
  <1>6. QED
    BY <1>2, <1>3, <1>4, <1>5 DEF BumpNamespaces, TypeOK, callVars

LEMMA StoreTyped ==
    ASSUME TypeOK, NEW r \in Requests, Store(r)
    PROVE  TypeOK'
  <1>1. [key |-> key[r], ver |-> result[r].ver, fresh |-> TRUE] \in Entry
    BY DEF TypeOK, Entry, Outcome
  <1>2. entries' \in SUBSET Entry
    BY <1>1 DEF Store, TypeOK, EntriesOf
  <1>3. pc' \in [Requests -> PCs]
    BY DEF Store, TypeOK, PCs
  <1>4. inflight' \in SUBSET Flight
    BY DEF Store, TypeOK
  <1>5. QED
    BY <1>2, <1>3, <1>4 DEF Store, TypeOK, invalVars, historyVars

LEMMA OutcomeFacts ==
    /\ NoOutcome \in Outcome
    /\ Failed \in Outcome
    /\ \A v \in Nat : Value(v) \in Outcome /\ Value(v).tag = "ok" /\ Value(v).ver = v
    /\ NoOutcome.tag = "none"
    /\ Failed.tag = "err"
    /\ \A o, p \in Outcome : Resolve(o, p) \in Outcome
  BY DEF NoOutcome, Failed, Value, Outcome, Resolve

(* An outcome is nothing, an error or a value. *)
LEMMA OutcomeShapes ==
    ASSUME NEW o \in Outcome, o.tag # "none"
    PROVE  o = Failed \/ o = Value(o.ver)
  BY DEF Outcome, Failed, Value

(* The stale fallback is the value of an entry under the same key. *)
LEMMA StaleIsAnEntry ==
    ASSUME TypeOK, NEW k \in StorageKey
    PROVE  /\ StaleValue(k) \in Outcome
           /\ StaleValue(k).tag = "ok" =>
                \E e \in entries : e.key = k /\ StaleValue(k).ver = e.ver
  <1>1. CASE EntriesOf(k) = {}
    BY <1>1, OutcomeFacts DEF StaleValue
  <1>2. CASE EntriesOf(k) # {}
    <2>1. PICK e \in EntriesOf(k) : e = CHOOSE x \in EntriesOf(k) : TRUE
      BY <1>2
    <2>2. e \in entries /\ e.key = k /\ e.ver \in Nat
      BY DEF EntriesOf, TypeOK, Entry
    <2>3. StaleValue(k) = Value(e.ver)
      BY <1>2, <2>1 DEF StaleValue
    <2>4. QED
      BY <2>2, <2>3, OutcomeFacts
  <1>3. QED
    BY <1>1, <1>2

(* Every step of the cache preserves the types of its state. *)
LEMMA TypeStep == TypeOK /\ [Next]_vars => TypeOK'
  <1> SUFFICES ASSUME TypeOK, [Next]_vars PROVE TypeOK'
    OBVIOUS
  <1>1. CASE RepositoryChanges
    BY <1>1 DEF RepositoryChanges, TypeOK, cacheVars, callVars, invalVars, historyVars
  <1>2. CASE Expire
    <2>1. entries' \in SUBSET Entry
      BY <1>2 DEF Expire, TypeOK, Entry
    <2>2. QED
      BY <1>2, <2>1 DEF Expire, TypeOK, callVars, invalVars, historyVars
  <1>3. ASSUME NEW r \in Requests, ReadGeneration(r) PROVE TypeOK'
    <2>1. CurrentFloor(key[r].ns) \in Nat
      BY CurrentKeyIssued DEF TypeOK, StorageKey
    <2>2. callFloor' \in [Requests -> Nat]
      BY <1>3, <2>1 DEF ReadGeneration, TypeOK
    <2>3. key' \in [Requests -> StorageKey]
      BY <1>3 DEF ReadGeneration, TypeOK, StorageKey
    <2>4. pc' \in [Requests -> PCs]
      BY <1>3 DEF ReadGeneration, TypeOK, PCs
    <2>5. QED
      BY <1>3, <2>2, <2>3, <2>4 DEF ReadGeneration, TypeOK, cacheVars, invalVars, historyVars
  <1>4. ASSUME NEW r \in Requests, ReadNamespaceGeneration(r) PROVE TypeOK'
    <2>1. key' \in [Requests -> StorageKey]
      BY <1>4 DEF ReadNamespaceGeneration, TypeOK, StorageKey
    <2>2. pc' \in [Requests -> PCs]
      BY <1>4 DEF ReadNamespaceGeneration, TypeOK, PCs
    <2>3. QED
      BY <1>4, <2>1, <2>2
      DEF ReadNamespaceGeneration, TypeOK, cacheVars, invalVars, historyVars
  <1>5. ASSUME NEW r \in Requests, Hit(r) PROVE TypeOK'
    <2>1. PICK e \in EntriesOf(key[r]) : ret' = [ret EXCEPT ![r] = Value(e.ver)]
      BY <1>5 DEF Hit
    <2>2. Value(e.ver) \in Outcome
      BY OutcomeFacts DEF EntriesOf, TypeOK, Entry
    <2>3. ret' \in [Requests -> Outcome]
      BY <2>1, <2>2 DEF TypeOK
    <2>4. pc' \in [Requests -> PCs]
      BY <1>5 DEF Hit, TypeOK, PCs
    <2>5. QED
      BY <1>5, <2>3, <2>4 DEF Hit, TypeOK, cacheVars, invalVars, historyVars
  <1>6. ASSUME NEW r \in Requests, JoinFlight(r) PROVE TypeOK'
    <2>1. PICK f \in FlightsOf(key[r]) : flight' = [flight EXCEPT ![r] = f.leader]
      BY <1>6 DEF JoinFlight
    <2>2. flight' \in [Requests -> Requests]
      BY <2>1 DEF FlightsOf, TypeOK, Flight
    <2>3. stale' \in [Requests -> Outcome]
      BY <1>6, StaleIsAnEntry DEF JoinFlight, TypeOK
    <2>4. pc' \in [Requests -> PCs]
      BY <1>6 DEF JoinFlight, TypeOK, PCs
    <2>5. QED
      BY <1>6, <2>2, <2>3, <2>4 DEF JoinFlight, TypeOK, cacheVars, invalVars, historyVars
  <1>7. ASSUME NEW r \in Requests, TakeOff(r) PROVE TypeOK'
    <2>1. [key |-> key[r], leader |-> r] \in Flight
      BY DEF TypeOK, Flight
    <2>2. stale' \in [Requests -> Outcome]
      BY <1>7, StaleIsAnEntry DEF TakeOff, TypeOK
    <2>3. pc' \in [Requests -> PCs]
      BY <1>7 DEF TakeOff, TypeOK, PCs
    <2>4. inflight' \in SUBSET Flight
      BY <1>7, <2>1 DEF TakeOff, TypeOK
    <2>5. QED
      BY <1>7, <2>2, <2>3, <2>4 DEF TakeOff, TypeOK, invalVars, historyVars
  <1>8. ASSUME NEW r \in Requests, Subscribe(r) PROVE TypeOK'
    BY <1>8 DEF Subscribe, TypeOK, PCs, cacheVars, invalVars, historyVars
  <1>9. ASSUME NEW r \in Requests, FetchReturns(r) PROVE TypeOK'
    <2>1. result' \in [Requests -> Outcome]
      BY <1>9, OutcomeFacts DEF FetchReturns, TypeOK
    <2>2. pc' \in [Requests -> PCs]
      BY <1>9 DEF FetchReturns, TypeOK, PCs
    <2>3. QED
      BY <1>9, <2>1, <2>2 DEF FetchReturns, TypeOK, cacheVars, invalVars, historyVars
  <1>10. ASSUME NEW r \in Requests, Store(r) PROVE TypeOK'
    BY <1>10, StoreTyped
  <1>11. ASSUME NEW r \in Requests, Notify(r) PROVE TypeOK'
    <2>1. ret' \in [Requests -> Outcome]
      BY <1>11, OutcomeFacts DEF Notify, TypeOK
    <2>2. pc' \in [Requests -> PCs]
      BY <1>11 DEF Notify, TypeOK, PCs
    <2>3. QED
      BY <1>11, <2>1, <2>2 DEF Notify, TypeOK, cacheVars, invalVars, historyVars
  <1>12. ASSUME NEW r \in Requests, FollowerReturns(r) PROVE TypeOK'
    <2>1. ret' \in [Requests -> Outcome]
      BY <1>12, OutcomeFacts DEF FollowerReturns, TypeOK
    <2>2. pc' \in [Requests -> PCs]
      BY <1>12 DEF FollowerReturns, TypeOK, PCs
    <2>3. QED
      BY <1>12, <2>1, <2>2 DEF FollowerReturns, TypeOK, cacheVars, invalVars, historyVars
  <1>13. ASSUME NEW i \in Invalidations, BumpAll(i) PROVE TypeOK'
    BY <1>13, BumpAllTyped
  <1>14. ASSUME NEW i \in Invalidations, BumpNamespaces(i) PROVE TypeOK'
    BY <1>14, BumpNamespacesTyped
  <1>15. ASSUME NEW i \in Invalidations, Sweep(i) PROVE TypeOK'
    <2>1. entries' \in SUBSET Entry /\ inflight' \in SUBSET Flight
      BY <1>15 DEF Sweep, TypeOK
    <2>2. swept' \in SUBSET StorageKey
      BY <1>15 DEF Sweep, TypeOK, Flight
    <2>3. QED
      BY <1>15, <2>1, <2>2 DEF Sweep, TypeOK, callVars
  <1>16. CASE UNCHANGED vars
    BY <1>16 DEF vars, TypeOK, cacheVars, callVars, invalVars, historyVars
  <1>17. QED
    BY <1>1, <1>2, <1>3, <1>4, <1>5, <1>6, <1>7, <1>8, <1>9, <1>10, <1>11, <1>12,
       <1>13, <1>14, <1>15, <1>16
    DEF Next, RequestStep, InvalidationStep

(* The cache's state keeps its types, however calls and invalidations of    *)
(* get_or_refresh interleave.                                               *)
THEOREM TypeCorrect == Spec => []TypeOK
  <1>1. Init => TypeOK
    BY DEF Init, TypeOK, StorageKey, Outcome, NoOutcome, PCs
  <1>2. QED
    BY <1>1, TypeStep, PTL DEF Spec

----------------------------------------------------------------------------
(* Freshness *)

(* A bump leaves the floor of every issued key, and every key issued.       *)
LEMMA BumpKeepsFloors ==
    ASSUME TypeOK, NEW i \in Invalidations, BumpAll(i) \/ BumpNamespaces(i),
           NEW k \in StorageKey, Issued(k)
    PROVE  /\ Issued(k)'
           /\ KeyFloor(k)' = KeyFloor(k)
  <1>1. k.gen \in 0 .. generation /\ k.nsGen \in 0 .. nsGeneration[k.ns] /\ k.ns \in Namespaces
    BY FloorIsNat
  <1>2. generation \in Nat /\ nsGeneration[k.ns] \in Nat /\ version \in Nat
    BY <1>1 DEF TypeOK
  <1>3. CASE BumpAll(i)
    <2>1. genFloor'[k.gen] = genFloor[k.gen]
      BY <1>1, <1>3, BumpedGeneration
    <2>2. QED
      BY <1>1, <1>2, <1>3, <2>1 DEF BumpAll, Issued, KeyFloor
  <1>4. CASE BumpNamespaces(i)
    <2>1. PICK hit \in (SUBSET Namespaces) \ {{}} :
            /\ nsGeneration' = [ns \in Namespaces |->
                   IF ns \in hit THEN nsGeneration[ns] + 1 ELSE nsGeneration[ns]]
            /\ nsFloor' = [ns \in Namespaces |->
                   IF ns \in hit THEN Extend(nsFloor[ns], nsGeneration[ns] + 1, version)
                   ELSE nsFloor[ns]]
      BY <1>4 DEF BumpNamespaces
    <2>2. nsFloor[k.ns] \in [0 .. nsGeneration[k.ns] -> Nat]
      BY <1>1 DEF TypeOK
    <2>3. Extend(nsFloor[k.ns], nsGeneration[k.ns] + 1, version)[k.nsGen] = nsFloor[k.ns][k.nsGen]
      <3> DEFINE f == nsFloor[k.ns]  n == nsGeneration[k.ns]  m == k.nsGen
      <3>1. n \in Nat /\ f \in [0 .. n -> Nat] /\ m \in 0 .. n
        BY <1>1, <1>2, <2>2
      <3> HIDE DEF f, n, m
      <3>2. Extend(f, n + 1, version)[m] = f[m]
        BY <3>1, ExtendKeeps
      <3>3. QED
        BY <3>2 DEF f, n, m
    <2>4. nsFloor'[k.ns][k.nsGen] = nsFloor[k.ns][k.nsGen]
      BY <1>1, <2>1, <2>3
    <2>5. genFloor' = genFloor /\ generation' = generation
      BY <1>4 DEF BumpNamespaces
    <2>6. nsGeneration'[k.ns] >= nsGeneration[k.ns]
      BY <1>1, <1>2, <2>1
    <2>7. nsGeneration'[k.ns] \in Nat
      BY <1>1, <1>2, <2>1
    <2>8. Issued(k)'
      BY <1>1, <1>2, <2>5, <2>6, <2>7 DEF Issued
    <2>9. QED
      BY <2>4, <2>5, <2>8 DEF KeyFloor
  <1>5. QED
    BY <1>3, <1>4

(* The histories stay ordered: a bump appends the current version, which no *)
(* earlier floor exceeds.                                                   *)
LEMMA FloorsOrderedBump ==
    ASSUME TypeOK, TypeOK', FloorsOrdered, NEW i \in Invalidations,
           BumpAll(i) \/ BumpNamespaces(i)
    PROVE  FloorsOrdered'
  <1>1. CASE BumpAll(i)
    <2>1. /\ generation \in Nat /\ version \in Nat
          /\ generation' = generation + 1
          /\ version' = version
      BY <1>1 DEF BumpAll, TypeOK
    <2>2. /\ genFloor'[generation + 1] = version
          /\ \A g \in 0 .. generation : genFloor'[g] = genFloor[g]
      BY <1>1, BumpedGeneration
    <2>3. \A g \in 0 .. generation' : g \in 0 .. generation \/ g = generation + 1
      BY <2>1
    <2>4. \A g \in 0 .. generation : genFloor[g] \in Nat
      BY DEF TypeOK
    <2>5. \A g \in 0 .. generation' : genFloor'[g] <= version'
      BY <2>1, <2>2, <2>3 DEF FloorsOrdered
    <2>6. \A g, h \in 0 .. generation' : g <= h => genFloor'[g] <= genFloor'[h]
      BY <2>1, <2>2, <2>3, <2>4 DEF FloorsOrdered
    <2>7. QED
      BY <1>1, <2>5, <2>6 DEF BumpAll, FloorsOrdered
  <1>2. CASE BumpNamespaces(i)
    <2>1. PICK hit \in (SUBSET Namespaces) \ {{}} :
            /\ nsGeneration' = [ns \in Namespaces |->
                   IF ns \in hit THEN nsGeneration[ns] + 1 ELSE nsGeneration[ns]]
            /\ nsFloor' = [ns \in Namespaces |->
                   IF ns \in hit THEN Extend(nsFloor[ns], nsGeneration[ns] + 1, version)
                   ELSE nsFloor[ns]]
      BY <1>2 DEF BumpNamespaces
    <2>2. ASSUME NEW ns \in Namespaces
          PROVE  /\ \A g \in 0 .. nsGeneration'[ns] : nsFloor'[ns][g] <= version'
                 /\ \A g, h \in 0 .. nsGeneration'[ns] :
                        g <= h => nsFloor'[ns][g] <= nsFloor'[ns][h]
      <3>1. CASE ns \notin hit
        BY <1>2, <2>1, <3>1 DEF BumpNamespaces, FloorsOrdered
      <3>2. CASE ns \in hit
        <4>1. /\ nsGeneration[ns] \in Nat /\ version \in Nat
              /\ nsFloor[ns] \in [0 .. nsGeneration[ns] -> Nat]
              /\ nsGeneration'[ns] = nsGeneration[ns] + 1
              /\ nsFloor'[ns] = Extend(nsFloor[ns], nsGeneration[ns] + 1, version)
              /\ version' = version
          BY <1>2, <2>1, <3>2 DEF BumpNamespaces, TypeOK
        <4>2. /\ nsFloor'[ns][nsGeneration[ns] + 1] = version
              /\ \A g \in 0 .. nsGeneration[ns] : nsFloor'[ns][g] = nsFloor[ns][g]
          <5>1. Extend(nsFloor[ns], nsGeneration[ns] + 1, version)[nsGeneration[ns] + 1] = version
            BY <4>1, ExtendHistory
          <5>2. \A g \in 0 .. nsGeneration[ns] :
                  Extend(nsFloor[ns], nsGeneration[ns] + 1, version)[g] = nsFloor[ns][g]
            BY <4>1, ExtendKeeps
          <5>3. QED
            BY <4>1, <5>1, <5>2
        <4>3. \A g \in 0 .. nsGeneration'[ns] :
                g \in 0 .. nsGeneration[ns] \/ g = nsGeneration[ns] + 1
          BY <4>1
        <4>4. \A g \in 0 .. nsGeneration[ns] : nsFloor[ns][g] \in Nat
          BY <4>1
        <4>5. \A g \in 0 .. nsGeneration'[ns] : nsFloor'[ns][g] <= version'
          BY <4>1, <4>2, <4>3 DEF FloorsOrdered
        <4>6. \A g, h \in 0 .. nsGeneration'[ns] :
                g <= h => nsFloor'[ns][g] <= nsFloor'[ns][h]
          BY <4>1, <4>2, <4>3, <4>4 DEF FloorsOrdered
        <4>7. QED
          BY <4>5, <4>6
      <3>3. QED
        BY <3>1, <3>2
    <2>3. QED
      BY <1>2, <2>2 DEF BumpNamespaces, FloorsOrdered
  <1>3. QED
    BY <1>1, <1>2

(* A bump disturbs no value, no key and no promise.                         *)
LEMMA FreshnessBump ==
    ASSUME FreshnessInv, TypeOK', NEW i \in Invalidations, BumpAll(i) \/ BumpNamespaces(i)
    PROVE  FreshnessInv'
  <1> USE DEF FreshnessInv
  <1>0. UNCHANGED <<version, entries, callVars>>
    BY DEF BumpAll, BumpNamespaces
  <1>1. FloorsOrdered'
    BY FloorsOrderedBump
  <1>2. KeysIssued'
    BY <1>0, BumpKeepsFloors DEF KeysIssued, callVars, TypeOK, Entry
  <1>3. ValuesWithinKey'
    <2>1. \A k \in StorageKey : Issued(k) => KeyFloor(k)' = KeyFloor(k)
      BY BumpKeepsFloors
    <2>2. \A e \in entries : e.key \in StorageKey
      BY DEF TypeOK, Entry
    <2>3. \A r \in Requests : key[r] \in StorageKey
      BY DEF TypeOK
    <2>4. QED
      BY <1>0, <2>1, <2>2, <2>3 DEF ValuesWithinKey, WithinKey, KeysIssued, callVars
  <1>4. CallsWithinKey'
    <2>1. SUFFICES ASSUME NEW r \in Requests
          PROVE  /\ pc[r] = "keying" =>
                      callFloor[r] <= Larger(genFloor'[key[r].gen],
                                      nsFloor'[key[r].ns][nsGeneration'[key[r].ns]])
                 /\ pc[r] \notin {"idle", "keying"} => callFloor[r] <= KeyFloor(key[r])'
      BY <1>0 DEF CallsWithinKey, callVars
    <2>2. key[r] \in StorageKey /\ Issued(key[r])
      BY DEF TypeOK, KeysIssued
    <2>3. ASSUME pc[r] = "keying"
          PROVE  callFloor[r] <= Larger(genFloor'[key[r].gen],
                                        nsFloor'[key[r].ns][nsGeneration'[key[r].ns]])
      <3> DEFINE ns == key[r].ns
      <3>1. /\ key[r].gen \in 0 .. generation /\ ns \in Namespaces
            /\ genFloor[key[r].gen] \in Nat
        BY <2>2, FloorIsNat
      <3>2. /\ callFloor[r] \in Nat /\ nsGeneration[ns] \in Nat /\ version \in Nat
            /\ generation \in Nat
            /\ nsFloor[ns] \in [0 .. nsGeneration[ns] -> Nat]
        BY <3>1 DEF TypeOK
      <3>3. nsFloor[ns][nsGeneration[ns]] \in Nat
        BY <3>2
      <3>4. nsFloor[ns][nsGeneration[ns]] <= version
        BY <3>1, <3>2 DEF FloorsOrdered
      <3>5. callFloor[r] <= Larger(genFloor[key[r].gen], nsFloor[ns][nsGeneration[ns]])
        BY <2>3 DEF CallsWithinKey
      <3>6. CASE BumpAll(i)
        <4>1. genFloor'[key[r].gen] = genFloor[key[r].gen]
          BY <3>1, <3>6, BumpedGeneration
        <4>2. QED
          BY <3>5, <3>6, <4>1 DEF BumpAll
      <3>7. CASE BumpNamespaces(i)
        <4>1. /\ genFloor' = genFloor
              /\ \/ /\ nsGeneration'[ns] = nsGeneration[ns]
                    /\ nsFloor'[ns] = nsFloor[ns]
                 \/ /\ nsGeneration'[ns] = nsGeneration[ns] + 1
                    /\ nsFloor'[ns] = Extend(nsFloor[ns], nsGeneration[ns] + 1, version)
          BY <3>1, <3>7 DEF BumpNamespaces
        <4>2. Extend(nsFloor[ns], nsGeneration[ns] + 1, version)[nsGeneration[ns] + 1] = version
          BY <3>2, ExtendHistory
        <4>3. QED
          BY <3>1, <3>2, <3>3, <3>4, <3>5, <4>1, <4>2 DEF Larger
      <3>8. QED
        BY <3>6, <3>7
    <2>4. ASSUME pc[r] \notin {"idle", "keying"}
          PROVE  callFloor[r] <= KeyFloor(key[r])'
      <3>1. KeyFloor(key[r])' = KeyFloor(key[r])
        <4>1. \A k \in StorageKey : Issued(k) => KeyFloor(k)' = KeyFloor(k)
          BY BumpKeepsFloors
        <4>2. key'[r] = key[r]
          BY <1>0 DEF callVars
        <4>3. QED
          BY <2>2, <4>1, <4>2
      <3>2. QED
        BY <2>4, <3>1 DEF CallsWithinKey
    <2>5. QED
      BY <2>3, <2>4
  <1>5. LocalsInOrder' /\ WokenFindsResult' /\ AnswersWithinContract'
    BY <1>0 DEF LocalsInOrder, WokenFindsResult, AnswersWithinContract, Following, callVars
  <1>6. QED
    BY <1>1, <1>2, <1>3, <1>4, <1>5

(* Outside a bump every floor stands still, and the version only grows.     *)
FloorsStill == UNCHANGED <<generation, nsGeneration, genFloor, nsFloor>>

LEMMA StillFloors ==
    ASSUME FloorsStill
    PROVE  \A k : KeyFloor(k)' = KeyFloor(k) /\ Issued(k)' = Issued(k)
  BY DEF FloorsStill, KeyFloor, Issued

LEMMA FreshnessRepositoryChanges ==
    ASSUME FreshnessInv, TypeOK', RepositoryChanges
    PROVE  FreshnessInv'
  <1> USE DEF FreshnessInv
  <1>1. /\ version \in Nat /\ version' = version + 1 /\ version' <= MaxVersion
        /\ UNCHANGED <<cacheVars, callVars, invalVars, historyVars>>
    BY MaxVersionAssumption DEF RepositoryChanges, TypeOK
  <1>2. FloorsStill
    BY <1>1 DEF FloorsStill, cacheVars, historyVars
  <1>3. FloorsOrdered'
    <2>1. \A g \in 0 .. generation : genFloor[g] \in Nat
      BY DEF TypeOK
    <2>2. \A ns \in Namespaces : \A g \in 0 .. nsGeneration[ns] : nsFloor[ns][g] \in Nat
      BY DEF TypeOK
    <2>3. QED
      BY <1>1, <1>2, <2>1, <2>2 DEF FloorsOrdered, FloorsStill
  <1>4. KeysIssued'
    BY <1>1, <1>2, StillFloors DEF KeysIssued, callVars, cacheVars
  <1>5. ValuesWithinKey'
    <2>1. \A v \in Nat : \A k : WithinKey(v, k) => WithinKey(v, k)'
      BY <1>1, <1>2, StillFloors DEF WithinKey
    <2>2. /\ \A e \in entries : e.ver \in Nat
          /\ \A r \in Requests : result[r].ver \in Nat /\ stale[r].ver \in Nat
      BY DEF TypeOK, Entry, Outcome
    <2>3. UNCHANGED <<entries, key, result, stale>>
      BY <1>1 DEF cacheVars, callVars
    <2>4. QED
      BY <2>1, <2>2, <2>3 DEF ValuesWithinKey
  <1>6. CallsWithinKey'
    <2>1. UNCHANGED <<pc, key, callFloor>>
      BY <1>1 DEF callVars
    <2>2. QED
      BY <2>1, <1>2, StillFloors DEF CallsWithinKey, FloorsStill
  <1>7. LocalsInOrder' /\ WokenFindsResult'
    BY <1>1 DEF LocalsInOrder, WokenFindsResult, Following, callVars
  <1>8. AnswersWithinContract'
    <2>1. \A r \in Requests : ret[r].ver \in Nat
      BY DEF TypeOK, Outcome
    <2>2. QED
      BY <1>1, <2>1 DEF AnswersWithinContract, callVars
  <1>9. QED
    BY <1>3, <1>4, <1>5, <1>6, <1>7, <1>8

LEMMA FreshnessExpire ==
    ASSUME FreshnessInv, TypeOK', Expire
    PROVE  FreshnessInv'
  <1> USE DEF FreshnessInv
  <1>1. UNCHANGED <<version, callVars>> /\ FloorsStill
    BY DEF Expire, FloorsStill, historyVars
  <1>2. \A e \in entries' : \E f \in entries : f.key = e.key /\ f.ver = e.ver
    BY DEF Expire, TypeOK, Entry
  <1>3. FloorsOrdered'
    BY <1>1 DEF FloorsOrdered, FloorsStill
  <1>4. KeysIssued'
    BY <1>1, <1>2, StillFloors DEF KeysIssued, callVars
  <1>5. ValuesWithinKey'
    BY <1>1, <1>2, StillFloors DEF ValuesWithinKey, WithinKey, callVars
  <1>6. CallsWithinKey'
    BY <1>1, StillFloors DEF CallsWithinKey, FloorsStill, callVars
  <1>7. LocalsInOrder' /\ WokenFindsResult' /\ AnswersWithinContract'
    BY <1>1 DEF LocalsInOrder, WokenFindsResult, AnswersWithinContract, Following, callVars
  <1>8. QED
    BY <1>3, <1>4, <1>5, <1>6, <1>7

LEMMA FreshnessSweep ==
    ASSUME FreshnessInv, TypeOK', NEW i \in Invalidations, Sweep(i)
    PROVE  FreshnessInv'
  <1> USE DEF FreshnessInv
  <1>1. UNCHANGED <<version, callVars>> /\ FloorsStill
    BY DEF Sweep, FloorsStill
  <1>2. entries' \subseteq entries
    BY DEF Sweep
  <1>3. FloorsOrdered'
    BY <1>1 DEF FloorsOrdered, FloorsStill
  <1>4. KeysIssued'
    BY <1>1, <1>2, StillFloors DEF KeysIssued, callVars
  <1>5. ValuesWithinKey'
    BY <1>1, <1>2, StillFloors DEF ValuesWithinKey, WithinKey, callVars
  <1>6. CallsWithinKey'
    BY <1>1, StillFloors DEF CallsWithinKey, FloorsStill, callVars
  <1>7. LocalsInOrder' /\ WokenFindsResult' /\ AnswersWithinContract'
    BY <1>1 DEF LocalsInOrder, WokenFindsResult, AnswersWithinContract, Following, callVars
  <1>8. QED
    BY <1>3, <1>4, <1>5, <1>6, <1>7

(* The two halves of build_storage_key. *)
LEMMA FreshnessReadGeneration ==
    ASSUME FreshnessInv, TypeOK', NEW r \in Requests, ReadGeneration(r)
    PROVE  FreshnessInv'
  <1> USE DEF FreshnessInv
  <1>1. /\ UNCHANGED <<version, entries, stale, flight, result, ret>> /\ FloorsStill
        /\ pc[r] = "idle"
        /\ pc' = [pc EXCEPT ![r] = "keying"]
        /\ key' = [key EXCEPT ![r].gen = generation]
        /\ callFloor' = [callFloor EXCEPT ![r] = CurrentFloor(key[r].ns)]
    BY DEF ReadGeneration, FloorsStill, cacheVars, historyVars
  <1>2. /\ key'[r].gen = generation /\ key'[r].ns = key[r].ns /\ key'[r].nsGen = key[r].nsGen
        /\ pc'[r] = "keying" /\ callFloor'[r] = CurrentFloor(key[r].ns)
    BY <1>1 DEF TypeOK, StorageKey
  <1>3. \A q \in Requests \ {r} : pc'[q] = pc[q] /\ key'[q] = key[q] /\ callFloor'[q] = callFloor[q]
    BY <1>1 DEF TypeOK
  <1>4. FloorsOrdered'
    BY <1>1 DEF FloorsOrdered, FloorsStill
  <1>5. KeysIssued'
    <2>1. Issued(key'[r])
      BY <1>2 DEF KeysIssued, Issued, TypeOK
    <2>2. QED
      BY <1>1, <1>3, <2>1, StillFloors DEF KeysIssued
  <1>6. ValuesWithinKey'
    <2>1. result[r].tag = "none" /\ stale[r].tag = "none"
      BY <1>1 DEF LocalsInOrder
    <2>2. QED
      BY <1>1, <1>3, <2>1, StillFloors DEF ValuesWithinKey, WithinKey
  <1>7. CallsWithinKey'
    <2>1. callFloor'[r] = Larger(genFloor[key'[r].gen], nsFloor[key'[r].ns][nsGeneration[key'[r].ns]])
      BY <1>2 DEF CurrentFloor, CurrentKey, KeyFloor
    <2>2. callFloor'[r] \in Nat
      BY DEF TypeOK
    <2>3. QED
      BY <1>1, <1>2, <1>3, <2>1, <2>2, StillFloors DEF CallsWithinKey, FloorsStill
  <1>8. LocalsInOrder' /\ WokenFindsResult'
    BY <1>1, <1>2, <1>3 DEF LocalsInOrder, WokenFindsResult, Following, TypeOK
  <1>9. AnswersWithinContract'
    BY <1>1, <1>3 DEF AnswersWithinContract, LocalsInOrder
  <1>10. QED
    BY <1>4, <1>5, <1>6, <1>7, <1>8, <1>9

LEMMA FreshnessReadNamespaceGeneration ==
    ASSUME FreshnessInv, TypeOK', NEW r \in Requests, ReadNamespaceGeneration(r)
    PROVE  FreshnessInv'
  <1> USE DEF FreshnessInv
  <1>1. /\ UNCHANGED <<version, entries, stale, flight, result, ret, callFloor>> /\ FloorsStill
        /\ pc[r] = "keying"
        /\ pc' = [pc EXCEPT ![r] = "keyed"]
        /\ key' = [key EXCEPT ![r].nsGen = nsGeneration[key[r].ns]]
    BY DEF ReadNamespaceGeneration, FloorsStill, cacheVars, historyVars
  <1>2. /\ key'[r].gen = key[r].gen /\ key'[r].ns = key[r].ns
        /\ key'[r].nsGen = nsGeneration[key[r].ns] /\ pc'[r] = "keyed"
    BY <1>1 DEF TypeOK, StorageKey
  <1>3. \A q \in Requests \ {r} : pc'[q] = pc[q] /\ key'[q] = key[q]
    BY <1>1 DEF TypeOK
  <1>4. FloorsOrdered'
    BY <1>1 DEF FloorsOrdered, FloorsStill
  <1>5. KeysIssued'
    <2>1. Issued(key'[r])
      BY <1>2 DEF KeysIssued, Issued, TypeOK, StorageKey
    <2>2. QED
      BY <1>1, <1>3, <2>1, StillFloors DEF KeysIssued
  <1>6. ValuesWithinKey'
    <2>1. result[r].tag = "none" /\ stale[r].tag = "none"
      BY <1>1 DEF LocalsInOrder
    <2>2. QED
      BY <1>1, <1>3, <2>1, StillFloors DEF ValuesWithinKey, WithinKey
  <1>7. CallsWithinKey'
    <2>1. callFloor[r] <= KeyFloor(key'[r])
      BY <1>1, <1>2 DEF CallsWithinKey, KeyFloor
    <2>2. QED
      BY <1>1, <1>2, <1>3, <2>1, StillFloors DEF CallsWithinKey, FloorsStill
  <1>8. LocalsInOrder' /\ WokenFindsResult'
    BY <1>1, <1>2, <1>3 DEF LocalsInOrder, WokenFindsResult, Following, TypeOK
  <1>9. AnswersWithinContract'
    BY <1>1, <1>3 DEF AnswersWithinContract, LocalsInOrder
  <1>10. QED
    BY <1>4, <1>5, <1>6, <1>7, <1>8, <1>9

(* What a step leaves alone once the key is built. *)
LEMMA KeyedFrame ==
    ASSUME FreshnessInv, FloorsStill, UNCHANGED <<version, entries, key, callFloor>>
    PROVE  FloorsOrdered' /\ KeysIssued'
  BY StillFloors DEF FreshnessInv, FloorsOrdered, FloorsStill, KeysIssued

LEMMA CallsFrame ==
    ASSUME FreshnessInv, FloorsStill, UNCHANGED <<key, callFloor>>,
           \A q \in Requests :
              pc'[q] = pc[q] \/ (pc[q] \notin {"idle", "keying"} /\ pc'[q] # "keying")
    PROVE  CallsWithinKey'
  BY StillFloors DEF FreshnessInv, CallsWithinKey, FloorsStill

(* The first section under the state lock: hit, join or take off. *)
LEMMA FreshnessHit ==
    ASSUME FreshnessInv, TypeOK', NEW r \in Requests, Hit(r)
    PROVE  FreshnessInv'
  <1> USE DEF FreshnessInv
  <1>1. PICK e \in EntriesOf(key[r]) : ret' = [ret EXCEPT ![r] = Value(e.ver)]
    BY DEF Hit
  <1>2. /\ UNCHANGED <<version, entries, key, stale, flight, result, callFloor>> /\ FloorsStill
        /\ pc[r] = "keyed"
        /\ pc' = [pc EXCEPT ![r] = "done"]
    BY DEF Hit, FloorsStill, cacheVars, historyVars
  <1>3. e \in entries /\ e.key = key[r] /\ e.ver \in Nat
    BY DEF EntriesOf, TypeOK, Entry
  <1>4. ret'[r].ver = e.ver /\ \A q \in Requests \ {r} : ret'[q] = ret[q] /\ pc'[q] = pc[q]
    BY <1>1, <1>2, <1>3, OutcomeFacts DEF TypeOK
  <1>5. pc'[r] = "done"
    BY <1>2 DEF TypeOK
  <1>6. FloorsOrdered' /\ KeysIssued' /\ CallsWithinKey'
    <2>1. FloorsOrdered' /\ KeysIssued'
      BY <1>2, <1>4, <1>5, KeyedFrame
    <2>2. \A q \in Requests :
            pc'[q] = pc[q] \/ (pc[q] \notin {"idle", "keying"} /\ pc'[q] # "keying")
      BY <1>2, <1>4, <1>5
    <2>3. CallsWithinKey'
      BY <1>2, <1>4, <1>5, <2>2, CallsFrame
    <2>4. QED
      BY <2>1, <2>3
  <1>7. ValuesWithinKey'
    BY <1>2, StillFloors DEF ValuesWithinKey, WithinKey
  <1>8. LocalsInOrder' /\ WokenFindsResult'
    BY <1>2, <1>4, <1>5 DEF LocalsInOrder, WokenFindsResult, Following, TypeOK
  <1>9. AnswersWithinContract'
    <2>1. callFloor[r] <= KeyFloor(key[r]) /\ KeyFloor(key[r]) <= e.ver /\ e.ver <= version
      BY <1>2, <1>3 DEF CallsWithinKey, ValuesWithinKey, WithinKey
    <2>2. callFloor[r] \in Nat /\ KeyFloor(key[r]) \in Nat
      BY FloorIsNat DEF TypeOK, KeysIssued
    <2>3. QED
      BY <1>2, <1>3, <1>4, <2>1, <2>2 DEF AnswersWithinContract
  <1>10. QED
    BY <1>6, <1>7, <1>8, <1>9

(* The stale fallback comes from an entry under the call's own key. *)
LEMMA StaleWithinKey ==
    ASSUME FreshnessInv, NEW r \in Requests, StaleValue(key[r]).tag = "ok"
    PROVE  WithinKey(StaleValue(key[r]).ver, key[r])
  <1>1. key[r] \in StorageKey /\ TypeOK
    BY DEF FreshnessInv, TypeOK
  <1>2. PICK e \in entries : e.key = key[r] /\ StaleValue(key[r]).ver = e.ver
    BY <1>1, StaleIsAnEntry
  <1>3. QED
    BY <1>2 DEF FreshnessInv, ValuesWithinKey

LEMMA FreshnessJoinFlight ==
    ASSUME FreshnessInv, JoinableFlightsAreLive, TypeOK', NEW r \in Requests, JoinFlight(r)
    PROVE  FreshnessInv'
  <1> USE DEF FreshnessInv
  <1>1. PICK f \in FlightsOf(key[r]) : flight' = [flight EXCEPT ![r] = f.leader]
    BY DEF JoinFlight
  <1>2. /\ UNCHANGED <<version, entries, key, result, ret, callFloor>> /\ FloorsStill
        /\ pc[r] = "keyed"
        /\ pc' = [pc EXCEPT ![r] = IF AtomicSubscribe THEN "waiting" ELSE "joined"]
        /\ stale' = [stale EXCEPT ![r] = StaleValue(key[r])]
    BY DEF JoinFlight, Misses, FloorsStill, cacheVars, historyVars
  <1>3. f.leader \in Requests /\ Leading(f.leader) /\ key[f.leader] = key[r]
    BY DEF FlightsOf, JoinableFlightsAreLive, TypeOK, Flight
  <1>4. /\ pc'[r] \in {"waiting", "joined"} /\ flight'[r] = f.leader
        /\ stale'[r] = StaleValue(key[r])
        /\ \A q \in Requests \ {r} :
              pc'[q] = pc[q] /\ flight'[q] = flight[q] /\ stale'[q] = stale[q]
    BY <1>1, <1>2 DEF TypeOK
  <1>5. FloorsOrdered' /\ KeysIssued' /\ CallsWithinKey'
    <2>1. FloorsOrdered' /\ KeysIssued'
      BY <1>2, <1>4, KeyedFrame
    <2>2. \A q \in Requests :
            pc'[q] = pc[q] \/ (pc[q] \notin {"idle", "keying"} /\ pc'[q] # "keying")
      BY <1>2, <1>4
    <2>3. CallsWithinKey'
      BY <1>2, <1>4, <2>2, CallsFrame
    <2>4. QED
      BY <2>1, <2>3
  <1>6. ValuesWithinKey'
    BY <1>2, <1>4, StillFloors, StaleWithinKey DEF ValuesWithinKey, WithinKey
  <1>7. LocalsInOrder' /\ WokenFindsResult'
    <2>1. f.leader # r
      BY <1>2, <1>3 DEF Leading
    <2>2. \A q \in Requests : flight[q] \in Requests
      BY DEF TypeOK
    <2>3. QED
      BY <1>2, <1>3, <1>4, <2>1, <2>2 DEF LocalsInOrder, WokenFindsResult, Following, Leading
  <1>8. AnswersWithinContract'
    BY <1>2 DEF AnswersWithinContract
  <1>9. QED
    BY <1>5, <1>6, <1>7, <1>8

LEMMA FreshnessTakeOff ==
    ASSUME FreshnessInv, TypeOK', NEW r \in Requests, TakeOff(r)
    PROVE  FreshnessInv'
  <1> USE DEF FreshnessInv
  <1>1. /\ UNCHANGED <<version, entries, key, result, ret, callFloor>> /\ FloorsStill
        /\ pc[r] = "keyed"
        /\ pc' = [pc EXCEPT ![r] = "fetching"]
        /\ flight' = [flight EXCEPT ![r] = r]
        /\ stale' = [stale EXCEPT ![r] = StaleValue(key[r])]
    BY DEF TakeOff, Misses, FloorsStill, historyVars
  <1>2. /\ pc'[r] = "fetching" /\ flight'[r] = r /\ stale'[r] = StaleValue(key[r])
        /\ \A q \in Requests \ {r} :
              pc'[q] = pc[q] /\ flight'[q] = flight[q] /\ stale'[q] = stale[q]
    BY <1>1 DEF TypeOK
  <1>3. FloorsOrdered' /\ KeysIssued' /\ CallsWithinKey'
    <2>1. FloorsOrdered' /\ KeysIssued'
      BY <1>1, <1>2, KeyedFrame
    <2>2. \A q \in Requests :
            pc'[q] = pc[q] \/ (pc[q] \notin {"idle", "keying"} /\ pc'[q] # "keying")
      BY <1>1, <1>2
    <2>3. CallsWithinKey'
      BY <1>1, <1>2, <2>2, CallsFrame
    <2>4. QED
      BY <2>1, <2>3
  <1>4. ValuesWithinKey'
    BY <1>1, <1>2, StillFloors, StaleWithinKey DEF ValuesWithinKey, WithinKey
  <1>5. LocalsInOrder' /\ WokenFindsResult'
    <2>1. \A q \in Requests : flight[q] \in Requests
      BY DEF TypeOK
    <2>2. QED
      BY <1>1, <1>2, <2>1 DEF LocalsInOrder, WokenFindsResult, Following
  <1>6. AnswersWithinContract'
    BY <1>1 DEF AnswersWithinContract
  <1>7. QED
    BY <1>3, <1>4, <1>5, <1>6

LEMMA FreshnessSubscribe ==
    ASSUME FreshnessInv, TypeOK', NEW r \in Requests, Subscribe(r)
    PROVE  FreshnessInv'
  <1> USE DEF FreshnessInv
  <1>1. /\ UNCHANGED <<version, entries, key, stale, flight, result, ret, callFloor>>
        /\ FloorsStill
        /\ pc[r] = "joined" /\ pc'[r] = "waiting"
        /\ \A q \in Requests \ {r} : pc'[q] = pc[q]
    BY DEF Subscribe, FloorsStill, cacheVars, historyVars, TypeOK
  <1>2. FloorsOrdered' /\ KeysIssued' /\ CallsWithinKey'
    <2>1. FloorsOrdered' /\ KeysIssued'
      BY <1>1, KeyedFrame
    <2>2. \A q \in Requests :
            pc'[q] = pc[q] \/ (pc[q] \notin {"idle", "keying"} /\ pc'[q] # "keying")
      BY <1>1
    <2>3. QED
      BY <1>1, <2>1, <2>2, CallsFrame
  <1>3. ValuesWithinKey'
    BY <1>1, StillFloors DEF ValuesWithinKey, WithinKey
  <1>4. LocalsInOrder' /\ WokenFindsResult'
    <2>1. \A q \in Requests : flight[q] \in Requests
      BY DEF TypeOK
    <2>2. QED
      BY <1>1, <2>1 DEF LocalsInOrder, WokenFindsResult, Following
  <1>5. AnswersWithinContract'
    BY <1>1 DEF AnswersWithinContract
  <1>6. QED
    BY <1>2, <1>3, <1>4, <1>5

(* What a fetch reads is newer than both invalidations its key stands for.  *)
LEMMA FreshnessFetchReturns ==
    ASSUME FreshnessInv, TypeOK', NEW r \in Requests, FetchReturns(r)
    PROVE  FreshnessInv'
  <1> USE DEF FreshnessInv
  <1>1. PICK outcome \in {Value(version), Failed} :
          result' = [result EXCEPT ![r] = outcome]
    BY DEF FetchReturns
  <1>2. /\ UNCHANGED <<version, entries, key, stale, flight, ret, callFloor>>
        /\ FloorsStill
        /\ pc[r] = "fetching" /\ pc'[r] = "published"
        /\ \A q \in Requests \ {r} : pc'[q] = pc[q]
    BY DEF FetchReturns, FloorsStill, cacheVars, historyVars, TypeOK
  <1>3. /\ result'[r] = outcome
        /\ \A q \in Requests \ {r} : result'[q] = result[q]
    BY <1>1 DEF TypeOK
  <1>4. outcome.tag # "none" /\ (outcome.tag = "ok" => outcome.ver = version)
    BY OutcomeFacts DEF TypeOK
  <1>5. FloorsOrdered' /\ KeysIssued' /\ CallsWithinKey'
    <2>1. FloorsOrdered' /\ KeysIssued'
      BY <1>2, KeyedFrame
    <2>2. \A q \in Requests :
            pc'[q] = pc[q] \/ (pc[q] \notin {"idle", "keying"} /\ pc'[q] # "keying")
      BY <1>2
    <2>3. QED
      BY <1>2, <2>1, <2>2, CallsFrame
  <1>6. ValuesWithinKey'
    <2>1. key[r] \in StorageKey /\ Issued(key[r]) /\ version \in Nat
      BY DEF TypeOK, KeysIssued
    <2>2. /\ genFloor[key[r].gen] <= version
          /\ nsFloor[key[r].ns][key[r].nsGen] <= version
      BY <2>1, FloorIsNat DEF FloorsOrdered
    <2>3. WithinKey(version, key[r])
      BY <2>1, <2>2 DEF WithinKey, KeyFloor, Larger
    <2>4. QED
      BY <1>2, <1>3, <1>4, <2>3, StillFloors DEF ValuesWithinKey, WithinKey
  <1>7. LocalsInOrder' /\ WokenFindsResult'
    <2>1. \A q \in Requests : flight[q] \in Requests
      BY DEF TypeOK
    <2>2. QED
      BY <1>2, <1>3, <1>4, <2>1 DEF LocalsInOrder, WokenFindsResult, Following
  <1>8. AnswersWithinContract'
    BY <1>2 DEF AnswersWithinContract
  <1>9. QED
    BY <1>5, <1>6, <1>7, <1>8

LEMMA FreshnessStore ==
    ASSUME FreshnessInv, TypeOK', NEW r \in Requests, Store(r)
    PROVE  FreshnessInv'
  <1> USE DEF FreshnessInv
  <1>1. /\ UNCHANGED <<version, key, stale, flight, result, ret, callFloor>>
        /\ FloorsStill
        /\ pc[r] = "published" /\ pc'[r] = "stored"
        /\ \A q \in Requests \ {r} : pc'[q] = pc[q]
    BY DEF Store, FloorsStill, historyVars, TypeOK
  <1>2. \A e \in entries' :
          \/ e \in entries
          \/ e.key = key[r] /\ e.ver = result[r].ver /\ result[r].tag = "ok"
    BY DEF Store
  <1>3. FloorsOrdered'
    BY <1>1 DEF FloorsOrdered, FloorsStill
  <1>4. KeysIssued'
    BY <1>1, <1>2, StillFloors DEF KeysIssued
  <1>5. ValuesWithinKey'
    BY <1>1, <1>2, StillFloors DEF ValuesWithinKey, WithinKey
  <1>6. CallsWithinKey'
    <2>1. \A q \in Requests :
            pc'[q] = pc[q] \/ (pc[q] \notin {"idle", "keying"} /\ pc'[q] # "keying")
      BY <1>1
    <2>2. QED
      BY <1>1, <2>1, CallsFrame
  <1>7. LocalsInOrder' /\ WokenFindsResult'
    <2>1. \A q \in Requests : flight[q] \in Requests
      BY DEF TypeOK
    <2>2. QED
      BY <1>1, <2>1 DEF LocalsInOrder, WokenFindsResult, Following
  <1>8. AnswersWithinContract'
    BY <1>1 DEF AnswersWithinContract
  <1>9. QED
    BY <1>3, <1>4, <1>5, <1>6, <1>7, <1>8

(* A call answered from within its key is answered within its contract.     *)
LEMMA ResolvedWithinContract ==
    ASSUME FreshnessInv, NEW r \in Requests, pc[r] \notin {"idle", "keying"},
           NEW o \in Outcome, o.tag = "ok" => WithinKey(o.ver, key[r]),
           Resolve(o, stale[r]).tag = "ok"
    PROVE  /\ callFloor[r] <= Resolve(o, stale[r]).ver
           /\ Resolve(o, stale[r]).ver <= version
  <1>1. WithinKey(Resolve(o, stale[r]).ver, key[r])
    BY DEF Resolve, Failed, FreshnessInv, ValuesWithinKey
  <1>2. callFloor[r] <= KeyFloor(key[r])
    BY DEF FreshnessInv, CallsWithinKey
  <1>3. callFloor[r] \in Nat /\ KeyFloor(key[r]) \in Nat
    BY FloorIsNat DEF FreshnessInv, TypeOK, KeysIssued
  <1>4. Resolve(o, stale[r]).ver \in Nat
    BY OutcomeFacts DEF FreshnessInv, TypeOK, Outcome
  <1>5. QED
    BY <1>1, <1>2, <1>3, <1>4 DEF WithinKey

LEMMA FreshnessNotify ==
    ASSUME FreshnessInv, TypeOK', NEW r \in Requests, Notify(r)
    PROVE  FreshnessInv'
  <1> USE DEF FreshnessInv
  <1>1. /\ UNCHANGED <<version, entries, key, stale, flight, result, callFloor>>
        /\ FloorsStill
        /\ pc[r] = "stored" /\ pc'[r] = "done"
        /\ \A q \in Requests \ {r} :
              \/ pc'[q] = pc[q]
              \/ pc[q] = "waiting" /\ flight[q] = r /\ pc'[q] = "woken"
    BY DEF Notify, FloorsStill, cacheVars, historyVars, TypeOK
  <1>2. /\ ret'[r] = Resolve(result[r], stale[r])
        /\ \A q \in Requests \ {r} : ret'[q] = ret[q]
    BY DEF Notify, TypeOK
  <1>3. FloorsOrdered' /\ KeysIssued' /\ CallsWithinKey'
    <2>1. FloorsOrdered' /\ KeysIssued'
      BY <1>1, KeyedFrame
    <2>2. \A q \in Requests :
            pc'[q] = pc[q] \/ (pc[q] \notin {"idle", "keying"} /\ pc'[q] # "keying")
      BY <1>1
    <2>3. QED
      BY <1>1, <2>1, <2>2, CallsFrame
  <1>4. ValuesWithinKey'
    BY <1>1, StillFloors DEF ValuesWithinKey, WithinKey
  <1>5. LocalsInOrder' /\ WokenFindsResult'
    <2>1. \A q \in Requests : flight[q] \in Requests
      BY DEF TypeOK
    <2>2. result[r].tag # "none"
      BY <1>1 DEF LocalsInOrder
    <2>3. LocalsInOrder'
      BY <1>1, <1>2, <2>1 DEF LocalsInOrder, Following
    <2>4. WokenFindsResult'
      BY <1>1, <2>2 DEF WokenFindsResult
    <2>5. QED
      BY <2>3, <2>4
  <1>6. AnswersWithinContract'
    <2>1. result[r] \in Outcome /\ (result[r].tag = "ok" => WithinKey(result[r].ver, key[r]))
      BY DEF TypeOK, ValuesWithinKey
    <2>2. ret'[r].tag = "ok" => callFloor[r] <= ret'[r].ver /\ ret'[r].ver <= version
      BY <1>1, <1>2, <2>1, ResolvedWithinContract
    <2>3. QED
      BY <1>1, <1>2, <2>2 DEF AnswersWithinContract
  <1>7. QED
    BY <1>3, <1>4, <1>5, <1>6

LEMMA FreshnessFollowerReturns ==
    ASSUME FreshnessInv, TypeOK', NEW r \in Requests, FollowerReturns(r)
    PROVE  FreshnessInv'
  <1> USE DEF FreshnessInv
  <1>1. /\ UNCHANGED <<version, entries, key, stale, flight, result, callFloor>>
        /\ FloorsStill
        /\ pc[r] = "woken" /\ pc'[r] = "done"
        /\ \A q \in Requests \ {r} : pc'[q] = pc[q]
    BY DEF FollowerReturns, FloorsStill, cacheVars, historyVars, TypeOK
  <1>2. /\ ret'[r] = Resolve(result[flight[r]], stale[r])
        /\ \A q \in Requests \ {r} : ret'[q] = ret[q]
    BY DEF FollowerReturns, TypeOK
  <1>3. FloorsOrdered' /\ KeysIssued' /\ CallsWithinKey'
    <2>1. FloorsOrdered' /\ KeysIssued'
      BY <1>1, KeyedFrame
    <2>2. \A q \in Requests :
            pc'[q] = pc[q] \/ (pc[q] \notin {"idle", "keying"} /\ pc'[q] # "keying")
      BY <1>1
    <2>3. QED
      BY <1>1, <2>1, <2>2, CallsFrame
  <1>4. ValuesWithinKey'
    BY <1>1, StillFloors DEF ValuesWithinKey, WithinKey
  <1>5. LocalsInOrder' /\ WokenFindsResult'
    <2>1. \A q \in Requests : flight[q] \in Requests
      BY DEF TypeOK
    <2>2. LocalsInOrder'
      BY <1>1, <1>2, <2>1 DEF LocalsInOrder, Following
    <2>3. WokenFindsResult'
      BY <1>1 DEF WokenFindsResult
    <2>4. QED
      BY <2>2, <2>3
  <1>6. AnswersWithinContract'
    <2> DEFINE l == flight[r]
    <2>1. l \in Requests /\ key[l] = key[r]
      BY <1>1 DEF TypeOK, LocalsInOrder, Following
    <2>2. result[l] \in Outcome /\ (result[l].tag = "ok" => WithinKey(result[l].ver, key[r]))
      BY <2>1 DEF TypeOK, ValuesWithinKey
    <2>3. ret'[r].tag = "ok" => callFloor[r] <= ret'[r].ver /\ ret'[r].ver <= version
      BY <1>1, <1>2, <2>2, ResolvedWithinContract
    <2>4. QED
      BY <1>1, <1>2, <2>3 DEF AnswersWithinContract
  <1>7. QED
    BY <1>3, <1>4, <1>5, <1>6

----------------------------------------------------------------------------
(* Flights *)

(* A step that moves nobody in or out of leading, and no key, flight or     *)
(* sweep, leaves the flights as they are.                                   *)
LEMMA FlightFrame ==
    ASSUME JoinableFlightsAreLive, FlightsOnMap, TypeOK,
           UNCHANGED <<inflight, swept>>,
           \A r \in Requests : Leading(r)' = Leading(r) /\ (Leading(r) => key'[r] = key[r])
    PROVE  JoinableFlightsAreLive' /\ FlightsOnMap'
  <1>1. \A f \in inflight : f.leader \in Requests
    BY DEF TypeOK, Flight
  <1>2. JoinableFlightsAreLive'
    BY <1>1 DEF JoinableFlightsAreLive
  <1>3. FlightsOnMap'
    BY DEF FlightsOnMap
  <1>4. QED
    BY <1>2, <1>3

(* Joins read live flights, so the flight invariant comes first; it does    *)
(* not depend on freshness.                                                 *)
LEMMA FlightStep == FlightInv /\ [Next]_vars => FlightInv'
  <1> SUFFICES ASSUME FlightInv, [Next]_vars PROVE FlightInv'
    OBVIOUS
  <1> USE DEF FlightInv
  <1>0. TypeOK'
    BY TypeStep
  <1>1. CASE RepositoryChanges \/ Expire \/ UNCHANGED vars
    <2>1. UNCHANGED <<inflight, swept, pc, key>>
      BY <1>1 DEF RepositoryChanges, Expire, vars, cacheVars, callVars, historyVars
    <2>2. QED
      BY <1>0, <2>1, FlightFrame DEF Leading
  <1>2. ASSUME NEW i \in Invalidations, BumpAll(i) \/ BumpNamespaces(i)
        PROVE  FlightInv'
    <2>1. UNCHANGED <<inflight, swept, pc, key>>
      BY <1>2 DEF BumpAll, BumpNamespaces, callVars
    <2>2. QED
      BY <1>0, <2>1, FlightFrame DEF Leading
  <1>3. ASSUME NEW i \in Invalidations, Sweep(i)
        PROVE  FlightInv'
    <2>1. /\ UNCHANGED <<pc, key>>
          /\ inflight' = {f \in inflight : f.key.ns \notin scope[i]}
          /\ swept' = swept \cup {f.key : f \in {g \in inflight : g.key.ns \in scope[i]}}
      BY <1>3 DEF Sweep, callVars
    <2>2. JoinableFlightsAreLive'
      BY <2>1 DEF JoinableFlightsAreLive, Leading
    <2>3. \A f \in inflight : f \in inflight' \/ f.key \in swept'
      BY <2>1
    <2>4. FlightsOnMap'
      <3>1. \A f, g \in inflight' : f.key = g.key => f = g
        BY <2>1 DEF FlightsOnMap
      <3>2. ASSUME NEW r \in Requests, Leading(r)
            PROVE  key[r] \in swept' \/ [key |-> key[r], leader |-> r] \in inflight'
        <4> DEFINE f == [key |-> key[r], leader |-> r]
        <4>1. key[r] \in swept \/ f \in inflight
          BY <3>2 DEF FlightsOnMap
        <4>2. f.key = key[r]
          OBVIOUS
        <4>3. f \in inflight => f \in inflight' \/ key[r] \in swept'
          BY <2>3, <4>2
        <4>4. swept \subseteq swept'
          BY <2>1
        <4>5. QED
          BY <4>1, <4>3, <4>4
      <3>3. QED
        BY <2>1, <3>1, <3>2 DEF FlightsOnMap, Leading
    <2>5. QED
      BY <1>0, <2>2, <2>4
  <1>4. ASSUME NEW r \in Requests,
               \/ ReadGeneration(r) \/ ReadNamespaceGeneration(r) \/ Hit(r)
               \/ JoinFlight(r) \/ Subscribe(r) \/ FetchReturns(r)
               \/ Notify(r) \/ FollowerReturns(r)
        PROVE  FlightInv'
    <2>1. UNCHANGED <<inflight, swept>>
      BY <1>4 DEF ReadGeneration, ReadNamespaceGeneration, Hit, JoinFlight, Subscribe,
                  FetchReturns, Notify, FollowerReturns, cacheVars, historyVars
    <2>2. ASSUME NEW q \in Requests
          PROVE  Leading(q)' = Leading(q) /\ (Leading(q) => key'[q] = key[q])
      <3>1. CASE ReadGeneration(r) \/ ReadNamespaceGeneration(r)
        BY <3>1 DEF ReadGeneration, ReadNamespaceGeneration, Leading, TypeOK
      <3>2. CASE Hit(r) \/ Subscribe(r) \/ FetchReturns(r) \/ FollowerReturns(r)
        BY <3>2 DEF Hit, Subscribe, FetchReturns, FollowerReturns, Leading, TypeOK
      <3>3. CASE JoinFlight(r)
        BY <3>3 DEF JoinFlight, Misses, Leading, TypeOK
      <3>4. CASE Notify(r)
        BY <3>4 DEF Notify, Leading, TypeOK
      <3>5. QED
        BY <1>4, <3>1, <3>2, <3>3, <3>4
    <2>3. QED
      BY <1>0, <2>1, <2>2, FlightFrame
  <1>5. ASSUME NEW r \in Requests, TakeOff(r)
        PROVE  FlightInv'
    <2>1. /\ UNCHANGED <<key, swept>>
          /\ inflight' = inflight \cup {[key |-> key[r], leader |-> r]}
          /\ \A f \in inflight : f.key # key[r]
          /\ pc[r] = "keyed" /\ pc'[r] = "fetching"
          /\ \A q \in Requests \ {r} : pc'[q] = pc[q]
      BY <1>5 DEF TakeOff, Misses, FlightsOf, historyVars, TypeOK
    <2>2. JoinableFlightsAreLive'
      <3>1. \A f \in inflight : f.leader \in Requests /\ f.leader # r
        BY <2>1 DEF JoinableFlightsAreLive, Leading, TypeOK, Flight
      <3>2. QED
        BY <2>1, <3>1 DEF JoinableFlightsAreLive, Leading
    <2>3. FlightsOnMap'
      BY <2>1 DEF FlightsOnMap, Leading
    <2>4. QED
      BY <1>0, <2>2, <2>3
  <1>6. ASSUME NEW r \in Requests, Store(r)
        PROVE  FlightInv'
    <2>1. /\ UNCHANGED <<key, swept>>
          /\ inflight' = {f \in inflight : f.key # key[r]}
          /\ pc[r] = "published" /\ pc'[r] = "stored"
          /\ \A q \in Requests \ {r} : pc'[q] = pc[q]
      BY <1>6 DEF Store, FlightsOf, historyVars, TypeOK
    <2>2. JoinableFlightsAreLive'
      <3>1. \A f \in inflight' : f \in inflight /\ f.leader \in Requests /\ f.leader # r
        BY <2>1 DEF JoinableFlightsAreLive, TypeOK, Flight
      <3>2. QED
        BY <2>1, <3>1 DEF JoinableFlightsAreLive, Leading
    <2>3. FlightsOnMap'
      <3>1. ASSUME NEW q \in Requests, Leading(q)'
            PROVE  key[q] \in swept \/ [key |-> key[q], leader |-> q] \in inflight'
        <4>1. q # r /\ Leading(q) /\ Leading(r)
          BY <2>1, <3>1 DEF Leading
        <4> DEFINE fq == [key |-> key[q], leader |-> q]
                   fr == [key |-> key[r], leader |-> r]
        <4>2. key[q] \in swept \/ fq \in inflight
          BY <4>1 DEF FlightsOnMap
        <4>3. key[r] \in swept \/ fr \in inflight
          BY <4>1 DEF FlightsOnMap
        <4>4. CASE key[q] = key[r]
          <5>1. fq # fr
            BY <4>1
          <5>2. ~ (fq \in inflight /\ fr \in inflight)
            BY <4>4, <5>1 DEF FlightsOnMap
          <5>3. QED
            BY <4>2, <4>3, <4>4, <5>2
        <4>5. CASE key[q] # key[r]
          BY <2>1, <4>2, <4>5
        <4>6. QED
          BY <4>4, <4>5
      <3>2. QED
        BY <2>1, <3>1 DEF FlightsOnMap
    <2>4. QED
      BY <1>0, <2>2, <2>3
  <1>7. QED
    BY <1>1, <1>2, <1>3, <1>4, <1>5, <1>6 DEF Next, RequestStep, InvalidationStep

LEMMA InitFlightInv == Init => FlightInv
  <1>1. Init => TypeOK
    BY DEF Init, TypeOK, StorageKey, Outcome, NoOutcome, PCs
  <1>2. QED
    BY <1>1 DEF Init, FlightInv, JoinableFlightsAreLive, FlightsOnMap, Leading

(* No request attaches itself to a flight that is over, for any number of   *)
(* calls and invalidations.                                                 *)
THEOREM FlightsLive == Spec => []JoinableFlightsAreLive
  <1>1. FlightInv => JoinableFlightsAreLive
    BY DEF FlightInv
  <1>2. QED
    BY <1>1, InitFlightInv, FlightStep, PTL DEF Spec

(* Two fetches for one storage key overlap only after an invalidation swept *)
(* a flight of that key: with FlightsOnMap, two leaders of an unswept key   *)
(* would both be on the map, which holds one flight per key.                *)
THEOREM Deduplicated == Spec => []SingleFlight
  <1>1. FlightInv => SingleFlight
    <2> SUFFICES ASSUME FlightInv, NEW r \in Requests, NEW q \in Requests,
                        Leading(r), Leading(q), r # q, key[r] = key[q],
                        key[r] \notin swept
                 PROVE  FALSE
      BY DEF SingleFlight
    <2> DEFINE fq == [key |-> key[q], leader |-> q]
               fr == [key |-> key[r], leader |-> r]
    <2>1. fq \in inflight /\ fr \in inflight
      BY DEF FlightInv, FlightsOnMap
    <2>2. fq.key = fr.key /\ fq # fr
      OBVIOUS
    <2>3. QED
      BY <2>1, <2>2 DEF FlightInv, FlightsOnMap
  <1>2. QED
    BY <1>1, InitFlightInv, FlightStep, PTL DEF Spec

----------------------------------------------------------------------------
(* The freshness invariant, assembled *)

LEMMA FreshnessStep ==
    FreshnessInv /\ JoinableFlightsAreLive /\ [Next]_vars => FreshnessInv'
  <1> SUFFICES ASSUME FreshnessInv, JoinableFlightsAreLive, [Next]_vars
               PROVE  FreshnessInv'
    OBVIOUS
  <1>0. TypeOK'
    BY TypeStep DEF FreshnessInv
  <1>1. CASE RepositoryChanges
    BY <1>0, <1>1, FreshnessRepositoryChanges
  <1>2. CASE Expire
    BY <1>0, <1>2, FreshnessExpire
  <1>3. ASSUME NEW r \in Requests, RequestStep(r)
        PROVE  FreshnessInv'
    BY <1>0, <1>3, FreshnessReadGeneration, FreshnessReadNamespaceGeneration,
       FreshnessHit, FreshnessJoinFlight, FreshnessTakeOff, FreshnessSubscribe,
       FreshnessFetchReturns, FreshnessStore, FreshnessNotify, FreshnessFollowerReturns
    DEF RequestStep
  <1>4. ASSUME NEW i \in Invalidations, InvalidationStep(i)
        PROVE  FreshnessInv'
    BY <1>0, <1>4, FreshnessBump, FreshnessSweep DEF InvalidationStep
  <1>5. CASE UNCHANGED vars
    <2>1. UNCHANGED <<version, entries, callVars>> /\ FloorsStill
      BY <1>5 DEF vars, cacheVars, historyVars, FloorsStill
    <2>2. FloorsOrdered' /\ KeysIssued' /\ ValuesWithinKey' /\ CallsWithinKey'
      BY <2>1, StillFloors
      DEF FreshnessInv, FloorsOrdered, FloorsStill, KeysIssued, ValuesWithinKey,
          WithinKey, CallsWithinKey, callVars
    <2>3. LocalsInOrder' /\ WokenFindsResult' /\ AnswersWithinContract'
      BY <2>1 DEF FreshnessInv, LocalsInOrder, WokenFindsResult, AnswersWithinContract,
                  Following, callVars
    <2>4. QED
      BY <1>0, <2>2, <2>3 DEF FreshnessInv
  <1>6. QED
    BY <1>1, <1>2, <1>3, <1>4, <1>5 DEF Next

LEMMA InitFreshnessInv == Init => FreshnessInv
  <1> SUFFICES ASSUME Init PROVE FreshnessInv
    OBVIOUS
  <1>1. TypeOK
    BY DEF Init, TypeOK, StorageKey, Outcome, NoOutcome, PCs
  <1>2. FloorsOrdered /\ KeysIssued
    BY MaxVersionAssumption DEF Init, FloorsOrdered, KeysIssued, Issued
  <1>3. ValuesWithinKey /\ AnswersWithinContract
    BY DEF Init, ValuesWithinKey, AnswersWithinContract, NoOutcome
  <1>4. CallsWithinKey /\ LocalsInOrder /\ WokenFindsResult
    BY DEF Init, CallsWithinKey, LocalsInOrder, WokenFindsResult, Following, NoOutcome
  <1>5. QED
    BY <1>1, <1>2, <1>3, <1>4 DEF FreshnessInv

(* The inductive invariant of the freshness argument holds throughout.      *)
THEOREM Freshness == Spec => []FreshnessInv
  <1>1. Init => FreshnessInv /\ FlightInv
    BY InitFreshnessInv, InitFlightInv
  <1>2. (FreshnessInv /\ FlightInv) /\ [Next]_vars => (FreshnessInv /\ FlightInv)'
    BY FreshnessStep, FlightStep DEF FlightInv
  <1>3. QED
    BY <1>1, <1>2, PTL DEF Spec

(* A call never returns a value older than the last invalidation of its     *)
(* namespace that began before the call did, whatever flights, hits and     *)
(* stale fallbacks are in play.                                             *)
THEOREM NeverOlderThanInvalidation == Spec => []FreshAfterInvalidation
  <1>1. FreshnessInv => FreshAfterInvalidation
    <2> SUFFICES ASSUME FreshnessInv, NEW r \in Requests, ret[r].tag = "ok"
                 PROVE  ret[r].ver >= callFloor[r]
      BY DEF FreshAfterInvalidation
    <2>1. callFloor[r] <= ret[r].ver /\ callFloor[r] \in Nat /\ ret[r].ver \in Nat
      BY DEF FreshnessInv, AnswersWithinContract, TypeOK, Outcome
    <2>2. QED
      BY <2>1
  <1>2. QED
    BY <1>1, Freshness, PTL

(* The error "In-flight result missing" of get_or_refresh is unreachable.   *)
THEOREM ResultNeverMissing == Spec => []WokenFindsResult
  <1>1. FreshnessInv => WokenFindsResult
    BY DEF FreshnessInv
  <1>2. QED
    BY <1>1, Freshness, PTL

----------------------------------------------------------------------------
(* The cache implements CacheContract *)

PhaseOf(r) == IF pc[r] = "idle" THEN "idle" ELSE IF pc[r] = "done" THEN "closed" ELSE "open"
AbstractFloor == [ns \in Namespaces |-> CurrentFloor(ns)]
AbstractPhase == [r \in Requests |-> PhaseOf(r)]

(* A step that is invisible to the contract. *)
LEMMA ContractStutter ==
    ASSUME FloorsStill, UNCHANGED <<version, callFloor, ret>>,
           \A r \in Requests : PhaseOf(r)' = PhaseOf(r)
    PROVE  UNCHANGED Contract!cvars
  <1>1. \A ns \in Namespaces : CurrentFloor(ns)' = CurrentFloor(ns)
    BY StillFloors DEF CurrentFloor, CurrentKey, FloorsStill, KeyFloor
  <1>2. UNCHANGED AbstractFloor /\ UNCHANGED AbstractPhase
    BY <1>1 DEF AbstractFloor, AbstractPhase
  <1>3. QED
    BY <1>2 DEF Contract!cvars, AbstractFloor, AbstractPhase, PhaseOf

(* A return from within the contract is the contract's Answer. *)
LEMMA ContractAnswer ==
    ASSUME FreshnessInv, FreshnessInv', FloorsStill, UNCHANGED <<version, callFloor>>,
           NEW r \in Requests,
           pc[r] \notin {"idle", "done"}, pc'[r] = "done",
           \A q \in Requests \ {r} : PhaseOf(q)' = PhaseOf(q),
           NEW o \in Outcome, ret' = [ret EXCEPT ![r] = o],
           o = Failed \/ o = Value(o.ver)
    PROVE  Contract!Next
  <1>1. \A ns \in Namespaces : CurrentFloor(ns)' = CurrentFloor(ns)
    BY StillFloors DEF CurrentFloor, CurrentKey, FloorsStill, KeyFloor
  <1>2. UNCHANGED AbstractFloor
    BY <1>1 DEF AbstractFloor
  <1>3. AbstractPhase' = [AbstractPhase EXCEPT ![r] = "closed"]
    <2>1. PhaseOf(r)' = "closed"
      BY DEF PhaseOf
    <2> HIDE DEF PhaseOf
    <2>2. QED
      BY <2>1 DEF AbstractPhase
  <1>4. AbstractPhase[r] = "open"
    BY DEF AbstractPhase, PhaseOf
  <1>5. ret'[r] = o /\ o.ver \in Nat
    BY DEF FreshnessInv, TypeOK, Outcome
  <1>6. CASE o = Failed
    <2>1. Contract!Failed = Failed
      BY DEF Contract!Failed, Failed
    <2>2. Contract!Answer(r, Contract!Failed)
      BY <1>2, <1>3, <1>4, <1>6, <2>1
      DEF Contract!Answer, AbstractFloor, AbstractPhase, PhaseOf
    <2>3. QED
      BY <2>2 DEF Contract!Next
  <1>7. CASE o = Value(o.ver)
    <2>1. o.tag = "ok"
      BY <1>5, <1>7, OutcomeFacts
    <2>2. /\ callFloor[r] <= o.ver /\ o.ver <= version /\ version <= MaxVersion
          /\ callFloor[r] \in Nat /\ version \in Nat
      BY <1>5, <2>1 DEF FreshnessInv, AnswersWithinContract, TypeOK, FloorsOrdered
    <2>3. o.ver \in callFloor[r] .. version /\ o.ver \in 0 .. MaxVersion
      BY <1>5, <2>2, MaxVersionAssumption
    <2>4. o = Contract!Value(o.ver)
      BY <1>7 DEF Contract!Value, Value
    <2>5. Contract!Answer(r, Contract!Value(o.ver))
      BY <1>2, <1>3, <1>4, <2>3, <2>4
      DEF Contract!Answer, AbstractFloor, AbstractPhase, PhaseOf
    <2>6. QED
      BY <2>3, <2>5 DEF Contract!Next
  <1>8. QED
    BY <1>6, <1>7

(* A bump of `hit` is the contract's Invalidate: the new floor of a hit     *)
(* namespace is the current version, and no other floor moves.              *)
LEMMA ContractInvalidate ==
    ASSUME FreshnessInv, NEW i \in Invalidations, BumpAll(i) \/ BumpNamespaces(i)
    PROVE  Contract!Next
  <1>1. UNCHANGED <<version, pc, callFloor, ret>>
    BY DEF BumpAll, BumpNamespaces, callVars
  <1>2. UNCHANGED AbstractPhase
    BY <1>1 DEF AbstractPhase, PhaseOf
  <1>3. ASSUME NEW ns \in Namespaces
        PROVE  /\ generation \in Nat /\ nsGeneration[ns] \in Nat /\ version \in Nat
               /\ genFloor[generation] \in Nat /\ genFloor[generation] <= version
               /\ nsFloor[ns] \in [0 .. nsGeneration[ns] -> Nat]
               /\ nsFloor[ns][nsGeneration[ns]] \in Nat
               /\ nsFloor[ns][nsGeneration[ns]] <= version
    <2>1. /\ generation \in Nat /\ nsGeneration[ns] \in Nat /\ version \in Nat
          /\ genFloor \in [0 .. generation -> Nat]
          /\ nsFloor[ns] \in [0 .. nsGeneration[ns] -> Nat]
      BY DEF FreshnessInv, TypeOK
    <2>2. generation \in 0 .. generation /\ nsGeneration[ns] \in 0 .. nsGeneration[ns]
      BY <2>1
    <2>3. QED
      BY <2>1, <2>2 DEF FreshnessInv, FloorsOrdered
  <1>4. CASE BumpAll(i)
    <2>1. ASSUME NEW ns \in Namespaces PROVE CurrentFloor(ns)' = version
      <3>1. /\ generation' = generation + 1 /\ nsGeneration' = nsGeneration
            /\ nsFloor' = nsFloor /\ genFloor'[generation + 1] = version
        BY <1>4, BumpedGeneration DEF BumpAll, FreshnessInv
      <3>2. QED
        BY <1>3, <3>1 DEF CurrentFloor, CurrentKey, KeyFloor, Larger
    <2>2. AbstractFloor' = [ns \in Namespaces |->
                              IF ns \in Namespaces THEN version ELSE AbstractFloor[ns]]
      BY <2>1 DEF AbstractFloor
    <2>3. Contract!Invalidate(Namespaces)
      BY <1>1, <1>2, <2>2 DEF Contract!Invalidate, AbstractFloor, AbstractPhase, PhaseOf
    <2>4. QED
      BY <2>3 DEF Contract!Next
  <1>5. CASE BumpNamespaces(i)
    <2>1. PICK hit \in (SUBSET Namespaces) \ {{}} :
            /\ nsGeneration' = [ns \in Namespaces |->
                   IF ns \in hit THEN nsGeneration[ns] + 1 ELSE nsGeneration[ns]]
            /\ nsFloor' = [ns \in Namespaces |->
                   IF ns \in hit THEN Extend(nsFloor[ns], nsGeneration[ns] + 1, version)
                   ELSE nsFloor[ns]]
      BY <1>5 DEF BumpNamespaces
    <2>2. UNCHANGED <<generation, genFloor>>
      BY <1>5 DEF BumpNamespaces
    <2>3. ASSUME NEW ns \in Namespaces
          PROVE  CurrentFloor(ns)' = IF ns \in hit THEN version ELSE CurrentFloor(ns)
      <3>1. CASE ns \in hit
        <4>1. Extend(nsFloor[ns], nsGeneration[ns] + 1, version)[nsGeneration[ns] + 1] = version
          BY <1>3, ExtendHistory
        <4>2. nsGeneration'[ns] = nsGeneration[ns] + 1 /\ nsFloor'[ns][nsGeneration[ns] + 1] = version
          BY <2>1, <3>1, <4>1
        <4>3. QED
          BY <1>3, <2>2, <3>1, <4>2 DEF CurrentFloor, CurrentKey, KeyFloor, Larger
      <3>2. CASE ns \notin hit
        BY <2>1, <2>2, <3>2 DEF CurrentFloor, CurrentKey, KeyFloor
      <3>3. QED
        BY <3>1, <3>2
    <2>4. AbstractFloor' = [ns \in Namespaces |->
                              IF ns \in hit THEN version ELSE AbstractFloor[ns]]
      BY <2>3 DEF AbstractFloor
    <2>5. Contract!Invalidate(hit)
      BY <1>1, <1>2, <2>4 DEF Contract!Invalidate, AbstractFloor, AbstractPhase, PhaseOf
    <2>6. QED
      BY <2>1, <2>5 DEF Contract!Next
  <1>6. QED
    BY <1>4, <1>5

LEMMA ContractStep ==
    FreshnessInv /\ FreshnessInv' /\ [Next]_vars => [Contract!Next]_(Contract!cvars)
  <1> SUFFICES ASSUME FreshnessInv, FreshnessInv', [Next]_vars
               PROVE  Contract!Next \/ UNCHANGED Contract!cvars
    OBVIOUS
  <1> USE DEF FreshnessInv
  <1>1. CASE RepositoryChanges
    <2>1. /\ version < MaxVersion /\ version' = version + 1
          /\ FloorsStill /\ UNCHANGED <<pc, callFloor, ret>>
      BY <1>1 DEF RepositoryChanges, FloorsStill, cacheVars, historyVars, callVars
    <2>2. \A ns \in Namespaces : CurrentFloor(ns)' = CurrentFloor(ns)
      BY <2>1, StillFloors DEF CurrentFloor, CurrentKey, FloorsStill, KeyFloor
    <2>3. UNCHANGED AbstractFloor /\ UNCHANGED AbstractPhase
      BY <2>1, <2>2 DEF AbstractFloor, AbstractPhase, PhaseOf
    <2>4. Contract!Change
      BY <2>1, <2>3 DEF Contract!Change, AbstractFloor, AbstractPhase, PhaseOf
    <2>5. QED
      BY <2>4 DEF Contract!Next
  <1>2. CASE Expire
    BY <1>2, ContractStutter DEF Expire, FloorsStill, callVars, historyVars, PhaseOf
  <1>3. ASSUME NEW i \in Invalidations, BumpAll(i) \/ BumpNamespaces(i)
        PROVE  Contract!Next
    BY <1>3, ContractInvalidate
  <1>4. ASSUME NEW i \in Invalidations, Sweep(i)
        PROVE  UNCHANGED Contract!cvars
    BY <1>4, ContractStutter DEF Sweep, FloorsStill, callVars, PhaseOf
  <1>5. ASSUME NEW r \in Requests, ReadGeneration(r)
        PROVE  Contract!Next
    <2>1. /\ FloorsStill /\ UNCHANGED <<version, ret>>
          /\ pc[r] = "idle" /\ pc' = [pc EXCEPT ![r] = "keying"]
          /\ callFloor' = [callFloor EXCEPT ![r] = CurrentFloor(key[r].ns)]
          /\ key[r].ns \in Namespaces
      BY <1>5 DEF ReadGeneration, FloorsStill, cacheVars, historyVars, TypeOK, StorageKey
    <2>2. \A ns \in Namespaces : CurrentFloor(ns)' = CurrentFloor(ns)
      BY <2>1, StillFloors DEF CurrentFloor, CurrentKey, FloorsStill, KeyFloor
    <2>3. UNCHANGED AbstractFloor
      BY <2>2 DEF AbstractFloor
    <2>4. AbstractPhase' = [AbstractPhase EXCEPT ![r] = "open"] /\ AbstractPhase[r] = "idle"
      BY <2>1 DEF AbstractPhase, PhaseOf, TypeOK
    <2>5. AbstractFloor[key[r].ns] = CurrentFloor(key[r].ns)
      BY <2>1 DEF AbstractFloor
    <2>6. PICK ns \in Namespaces : ns = key[r].ns
      BY <2>1
    <2>7. Contract!Call(r, ns)
      BY <2>1, <2>3, <2>4, <2>5, <2>6 DEF Contract!Call, AbstractFloor, AbstractPhase, PhaseOf
    <2>8. QED
      BY <2>7 DEF Contract!Next
  <1>6. ASSUME NEW r \in Requests,
               \/ ReadNamespaceGeneration(r) \/ JoinFlight(r) \/ TakeOff(r)
               \/ Subscribe(r) \/ FetchReturns(r) \/ Store(r)
        PROVE  UNCHANGED Contract!cvars
    <2>1. FloorsStill /\ UNCHANGED <<version, callFloor, ret>>
      BY <1>6 DEF ReadNamespaceGeneration, JoinFlight, TakeOff, Subscribe, FetchReturns,
                  Store, FloorsStill, cacheVars, historyVars
    <2>2. \A q \in Requests : PhaseOf(q)' = PhaseOf(q)
      <3>1. /\ pc[r] \notin {"idle", "done"} /\ pc'[r] \notin {"idle", "done"}
            /\ \A q \in Requests \ {r} : pc'[q] = pc[q]
        BY <1>6 DEF ReadNamespaceGeneration, JoinFlight, TakeOff, Misses, Subscribe,
                    FetchReturns, Store, TypeOK
      <3>2. QED
        BY <3>1 DEF PhaseOf
    <2>3. QED
      BY <2>1, <2>2, ContractStutter
  <1>7. ASSUME NEW r \in Requests, Hit(r)
        PROVE  Contract!Next
    <2>1. PICK e \in EntriesOf(key[r]) : ret' = [ret EXCEPT ![r] = Value(e.ver)]
      BY <1>7 DEF Hit
    <2>2. Value(e.ver) \in Outcome /\ Value(e.ver) = Value(Value(e.ver).ver)
      BY OutcomeFacts DEF EntriesOf, TypeOK, Entry
    <2>3. /\ FloorsStill /\ UNCHANGED <<version, callFloor>>
          /\ pc[r] \notin {"idle", "done"} /\ pc'[r] = "done"
          /\ \A q \in Requests \ {r} : PhaseOf(q)' = PhaseOf(q)
      BY <1>7 DEF Hit, FloorsStill, cacheVars, historyVars, PhaseOf, TypeOK
    <2>4. QED
      BY <2>1, <2>2, <2>3, ContractAnswer
  <1>8. ASSUME NEW r \in Requests, Notify(r) \/ FollowerReturns(r)
        PROVE  Contract!Next
    <2>1. PICK o \in Outcome :
            /\ ret' = [ret EXCEPT ![r] = o]
            /\ o = Failed \/ o = Value(o.ver)
      <3>1. PICK p \in Outcome, f \in Outcome : ret' = [ret EXCEPT ![r] = Resolve(p, f)]
        BY <1>8 DEF Notify, FollowerReturns, TypeOK
      <3>2. Resolve(p, f) \in Outcome /\ Resolve(p, f).tag # "none"
        BY OutcomeFacts DEF Resolve
      <3>3. QED
        BY <3>1, <3>2, OutcomeShapes
    <2>2. /\ FloorsStill /\ UNCHANGED <<version, callFloor>>
          /\ pc[r] \notin {"idle", "done"} /\ pc'[r] = "done"
          /\ \A q \in Requests \ {r} : PhaseOf(q)' = PhaseOf(q)
      BY <1>8 DEF Notify, FollowerReturns, FloorsStill, cacheVars, historyVars, PhaseOf, TypeOK
    <2>3. QED
      BY <2>1, <2>2, ContractAnswer
  <1>9. CASE UNCHANGED vars
    BY <1>9, ContractStutter DEF vars, FloorsStill, cacheVars, callVars, historyVars, PhaseOf
  <1>10. QED
    BY <1>1, <1>2, <1>3, <1>4, <1>5, <1>6, <1>7, <1>8, <1>9
    DEF Next, RequestStep, InvalidationStep

(* RepoCache implements CacheContract: seen from its callers, the cache     *)
(* answers every call from a repository version that no earlier             *)
(* invalidation of the call's namespace has disowned.                       *)
THEOREM Refinement == Spec => ImplementsContract
  <1>1. Init => Contract!Init
    <2> SUFFICES ASSUME Init PROVE Contract!Init
      OBVIOUS
    <2>1. \A ns \in Namespaces : CurrentFloor(ns) = 0
      BY DEF Init, CurrentFloor, CurrentKey, KeyFloor, Larger
    <2>2. Contract!NoOutcome = NoOutcome
      BY DEF Contract!NoOutcome, NoOutcome
    <2>3. QED
      BY <2>1, <2>2 DEF Init, Contract!Init
  <1>2. QED
    BY <1>1, ContractStep, Freshness, PTL DEF Spec, ImplementsContract, Contract!Spec
==============================================================================
