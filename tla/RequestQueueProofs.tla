-------------------------- MODULE RequestQueueProofs --------------------------
(****************************************************************************)
(* Theorems about RequestQueue, for any number of requests, paths, queues   *)
(* and slots.                                                               *)
(****************************************************************************)
EXTENDS RequestQueue, FiniteSetTheorems, TLAPS

(* What claiming and dropping a guard do to the guards of each queue. *)
LEMMA GuardAdded ==
  ASSUME SlotsInv, NEW r \in Requests, r \notin guarded, QueueOf[r] \in Queues,
         guarded' = guarded \cup {r}
  PROVE  /\ IsFiniteSet(guarded')
         /\ \A q \in Queues : Cardinality(GuardsOf(q)') =
               IF q = QueueOf[r] THEN Cardinality(GuardsOf(q)) + 1 ELSE Cardinality(GuardsOf(q))
  <1>1. IsFiniteSet(guarded')
    BY FS_AddElement DEF SlotsInv
  <1>2. ASSUME NEW q \in Queues
        PROVE  Cardinality(GuardsOf(q)') =
               IF q = QueueOf[r] THEN Cardinality(GuardsOf(q)) + 1 ELSE Cardinality(GuardsOf(q))
    <2>1. IsFiniteSet(GuardsOf(q))
      BY FS_Subset DEF SlotsInv, GuardsOf
    <2>2. CASE q = QueueOf[r]
      <3>1. GuardsOf(q)' = GuardsOf(q) \cup {r} /\ r \notin GuardsOf(q)
        BY <2>2 DEF GuardsOf
      <3>2. QED
        BY <2>1, <2>2, <3>1, FS_AddElement
    <2>3. CASE q # QueueOf[r]
      <3>1. GuardsOf(q)' = GuardsOf(q)
        BY <2>3 DEF GuardsOf
      <3>2. QED
        BY <2>3, <3>1
    <2>4. QED
      BY <2>2, <2>3
  <1>3. QED
    BY <1>1, <1>2

LEMMA GuardDropped ==
  ASSUME SlotsInv, NEW r \in Requests, r \in guarded, QueueOf[r] \in Queues,
         guarded' = guarded \ {r}
  PROVE  /\ IsFiniteSet(guarded')
         /\ \A q \in Queues : Cardinality(GuardsOf(q)') =
               IF q = QueueOf[r] THEN Cardinality(GuardsOf(q)) - 1 ELSE Cardinality(GuardsOf(q))
         /\ Cardinality(GuardsOf(QueueOf[r])) \in Nat \ {0}
  <1>1. IsFiniteSet(guarded')
    BY FS_RemoveElement DEF SlotsInv
  <1>2. \A q \in Queues : IsFiniteSet(GuardsOf(q))
    BY FS_Subset DEF SlotsInv, GuardsOf
  <1>3. ASSUME NEW q \in Queues
        PROVE  Cardinality(GuardsOf(q)') =
               IF q = QueueOf[r] THEN Cardinality(GuardsOf(q)) - 1 ELSE Cardinality(GuardsOf(q))
    <2>1. CASE q = QueueOf[r]
      <3>1. GuardsOf(q)' = GuardsOf(q) \ {r} /\ r \in GuardsOf(q)
        BY <2>1 DEF GuardsOf
      <3>2. QED
        BY <1>2, <2>1, <3>1, FS_RemoveElement
    <2>2. CASE q # QueueOf[r]
      <3>1. GuardsOf(q)' = GuardsOf(q)
        BY <2>2 DEF GuardsOf
      <3>2. QED
        BY <2>2, <3>1
    <2>3. QED
      BY <2>1, <2>2
  <1>4. Cardinality(GuardsOf(QueueOf[r])) \in Nat \ {0}
    <2>1. r \in GuardsOf(QueueOf[r])
      BY DEF GuardsOf
    <2>2. QED
      BY <1>2, <2>1, FS_CardinalityType, FS_EmptySet
  <1>5. QED
    BY <1>1, <1>3, <1>4

LEMMA InitInv == Init => QueueInv
  <1> SUFFICES ASSUME Init PROVE QueueInv
    OBVIOUS
  <1> USE QueueAssumption DEF Init
  <1>1. TypeOK
    BY DEF TypeOK, Registering
  <1>2. SlotsInv
    <2>1. \A q \in Queues : GuardsOf(q) = {}
      BY DEF GuardsOf
    <2>2. QED
      BY <2>1, FS_EmptySet DEF SlotsInv, AtWork
  <1>3. MapsInv
    BY DEF MapsInv, Admitted, AtWork
  <1>4. DisplacementInv
    BY DEF DisplacementInv, Displaced, IsLatest, Admitted, AtWork
  <1>5. CausesInv
    BY DEF CausesInv, SupersededForCause
  <1>6. QED
    BY <1>1, <1>2, <1>3, <1>4, <1>5 DEF QueueInv

----------------------------------------------------------------------------
(* Each part of the invariant is preserved by every action.                 *)

(* Types; a count that is decremented is positive, since its guard is live. *)
LEMMA TypeOKStep == QueueInv /\ [Next]_vars => TypeOK'
  <1> SUFFICES ASSUME QueueInv, [Next]_vars PROVE TypeOK'
    OBVIOUS
  <1> USE QueueAssumption DEF QueueInv, TypeOK, Goto, mapVars, slotVars, flightVars, Registering, AtWork, Results
  <1>1. ASSUME NEW r \in Requests, Displace(r) PROVE TypeOK'
    BY <1>1 DEF Displace
  <1>2. ASSUME NEW r \in Requests, CancelPrevious(r) PROVE TypeOK'
    BY <1>2 DEF CancelPrevious
  <1>3. ASSUME NEW r \in Requests, InsertFlag(r) PROVE TypeOK'
    BY <1>3 DEF InsertFlag
  <1>4. ASSUME NEW r \in Requests, CheckSuperseded(r) PROVE TypeOK'
    BY <1>4 DEF CheckSuperseded, MayProceed, FinishWith
  <1>5. ASSUME NEW r \in Requests, LoadWorkers(r) PROVE TypeOK'
    <2>1. CASE pc' = [pc EXCEPT ![r] = "claiming"]
      BY <1>5, <2>1 DEF LoadWorkers
    <2>2. CASE pc' = [pc EXCEPT ![r] = "checking"]
      BY <1>5, <2>2 DEF LoadWorkers
    <2>3. QED
      BY <1>5, <2>1, <2>2 DEF LoadWorkers
  <1>6. ASSUME NEW r \in Requests, ClaimSlot(r) PROVE TypeOK'
    <2>1. CASE workers[QueueOf[r]] = seen[r]
      <3>1. seen[r] < MaxWorkers
        BY <1>6 DEF ClaimSlot, SlotsInv
      <3>2. workers[QueueOf[r]] + 1 \in 0 .. MaxWorkers
        BY <2>1, <3>1
      <3>3. workers' \in [Queues -> 0 .. MaxWorkers]
        BY <1>6, <2>1, <3>2 DEF ClaimSlot
      <3>4. QED
        BY <1>6, <2>1, <3>3 DEF ClaimSlot
    <2>2. CASE workers[QueueOf[r]] # seen[r]
      BY <1>6, <2>2 DEF ClaimSlot
    <2>3. QED
      BY <2>1, <2>2
  <1>7. ASSUME NEW r \in Requests, CheckBeforeCache(r) PROVE TypeOK'
    BY <1>7 DEF CheckBeforeCache, FinishWith
  <1>8. ASSUME NEW r \in Requests, Hit(r) PROVE TypeOK'
    BY <1>8 DEF Hit
  <1>9. ASSUME NEW r \in Requests, JoinFlight(r) PROVE TypeOK'
    BY <1>9 DEF JoinFlight, Flying
  <1>10. ASSUME NEW r \in Requests, TakeOff(r) PROVE TypeOK'
    BY <1>10 DEF TakeOff
  <1>11. ASSUME NEW r \in Requests, FetchReturns(r) PROVE TypeOK'
    <2>1. CASE pc' = [pc EXCEPT ![r] = "resolving"]
      BY <1>11, <2>1 DEF FetchReturns, Flying, TakeResult, FinishWith
    <2>2. CASE pc' = [pc EXCEPT ![r] = "cleaning"]
      BY <1>11, <2>2 DEF FetchReturns, Flying, TakeResult, FinishWith
    <2>3. QED
      BY <1>11, <2>1, <2>2 DEF FetchReturns, Flying, TakeResult, FinishWith
  <1>12. ASSUME NEW r \in Requests, FollowerReturns(r) PROVE TypeOK'
    <2>1. CASE pc' = [pc EXCEPT ![r] = "resolving"]
      BY <1>12, <2>1 DEF FollowerReturns, TakeResult, FinishWith, CausesInv
    <2>2. CASE pc' = [pc EXCEPT ![r] = "cleaning"]
      BY <1>12, <2>2 DEF FollowerReturns, TakeResult, FinishWith, CausesInv
    <2>3. QED
      BY <1>12, <2>1, <2>2 DEF FollowerReturns, TakeResult, FinishWith, CausesInv
  <1>13. ASSUME NEW r \in Requests, ResolveFiles(r) PROVE TypeOK'
    BY <1>13 DEF ResolveFiles, FinishWith
  <1>14. ASSUME NEW r \in Requests, RemoveFlag(r) PROVE TypeOK'
    BY <1>14 DEF RemoveFlag
  <1>15. ASSUME NEW r \in Requests, Unlist(r) PROVE TypeOK'
    BY <1>15 DEF Unlist
  <1>16. ASSUME NEW r \in Requests, ReleaseSlot(r) PROVE TypeOK'
    <2>1. r \in guarded
      BY <1>16 DEF ReleaseSlot, SlotsInv
    <2>2. workers[QueueOf[r]] > 0
      BY <1>16, <2>1, GuardDropped DEF ReleaseSlot, SlotsInv
    <2>3. QED
      BY <1>16, <2>2 DEF ReleaseSlot
  <1>17. CASE UNCHANGED vars
    BY <1>17 DEF vars
  <1>18. QED
    BY <1>1, <1>2, <1>3, <1>4, <1>5, <1>6, <1>7, <1>8, <1>9, <1>10, <1>11, <1>12,
       <1>13, <1>14, <1>15, <1>16, <1>17 DEF Next, Step

(* The worker count and the guards. *)
LEMMA SlotsInvStep == QueueInv /\ [Next]_vars => SlotsInv'
  <1> SUFFICES ASSUME QueueInv, [Next]_vars PROVE SlotsInv'
    OBVIOUS
  <1> USE QueueAssumption DEF QueueInv, TypeOK, Goto, mapVars, slotVars, flightVars, Registering, AtWork, Results, SlotsInv
  <1>1. ASSUME NEW r \in Requests, Displace(r) PROVE SlotsInv'
    BY <1>1 DEF Displace, GuardsOf
  <1>2. ASSUME NEW r \in Requests, CancelPrevious(r) PROVE SlotsInv'
    BY <1>2 DEF CancelPrevious, GuardsOf
  <1>3. ASSUME NEW r \in Requests, InsertFlag(r) PROVE SlotsInv'
    BY <1>3 DEF InsertFlag, GuardsOf
  <1>4. ASSUME NEW r \in Requests, CheckSuperseded(r) PROVE SlotsInv'
    BY <1>4 DEF CheckSuperseded, MayProceed, FinishWith, GuardsOf
  <1>5. ASSUME NEW r \in Requests, LoadWorkers(r) PROVE SlotsInv'
    BY <1>5 DEF LoadWorkers, GuardsOf
  <1>6. ASSUME NEW r \in Requests, ClaimSlot(r) PROVE SlotsInv'
    <2>1. CASE workers[QueueOf[r]] = seen[r]
      <3>1. r \notin guarded
        BY <1>6 DEF ClaimSlot
      <3>2. guarded' = guarded \cup {r}
        BY <1>6, <2>1 DEF ClaimSlot
      <3>3. workers' = [workers EXCEPT ![QueueOf[r]] = @ + 1]
        BY <1>6, <2>1 DEF ClaimSlot
      <3>4. IsFiniteSet(guarded') /\ \A q \in Queues : workers'[q] = Cardinality(GuardsOf(q)')
        BY <3>1, <3>2, <3>3, GuardAdded
      <3>5. QED
        BY <1>6, <2>1, <3>4 DEF ClaimSlot
    <2>2. CASE workers[QueueOf[r]] # seen[r]
      BY <1>6, <2>2 DEF ClaimSlot, GuardsOf
    <2>3. QED
      BY <2>1, <2>2
  <1>7. ASSUME NEW r \in Requests, CheckBeforeCache(r) PROVE SlotsInv'
    BY <1>7 DEF CheckBeforeCache, FinishWith, GuardsOf
  <1>8. ASSUME NEW r \in Requests, Hit(r) PROVE SlotsInv'
    BY <1>8 DEF Hit, GuardsOf
  <1>9. ASSUME NEW r \in Requests, JoinFlight(r) PROVE SlotsInv'
    BY <1>9 DEF JoinFlight, Flying, GuardsOf
  <1>10. ASSUME NEW r \in Requests, TakeOff(r) PROVE SlotsInv'
    BY <1>10 DEF TakeOff, GuardsOf
  <1>11. ASSUME NEW r \in Requests, FetchReturns(r) PROVE SlotsInv'
    BY <1>11 DEF FetchReturns, Flying, TakeResult, FinishWith, GuardsOf
  <1>12. ASSUME NEW r \in Requests, FollowerReturns(r) PROVE SlotsInv'
    BY <1>12 DEF FollowerReturns, TakeResult, FinishWith, GuardsOf
  <1>13. ASSUME NEW r \in Requests, ResolveFiles(r) PROVE SlotsInv'
    BY <1>13 DEF ResolveFiles, FinishWith, GuardsOf
  <1>14. ASSUME NEW r \in Requests, RemoveFlag(r) PROVE SlotsInv'
    BY <1>14 DEF RemoveFlag, GuardsOf
  <1>15. ASSUME NEW r \in Requests, Unlist(r) PROVE SlotsInv'
    BY <1>15 DEF Unlist, GuardsOf
  <1>16. ASSUME NEW r \in Requests, ReleaseSlot(r) PROVE SlotsInv'
    <2>1. r \in guarded
      BY <1>16 DEF ReleaseSlot
    <2>2. guarded' = guarded \ {r} /\ workers' = [workers EXCEPT ![QueueOf[r]] = @ - 1]
      BY <1>16 DEF ReleaseSlot
    <2>3. IsFiniteSet(guarded') /\ \A q \in Queues : workers'[q] = Cardinality(GuardsOf(q)')
      BY <2>1, <2>2, GuardDropped
    <2>4. QED
      BY <1>16, <2>3 DEF ReleaseSlot
  <1>17. CASE UNCHANGED vars
    BY <1>17 DEF vars, GuardsOf
  <1>18. QED
    BY <1>1, <1>2, <1>3, <1>4, <1>5, <1>6, <1>7, <1>8, <1>9, <1>10, <1>11, <1>12,
       <1>13, <1>14, <1>15, <1>16, <1>17 DEF Next, Step

(* The contents of the maps. *)
LEMMA MapsInvStep == QueueInv /\ [Next]_vars => MapsInv'
  <1> SUFFICES ASSUME QueueInv, [Next]_vars PROVE MapsInv'
    OBVIOUS
  <1> USE QueueAssumption DEF QueueInv, TypeOK, Goto, mapVars, slotVars, flightVars, Registering, AtWork, Results, MapsInv, Admitted, IsLatest
  <1>1. ASSUME NEW r \in Requests, Displace(r) PROVE MapsInv'
    BY <1>1 DEF Displace
  <1>2. ASSUME NEW r \in Requests, CancelPrevious(r) PROVE MapsInv'
    BY <1>2 DEF CancelPrevious
  <1>3. ASSUME NEW r \in Requests, InsertFlag(r) PROVE MapsInv'
    BY <1>3 DEF InsertFlag
  <1>4. ASSUME NEW r \in Requests, CheckSuperseded(r) PROVE MapsInv'
    <2>1. CASE pc' = [pc EXCEPT ![r] = "loading"]
      BY <1>4, <2>1 DEF CheckSuperseded, MayProceed, FinishWith
    <2>2. CASE pc' = [pc EXCEPT ![r] = "cleaning"]
      BY <1>4, <2>2 DEF CheckSuperseded, MayProceed, FinishWith
    <2>3. QED
      BY <1>4, <2>1, <2>2 DEF CheckSuperseded, MayProceed, FinishWith
  <1>5. ASSUME NEW r \in Requests, LoadWorkers(r) PROVE MapsInv'
    <2>1. CASE pc' = [pc EXCEPT ![r] = "claiming"]
      BY <1>5, <2>1 DEF LoadWorkers
    <2>2. CASE pc' = [pc EXCEPT ![r] = "checking"]
      BY <1>5, <2>2 DEF LoadWorkers
    <2>3. QED
      BY <1>5, <2>1, <2>2 DEF LoadWorkers
  <1>6. ASSUME NEW r \in Requests, ClaimSlot(r) PROVE MapsInv'
    BY <1>6 DEF ClaimSlot
  <1>7. ASSUME NEW r \in Requests, CheckBeforeCache(r) PROVE MapsInv'
    <2>1. CASE pc' = [pc EXCEPT ![r] = "reading"]
      BY <1>7, <2>1 DEF CheckBeforeCache, FinishWith
    <2>2. CASE pc' = [pc EXCEPT ![r] = "cleaning"]
      BY <1>7, <2>2 DEF CheckBeforeCache, FinishWith
    <2>3. QED
      BY <1>7, <2>1, <2>2 DEF CheckBeforeCache, FinishWith
  <1>8. ASSUME NEW r \in Requests, Hit(r) PROVE MapsInv'
    BY <1>8 DEF Hit
  <1>9. ASSUME NEW r \in Requests, JoinFlight(r) PROVE MapsInv'
    BY <1>9 DEF JoinFlight, Flying
  <1>10. ASSUME NEW r \in Requests, TakeOff(r) PROVE MapsInv'
    BY <1>10 DEF TakeOff
  <1>11. ASSUME NEW r \in Requests, FetchReturns(r) PROVE MapsInv'
    BY <1>11 DEF FetchReturns, Flying, TakeResult, FinishWith
  <1>12. ASSUME NEW r \in Requests, FollowerReturns(r) PROVE MapsInv'
    <2>1. CASE pc' = [pc EXCEPT ![r] = "resolving"]
      BY <1>12, <2>1 DEF FollowerReturns, TakeResult, FinishWith
    <2>2. CASE pc' = [pc EXCEPT ![r] = "cleaning"]
      BY <1>12, <2>2 DEF FollowerReturns, TakeResult, FinishWith
    <2>3. QED
      BY <1>12, <2>1, <2>2 DEF FollowerReturns, TakeResult, FinishWith
  <1>13. ASSUME NEW r \in Requests, ResolveFiles(r) PROVE MapsInv'
    BY <1>13 DEF ResolveFiles, FinishWith
  <1>14. ASSUME NEW r \in Requests, RemoveFlag(r) PROVE MapsInv'
    BY <1>14 DEF RemoveFlag
  <1>15. ASSUME NEW r \in Requests, Unlist(r) PROVE MapsInv'
    BY <1>15 DEF Unlist
  <1>16. ASSUME NEW r \in Requests, ReleaseSlot(r) PROVE MapsInv'
    BY <1>16 DEF ReleaseSlot
  <1>17. CASE UNCHANGED vars
    BY <1>17 DEF vars
  <1>18. QED
    BY <1>1, <1>2, <1>3, <1>4, <1>5, <1>6, <1>7, <1>8, <1>9, <1>10, <1>11, <1>12,
       <1>13, <1>14, <1>15, <1>16, <1>17 DEF Next, Step

(* Who is latest, who is displaced and who is flagged. *)
LEMMA DisplacementInvStep == QueueInv /\ [Next]_vars => DisplacementInv'
  <1> SUFFICES ASSUME QueueInv, [Next]_vars PROVE DisplacementInv'
    OBVIOUS
  <1> USE QueueAssumption DEF QueueInv, TypeOK, Goto, mapVars, slotVars, flightVars, Registering, AtWork, Results, MapsInv, DisplacementInv, Displaced, Admitted, IsLatest
  <1>1. ASSUME NEW r \in Requests, Displace(r) PROVE DisplacementInv'
    BY <1>1 DEF Displace
  <1>2. ASSUME NEW r \in Requests, CancelPrevious(r) PROVE DisplacementInv'
    BY <1>2 DEF CancelPrevious
  <1>3. ASSUME NEW r \in Requests, InsertFlag(r) PROVE DisplacementInv'
    BY <1>3 DEF InsertFlag
  <1>4. ASSUME NEW r \in Requests, CheckSuperseded(r) PROVE DisplacementInv'
    <2>1. CASE pc' = [pc EXCEPT ![r] = "loading"]
      BY <1>4, <2>1 DEF CheckSuperseded, MayProceed, FinishWith
    <2>2. CASE pc' = [pc EXCEPT ![r] = "cleaning"]
      BY <1>4, <2>2 DEF CheckSuperseded, MayProceed, FinishWith
    <2>3. QED
      BY <1>4, <2>1, <2>2 DEF CheckSuperseded, MayProceed, FinishWith
  <1>5. ASSUME NEW r \in Requests, LoadWorkers(r) PROVE DisplacementInv'
    <2>1. CASE pc' = [pc EXCEPT ![r] = "claiming"]
      BY <1>5, <2>1 DEF LoadWorkers
    <2>2. CASE pc' = [pc EXCEPT ![r] = "checking"]
      BY <1>5, <2>2 DEF LoadWorkers
    <2>3. QED
      BY <1>5, <2>1, <2>2 DEF LoadWorkers
  <1>6. ASSUME NEW r \in Requests, ClaimSlot(r) PROVE DisplacementInv'
    <2>1. CASE pc' = [pc EXCEPT ![r] = "working"]
      BY <1>6, <2>1 DEF ClaimSlot
    <2>2. CASE pc' = [pc EXCEPT ![r] = "checking"]
      BY <1>6, <2>2 DEF ClaimSlot
    <2>3. QED
      BY <1>6, <2>1, <2>2 DEF ClaimSlot
  <1>7. ASSUME NEW r \in Requests, CheckBeforeCache(r) PROVE DisplacementInv'
    <2>1. CASE pc' = [pc EXCEPT ![r] = "reading"]
      BY <1>7, <2>1 DEF CheckBeforeCache, FinishWith
    <2>2. CASE pc' = [pc EXCEPT ![r] = "cleaning"]
      BY <1>7, <2>2 DEF CheckBeforeCache, FinishWith
    <2>3. QED
      BY <1>7, <2>1, <2>2 DEF CheckBeforeCache, FinishWith
  <1>8. ASSUME NEW r \in Requests, Hit(r) PROVE DisplacementInv'
    BY <1>8 DEF Hit
  <1>9. ASSUME NEW r \in Requests, JoinFlight(r) PROVE DisplacementInv'
    BY <1>9 DEF JoinFlight, Flying
  <1>10. ASSUME NEW r \in Requests, TakeOff(r) PROVE DisplacementInv'
    BY <1>10 DEF TakeOff
  <1>11. ASSUME NEW r \in Requests, FetchReturns(r) PROVE DisplacementInv'
    <2>1. CASE pc' = [pc EXCEPT ![r] = "resolving"]
      BY <1>11, <2>1 DEF FetchReturns, Flying, TakeResult, FinishWith
    <2>2. CASE pc' = [pc EXCEPT ![r] = "cleaning"]
      BY <1>11, <2>2 DEF FetchReturns, Flying, TakeResult, FinishWith
    <2>3. QED
      BY <1>11, <2>1, <2>2 DEF FetchReturns, Flying, TakeResult, FinishWith
  <1>12. ASSUME NEW r \in Requests, FollowerReturns(r) PROVE DisplacementInv'
    BY <1>12 DEF FollowerReturns, TakeResult, FinishWith
  <1>13. ASSUME NEW r \in Requests, ResolveFiles(r) PROVE DisplacementInv'
    BY <1>13 DEF ResolveFiles, FinishWith
  <1>14. ASSUME NEW r \in Requests, RemoveFlag(r) PROVE DisplacementInv'
    BY <1>14 DEF RemoveFlag
  <1>15. ASSUME NEW r \in Requests, Unlist(r) PROVE DisplacementInv'
    BY <1>15 DEF Unlist
  <1>16. ASSUME NEW r \in Requests, ReleaseSlot(r) PROVE DisplacementInv'
    BY <1>16 DEF ReleaseSlot
  <1>17. CASE UNCHANGED vars
    BY <1>17 DEF vars
  <1>18. QED
    BY <1>1, <1>2, <1>3, <1>4, <1>5, <1>6, <1>7, <1>8, <1>9, <1>10, <1>11, <1>12,
       <1>13, <1>14, <1>15, <1>16, <1>17 DEF Next, Step

(* Where "superseded" comes from. *)
LEMMA CausesInvStep == QueueInv /\ [Next]_vars => CausesInv'
  <1> SUFFICES ASSUME QueueInv, [Next]_vars PROVE CausesInv'
    OBVIOUS
  <1> USE QueueAssumption DEF QueueInv, TypeOK, Goto, mapVars, slotVars, flightVars, Registering, AtWork, Results, DisplacementInv, CausesInv, SupersededForCause, Displaced, IsLatest
  <1>1. ASSUME NEW r \in Requests, Displace(r) PROVE CausesInv'
    <2>1. \A x \in Requests : Displaced(x) => Displaced(x)'
      BY <1>1 DEF Displace
    <2> HIDE DEF Displaced, DisplacementInv
    <2>2. QED
      BY <1>1, <2>1 DEF Displace
  <1>2. ASSUME NEW r \in Requests, CancelPrevious(r) PROVE CausesInv'
    BY <1>2 DEF CancelPrevious
  <1>3. ASSUME NEW r \in Requests, InsertFlag(r) PROVE CausesInv'
    BY <1>3 DEF InsertFlag
  <1>4. ASSUME NEW r \in Requests, CheckSuperseded(r) PROVE CausesInv'
    BY <1>4 DEF CheckSuperseded, MayProceed, FinishWith
  <1>5. ASSUME NEW r \in Requests, LoadWorkers(r) PROVE CausesInv'
    BY <1>5 DEF LoadWorkers
  <1>6. ASSUME NEW r \in Requests, ClaimSlot(r) PROVE CausesInv'
    BY <1>6 DEF ClaimSlot
  <1>7. ASSUME NEW r \in Requests, CheckBeforeCache(r) PROVE CausesInv'
    <2>1. CASE pc' = [pc EXCEPT ![r] = "reading"]
      BY <1>7, <2>1 DEF CheckBeforeCache, FinishWith
    <2>2. CASE pc' = [pc EXCEPT ![r] = "cleaning"]
      BY <1>7, <2>2 DEF CheckBeforeCache, FinishWith
    <2>3. QED
      BY <1>7, <2>1, <2>2 DEF CheckBeforeCache, FinishWith
  <1>8. ASSUME NEW r \in Requests, Hit(r) PROVE CausesInv'
    BY <1>8 DEF Hit
  <1>9. ASSUME NEW r \in Requests, JoinFlight(r) PROVE CausesInv'
    <2>1. PICK s \in Requests : Flying(s) /\ path[s] = path[r] /\ leader' = [leader EXCEPT ![r] = s]
      BY <1>9 DEF JoinFlight
    <2>2. outcome[r] = "none"
      BY <1>9 DEF JoinFlight
    <2>3. \A x \in Requests : leader'[x] = IF x = r THEN s ELSE leader[x]
      BY <2>1
    <2>4. SupersededForCause'
      BY <1>9, <2>2, <2>3 DEF JoinFlight
    <2>5. \A x \in Requests : pc'[x] = "waiting" => leader'[x] \in Requests
      BY <1>9, <2>3 DEF JoinFlight
    <2> HIDE DEF SupersededForCause
    <2>6. QED
      BY <1>9, <2>4, <2>5 DEF JoinFlight
  <1>10. ASSUME NEW r \in Requests, TakeOff(r) PROVE CausesInv'
    BY <1>10 DEF TakeOff
  <1>11. ASSUME NEW r \in Requests, FetchReturns(r) PROVE CausesInv'
    BY <1>11 DEF FetchReturns, Flying, TakeResult, FinishWith
  <1>12. ASSUME NEW r \in Requests, FollowerReturns(r) PROVE CausesInv'
    BY <1>12 DEF FollowerReturns, TakeResult, FinishWith
  <1>13. ASSUME NEW r \in Requests, ResolveFiles(r) PROVE CausesInv'
    BY <1>13 DEF ResolveFiles, FinishWith
  <1>14. ASSUME NEW r \in Requests, RemoveFlag(r) PROVE CausesInv'
    BY <1>14 DEF RemoveFlag
  <1>15. ASSUME NEW r \in Requests, Unlist(r) PROVE CausesInv'
    BY <1>15 DEF Unlist
  <1>16. ASSUME NEW r \in Requests, ReleaseSlot(r) PROVE CausesInv'
    BY <1>16 DEF ReleaseSlot
  <1>17. CASE UNCHANGED vars
    BY <1>17 DEF vars
  <1>18. QED
    BY <1>1, <1>2, <1>3, <1>4, <1>5, <1>6, <1>7, <1>8, <1>9, <1>10, <1>11, <1>12,
       <1>13, <1>14, <1>15, <1>16, <1>17 DEF Next, Step

----------------------------------------------------------------------------
(* The inductive invariant holds throughout. *)
THEOREM Invariance == Spec => []QueueInv
  <1>1. QueueInv /\ [Next]_vars => QueueInv'
    BY TypeOKStep, SlotsInvStep, MapsInvStep, DisplacementInvStep, CausesInvStep DEF QueueInv
  <1>2. QED
    BY <1>1, InitInv, PTL DEF Spec

(* No queue has more requests at work than MAX_CONCURRENT_OPERATIONS.       *)
THEOREM AtMostMaxWorkers == Spec => []SlotsBounded
  <1>1. QueueInv => SlotsBounded
    BY QueueAssumption DEF QueueInv, TypeOK, SlotsInv, SlotsBounded
  <1>2. QED
    BY <1>1, Invariance, PTL

(* A displaced request at work carries its flag once the registration that  *)
(* displaced it has returned.                                               *)
THEOREM DisplacedAreTold == Spec => []DisplacedAreCancelled
  <1>1. QueueInv => DisplacedAreCancelled
    BY DEF QueueInv, DisplacementInv, DisplacedAreCancelled, Registering, Admitted
  <1>2. QED
    BY <1>1, Invariance, PTL

(* "Superseded" is answered to displaced requests and to those that shared  *)
(* the fetch of one.                                                        *)
THEOREM NoneSupersededWithoutCause == Spec => []SupersededForCause
  <1>1. QueueInv => SupersededForCause
    BY DEF QueueInv, CausesInv
  <1>2. QED
    BY <1>1, Invariance, PTL

----------------------------------------------------------------------------
(* A follower's leader is fetching until it has an answer for it.           *)
LeadersInv ==
  \A r \in Requests :
    pc[r] = "waiting" => fetched[leader[r]] # "none" \/ Flying(leader[r])

LEMMA LeadersInvStep == QueueInv /\ LeadersInv /\ [Next]_vars => LeadersInv'
  <1> SUFFICES ASSUME QueueInv, LeadersInv, [Next]_vars PROVE LeadersInv'
    OBVIOUS
  <1> USE DEF QueueInv, TypeOK, LeadersInv, Flying, Goto, flightVars
  <1>1. \A r \in Requests : pc[r] = "waiting" => leader[r] \in Requests
    BY DEF CausesInv
  <1>2. ASSUME NEW r \in Requests, Step(r), ~JoinFlight(r), ~FetchReturns(r)
        PROVE  LeadersInv'
    <2>1. UNCHANGED flightVars
      BY <1>2 DEF Step, Displace, CancelPrevious, InsertFlag, CheckSuperseded, LoadWorkers,
         ClaimSlot, CheckBeforeCache, Hit, TakeOff, FollowerReturns, ResolveFiles, RemoveFlag,
         Unlist, ReleaseSlot
    <2>2. \A s \in Requests \ {r} : pc'[s] = pc[s]
      BY <1>2 DEF Step, Displace, CancelPrevious, InsertFlag, CheckSuperseded, LoadWorkers,
         ClaimSlot, CheckBeforeCache, Hit, TakeOff, FollowerReturns, ResolveFiles, RemoveFlag,
         Unlist, ReleaseSlot, FinishWith, TakeResult
    <2>3. ~Flying(r) /\ pc'[r] # "waiting"
      BY <1>2 DEF Step, Displace, CancelPrevious, InsertFlag, CheckSuperseded, LoadWorkers,
         ClaimSlot, CheckBeforeCache, Hit, TakeOff, FollowerReturns, ResolveFiles, RemoveFlag,
         Unlist, ReleaseSlot, FinishWith, TakeResult
    <2>4. QED
      BY <1>1, <2>1, <2>2, <2>3
  <1>3. ASSUME NEW r \in Requests, JoinFlight(r) PROVE LeadersInv'
    <2>1. PICK s \in Requests : Flying(s) /\ leader' = [leader EXCEPT ![r] = s]
      BY <1>3 DEF JoinFlight
    <2>2. /\ pc[r] = "reading" /\ pc' = [pc EXCEPT ![r] = "waiting"] /\ fetched' = fetched
      BY <1>3 DEF JoinFlight
    <2>3. QED
      BY <1>1, <2>1, <2>2
  <1>4. ASSUME NEW r \in Requests, FetchReturns(r) PROVE LeadersInv'
    <2>1. /\ fetched' \in [Requests -> Results \cup {"none"}] /\ fetched'[r] # "none"
          /\ \A s \in Requests \ {r} : fetched'[s] = fetched[s] /\ pc'[s] = pc[s]
          /\ leader' = leader /\ pc'[r] # "waiting"
      BY <1>4 DEF FetchReturns, TakeResult, FinishWith, Results
    <2>2. QED
      BY <1>1, <2>1
  <1>5. CASE UNCHANGED vars
    BY <1>5 DEF vars
  <1>6. QED
    BY <1>2, <1>3, <1>4, <1>5 DEF Next

(* There is no deadlock among the requests of a queue: full slots are held  *)
(* by requests at work, and followers wait for a fetch only.                *)
THEOREM NoCircularWait == Spec => []NobodyWaitsInVain
  <1>1. Init => LeadersInv
    BY DEF Init, LeadersInv
  <1>2. QueueInv /\ LeadersInv => NobodyWaitsInVain
    <2> SUFFICES ASSUME QueueInv, LeadersInv PROVE NobodyWaitsInVain
      OBVIOUS
    <2>1. ASSUME NEW q \in Queues, workers[q] = MaxWorkers PROVE GuardsOf(q) # {}
      BY <2>1, QueueAssumption, FS_EmptySet DEF QueueInv, SlotsInv
    <2>2. ASSUME NEW r \in Requests, pc[r] = "waiting"
          PROVE  fetched[leader[r]] # "none" \/ (Flying(leader[r]) /\ leader[r] \in guarded)
      BY <2>2 DEF QueueInv, LeadersInv, CausesInv, SlotsInv, AtWork, Flying
    <2>3. QED
      BY <2>1, <2>2 DEF NobodyWaitsInVain
  <1>3. QED
    BY <1>1, <1>2, LeadersInvStep, Invariance, PTL DEF Spec

(* Nothing of the past requests is left when none is under way.             *)
THEOREM CleanedUp == Spec => []NothingLeftBehind
  <1>1. QueueInv => NothingLeftBehind
    <2> SUFFICES ASSUME QueueInv, \A r \in Requests : pc[r] \in {"idle", "returned"}
                 PROVE  /\ active = {}
                        /\ \A q \in Queues :
                             workers[q] = 0 /\ latest[q] = [p \in Paths |-> NoRequest]
      BY DEF NothingLeftBehind
    <2> USE DEF QueueInv, TypeOK
    <2>1. active = {}
      BY DEF MapsInv, Admitted, AtWork
    <2>2. \A q \in Queues : GuardsOf(q) = {}
      BY DEF SlotsInv, GuardsOf, AtWork
    <2>3. \A q \in Queues : workers[q] = 0
      BY <2>2, FS_EmptySet DEF SlotsInv
    <2>4. \A q \in Queues : \A p \in Paths : latest[q][p] = NoRequest
      BY DEF MapsInv
    <2>5. \A q \in Queues : latest[q] = [p \in Paths |-> NoRequest]
      BY <2>4
    <2>6. QED
      BY <2>1, <2>3, <2>5
  <1>2. QED
    BY <1>1, Invariance, PTL
===============================================================================
