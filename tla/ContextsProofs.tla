--------------------------- MODULE ContextsProofs ---------------------------
(****************************************************************************)
(* Theorems about RepoContexts, for any number of owners and of concurrent  *)
(* creates, disposals and closings; about ChangeCoalescer, the one that the *)
(* watcher of each context has, for any set of change kinds and any number  *)
(* of file system events; and about ScopeContexts, for any repositories and *)
(* any number of switches and contexts.                                     *)
(****************************************************************************)
EXTENDS RepoContexts, ChangeCoalescer, ScopeContexts, TLAPS

LEMMA InitInv == Init => ContextInv
  BY CallsAssumption DEF Init, ContextInv, TypeOK, Calls, TokensInv, Begun, RegisteredInv,
     CallsInv, RegisteredAreServed, ServicesAreOwned, ActiveWatchersAreOwned, LiveInv

----------------------------------------------------------------------------
(* Each part of the invariant is preserved by every action.                 *)

(* Types. *)
LEMMA TypeOKStep == ContextInv /\ [Next]_vars => TypeOK'
  <1> SUFFICES ASSUME ContextInv, [Next]_vars PROVE TypeOK'
    OBVIOUS
  <1> USE CallsAssumption DEF ContextInv, TypeOK, Calls, Goto, registryVars,
     localVars
  <1>1. ASSUME NEW c \in Creates, BeginOwner(c) PROVE TypeOK'
    BY <1>1 DEF BeginOwner, RegisteredOf, BegunOf
  <1>2. ASSUME NEW c \in Creates, StopRetired(c) PROVE TypeOK'
    BY <1>2 DEF StopRetired, Stopped
  <1>3. ASSUME NEW c \in Creates, UnserveRetired(c) PROVE TypeOK'
    BY <1>3 DEF UnserveRetired
  <1>4. ASSUME NEW c \in Creates, Open(c) PROVE TypeOK'
    BY <1>4 DEF Open
  <1>5. ASSUME NEW c \in Creates, Serve(c) PROVE TypeOK'
    BY <1>5 DEF Serve
  <1>6. ASSUME NEW c \in Creates, Register(c) PROVE TypeOK'
    BY <1>6 DEF Register, CanRegister, Stopped
  <1>7. ASSUME NEW c \in Creates, PersistSucceeds(c) PROVE TypeOK'
    BY <1>7 DEF PersistSucceeds
  <1>8. ASSUME NEW c \in Creates, PersistFails(c) PROVE TypeOK'
    BY <1>8 DEF PersistFails
  <1>9. ASSUME NEW c \in Creates, StopFailed(c) PROVE TypeOK'
    BY <1>9 DEF StopFailed, Stopped
  <1>10. ASSUME NEW c \in Creates, UnserveFailed(c) PROVE TypeOK'
    BY <1>10 DEF UnserveFailed
  <1>11. ASSUME NEW d \in Disposals, RemoveContext(d) PROVE TypeOK'
    BY <1>11 DEF RemoveContext
  <1>12. ASSUME NEW k \in Closings, RemoveOwner(k) PROVE TypeOK'
    BY <1>12 DEF RemoveOwner, RegisteredOf, BegunOf
  <1>13. ASSUME NEW k \in Disposals \cup Closings, StopRemoved(k) PROVE TypeOK'
    BY <1>13 DEF StopRemoved, Stopped
  <1>14. ASSUME NEW k \in Disposals \cup Closings, UnserveRemoved(k) PROVE TypeOK'
    BY <1>14 DEF UnserveRemoved
  <1>15. CASE UNCHANGED vars
    BY <1>15 DEF vars
  <1>16. QED
    BY <1>1, <1>2, <1>3, <1>4, <1>5, <1>6, <1>7, <1>8, <1>9, <1>10, <1>11,
       <1>12, <1>13, <1>14, <1>15 DEF Next, Create

(* Begin and close advance a generation, and a token is never given twice. *)
LEMMA TokensInvStep == ContextInv /\ [Next]_vars => TokensInv'
  <1> SUFFICES ASSUME ContextInv, [Next]_vars PROVE TokensInv'
    OBVIOUS
  <1> USE CallsAssumption DEF ContextInv, TypeOK, Calls, Goto, registryVars,
     localVars, TokensInv, Begun
  <1>1. ASSUME NEW c \in Creates, BeginOwner(c) PROVE TokensInv'
    BY <1>1 DEF BeginOwner, RegisteredOf, BegunOf
  <1>2. ASSUME NEW c \in Creates, StopRetired(c) PROVE TokensInv'
    BY <1>2 DEF StopRetired, Stopped
  <1>3. ASSUME NEW c \in Creates, UnserveRetired(c) PROVE TokensInv'
    BY <1>3 DEF UnserveRetired
  <1>4. ASSUME NEW c \in Creates, Open(c) PROVE TokensInv'
    BY <1>4 DEF Open
  <1>5. ASSUME NEW c \in Creates, Serve(c) PROVE TokensInv'
    BY <1>5 DEF Serve
  <1>6. ASSUME NEW c \in Creates, Register(c) PROVE TokensInv'
    BY <1>6 DEF Register, CanRegister, Stopped
  <1>7. ASSUME NEW c \in Creates, PersistSucceeds(c) PROVE TokensInv'
    BY <1>7 DEF PersistSucceeds
  <1>8. ASSUME NEW c \in Creates, PersistFails(c) PROVE TokensInv'
    BY <1>8 DEF PersistFails
  <1>9. ASSUME NEW c \in Creates, StopFailed(c) PROVE TokensInv'
    BY <1>9 DEF StopFailed, Stopped
  <1>10. ASSUME NEW c \in Creates, UnserveFailed(c) PROVE TokensInv'
    BY <1>10 DEF UnserveFailed
  <1>11. ASSUME NEW d \in Disposals, RemoveContext(d) PROVE TokensInv'
    BY <1>11 DEF RemoveContext
  <1>12. ASSUME NEW k \in Closings, RemoveOwner(k) PROVE TokensInv'
    BY <1>12 DEF RemoveOwner, RegisteredOf, BegunOf
  <1>13. ASSUME NEW k \in Disposals \cup Closings, StopRemoved(k) PROVE TokensInv'
    BY <1>13 DEF StopRemoved, Stopped
  <1>14. ASSUME NEW k \in Disposals \cup Closings, UnserveRemoved(k) PROVE TokensInv'
    BY <1>14 DEF UnserveRemoved
  <1>15. CASE UNCHANGED vars
    BY <1>15 DEF vars
  <1>16. QED
    BY <1>1, <1>2, <1>3, <1>4, <1>5, <1>6, <1>7, <1>8, <1>9, <1>10, <1>11,
       <1>12, <1>13, <1>14, <1>15 DEF Next, Create

(* Only Register puts a context in the registry, and only with a current token. *)
LEMMA RegisteredInvStep == ContextInv /\ [Next]_vars => RegisteredInv'
  <1> SUFFICES ASSUME ContextInv, [Next]_vars PROVE RegisteredInv'
    OBVIOUS
  <1> USE CallsAssumption DEF ContextInv, TypeOK, Calls, Goto, registryVars,
     localVars, RegisteredInv, TokensInv, Begun, CallsInv
  <1>1. ASSUME NEW c \in Creates, BeginOwner(c) PROVE RegisteredInv'
    BY <1>1 DEF BeginOwner, RegisteredOf, BegunOf
  <1>2. ASSUME NEW c \in Creates, StopRetired(c) PROVE RegisteredInv'
    BY <1>2 DEF StopRetired, Stopped
  <1>3. ASSUME NEW c \in Creates, UnserveRetired(c) PROVE RegisteredInv'
    BY <1>3 DEF UnserveRetired
  <1>4. ASSUME NEW c \in Creates, Open(c) PROVE RegisteredInv'
    BY <1>4 DEF Open
  <1>5. ASSUME NEW c \in Creates, Serve(c) PROVE RegisteredInv'
    BY <1>5 DEF Serve
  <1>6. ASSUME NEW c \in Creates, Register(c) PROVE RegisteredInv'
    BY <1>6 DEF Register, CanRegister, Stopped
  <1>7. ASSUME NEW c \in Creates, PersistSucceeds(c) PROVE RegisteredInv'
    BY <1>7 DEF PersistSucceeds
  <1>8. ASSUME NEW c \in Creates, PersistFails(c) PROVE RegisteredInv'
    BY <1>8 DEF PersistFails
  <1>9. ASSUME NEW c \in Creates, StopFailed(c) PROVE RegisteredInv'
    BY <1>9 DEF StopFailed, Stopped
  <1>10. ASSUME NEW c \in Creates, UnserveFailed(c) PROVE RegisteredInv'
    BY <1>10 DEF UnserveFailed
  <1>11. ASSUME NEW d \in Disposals, RemoveContext(d) PROVE RegisteredInv'
    BY <1>11 DEF RemoveContext
  <1>12. ASSUME NEW k \in Closings, RemoveOwner(k) PROVE RegisteredInv'
    BY <1>12 DEF RemoveOwner, RegisteredOf, BegunOf
  <1>13. ASSUME NEW k \in Disposals \cup Closings, StopRemoved(k) PROVE RegisteredInv'
    BY <1>13 DEF StopRemoved, Stopped
  <1>14. ASSUME NEW k \in Disposals \cup Closings, UnserveRemoved(k) PROVE RegisteredInv'
    BY <1>14 DEF UnserveRemoved
  <1>15. CASE UNCHANGED vars
    BY <1>15 DEF vars
  <1>16. QED
    BY <1>1, <1>2, <1>3, <1>4, <1>5, <1>6, <1>7, <1>8, <1>9, <1>10, <1>11,
       <1>12, <1>13, <1>14, <1>15 DEF Next, Create

(* What a call removed from the registry stays with it until it is done. *)
LEMMA CallsInvStep == ContextInv /\ [Next]_vars => CallsInv'
  <1> SUFFICES ASSUME ContextInv, [Next]_vars PROVE CallsInv'
    OBVIOUS
  <1> USE CallsAssumption DEF ContextInv, TypeOK, Calls, Goto, registryVars,
     localVars, CallsInv, RegisteredInv
  <1>1. ASSUME NEW c \in Creates, BeginOwner(c) PROVE CallsInv'
    BY <1>1 DEF BeginOwner, RegisteredOf, BegunOf
  <1>2. ASSUME NEW c \in Creates, StopRetired(c) PROVE CallsInv'
    BY <1>2 DEF StopRetired, Stopped
  <1>3. ASSUME NEW c \in Creates, UnserveRetired(c) PROVE CallsInv'
    BY <1>3 DEF UnserveRetired
  <1>4. ASSUME NEW c \in Creates, Open(c) PROVE CallsInv'
    BY <1>4 DEF Open
  <1>5. ASSUME NEW c \in Creates, Serve(c) PROVE CallsInv'
    BY <1>5 DEF Serve
  <1>6. ASSUME NEW c \in Creates, Register(c) PROVE CallsInv'
    BY <1>6 DEF Register, CanRegister, Stopped
  <1>7. ASSUME NEW c \in Creates, PersistSucceeds(c) PROVE CallsInv'
    BY <1>7 DEF PersistSucceeds
  <1>8. ASSUME NEW c \in Creates, PersistFails(c) PROVE CallsInv'
    BY <1>8 DEF PersistFails
  <1>9. ASSUME NEW c \in Creates, StopFailed(c) PROVE CallsInv'
    BY <1>9 DEF StopFailed, Stopped
  <1>10. ASSUME NEW c \in Creates, UnserveFailed(c) PROVE CallsInv'
    BY <1>10 DEF UnserveFailed
  <1>11. ASSUME NEW d \in Disposals, RemoveContext(d) PROVE CallsInv'
    BY <1>11 DEF RemoveContext
  <1>12. ASSUME NEW k \in Closings, RemoveOwner(k) PROVE CallsInv'
    BY <1>12 DEF RemoveOwner, RegisteredOf, BegunOf
  <1>13. ASSUME NEW k \in Disposals \cup Closings, StopRemoved(k) PROVE CallsInv'
    BY <1>13 DEF StopRemoved, Stopped
  <1>14. ASSUME NEW k \in Disposals \cup Closings, UnserveRemoved(k) PROVE CallsInv'
    BY <1>14 DEF UnserveRemoved
  <1>15. CASE UNCHANGED vars
    BY <1>15 DEF vars
  <1>16. QED
    BY <1>1, <1>2, <1>3, <1>4, <1>5, <1>6, <1>7, <1>8, <1>9, <1>10, <1>11,
       <1>12, <1>13, <1>14, <1>15 DEF Next, Create

(* Services are removed only of contexts that are out of the registry. *)
LEMMA RegisteredAreServedStep == ContextInv /\ [Next]_vars => RegisteredAreServed'
  <1> SUFFICES ASSUME ContextInv, [Next]_vars PROVE RegisteredAreServed'
    OBVIOUS
  <1> USE CallsAssumption DEF ContextInv, TypeOK, Calls, Goto, registryVars,
     localVars, RegisteredAreServed, RegisteredInv, CallsInv
  <1>1. ASSUME NEW c \in Creates, BeginOwner(c) PROVE RegisteredAreServed'
    BY <1>1 DEF BeginOwner, RegisteredOf, BegunOf
  <1>2. ASSUME NEW c \in Creates, StopRetired(c) PROVE RegisteredAreServed'
    BY <1>2 DEF StopRetired, Stopped
  <1>3. ASSUME NEW c \in Creates, UnserveRetired(c) PROVE RegisteredAreServed'
    BY <1>3 DEF UnserveRetired
  <1>4. ASSUME NEW c \in Creates, Open(c) PROVE RegisteredAreServed'
    BY <1>4 DEF Open
  <1>5. ASSUME NEW c \in Creates, Serve(c) PROVE RegisteredAreServed'
    BY <1>5 DEF Serve
  <1>6. ASSUME NEW c \in Creates, Register(c) PROVE RegisteredAreServed'
    BY <1>6 DEF Register, CanRegister, Stopped
  <1>7. ASSUME NEW c \in Creates, PersistSucceeds(c) PROVE RegisteredAreServed'
    BY <1>7 DEF PersistSucceeds
  <1>8. ASSUME NEW c \in Creates, PersistFails(c) PROVE RegisteredAreServed'
    BY <1>8 DEF PersistFails
  <1>9. ASSUME NEW c \in Creates, StopFailed(c) PROVE RegisteredAreServed'
    BY <1>9 DEF StopFailed, Stopped
  <1>10. ASSUME NEW c \in Creates, UnserveFailed(c) PROVE RegisteredAreServed'
    BY <1>10 DEF UnserveFailed
  <1>11. ASSUME NEW d \in Disposals, RemoveContext(d) PROVE RegisteredAreServed'
    BY <1>11 DEF RemoveContext
  <1>12. ASSUME NEW k \in Closings, RemoveOwner(k) PROVE RegisteredAreServed'
    BY <1>12 DEF RemoveOwner, RegisteredOf, BegunOf
  <1>13. ASSUME NEW k \in Disposals \cup Closings, StopRemoved(k) PROVE RegisteredAreServed'
    BY <1>13 DEF StopRemoved, Stopped
  <1>14. ASSUME NEW k \in Disposals \cup Closings, UnserveRemoved(k) PROVE RegisteredAreServed'
    BY <1>14 DEF UnserveRemoved
  <1>15. CASE UNCHANGED vars
    BY <1>15 DEF vars
  <1>16. QED
    BY <1>1, <1>2, <1>3, <1>4, <1>5, <1>6, <1>7, <1>8, <1>9, <1>10, <1>11,
       <1>12, <1>13, <1>14, <1>15 DEF Next, Create

(* Who takes a context out of the registry also takes it out of the map. *)
LEMMA ServicesAreOwnedStep == ContextInv /\ [Next]_vars => ServicesAreOwned'
  <1> SUFFICES ASSUME ContextInv, [Next]_vars PROVE ServicesAreOwned'
    OBVIOUS
  <1> USE CallsAssumption DEF ContextInv, TypeOK, Calls, Goto, registryVars,
     localVars, ServicesAreOwned, Unserving, CallsInv
  <1>1. ASSUME NEW c \in Creates, BeginOwner(c) PROVE ServicesAreOwned'
    BY <1>1 DEF BeginOwner, RegisteredOf, BegunOf
  <1>2. ASSUME NEW c \in Creates, StopRetired(c) PROVE ServicesAreOwned'
    BY <1>2 DEF StopRetired, Stopped
  <1>3. ASSUME NEW c \in Creates, UnserveRetired(c) PROVE ServicesAreOwned'
    BY <1>3 DEF UnserveRetired
  <1>4. ASSUME NEW c \in Creates, Open(c) PROVE ServicesAreOwned'
    BY <1>4 DEF Open
  <1>5. ASSUME NEW c \in Creates, Serve(c) PROVE ServicesAreOwned'
    BY <1>5 DEF Serve
  <1>6. ASSUME NEW c \in Creates, Register(c) PROVE ServicesAreOwned'
    BY <1>6 DEF Register, CanRegister, Stopped
  <1>7. ASSUME NEW c \in Creates, PersistSucceeds(c) PROVE ServicesAreOwned'
    BY <1>7 DEF PersistSucceeds
  <1>8. ASSUME NEW c \in Creates, PersistFails(c) PROVE ServicesAreOwned'
    BY <1>8 DEF PersistFails
  <1>9. ASSUME NEW c \in Creates, StopFailed(c) PROVE ServicesAreOwned'
    BY <1>9 DEF StopFailed, Stopped
  <1>10. ASSUME NEW c \in Creates, UnserveFailed(c) PROVE ServicesAreOwned'
    BY <1>10 DEF UnserveFailed
  <1>11. ASSUME NEW d \in Disposals, RemoveContext(d) PROVE ServicesAreOwned'
    BY <1>11 DEF RemoveContext
  <1>12. ASSUME NEW k \in Closings, RemoveOwner(k) PROVE ServicesAreOwned'
    BY <1>12 DEF RemoveOwner, RegisteredOf, BegunOf
  <1>13. ASSUME NEW k \in Disposals \cup Closings, StopRemoved(k) PROVE ServicesAreOwned'
    BY <1>13 DEF StopRemoved, Stopped
  <1>14. ASSUME NEW k \in Disposals \cup Closings, UnserveRemoved(k) PROVE ServicesAreOwned'
    BY <1>14 DEF UnserveRemoved
  <1>15. CASE UNCHANGED vars
    BY <1>15 DEF vars
  <1>16. QED
    BY <1>1, <1>2, <1>3, <1>4, <1>5, <1>6, <1>7, <1>8, <1>9, <1>10, <1>11,
       <1>12, <1>13, <1>14, <1>15 DEF Next, Create

(* Who takes a context out of the registry drops its watcher. *)
LEMMA ActiveWatchersAreOwnedStep == ContextInv /\ [Next]_vars => ActiveWatchersAreOwned'
  <1> SUFFICES ASSUME ContextInv, [Next]_vars PROVE ActiveWatchersAreOwned'
    OBVIOUS
  <1> USE CallsAssumption DEF ContextInv, TypeOK, Calls, Goto, registryVars,
     localVars, ActiveWatchersAreOwned, CallsInv
  <1>1. ASSUME NEW c \in Creates, BeginOwner(c) PROVE ActiveWatchersAreOwned'
    BY <1>1 DEF BeginOwner, RegisteredOf, BegunOf
  <1>2. ASSUME NEW c \in Creates, StopRetired(c) PROVE ActiveWatchersAreOwned'
    BY <1>2 DEF StopRetired, Stopped
  <1>3. ASSUME NEW c \in Creates, UnserveRetired(c) PROVE ActiveWatchersAreOwned'
    BY <1>3 DEF UnserveRetired
  <1>4. ASSUME NEW c \in Creates, Open(c) PROVE ActiveWatchersAreOwned'
    BY <1>4 DEF Open
  <1>5. ASSUME NEW c \in Creates, Serve(c) PROVE ActiveWatchersAreOwned'
    BY <1>5 DEF Serve
  <1>6. ASSUME NEW c \in Creates, Register(c) PROVE ActiveWatchersAreOwned'
    BY <1>6 DEF Register, CanRegister, Stopped
  <1>7. ASSUME NEW c \in Creates, PersistSucceeds(c) PROVE ActiveWatchersAreOwned'
    BY <1>7 DEF PersistSucceeds
  <1>8. ASSUME NEW c \in Creates, PersistFails(c) PROVE ActiveWatchersAreOwned'
    BY <1>8 DEF PersistFails
  <1>9. ASSUME NEW c \in Creates, StopFailed(c) PROVE ActiveWatchersAreOwned'
    BY <1>9 DEF StopFailed, Stopped
  <1>10. ASSUME NEW c \in Creates, UnserveFailed(c) PROVE ActiveWatchersAreOwned'
    BY <1>10 DEF UnserveFailed
  <1>11. ASSUME NEW d \in Disposals, RemoveContext(d) PROVE ActiveWatchersAreOwned'
    BY <1>11 DEF RemoveContext
  <1>12. ASSUME NEW k \in Closings, RemoveOwner(k) PROVE ActiveWatchersAreOwned'
    BY <1>12 DEF RemoveOwner, RegisteredOf, BegunOf
  <1>13. ASSUME NEW k \in Disposals \cup Closings, StopRemoved(k) PROVE ActiveWatchersAreOwned'
    BY <1>13 DEF StopRemoved, Stopped
  <1>14. ASSUME NEW k \in Disposals \cup Closings, UnserveRemoved(k) PROVE ActiveWatchersAreOwned'
    BY <1>14 DEF UnserveRemoved
  <1>15. CASE UNCHANGED vars
    BY <1>15 DEF vars
  <1>16. QED
    BY <1>1, <1>2, <1>3, <1>4, <1>5, <1>6, <1>7, <1>8, <1>9, <1>10, <1>11,
       <1>12, <1>13, <1>14, <1>15 DEF Next, Create

(* A registered context leaves the registry by its owner or a disposal only. *)
LEMMA LiveInvStep == ContextInv /\ [Next]_vars => LiveInv'
  <1> SUFFICES ASSUME ContextInv, [Next]_vars PROVE LiveInv'
    OBVIOUS
  <1> USE CallsAssumption DEF ContextInv, TypeOK, Calls, Goto, registryVars,
     localVars, LiveInv, TokensInv, Begun, RegisteredInv, CallsInv
  <1>1. ASSUME NEW c \in Creates, BeginOwner(c) PROVE LiveInv'
    BY <1>1 DEF BeginOwner, RegisteredOf, BegunOf
  <1>2. ASSUME NEW c \in Creates, StopRetired(c) PROVE LiveInv'
    BY <1>2 DEF StopRetired, Stopped
  <1>3. ASSUME NEW c \in Creates, UnserveRetired(c) PROVE LiveInv'
    BY <1>3 DEF UnserveRetired
  <1>4. ASSUME NEW c \in Creates, Open(c) PROVE LiveInv'
    BY <1>4 DEF Open
  <1>5. ASSUME NEW c \in Creates, Serve(c) PROVE LiveInv'
    BY <1>5 DEF Serve
  <1>6. ASSUME NEW c \in Creates, Register(c) PROVE LiveInv'
    BY <1>6 DEF Register, CanRegister, Stopped
  <1>7. ASSUME NEW c \in Creates, PersistSucceeds(c) PROVE LiveInv'
    BY <1>7 DEF PersistSucceeds
  <1>8. ASSUME NEW c \in Creates, PersistFails(c) PROVE LiveInv'
    BY <1>8 DEF PersistFails
  <1>9. ASSUME NEW c \in Creates, StopFailed(c) PROVE LiveInv'
    BY <1>9 DEF StopFailed, Stopped
  <1>10. ASSUME NEW c \in Creates, UnserveFailed(c) PROVE LiveInv'
    BY <1>10 DEF UnserveFailed
  <1>11. ASSUME NEW d \in Disposals, RemoveContext(d) PROVE LiveInv'
    BY <1>11 DEF RemoveContext
  <1>12. ASSUME NEW k \in Closings, RemoveOwner(k) PROVE LiveInv'
    BY <1>12 DEF RemoveOwner, RegisteredOf, BegunOf
  <1>13. ASSUME NEW k \in Disposals \cup Closings, StopRemoved(k) PROVE LiveInv'
    BY <1>13 DEF StopRemoved, Stopped
  <1>14. ASSUME NEW k \in Disposals \cup Closings, UnserveRemoved(k) PROVE LiveInv'
    BY <1>14 DEF UnserveRemoved
  <1>15. CASE UNCHANGED vars
    BY <1>15 DEF vars
  <1>16. QED
    BY <1>1, <1>2, <1>3, <1>4, <1>5, <1>6, <1>7, <1>8, <1>9, <1>10, <1>11,
       <1>12, <1>13, <1>14, <1>15 DEF Next, Create

----------------------------------------------------------------------------
(* The inductive invariant holds throughout. *)
THEOREM Invariance == Spec => []ContextInv
  <1>1. ContextInv /\ [Next]_vars => ContextInv'
    <2>1. ASSUME ContextInv, [Next]_vars PROVE ContextInv'
      BY <2>1, TypeOKStep, TokensInvStep, RegisteredInvStep, CallsInvStep,
         RegisteredAreServedStep, ServicesAreOwnedStep, ActiveWatchersAreOwnedStep,
         LiveInvStep DEF ContextInv
    <2>2. QED
      BY <2>1
  <1>2. QED
    BY InitInv, <1>1, PTL DEF Spec

(* A create that was in flight when its owner was disposed, or began        *)
(* another context, never registers.                                        *)
THEOREM OwnersEpoch == Spec => []NoneOutlivesItsOwner
  <1>1. ContextInv => NoneOutlivesItsOwner
    BY DEF ContextInv, TypeOK, TokensInv, Begun, RegisteredInv, NoneOutlivesItsOwner
  <1>2. QED
    BY <1>1, Invariance, PTL

(* However creates and closings of an owner overlap, at most one of its     *)
(* contexts is registered.                                                  *)
THEOREM OneContext == Spec => []OneContextPerOwner
  <1>1. ContextInv => OneContextPerOwner
    BY DEF ContextInv, TypeOK, TokensInv, Begun, RegisteredInv, OneContextPerOwner
  <1>2. QED
    BY <1>1, Invariance, PTL

(* No services and no active watcher are left behind by any interleaving of *)
(* creates that fail, disposals and closings; and a context that is         *)
(* registered can be served.                                                *)
THEOREM NoLeaks ==
    Spec => [](RegisteredAreServed /\ ServicesAreOwned /\ ActiveWatchersAreOwned)
  <1>1. ContextInv => RegisteredAreServed /\ ServicesAreOwned /\ ActiveWatchersAreOwned
    BY DEF ContextInv
  <1>2. QED
    BY <1>1, Invariance, PTL

(* A context id that create returned is dead only if its owner moved on or  *)
(* the frontend disposed it.                                                *)
THEOREM ReturnedIdsLive == Spec => []ReturnedContextsLive
  <1>1. ContextInv => ReturnedContextsLive
    BY DEF ContextInv, LiveInv, ReturnedContextsLive
  <1>2. QED
    BY <1>1, Invariance, PTL

----------------------------------------------------------------------------
(* The change coalescer                                                     *)

LEMMA CoalescerInitially == CoalescerInit => CoalescerInv
  BY DEF CoalescerInit, CoalescerInv, CoalescerTypeOK, BatchInTransit, NoCallbackAfterStop,
         NothingForgotten, PendingIsAnnounced, RevisionCountsPushes

(* Every step of the three threads preserves the invariant. *)
LEMMA CoalescerStep == CoalescerInv /\ [CoalescerNext]_coalescerVars => CoalescerInv'
  <1> SUFFICES ASSUME CoalescerInv, [CoalescerNext]_coalescerVars PROVE CoalescerInv'
    OBVIOUS
  <1> USE DEF CoalescerInv, CoalescerTypeOK, BatchInTransit, NoCallbackAfterStop,
              NothingForgotten, PendingIsAnnounced, RevisionCountsPushes
  <1>1. CASE PushBegins
    BY <1>1 DEF PushBegins, Active, ownerVars, workerVars
  <1>2. CASE PushRecords
    <2>1. CASE burst = {}
      BY <1>2, <2>1 DEF PushRecords, ownerVars, workerVars
    <2>2. CASE burst # {}
      BY <1>2, <2>2 DEF PushRecords, ownerVars, workerVars
    <2>3. QED
      BY <2>1, <2>2
  <1>3. CASE PushSignals
    BY <1>3 DEF PushSignals, ownerVars, workerVars
  <1>4. CASE WorkerArms
    BY <1>4 DEF WorkerArms, ownerVars, pusherVars
  <1>5. CASE WorkerObserves
    BY <1>5 DEF WorkerObserves, ownerVars, pusherVars
  <1>6. CASE QuietElapses
    <2>1. CASE revision = observed
      BY <1>6, <2>1 DEF QuietElapses, ownerVars, pusherVars
    <2>2. CASE revision # observed
      BY <1>6, <2>2 DEF QuietElapses, ownerVars, pusherVars
    <2>3. QED
      BY <2>1, <2>2
  <1>7. CASE WorkerEntersGate
    BY <1>7 DEF WorkerEntersGate, ownerVars, pusherVars
  <1>8. CASE WorkerChecksActive
    <2>1. CASE opc = "running"
      BY <1>8, <2>1 DEF WorkerChecksActive, Active, ownerVars, pusherVars
    <2>2. CASE opc # "running"
      BY <1>8, <2>2 DEF WorkerChecksActive, Active, ownerVars, pusherVars
    <2>3. QED
      BY <2>1, <2>2
  <1>9. CASE CallbackReturns
    BY <1>9 DEF CallbackReturns, ownerVars, pusherVars
  <1>10. CASE WorkerAborts
    BY <1>10 DEF WorkerAborts, ownerVars, pusherVars
  <1>11. CASE Activate
    BY <1>11 DEF Activate, pusherVars, workerVars
  <1>12. CASE StopBegins
    BY <1>12 DEF StopBegins, pusherVars, workerVars
  <1>13. CASE StopClears
    BY <1>13 DEF StopClears, pusherVars, workerVars
  <1>14. CASE StopReturns
    BY <1>14 DEF StopReturns, GateHeld, pusherVars, workerVars
  <1>15. CASE UNCHANGED coalescerVars
    BY <1>15 DEF coalescerVars, ownerVars, pusherVars, workerVars
  <1>16. QED
    BY <1>1, <1>2, <1>3, <1>4, <1>5, <1>6, <1>7, <1>8, <1>9, <1>10, <1>11, <1>12,
       <1>13, <1>14, <1>15
    DEF CoalescerNext, Pusher, Worker, Owner

(* The inductive invariant holds throughout. *)
THEOREM CoalescerInvariance == CoalescerSpec => []CoalescerInv
  BY CoalescerInitially, CoalescerStep, PTL DEF CoalescerSpec

(* Once stop has returned no callback runs, whatever push and the task were *)
(* doing when it was called.                                                *)
THEOREM StopIsHardBoundary == CoalescerSpec => []NoCallbackAfterStop
  <1>1. CoalescerInv => NoCallbackAfterStop
    BY DEF CoalescerInv
  <1>2. QED
    BY <1>1, CoalescerInvariance, PTL

(* While the watcher runs no recorded change is dropped on its way to a     *)
(* callback, and no wake-up that would deliver one is lost.                 *)
THEOREM NoChangeLost == CoalescerSpec => [](NothingForgotten /\ PendingIsAnnounced)
  <1>1. CoalescerInv => NothingForgotten /\ PendingIsAnnounced
    BY DEF CoalescerInv
  <1>2. QED
    BY <1>1, CoalescerInvariance, PTL

(* Changes leave the pending set only after a quiet period without a push.  *)
THEOREM Debounced == CoalescerSpec => TakenWhenQuiet
  <1>1. CoalescerInv /\ [CoalescerNext]_coalescerVars
          => [wpc = "armed" /\ wpc' = "taken" => touched = 0]_coalescerVars
    <2> SUFFICES ASSUME CoalescerInv, [CoalescerNext]_coalescerVars, wpc = "armed", wpc' = "taken"
                 PROVE  touched = 0
      OBVIOUS
    <2>1. QuietElapses
      BY DEF CoalescerNext, Pusher, Worker, Owner, PushBegins, PushRecords,
             PushSignals, WorkerArms, WorkerObserves, WorkerEntersGate,
             WorkerChecksActive, CallbackReturns, WorkerAborts, Activate,
             StopBegins, StopClears, StopReturns, coalescerVars, workerVars
    <2>2. revision = observed
      BY <2>1 DEF QuietElapses
    <2>3. QED
      BY <2>1, <2>2 DEF QuietElapses, CoalescerInv, CoalescerTypeOK, RevisionCountsPushes
  <1>2. QED
    BY <1>1, CoalescerInvariance, PTL DEF CoalescerSpec, TakenWhenQuiet
----------------------------------------------------------------------------
(****************************************************************************)
(* The contexts of a scope                                                  *)
(*                                                                          *)
(* The inductive invariant says what each stage of the operation under way  *)
(* implies of the entry and of the backend, and that the last operation of  *)
(* the queue is the one of the last run of the effect, or the disposal of   *)
(* the scope after the unmount.                                             *)
(****************************************************************************)

\* What the operation under way has left of the entry and of the backend.
Stages ==
  /\ stage = "waiting" =>
       /\ leaving = NoScopeContext /\ live \subseteq {entry.context}
  /\ stage # "waiting" => queue # <<>> /\ entry = NoEntry
  /\ stage = "disposing" => leaving # NoScopeContext /\ live \subseteq {leaving}
  /\ stage = "forgetting" =>
       leaving # NoScopeContext /\ live = {} /\ rendered.context # leaving
  /\ stage = "creating" =>
       leaving = NoScopeContext /\ live = {} /\ Operating.repo # NoRepo

\* What the components still show, or have queries of.
Traces ==
  /\ rendered.context \in {NoScopeContext, entry.context, leaving}
  /\ \A key \in cached : key[1] \in {entry.context, leaving} \cup late

\* The queue ends with the operation of the last run, and no other has its number.
LastRun ==
  mounted =>
    \A i \in 1..Len(queue) :
      /\ i = Len(queue) => queue[i].run = run /\ queue[i].repo = synced
      /\ i # Len(queue) => queue[i].run < run

\* After the unmount it ends with a disposal.
LastDisposal ==
  ~mounted =>
    /\ queue # <<>> => queue[Len(queue)].repo = NoRepo
    /\ queue = <<>> => entry = NoEntry

\* What the last operation has left.
Settled ==
  mounted =>
    /\ ~initializing /\ synced # NoRepo => queue = <<>>
    /\ queue = <<>> =>
         IF synced = NoRepo THEN entry = NoEntry
         ELSE entry.repo = synced \/ (failed /\ entry = NoEntry)

ScopeInv == ScopeTypeOK /\ ShownIsLive /\ Stages /\ Traces /\ LastRun /\ LastDisposal /\ Settled
-----------------------------------------------------------------------------
\* What an operation is, and what the head and the tail of the queue are.
LEMMA QueueFacts ==
  ASSUME NEW q \in Seq(Operation), q # <<>>
  PROVE  /\ Len(q) \in Nat \ {0} /\ Head(q) = q[1] /\ Head(q) \in Operation
         /\ Tail(q) \in Seq(Operation) /\ Len(Tail(q)) = Len(q) - 1
         /\ \A i \in 1..Len(Tail(q)) : Tail(q)[i] = q[i + 1]
  OBVIOUS

LEMMA AppendFacts ==
  ASSUME NEW q \in Seq(Operation), NEW o \in Operation
  PROVE  /\ Append(q, o) \in Seq(Operation) /\ Append(q, o) # <<>>
         /\ Len(Append(q, o)) = Len(q) + 1
         /\ Append(q, o)[Len(q) + 1] = o
         /\ \A i \in 1..Len(q) : Append(q, o)[i] = q[i]
  OBVIOUS

\* What settles leaves the queue in order, given what it leaves of the entry.
LEMMA SettleKeepsOrder ==
  ASSUME ScopeInv, queue # <<>>, Settle, UNCHANGED session,
         Operating.repo = NoRepo => entry' = NoEntry,
         Operating.repo # NoRepo =>
           entry'.repo = Operating.repo \/ (failed' /\ entry' = NoEntry)
  PROVE  /\ queue' \in Seq(Operation) /\ stage' = "waiting" /\ leaving' = NoScopeContext
         /\ initializing' \in BOOLEAN
         /\ LastRun' /\ LastDisposal' /\ Settled'
<1>1. /\ Len(queue) \in Nat \ {0} /\ Operating = queue[1]
      /\ Tail(queue) \in Seq(Operation) /\ Len(Tail(queue)) = Len(queue) - 1
      /\ \A i \in 1..Len(Tail(queue)) : Tail(queue)[i] = queue[i + 1]
  BY QueueFacts DEF ScopeInv, ScopeTypeOK, Operating
<1>2. /\ queue' = Tail(queue) /\ stage' = "waiting" /\ leaving' = NoScopeContext
      /\ initializing' = (initializing /\ ~(mounted /\ Operating.run = run))
      /\ mounted' = mounted /\ run' = run /\ synced' = synced
  BY DEF Settle, session
<1>3. run \in Nat /\ initializing \in BOOLEAN /\ mounted \in BOOLEAN
  BY DEF ScopeInv, ScopeTypeOK
<1>4. LastRun'
  <2> SUFFICES ASSUME mounted, NEW i \in 1..Len(queue')
               PROVE  /\ i = Len(queue') => queue'[i].run = run /\ queue'[i].repo = synced
                      /\ i # Len(queue') => queue'[i].run < run
    BY <1>2 DEF LastRun
  <2>1. i + 1 \in 1..Len(queue) /\ queue'[i] = queue[i + 1]
    BY <1>1, <1>2
  <2>2. i = Len(queue') <=> i + 1 = Len(queue)
    BY <1>1, <1>2
  <2> QED
    BY <2>1, <2>2 DEF ScopeInv, LastRun
<1>5. LastDisposal'
  <2> SUFFICES ASSUME ~mounted
               PROVE  /\ queue' # <<>> => queue'[Len(queue')].repo = NoRepo
                      /\ queue' = <<>> => entry' = NoEntry
    BY <1>2 DEF LastDisposal
  <2>1. queue[Len(queue)].repo = NoRepo
    BY DEF ScopeInv, LastDisposal
  <2>2. CASE Len(queue) = 1
    BY <1>1, <1>2, <2>1, <2>2
  <2>3. CASE Len(queue) # 1
    <3>1. queue' # <<>> /\ Len(queue') \in 1..Len(queue') /\ Len(queue') + 1 = Len(queue)
      BY <1>1, <1>2, <2>3
    <3> QED
      BY <3>1, <1>1, <1>2, <2>1
  <2> QED
    BY <2>2, <2>3
<1>6. ASSUME mounted PROVE Operating.run = run <=> Len(queue) = 1
  <2>1. 1 \in 1..Len(queue)
    BY <1>1
  <2>2. (1 = Len(queue) => queue[1].run = run) /\ (1 # Len(queue) => queue[1].run < run)
    BY <2>1, <1>6 DEF ScopeInv, LastRun
  <2>3. queue[1] \in Operation
    BY QueueFacts DEF ScopeInv, ScopeTypeOK
  <2>4. queue[1].run \in Nat
    BY <2>3, ScopeAssumption DEF Operation
  <2> QED
    BY <2>2, <2>4, <1>1, <1>3
<1>7. ASSUME mounted, Len(queue) = 1 PROVE Operating.repo = synced
  BY <1>1, <1>7 DEF ScopeInv, LastRun
<1>8. Settled'
  <2>1. CASE ~mounted
    BY <2>1, <1>2 DEF Settled
  <2>2. CASE mounted /\ Len(queue) = 1
    <3>1. queue' = <<>>
      BY <2>2, <1>1, <1>2
    <3>2. ~initializing'
      BY <2>2, <1>2, <1>6
    <3> QED
      BY <3>1, <3>2, <2>2, <1>2, <1>7 DEF Settled
  <2>3. CASE mounted /\ Len(queue) # 1
    <3>1. queue' # <<>> /\ (initializing \/ synced = NoRepo)
      BY <2>3, <1>1, <1>2 DEF ScopeInv, Settled
    <3>2. initializing' = initializing
      BY <2>3, <1>2, <1>3, <1>6
    <3> QED
      BY <3>1, <3>2, <1>2 DEF Settled
  <2> QED
    BY <2>1, <2>2, <2>3, <1>3
<1> QED
  BY <1>1, <1>2, <1>3, <1>4, <1>5, <1>8

LEMMA ScopeInitially == ScopeInit => ScopeInv
<1> SUFFICES ASSUME ScopeInit PROVE ScopeInv
  OBVIOUS
<1>1. ScopeTypeOK
  <2>1. queue \in Seq(Operation)
    BY ScopeAssumption DEF ScopeInit, Operation
  <2>2. mounted \in BOOLEAN /\ initializing \in BOOLEAN /\ failed \in BOOLEAN
    BY DEF ScopeInit
  <2>3. 1 \in 1..(MaxContexts + 1) /\ 0 \in 0..MaxSwitches
    BY ScopeAssumption
  <2> QED
    BY <2>1, <2>2, <2>3 DEF ScopeInit, ScopeTypeOK, MaybeRepo, Entry, Contexts
<1>2. ShownIsLive /\ Stages /\ Traces
  BY DEF ScopeInit, ShownIsLive, Stages, Traces, NoEntry
<1>3. queue[1] = [repo |-> repo, run |-> 0] /\ Len(queue) = 1 /\ queue # <<>>
  BY DEF ScopeInit
<1>4. mounted
  BY DEF ScopeInit
<1>5. LastRun /\ LastDisposal
  BY <1>3, <1>4 DEF ScopeInit, LastRun, LastDisposal
<1>6. ~initializing => synced = NoRepo
  BY DEF ScopeInit
<1>7. Settled
  BY <1>3, <1>6 DEF Settled
<1> QED
  BY <1>1, <1>2, <1>5, <1>7 DEF ScopeInv

-----------------------------------------------------------------------------
\* A step that leaves the operations and the registry alone.
LEMMA QuietStep ==
  ASSUME ScopeInv, UNCHANGED <<run, synced, mounted, initializing, registry, backend, failed>>
  PROVE  ShownIsLive' /\ LastRun' /\ LastDisposal' /\ Settled'
  BY DEF ScopeInv, registry, backend, ShownIsLive, LastRun, LastDisposal, Settled

LEMMA SwitchRepositoryKeeps ==
  ASSUME ScopeInv, NEW r \in MaybeRepo, SwitchRepository(r)
  PROVE  ScopeInv'
<1> USE DEF SwitchRepository, ScopeInv, session, registry, queries, backend
<1>1. ScopeTypeOK'
  BY DEF ScopeTypeOK
<1>2. Stages' /\ Traces'
  BY DEF Stages, Traces, Operating
<1> QED
  BY <1>1, <1>2, QuietStep

LEMMA RenderKeeps ==
  ASSUME ScopeInv, Render
  PROVE  ScopeInv'
<1> USE DEF Render, ScopeInv, session, registry, queries, backend
<1>1. ScopeTypeOK'
  BY DEF ScopeTypeOK, Entry, NoEntry
<1>2. Stages' /\ Traces'
  BY ScopeAssumption DEF ScopeTypeOK, Stages, Traces, Operating, NoEntry, Contexts
<1> QED
  BY <1>1, <1>2, QuietStep

LEMMA QueriesKeep ==
  ASSUME ScopeInv, Query \/ ListAuthors \/ \E key \in listing : AuthorsArrive(key)
  PROVE  ScopeInv'
<1> USE DEF Query, ListAuthors, AuthorsArrive, ScopeInv, session, registry, backend
<1>1. ScopeTypeOK'
  BY DEF ScopeTypeOK, MaybeRepo
<1>2. Stages'
  BY DEF Stages, Operating
<1>3. Traces'
  BY DEF Traces, ScopeTypeOK
<1> QED
  BY <1>1, <1>2, <1>3, QuietStep

\* An operation that joins the queue leaves its head and everything else alone.
LEMMA AppendKeeps ==
  ASSUME ScopeInv, NEW o \in Operation, queue' = Append(queue, o),
         UNCHANGED <<stage, leaving, entry, queries, backend, failed>>,
         rendered' = rendered \/ rendered' = [rendered EXCEPT !.context = NoScopeContext]
  PROVE  /\ queue' \in Seq(Operation) /\ queue' # <<>>
         /\ ShownIsLive' /\ Stages' /\ Traces'
<1> USE DEF ScopeInv, queries, backend
<1>1. queue \in Seq(Operation)
  BY DEF ScopeTypeOK
<1>2. queue # <<>> => Operating' = Operating
  BY <1>1 DEF Operating
<1>3. queue' \in Seq(Operation) /\ queue' # <<>>
  BY <1>1, AppendFacts
<1>4. ShownIsLive' /\ Traces'
  BY DEF ShownIsLive, Traces, ScopeTypeOK
<1>5. Stages'
  BY <1>2, <1>3, ScopeAssumption DEF Stages, ScopeTypeOK, Contexts
<1> QED
  BY <1>3, <1>4, <1>5

\* A new run's operation has a number of its own.
LEMMA AppendedRun ==
  ASSUME NEW q \in Seq(Operation), NEW o \in Operation, o.run = run', o.repo = synced',
         \A i \in 1..Len(q) : q[i].run < run', queue' = Append(q, o)
  PROVE  LastRun'
<1> SUFFICES ASSUME NEW i \in 1..Len(queue')
             PROVE  /\ i = Len(queue') => queue'[i].run = run' /\ queue'[i].repo = synced'
                    /\ i # Len(queue') => queue'[i].run < run'
  BY DEF LastRun
<1>1. Len(q) \in Nat /\ Len(queue') = Len(q) + 1 /\ queue'[Len(q) + 1] = o
  BY AppendFacts
<1>2. CASE i = Len(queue')
  BY <1>1, <1>2
<1>3. CASE i # Len(queue')
  <2>1. i \in 1..Len(q)
    BY <1>1, <1>3
  <2>2. queue'[i] = q[i]
    BY <2>1, AppendFacts
  <2> QED
    BY <2>1, <2>2, <1>3
<1> QED
  BY <1>2, <1>3

\* The numbers in the queue are those of the runs so far.
LEMMA RunsSoFar ==
  ASSUME ScopeInv, mounted
  PROVE  \A i \in 1..Len(queue) : queue[i].run <= run /\ queue[i] \in Operation
<1> SUFFICES ASSUME NEW i \in 1..Len(queue)
             PROVE  queue[i].run <= run /\ queue[i] \in Operation
  OBVIOUS
<1>1. queue[i] \in Operation /\ run \in 0..MaxSwitches
  BY DEF ScopeInv, ScopeTypeOK
<1>2. queue[i].run \in Nat /\ run \in Nat
  BY <1>1, ScopeAssumption DEF Operation
<1> QED
  BY <1>1, <1>2 DEF ScopeInv, LastRun

LEMMA SyncKeeps ==
  ASSUME ScopeInv, Sync
  PROVE  ScopeInv'
<1> USE DEF Sync, backend, queries
<1>1. run \in 0..MaxSwitches /\ repo \in MaybeRepo /\ queue \in Seq(Operation)
  BY DEF ScopeInv, ScopeTypeOK
<1> DEFINE o == [repo |-> repo, run |-> run']
<1>2. o \in Operation /\ queue' = Append(queue, o)
  BY <1>1, ScopeAssumption DEF Operation
<1>3. /\ queue' \in Seq(Operation) /\ queue' # <<>>
      /\ ShownIsLive' /\ Stages' /\ Traces'
  BY <1>2, AppendKeeps
<1>4. ScopeTypeOK'
  BY <1>1, <1>3, ScopeAssumption DEF ScopeInv, ScopeTypeOK
<1>5. LastRun'
  <2>1. \A i \in 1..Len(queue) : queue[i].run < run'
    <3> SUFFICES ASSUME NEW i \in 1..Len(queue) PROVE queue[i].run < run'
      OBVIOUS
    <3>1. queue[i].run <= run /\ queue[i] \in Operation
      BY RunsSoFar
    <3>2. queue[i].run \in Nat /\ run \in Nat
      BY <3>1, <1>1, ScopeAssumption DEF Operation
    <3> QED
      BY <3>1, <3>2
  <2> QED
    BY <2>1, <1>1, <1>2, AppendedRun
<1>6. mounted' /\ queue' # <<>>
  BY <1>3
<1>7. initializing' = (repo # NoRepo) /\ synced' = repo
  OBVIOUS
<1>8. LastDisposal' /\ Settled'
  BY <1>6, <1>7 DEF LastDisposal, Settled
<1> QED
  BY <1>3, <1>4, <1>5, <1>8 DEF ScopeInv

-----------------------------------------------------------------------------
LEMMA UnmountKeeps ==
  ASSUME ScopeInv, Unmount
  PROVE  ScopeInv'
<1> USE DEF Unmount, backend, queries
<1> DEFINE o == [repo |-> NoRepo, run |-> run]
<1>1. /\ queue \in Seq(Operation) /\ o \in Operation /\ ~mounted'
      /\ rendered \in [context : Contexts \cup {NoScopeContext}, repo : MaybeRepo]
  BY DEF ScopeInv, ScopeTypeOK, Operation, MaybeRepo
<1>2. CASE queue' = Append(queue, o)
  <2>1. /\ queue' \in Seq(Operation) /\ queue' # <<>>
        /\ ShownIsLive' /\ Stages' /\ Traces'
    BY <1>1, <1>2, AppendKeeps
  <2>2. ScopeTypeOK'
    BY <1>1, <2>1 DEF ScopeInv, ScopeTypeOK
  <2>3. queue'[Len(queue')].repo = NoRepo
    BY <1>1, <1>2, AppendFacts
  <2>4. LastRun' /\ LastDisposal' /\ Settled'
    BY <1>1, <2>1, <2>3 DEF LastRun, LastDisposal, Settled
  <2> QED
    BY <2>1, <2>2, <2>4 DEF ScopeInv
<1>3. CASE queue' = queue /\ queue = <<>> /\ entry = NoEntry
  <2>1. ScopeTypeOK'
    BY <1>1, <1>3 DEF ScopeInv, ScopeTypeOK
  <2>2. stage = "waiting"
    BY <1>3 DEF ScopeInv, Stages, ScopeTypeOK
  <2>3. ShownIsLive' /\ Stages' /\ Traces'
    BY <1>1, <1>3, <2>2 DEF ScopeInv, ShownIsLive, Stages, Traces
  <2>4. LastRun' /\ LastDisposal' /\ Settled'
    BY <1>1, <1>3 DEF LastRun, LastDisposal, Settled
  <2> QED
    BY <2>1, <2>3, <2>4 DEF ScopeInv
<1> QED
  BY <1>2, <1>3 DEF DisposeAll

LEMMA RemountKeeps ==
  ASSUME ScopeInv, Remount
  PROVE  ScopeInv'
<1> USE DEF Remount, backend, queries
<1> DEFINE d == [repo |-> NoRepo, run |-> run]
           o == [repo |-> repo, run |-> run']
<1>1. /\ run \in 0..MaxSwitches /\ run' = run + 1 /\ run' \in 0..MaxSwitches
      /\ queue \in Seq(Operation) /\ repo \in MaybeRepo /\ mounted'
  BY ScopeAssumption DEF ScopeInv, ScopeTypeOK
<1>2. d \in Operation /\ o \in Operation
  BY <1>1 DEF Operation, MaybeRepo
<1>3. DisposeAll \in {queue, Append(queue, d)} /\ queue' = Append(DisposeAll, o)
  BY DEF DisposeAll
<1>4. DisposeAll \in Seq(Operation)
  BY <1>1, <1>2, <1>3, AppendFacts
<1>5. \A i \in 1..Len(DisposeAll) : DisposeAll[i].run < run'
  <2> SUFFICES ASSUME NEW i \in 1..Len(DisposeAll) PROVE DisposeAll[i].run < run'
    OBVIOUS
  <2>1. Len(queue) \in Nat /\ Len(Append(queue, d)) = Len(queue) + 1
    BY <1>1, <1>2, AppendFacts
  <2>2. DisposeAll[i] = d \/ (i \in 1..Len(queue) /\ DisposeAll[i] = queue[i])
    BY <2>1, <1>1, <1>2, <1>3, AppendFacts
  <2>3. i \in 1..Len(queue) => queue[i].run <= run /\ queue[i] \in Operation
    BY RunsSoFar
  <2>4. i \in 1..Len(queue) => queue[i].run \in Nat
    BY <2>3, ScopeAssumption DEF Operation
  <2> QED
    BY <2>2, <2>3, <2>4, <1>1
<1>6. LastRun'
  BY <1>2, <1>3, <1>4, <1>5, AppendedRun
<1>7. queue' \in Seq(Operation) /\ queue' # <<>>
  BY <1>2, <1>3, <1>4, AppendFacts
<1>8. ScopeTypeOK'
  BY <1>1, <1>7 DEF ScopeInv, ScopeTypeOK
<1>9. queue # <<>> => Operating' = Operating
  <2>1. Head(Append(queue, o)) = Head(queue) \/ queue = <<>>
    BY <1>1, <1>2
  <2>2. Head(Append(Append(queue, d), o)) = Head(queue) \/ queue = <<>>
    BY <1>1, <1>2
  <2> QED
    BY <2>1, <2>2, <1>3 DEF Operating
<1>10. ShownIsLive' /\ Stages' /\ Traces'
  BY <1>7, <1>9 DEF ScopeInv, ShownIsLive, Stages, Traces
<1>11. LastDisposal' /\ Settled'
  BY <1>1, <1>7 DEF LastDisposal, Settled
<1> QED
  BY <1>6, <1>8, <1>10, <1>11 DEF ScopeInv

-----------------------------------------------------------------------------
\* The operation under way is one.
LEMMA OperatingFacts ==
  ASSUME ScopeInv, queue # <<>>
  PROVE  Operating \in Operation /\ Operating.repo \in MaybeRepo
  BY QueueFacts DEF ScopeInv, ScopeTypeOK, Operating, Operation

\* What GoOn does where no entry is left and no context is live.
LEMMA GoOnKeeps ==
  ASSUME ScopeInv, queue # <<>>, entry = NoEntry, GoOn, UNCHANGED session, entry' = entry,
         rendered' = rendered, live = {} \/ stage = "waiting",
         rendered.context = NoScopeContext
  PROVE  /\ queue' \in Seq(Operation) /\ stage' \in {"waiting", "creating"}
         /\ leaving' = NoScopeContext /\ initializing' \in BOOLEAN /\ failed' \in BOOLEAN
         /\ live' = {}
         /\ Stages' /\ LastRun' /\ LastDisposal' /\ Settled'
<1>1. live \subseteq {NoScopeContext} /\ live \subseteq Contexts
  BY DEF ScopeInv, Stages, NoEntry, ScopeTypeOK
<1>2. live = {}
  BY <1>1, ScopeAssumption DEF Contexts
<1>3. CASE Operating.repo = NoRepo
  <2>1. Settle /\ failed' = FALSE /\ live' = live
    BY <1>3 DEF GoOn, NoEntry
  <2>2. /\ queue' \in Seq(Operation) /\ stage' = "waiting" /\ leaving' = NoScopeContext
        /\ initializing' \in BOOLEAN /\ LastRun' /\ LastDisposal' /\ Settled'
    BY <1>3, <2>1, SettleKeepsOrder
  <2> QED
    BY <1>2, <2>1, <2>2 DEF Stages
<1>4. CASE Operating.repo # NoRepo
  <2>1. /\ stage' = "creating" /\ leaving' = NoScopeContext /\ live' = {}
        /\ initializing' = initializing /\ queue' = queue /\ failed' = failed
    BY <1>4 DEF GoOn, NoEntry
  <2>2. queue' \in Seq(Operation) /\ initializing' \in BOOLEAN /\ failed' \in BOOLEAN
    BY <2>1 DEF ScopeInv, ScopeTypeOK
  <2>3. Stages'
    BY <1>4, <2>1 DEF Stages, Operating
  <2>4. LastRun' /\ LastDisposal' /\ Settled'
    BY <2>1 DEF ScopeInv, session, LastRun, LastDisposal, Settled
  <2> QED
    BY <2>1, <2>2, <2>3, <2>4
<1> QED
  BY <1>3, <1>4

LEMMA OperationBeginsKeeps ==
  ASSUME ScopeInv, OperationBegins
  PROVE  ScopeInv'
<1> USE DEF OperationBegins, queries
<1>1. leaving = NoScopeContext /\ live \subseteq {entry.context}
  BY DEF ScopeInv, Stages
<1>2. CASE entry = NoEntry
  <2>1. rendered.context = NoScopeContext
    BY <1>1, <1>2 DEF ScopeInv, Traces, NoEntry
  <2>2. /\ queue' \in Seq(Operation) /\ stage' \in {"waiting", "creating"}
        /\ leaving' = NoScopeContext /\ initializing' \in BOOLEAN /\ failed' \in BOOLEAN
        /\ live' = {}
        /\ Stages' /\ LastRun' /\ LastDisposal' /\ Settled'
    BY <1>2, <2>1, GoOnKeeps
  <2>3. ScopeTypeOK'
    BY <2>2 DEF ScopeInv, ScopeTypeOK, session
  <2>4. ShownIsLive' /\ Traces'
    BY <1>1, <1>2, <2>2 DEF ScopeInv, ShownIsLive, Traces
  <2> QED
    BY <2>2, <2>3, <2>4 DEF ScopeInv
<1>3. CASE entry # NoEntry
  <2>1. entry.repo = Operating.repo /\ entry.repo # NoRepo
    BY <1>3, ScopeAssumption DEF ScopeInv, ScopeTypeOK, Entry
  <2>2. Settle /\ failed' = FALSE /\ live' = live
    BY <2>1 DEF GoOn
  <2>3. /\ queue' \in Seq(Operation) /\ stage' = "waiting" /\ leaving' = NoScopeContext
        /\ initializing' \in BOOLEAN /\ LastRun' /\ LastDisposal' /\ Settled'
    BY <2>1, <2>2, SettleKeepsOrder
  <2>4. ScopeTypeOK'
    BY <2>2, <2>3 DEF ScopeInv, ScopeTypeOK, session
  <2>5. ShownIsLive' /\ Stages' /\ Traces'
    BY <1>1, <2>2, <2>3 DEF ScopeInv, ShownIsLive, Stages, Traces
  <2> QED
    BY <2>3, <2>4, <2>5 DEF ScopeInv
<1> QED
  BY <1>2, <1>3

LEMMA DropKeeps ==
  ASSUME ScopeInv, Drop
  PROVE  ScopeInv'
<1> USE DEF Drop, queries, backend
<1>1. /\ leaving = NoScopeContext /\ live \subseteq {entry.context}
      /\ entry.context \in Contexts /\ entry.context # NoScopeContext
  BY ScopeAssumption DEF ScopeInv, ScopeTypeOK, Stages, Entry, Contexts
<1>2. ScopeTypeOK'
  BY <1>1 DEF ScopeInv, ScopeTypeOK, session, Entry
<1>3. ShownIsLive' /\ Stages'
  BY <1>1 DEF ShownIsLive, Stages
<1>4. Traces'
  BY <1>1 DEF ScopeInv, Traces, NoEntry
<1>5. LastRun' /\ LastDisposal' /\ Settled'
  BY DEF ScopeInv, session, LastRun, LastDisposal, Settled
<1> QED
  BY <1>2, <1>3, <1>4, <1>5 DEF ScopeInv

LEMMA ContextDisposedKeeps ==
  ASSUME ScopeInv, ContextDisposed
  PROVE  ScopeInv'
<1> USE DEF ContextDisposed, queries
<1>1. /\ leaving # NoScopeContext /\ live \subseteq {leaving} /\ queue # <<>>
      /\ entry = NoEntry
  BY DEF ScopeInv, Stages
<1>2. ScopeTypeOK'
  BY DEF ScopeInv, ScopeTypeOK, session
<1>3. ShownIsLive' /\ Stages'
  BY <1>1 DEF ShownIsLive, Stages
<1>4. Traces' /\ LastRun' /\ LastDisposal' /\ Settled'
  BY DEF ScopeInv, session, Traces, LastRun, LastDisposal, Settled
<1> QED
  BY <1>2, <1>3, <1>4 DEF ScopeInv

LEMMA QueriesRemovedKeeps ==
  ASSUME ScopeInv, QueriesRemoved
  PROVE  ScopeInv'
<1> USE DEF QueriesRemoved
<1>1. /\ leaving # NoScopeContext /\ live = {} /\ rendered.context # leaving
      /\ queue # <<>> /\ entry = NoEntry
  BY DEF ScopeInv, Stages
<1>2. rendered.context = NoScopeContext
  BY <1>1 DEF ScopeInv, Traces, NoEntry
<1>3. /\ queue' \in Seq(Operation) /\ stage' \in {"waiting", "creating"}
      /\ leaving' = NoScopeContext /\ initializing' \in BOOLEAN /\ failed' \in BOOLEAN
      /\ live' = {}
      /\ Stages' /\ LastRun' /\ LastDisposal' /\ Settled'
  BY <1>1, <1>2, GoOnKeeps
<1>4. ScopeTypeOK'
  BY <1>3 DEF ScopeInv, ScopeTypeOK, session
<1>5. ShownIsLive'
  BY <1>1 DEF ShownIsLive
<1>6. Traces'
  BY <1>1, <1>2 DEF ScopeInv, Traces, Forgotten, NoEntry
<1> QED
  BY <1>3, <1>4, <1>5, <1>6 DEF ScopeInv

LEMMA ContextCreatedKeeps ==
  ASSUME ScopeInv, ContextCreated
  PROVE  ScopeInv'
<1> USE DEF ContextCreated, queries
<1>1. /\ leaving = NoScopeContext /\ live = {} /\ Operating.repo # NoRepo
      /\ queue # <<>> /\ entry = NoEntry
  BY DEF ScopeInv, Stages
<1>2. /\ next \in Contexts /\ next # NoScopeContext /\ next + 1 \in 1..(MaxContexts + 1)
      /\ Operating.repo \in Repos
  BY <1>1, OperatingFacts, ScopeAssumption DEF ScopeInv, ScopeTypeOK, Contexts, MaybeRepo
<1>3. /\ entry'.repo = Operating.repo /\ entry'.context = next
      /\ entry' \in [repo : Repos, context : Contexts]
  BY <1>2
<1>4. /\ queue' \in Seq(Operation) /\ stage' = "waiting" /\ leaving' = NoScopeContext
      /\ initializing' \in BOOLEAN /\ LastRun' /\ LastDisposal' /\ Settled'
  BY <1>1, <1>3, SettleKeepsOrder
<1>5. ScopeTypeOK'
  BY <1>2, <1>3, <1>4 DEF ScopeInv, ScopeTypeOK, session, Entry, MaybeRepo
<1>6. ShownIsLive'
  BY <1>2, <1>3 DEF ShownIsLive, ScopeInv, ScopeTypeOK
<1>7. Stages'
  BY <1>1, <1>3, <1>4 DEF Stages
<1>8. Traces'
  <2>1. rendered'.context = NoScopeContext
    BY <1>1 DEF ScopeInv, Traces, NoEntry
  <2>2. \A key \in cached : key[1] \in late
    BY <1>1, ScopeAssumption DEF ScopeInv, ScopeTypeOK, Traces, NoEntry, Contexts
  <2> QED
    BY <2>1, <2>2 DEF Traces
<1> QED
  BY <1>4, <1>5, <1>6, <1>7, <1>8 DEF ScopeInv

LEMMA CreationFailsKeeps ==
  ASSUME ScopeInv, CreationFails
  PROVE  ScopeInv'
<1> USE DEF CreationFails, queries, backend
<1>1. /\ leaving = NoScopeContext /\ live = {} /\ Operating.repo # NoRepo
      /\ queue # <<>> /\ entry = NoEntry
  BY DEF ScopeInv, Stages
<1>2. /\ queue' \in Seq(Operation) /\ stage' = "waiting" /\ leaving' = NoScopeContext
      /\ initializing' \in BOOLEAN /\ LastRun' /\ LastDisposal' /\ Settled'
  BY <1>1, SettleKeepsOrder
<1>3. ScopeTypeOK'
  BY <1>2 DEF ScopeInv, ScopeTypeOK, session
<1>4. ShownIsLive' /\ Stages' /\ Traces'
  BY <1>1, <1>2 DEF ScopeInv, ShownIsLive, Stages, Traces
<1> QED
  BY <1>2, <1>3, <1>4 DEF ScopeInv

-----------------------------------------------------------------------------
LEMMA ScopeStep == ScopeInv /\ [ScopeNext]_scopeVars => ScopeInv'
<1> SUFFICES ASSUME ScopeInv, [ScopeNext]_scopeVars PROVE ScopeInv'
  OBVIOUS
<1>1. CASE UNCHANGED scopeVars
  BY <1>1 DEF scopeVars, session, registry, queries, backend, ScopeInv, ScopeTypeOK, ShownIsLive, Stages,
     Traces, LastRun, LastDisposal, Settled, Operating
<1>2. CASE ScopeNext
  BY <1>2, SwitchRepositoryKeeps, RenderKeeps, SyncKeeps, UnmountKeeps, RemountKeeps,
     DropKeeps, ContextDisposedKeeps, QueriesRemovedKeeps,
     OperationBeginsKeeps, ContextCreatedKeeps, CreationFailsKeeps, QueriesKeep DEF ScopeNext, Operate
<1> QED
  BY <1>1, <1>2

\* ScopeSpec keeps the inductive invariant, and with it the types.
THEOREM ScopeInvariance == ScopeSpec => []ScopeInv
  BY ScopeInitially, ScopeStep, PTL DEF ScopeSpec

THEOREM TypesHold == ScopeSpec => []ScopeTypeOK
<1>1. ScopeInv => ScopeTypeOK
  BY DEF ScopeInv
<1> QED
  BY <1>1, ScopeInvariance, PTL

\* getScopeContext and the subscribers never see a context that is disposed of, or
\* that was created for another repository (repo-context-registry.ts:114-140).
THEOREM ShownContextsLive == ScopeSpec => []ShownIsLive
<1>1. ScopeInv => ShownIsLive
  BY DEF ScopeInv
<1> QED
  BY <1>1, ScopeInvariance, PTL

\* isContextReady holds only for the repository of the session
\* (tab-context-provider.tsx:75-119).
THEOREM ReadyContextsCurrent == ScopeSpec => []ReadyIsCurrent
<1>1. ScopeInv => ReadyIsCurrent
  BY DEF ScopeInv, Settled, ReadyIsCurrent
<1> QED
  BY <1>1, ScopeInvariance, PTL

\* A scope that moves on leaves neither a context in the backend nor a query in the
\* cache, but for late authors (repo-context-registry.ts:149-157).
THEOREM ScopeLeavesNothing == ScopeSpec => []NothingStaysBehind
<1>1. ScopeInv => NothingStaysBehind
  BY ScopeAssumption DEF ScopeInv, Stages, Traces, ScopeTypeOK, NothingStaysBehind
<1> QED
  BY <1>1, ScopeInvariance, PTL

\* However the switches, failures and remounts interleave with the operations, the
\* last of them decides (repo-context-registry.ts:159-178).
THEOREM LastOperationDecides == ScopeSpec => []LastSwitchWins
<1>1. ScopeInv => LastSwitchWins
  BY DEF ScopeInv, LastDisposal, Settled, LastSwitchWins, ScopeTypeOK
<1> QED
  BY <1>1, ScopeInvariance, PTL
=============================================================================
