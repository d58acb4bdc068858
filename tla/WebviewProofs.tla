--------------------------- MODULE WebviewProofs ---------------------------
(***************************************************************************)
(* Theorems about the webviews of the tabs (TabWebviews), for any tabs and *)
(* any number of actions of the user; and about the draft of a commit, of  *)
(* which each webview has one (CommitDraft), for any repositories, steps,  *)
(* commits and calls under way.                                            *)
(***************************************************************************)
EXTENDS TabWebviews, CommitDraft, FiniteSetTheorems, TLAPS

(***************************************************************************)
(* The webviews of the tabs (TabWebviews): the inductive invariant.        *)
(***************************************************************************)

Activation == [tab : Tabs, step : {"ensure", "show"}, previous : Tabs \cup {NoTab}]

TypeOK ==
  /\ tabs \subseteq opened /\ opened \subseteq Tabs /\ active \in tabs
  /\ acts \in Nat
  \* The host has heard of every change of the store.
  /\ live = tabs /\ desired = active /\ visible \in Tabs \cup {NoTab}
  /\ managed \in [Tabs -> {"none", "pending", "ready"}]
  /\ task \in [Tabs -> {"none", "lookup", "wait", "checked"}]
  /\ native \in [Tabs -> {"none", "asked", "made", "hiding", "there", "closed"}]
  /\ seen \subseteq Tabs /\ activations \subseteq Activation
  /\ prewarms \subseteq opened
  /\ reconciles \subseteq [tabs : SUBSET opened, closing : BOOLEAN]
  /\ late \subseteq Tabs /\ failed \subseteq Tabs /\ overtaken \in BOOLEAN

\* Nothing is known of a tab that was never opened.
FreshInv ==
  \A t \in Tabs \ opened :
    task[t] = "none" /\ managed[t] = "none" /\ native[t] = "none"

\* A webview that is being created is waited for.
Coming(t) == native[t] \in {"asked", "made", "hiding"}

\* A webview that may outlive its tab still has the end of its task ahead.
CreationInv ==
  \A t \in Tabs :
    /\ Coming(t) => task[t] = "wait" \/ t \in late
    /\ t \notin tabs /\ native[t] = "there" => task[t] = "checked" \/ t \in late

\* How far the webview of an open tab has come.
ServedInv ==
  \A t \in tabs :
    \/ task[t] = "lookup" /\ managed[t] = "none" /\ native[t] = "none"
    \/ task[t] = "wait" /\ managed[t] = "pending" /\ Coming(t)
    \/ /\ task[t] \in {"checked", "none"} /\ managed[t] = "ready"
       /\ Coming(t) \/ native[t] = "there" \/ t \in failed

Undisturbed == ~overtaken /\ late = {} /\ failed = {}
Showing == {a \in activations : a.step = "show"}

\* Who is going to show the active tab's webview, and to hide the one before.
SeenInv ==
  Undisturbed =>
    /\ \A a \in Showing : a.tab = active /\ (visible # NoTab => a.previous = visible)
    /\ \A a, b \in Showing : a = b
    /\ \/ visible = active /\ active \in seen
       \/ \E a \in activations : a.tab = active
    /\ visible # NoTab => visible \in tabs /\ managed[visible] # "none"
    /\ Showing # {} => active \in seen
    /\ \A t \in seen : t = active \/ t = visible \/ native[t] = "made"
    /\ \A t \in seen : native[t] \in {"made", "there"}

IInv == TypeOK /\ FreshInv /\ CreationInv /\ ServedInv /\ SeenInv

\* The host begins with one tab, whose webview it asks for.
LEMMA InitInv == Init => IInv
  <1> SUFFICES ASSUME Init PROVE IInv
    OBVIOUS
  <1> USE WebviewsAssumption DEF Init
  <1>1. TypeOK
    <2>1. activations \subseteq Activation
      BY DEF Activation
    <2>2. reconciles \subseteq [tabs : SUBSET opened, closing : BOOLEAN]
      OBVIOUS
    <2>3. QED
      BY <2>1, <2>2 DEF TypeOK
  <1>2. FreshInv /\ CreationInv /\ ServedInv
    BY DEF FreshInv, CreationInv, ServedInv, Coming
  <1>3. SeenInv
    BY DEF SeenInv, Showing, Undisturbed
  <1>4. QED
    BY <1>1, <1>2, <1>3 DEF IInv

(***************************************************************************)
(* Each part of the invariant is preserved by every action.                *)
(***************************************************************************)

\* What the calls that the effects of the component make leave.
LEMMA ActivatesOK ==
  ASSUME NEW t \in Tabs, TypeOK, Activates(t)
  PROVE  desired' = t /\ activations' \subseteq Activation /\ overtaken' \in BOOLEAN
  <1>1. [tab |-> t, step |-> "ensure", previous |-> NoTab] \in Activation
    BY DEF Activation
  <1>2. QED
    BY <1>1 DEF TypeOK, Activates

LEMMA ReconcilesOK ==
  ASSUME NEW ts \in SUBSET Tabs, ts \subseteq opened', opened \subseteq opened',
         TypeOK, Reconciles(ts)
  PROVE  /\ live' = ts
         /\ managed' \in [Tabs -> {"none", "pending", "ready"}]
         /\ visible' \in Tabs \cup {NoTab}
         /\ native' \in [Tabs -> {"none", "asked", "made", "hiding", "there", "closed"}]
         /\ seen' \subseteq Tabs
         /\ reconciles' \subseteq [tabs : SUBSET opened', closing : BOOLEAN]
  <1> DEFINE stale == {t \in Tabs \ ts : managed[t] # "none"}
             new == [tabs |-> ts, closing |-> stale # {}]
  <1>1. new \in [tabs : SUBSET opened', closing : BOOLEAN]
    OBVIOUS
  <1>2. [tabs : SUBSET opened, closing : BOOLEAN]
          \subseteq [tabs : SUBSET opened', closing : BOOLEAN]
    OBVIOUS
  <1>3. reconciles' \subseteq reconciles \cup {new}
    BY DEF Reconciles
  <1>4. reconciles' \subseteq [tabs : SUBSET opened', closing : BOOLEAN]
    BY <1>1, <1>2, <1>3 DEF TypeOK
  <1>5. QED
    BY <1>4 DEF TypeOK, Reconciles

\* ensureTabWebview starts at most a task.
LEMMA EnsuredOK ==
  ASSUME NEW ts, TypeOK
  PROVE  Ensured(ts) \in [Tabs -> {"none", "lookup", "wait", "checked"}]
  BY DEF TypeOK, Ensured

\* Types, and that the host has heard of every change of the store.
LEMMA TypeOKStep == IInv /\ [Next]_vars => TypeOK'
  <1> SUFFICES ASSUME IInv, [Next]_vars PROVE TypeOK'
    OBVIOUS
  <1> USE WebviewsAssumption DEF IInv, TypeOK, hostVars, calls, ghosts
  <1>1. ASSUME NEW t \in Tabs, OpenTab(t) PROVE TypeOK'
    BY <1>1, ActivatesOK, ReconcilesOK, EnsuredOK DEF OpenTab, Act
  <1>2. ASSUME NEW t \in Tabs, SwitchTab(t) PROVE TypeOK'
    BY <1>2, ActivatesOK, EnsuredOK DEF SwitchTab, Act
  <1>3. ASSUME NEW t \in Tabs, NEW next \in Tabs, CloseTab(t, next) PROVE TypeOK'
    BY <1>3, ActivatesOK, ReconcilesOK, EnsuredOK DEF CloseTab, Act
  <1>4. ASSUME NEW t \in Tabs, PrewarmReturns(t) PROVE TypeOK'
    BY <1>4 DEF PrewarmReturns
  <1>5. ASSUME NEW t \in Tabs, TaskCreates(t) PROVE TypeOK'
    BY <1>5 DEF TaskCreates
  <1>6. ASSUME NEW t \in Tabs, TaskEnds(t) PROVE TypeOK'
    BY <1>6 DEF TaskEnds
  <1>7. ASSUME NEW t \in Tabs, NativeIsMade(t) PROVE TypeOK'
    BY <1>7 DEF NativeIsMade
  <1>8. ASSUME NEW t \in Tabs, CreatedArrives(t) PROVE TypeOK'
    BY <1>8 DEF CreatedArrives, Ready, TaskGoesOn
  <1>9. ASSUME NEW t \in Tabs, HideReturns(t) PROVE TypeOK'
    BY <1>9 DEF HideReturns, Ready, TaskGoesOn
  <1>10. ASSUME NEW t \in Tabs, CreationTimesOut(t) PROVE TypeOK'
    BY <1>10 DEF CreationTimesOut, Ready, TaskGoesOn
  <1>11. ASSUME NEW t \in Tabs, CreationFails(t) PROVE TypeOK'
    BY <1>11 DEF CreationFails, Ready
  <1>12. ASSUME NEW r \in reconciles, ReconcileGoesOn(r) PROVE TypeOK'
    <2>1. r.tabs \subseteq opened
      BY DEF Activation
    <2>2. QED
      BY <1>12, <2>1, ActivatesOK, EnsuredOK DEF ReconcileGoesOn
  <1>13. ASSUME NEW a \in activations, ActivationShows(a) PROVE TypeOK'
    <2> DEFINE previous == IF visible # NoTab /\ managed[visible] # "none"
                           THEN visible ELSE NoTab
               b == [tab |-> a.tab, step |-> "show", previous |-> previous]
    <2>1. a.tab \in Tabs /\ b \in Activation
      BY DEF Activation
    <2>2. activations' \subseteq Activation
      <3> HIDE DEF b
      <3>1. activations' \subseteq activations \cup {b}
        BY <1>13 DEF ActivationShows, b
      <3>2. QED
        BY <3>1, <2>1
    <2>3. QED
      BY <1>13, <2>1, <2>2 DEF ActivationShows
  <1>14. ASSUME NEW a \in activations, ActivationReturns(a) PROVE TypeOK'
    <2>1. a.tab \in Tabs
      BY DEF Activation
    <2>2. QED
      BY <1>14, <2>1 DEF ActivationReturns
  <1>15. CASE UNCHANGED vars
    BY <1>15 DEF vars
  <1>16. QED
    BY <1>1, <1>2, <1>3, <1>4, <1>5, <1>6, <1>7, <1>8, <1>9, <1>10, <1>11, <1>12,
       <1>13, <1>14, <1>15 DEF Next

\* Calls are opened for tabs that were open at some time.
LEMMA FreshInvStep == IInv /\ [Next]_vars => FreshInv'
  <1> SUFFICES ASSUME IInv, [Next]_vars PROVE FreshInv'
    OBVIOUS
  <1> USE WebviewsAssumption DEF IInv, TypeOK, FreshInv, hostVars, calls, ghosts
  <1>1. ASSUME NEW t \in Tabs, OpenTab(t) PROVE FreshInv'
    BY <1>1 DEF OpenTab, Act, Activates, Reconciles, Ensured, There
  <1>2. ASSUME NEW t \in Tabs, SwitchTab(t) PROVE FreshInv'
    BY <1>2 DEF SwitchTab, Act, Activates, Ensured
  <1>3. ASSUME NEW t \in Tabs, NEW next \in Tabs, CloseTab(t, next) PROVE FreshInv'
    BY <1>3 DEF CloseTab, Act, Activates, Reconciles, Ensured, There
  <1>4. ASSUME NEW t \in Tabs, PrewarmReturns(t) PROVE FreshInv'
    BY <1>4 DEF PrewarmReturns
  <1>5. ASSUME NEW t \in Tabs, TaskCreates(t) PROVE FreshInv'
    BY <1>5 DEF TaskCreates
  <1>6. ASSUME NEW t \in Tabs, TaskEnds(t) PROVE FreshInv'
    BY <1>6 DEF TaskEnds, There
  <1>7. ASSUME NEW t \in Tabs, NativeIsMade(t) PROVE FreshInv'
    BY <1>7 DEF NativeIsMade
  <1>8. ASSUME NEW t \in Tabs, CreatedArrives(t) PROVE FreshInv'
    BY <1>8 DEF CreatedArrives, Ready, TaskGoesOn
  <1>9. ASSUME NEW t \in Tabs, HideReturns(t) PROVE FreshInv'
    BY <1>9 DEF HideReturns, Ready, TaskGoesOn
  <1>10. ASSUME NEW t \in Tabs, CreationTimesOut(t) PROVE FreshInv'
    BY <1>10 DEF CreationTimesOut, Ready, TaskGoesOn
  <1>11. ASSUME NEW t \in Tabs, CreationFails(t) PROVE FreshInv'
    BY <1>11 DEF CreationFails, Ready
  <1>12. ASSUME NEW r \in reconciles, ReconcileGoesOn(r) PROVE FreshInv'
    <2>1. r.tabs \subseteq opened
      OBVIOUS
    <2>2. QED
      BY <1>12, <2>1 DEF ReconcileGoesOn, Ensured
  <1>13. ASSUME NEW a \in activations, ActivationShows(a) PROVE FreshInv'
    BY <1>13 DEF ActivationShows
  <1>14. ASSUME NEW a \in activations, ActivationReturns(a) PROVE FreshInv'
    BY <1>14 DEF ActivationReturns
  <1>15. CASE UNCHANGED vars
    BY <1>15 DEF vars
  <1>16. QED
    BY <1>1, <1>2, <1>3, <1>4, <1>5, <1>6, <1>7, <1>8, <1>9, <1>10, <1>11, <1>12,
       <1>13, <1>14, <1>15 DEF Next

\* A close that came too early is opened up for at the end of the task.
LEMMA CreationInvStep == IInv /\ [Next]_vars => CreationInv'
  <1> SUFFICES ASSUME IInv, [Next]_vars PROVE CreationInv'
    OBVIOUS
  <1> USE WebviewsAssumption
      DEF IInv, TypeOK, CreationInv, ServedInv, Coming, hostVars, calls, ghosts
  <1>1. ASSUME NEW t \in Tabs, OpenTab(t) PROVE CreationInv'
    BY <1>1 DEF OpenTab, Act, Activates, Reconciles, Ensured, There
  <1>2. ASSUME NEW t \in Tabs, SwitchTab(t) PROVE CreationInv'
    BY <1>2 DEF SwitchTab, Act, Activates, Ensured
  <1>3. ASSUME NEW t \in Tabs, NEW next \in Tabs, CloseTab(t, next) PROVE CreationInv'
    BY <1>3 DEF CloseTab, Act, Activates, Reconciles, Ensured, There
  <1>4. ASSUME NEW t \in Tabs, PrewarmReturns(t) PROVE CreationInv'
    BY <1>4 DEF PrewarmReturns
  <1>5. ASSUME NEW t \in Tabs, TaskCreates(t) PROVE CreationInv'
    BY <1>5 DEF TaskCreates
  <1>6. ASSUME NEW t \in Tabs, TaskEnds(t) PROVE CreationInv'
    BY <1>6 DEF TaskEnds, There
  <1>7. ASSUME NEW t \in Tabs, NativeIsMade(t) PROVE CreationInv'
    BY <1>7 DEF NativeIsMade
  <1>8. ASSUME NEW t \in Tabs, CreatedArrives(t) PROVE CreationInv'
    BY <1>8 DEF CreatedArrives, Ready, TaskGoesOn
  <1>9. ASSUME NEW t \in Tabs, HideReturns(t) PROVE CreationInv'
    BY <1>9 DEF HideReturns, Ready, TaskGoesOn
  <1>10. ASSUME NEW t \in Tabs, CreationTimesOut(t) PROVE CreationInv'
    BY <1>10 DEF CreationTimesOut, Ready, TaskGoesOn
  <1>11. ASSUME NEW t \in Tabs, CreationFails(t) PROVE CreationInv'
    BY <1>11 DEF CreationFails, Ready
  <1>12. ASSUME NEW r \in reconciles, ReconcileGoesOn(r) PROVE CreationInv'
    BY <1>12 DEF ReconcileGoesOn, Activates, Ensured
  <1>13. ASSUME NEW a \in activations, ActivationShows(a) PROVE CreationInv'
    BY <1>13 DEF ActivationShows
  <1>14. ASSUME NEW a \in activations, ActivationReturns(a) PROVE CreationInv'
    BY <1>14 DEF ActivationReturns
  <1>15. CASE UNCHANGED vars
    BY <1>15 DEF vars
  <1>16. QED
    BY <1>1, <1>2, <1>3, <1>4, <1>5, <1>6, <1>7, <1>8, <1>9, <1>10, <1>11, <1>12,
       <1>13, <1>14, <1>15 DEF Next

\* The webview of an open tab is asked for once and then comes, or fails.
LEMMA ServedInvStep == IInv /\ [Next]_vars => ServedInv'
  <1> SUFFICES ASSUME IInv, [Next]_vars PROVE ServedInv'
    OBVIOUS
  <1> USE WebviewsAssumption
      DEF IInv, TypeOK, FreshInv, ServedInv, Coming, hostVars, calls, ghosts
  <1>1. ASSUME NEW t \in Tabs, OpenTab(t) PROVE ServedInv'
    BY <1>1 DEF OpenTab, Act, Activates, Reconciles, Ensured, There
  <1>2. ASSUME NEW t \in Tabs, SwitchTab(t) PROVE ServedInv'
    BY <1>2 DEF SwitchTab, Act, Activates, Ensured
  <1>3. ASSUME NEW t \in Tabs, NEW next \in Tabs, CloseTab(t, next) PROVE ServedInv'
    BY <1>3 DEF CloseTab, Act, Activates, Reconciles, Ensured, There
  <1>4. ASSUME NEW t \in Tabs, PrewarmReturns(t) PROVE ServedInv'
    BY <1>4 DEF PrewarmReturns
  <1>5. ASSUME NEW t \in Tabs, TaskCreates(t) PROVE ServedInv'
    BY <1>5 DEF TaskCreates
  <1>6. ASSUME NEW t \in Tabs, TaskEnds(t) PROVE ServedInv'
    BY <1>6 DEF TaskEnds, There
  <1>7. ASSUME NEW t \in Tabs, NativeIsMade(t) PROVE ServedInv'
    BY <1>7 DEF NativeIsMade
  <1>8. ASSUME NEW t \in Tabs, CreatedArrives(t) PROVE ServedInv'
    BY <1>8 DEF CreatedArrives, Ready, TaskGoesOn
  <1>9. ASSUME NEW t \in Tabs, HideReturns(t) PROVE ServedInv'
    BY <1>9 DEF HideReturns, Ready, TaskGoesOn
  <1>10. ASSUME NEW t \in Tabs, CreationTimesOut(t) PROVE ServedInv'
    BY <1>10 DEF CreationTimesOut, Ready, TaskGoesOn
  <1>11. ASSUME NEW t \in Tabs, CreationFails(t) PROVE ServedInv'
    BY <1>11 DEF CreationFails, Ready
  <1>12. ASSUME NEW r \in reconciles, ReconcileGoesOn(r) PROVE ServedInv'
    BY <1>12 DEF ReconcileGoesOn, Activates, Ensured
  <1>13. ASSUME NEW a \in activations, ActivationShows(a) PROVE ServedInv'
    BY <1>13 DEF ActivationShows
  <1>14. ASSUME NEW a \in activations, ActivationReturns(a) PROVE ServedInv'
    BY <1>14 DEF ActivationReturns
  <1>15. CASE UNCHANGED vars
    BY <1>15 DEF vars
  <1>16. QED
    BY <1>1, <1>2, <1>3, <1>4, <1>5, <1>6, <1>7, <1>8, <1>9, <1>10, <1>11, <1>12,
       <1>13, <1>14, <1>15 DEF Next

\* When the user acts and nothing is being seen, what is to be seen of the active tab
\* has been seen or is still to be opened.
LEMMA SeenWhenIdle ==
  ASSUME IInv, ~Runnable, Undisturbed, Showing = {}
  PROVE  \A x \in seen : x = visible \/ native[x] = "made"
  <1> USE DEF IInv, TypeOK
  <1>1. ASSUME active \in seen, visible # active PROVE native[active] = "made"
    <2>1. PICK a \in activations : a.tab = active
      BY <1>1 DEF SeenInv
    <2>2. a.step = "ensure"
      BY DEF Activation, Showing
    <2>3. ~Settled(active)
      BY <2>1, <2>2 DEF Runnable
    <2>4. Coming(active) \/ native[active] = "none"
      BY <2>3 DEF Settled, ServedInv
    <2>5. QED
      BY <1>1, <2>4 DEF Coming, SeenInv
  <1>2. QED
    BY <1>1 DEF SeenInv

\* An activation begins while nothing is being seen.
LEMMA ActivatesSeen ==
  ASSUME NEW t \in Tabs, Activates(t), Undisturbed'
  PROVE  /\ ~overtaken /\ Showing = {} /\ Showing' = {}
         /\ \E a \in activations' : a.tab = t
  <1>1. ~overtaken /\ Showing = {}
    BY DEF Activates, Undisturbed, Showing
  <1> DEFINE b == [tab |-> t, step |-> "ensure", previous |-> NoTab]
  <1>2. activations' = activations \cup {b} /\ b.tab = t /\ b.step # "show"
    BY DEF Activates
  <1> HIDE DEF b
  <1>3. QED
    BY <1>1, <1>2 DEF Showing

\* Whatever is seen besides the active tab's webview has someone to hide it.
LEMMA SeenInvStep == IInv /\ [Next]_vars => SeenInv'
  <1> SUFFICES ASSUME IInv, [Next]_vars PROVE SeenInv'
    OBVIOUS
  <1> USE WebviewsAssumption DEF hostVars, calls, ghosts, IInv
  <1>1. ASSUME NEW t \in Tabs, OpenTab(t) PROVE SeenInv'
    <2> SUFFICES ASSUME Undisturbed' PROVE SeenInv'
      BY DEF SeenInv
    <2>1. /\ Undisturbed /\ Showing = {} /\ Showing' = {}
          /\ \E a \in activations' : a.tab = active'
      BY <1>1, ActivatesSeen DEF OpenTab, Undisturbed, TypeOK
    <2>2. \A x \in seen : x = visible \/ native[x] = "made"
      BY <1>1, <2>1, SeenWhenIdle DEF OpenTab, Act
    <2>3. QED
      BY <1>1, <2>1, <2>2 DEF OpenTab, SeenInv, TypeOK, Reconciles, There, FreshInv
  <1>2. ASSUME NEW t \in Tabs, SwitchTab(t) PROVE SeenInv'
    <2> SUFFICES ASSUME Undisturbed' PROVE SeenInv'
      BY DEF SeenInv
    <2>1. /\ Undisturbed /\ Showing = {} /\ Showing' = {}
          /\ \E a \in activations' : a.tab = active'
      BY <1>2, ActivatesSeen DEF SwitchTab, Undisturbed, TypeOK
    <2>2. \A x \in seen : x = visible \/ native[x] = "made"
      BY <1>2, <2>1, SeenWhenIdle DEF SwitchTab, Act
    <2>3. QED
      BY <1>2, <2>1, <2>2 DEF SwitchTab, SeenInv, TypeOK
  <1>3. ASSUME NEW t \in Tabs, NEW next \in Tabs, CloseTab(t, next) PROVE SeenInv'
    <2> SUFFICES ASSUME Undisturbed' PROVE SeenInv'
      BY DEF SeenInv
    <2>1. CASE t # active
      BY <1>3, <2>1
      DEF CloseTab, Reconciles, There, TypeOK, ServedInv, SeenInv, Showing,
          Undisturbed
    <2>2. CASE t = active
      <3>1. /\ Undisturbed /\ Showing = {} /\ Showing' = {}
            /\ \E a \in activations' : a.tab = active'
        BY <1>3, <2>2, ActivatesSeen DEF CloseTab, Undisturbed, TypeOK
      <3>2. \A x \in seen : x = visible \/ native[x] = "made"
        BY <1>3, <3>1, SeenWhenIdle DEF CloseTab, Act
      <3>3. QED
        BY <1>3, <3>1, <3>2
        DEF CloseTab, Reconciles, There, TypeOK, ServedInv, SeenInv
    <2>3. QED
      BY <2>1, <2>2
  <1>4. ASSUME NEW t \in Tabs, PrewarmReturns(t) PROVE SeenInv'
    BY <1>4 DEF PrewarmReturns, TypeOK, SeenInv, Undisturbed, Showing
  <1>5. ASSUME NEW t \in Tabs, TaskCreates(t) PROVE SeenInv'
    BY <1>5
    DEF TaskCreates, TypeOK, SeenInv, Undisturbed, Showing, ServedInv, CreationInv,
        Coming
  <1>6. ASSUME NEW t \in Tabs, TaskEnds(t) PROVE SeenInv'
    BY <1>6 DEF TaskEnds, There, TypeOK, SeenInv, Undisturbed, Showing
  <1>7. ASSUME NEW t \in Tabs, NativeIsMade(t) PROVE SeenInv'
    BY <1>7 DEF NativeIsMade, TypeOK, SeenInv, Undisturbed, Showing
  <1>8. ASSUME NEW t \in Tabs, CreatedArrives(t) PROVE SeenInv'
    BY <1>8
    DEF CreatedArrives, Ready, TaskGoesOn, TypeOK, SeenInv, Undisturbed, Showing
  <1>9. ASSUME NEW t \in Tabs, HideReturns(t) PROVE SeenInv'
    BY <1>9 DEF HideReturns, Ready, TaskGoesOn, TypeOK, SeenInv, Undisturbed, Showing
  <1>10. ASSUME NEW t \in Tabs, CreationTimesOut(t) PROVE SeenInv'
    BY <1>10
    DEF CreationTimesOut, Ready, TaskGoesOn, TypeOK, SeenInv, Undisturbed, Showing
  <1>11. ASSUME NEW t \in Tabs, CreationFails(t) PROVE SeenInv'
    BY <1>11 DEF CreationFails, Ready, TypeOK, SeenInv, Undisturbed, Showing
  <1>12. ASSUME NEW r \in reconciles, ReconcileGoesOn(r) PROVE SeenInv'
    BY <1>12
    DEF ReconcileGoesOn, Activates, Ensured, TypeOK, SeenInv, Undisturbed, Showing
  <1>13. ASSUME NEW a \in activations, ActivationShows(a) PROVE SeenInv'
    <2> SUFFICES ASSUME Undisturbed' PROVE SeenInv'
      BY DEF SeenInv
    <2>1. Undisturbed
      BY <1>13 DEF ActivationShows, Undisturbed
    <2>2. a.tab = active => managed[active] = "ready" /\ native[active] = "there"
      BY <1>13, <2>1
      DEF ActivationShows, TypeOK, Settled, ServedInv, CreationInv, Coming,
          Undisturbed
    <2>3. CASE a.tab # active
      BY <1>13, <2>1, <2>3 DEF ActivationShows, TypeOK, SeenInv, Showing
    <2>4. CASE a.tab = active
      <3> DEFINE b == [tab |-> active, step |-> "show", previous |-> visible]
      <3>1. managed[active] = "ready" /\ native[active] = "there"
        BY <2>2, <2>4
      <3>2. seen' = seen \cup {active} /\ activations' = (activations \ {a}) \cup {b}
        BY <1>13, <2>1, <2>4, <3>1 DEF ActivationShows, There, TypeOK, SeenInv
      <3>3. \A c \in activations \ {a} : c.step # "show"
        BY <1>13, <2>4, <3>1 DEF ActivationShows, There, TypeOK, Undisturbed
      <3>4. Showing' = {b}
        BY <3>2, <3>3 DEF Showing
      <3>5. b.tab = active /\ b.previous = visible /\ b \in activations'
        BY <3>2
      <3>6. QED
        BY <1>13, <2>1, <3>1, <3>2, <3>4, <3>5 DEF ActivationShows, SeenInv, TypeOK
    <2>5. QED
      BY <2>3, <2>4
  <1>14. ASSUME NEW a \in activations, ActivationReturns(a) PROVE SeenInv'
    BY <1>14 DEF ActivationReturns, TypeOK, SeenInv, Undisturbed, Showing, ServedInv
  <1>15. CASE UNCHANGED vars
    BY <1>15 DEF vars, TypeOK, SeenInv, Undisturbed, Showing
  <1>16. QED
    BY <1>1, <1>2, <1>3, <1>4, <1>5, <1>6, <1>7, <1>8, <1>9, <1>10, <1>11, <1>12,
       <1>13, <1>14, <1>15 DEF Next

\* Every step preserves the invariant.
LEMMA IInvStep == IInv /\ [Next]_vars => IInv'
  BY TypeOKStep, FreshInvStep, CreationInvStep, ServedInvStep, SeenInvStep DEF IInv

(***************************************************************************)
(* The theorems.                                                           *)
(***************************************************************************)

\* Types and the invariant: how far the webview of each tab has come, and who is going
\* to close, show or hide it.
THEOREM Invariance == Spec => []IInv
  BY InitInv, IInvStep, PTL DEF Spec

\* When nothing is under way, no webview is left of a tab that was closed, unless it
\* was opened after the host had given up waiting for it.
THEOREM ClosedTabsLeaveNothing == Spec => []NothingOutlivesItsTab
  <1>1. IInv => NothingOutlivesItsTab
    BY DEF IInv, CreationInv, Coming, NothingOutlivesItsTab, Quiet, There
  <1>2. QED
    BY <1>1, Invariance, PTL

\* When nothing is under way, every open tab has its webview, unless its creation
\* failed.
THEOREM OpenTabsServed == Spec => []OpenTabsAreServed
  <1>1. IInv => OpenTabsAreServed
    BY DEF IInv, TypeOK, ServedInv, Coming, OpenTabsAreServed, Quiet, There
  <1>2. QED
    BY <1>1, Invariance, PTL

\* The active tab's webview is the only one that is seen when nothing is under way,
\* after any actions of the user that did not overtake the showing of another.
THEOREM ActiveSeenAlone == Spec => []ActiveIsSeenAlone
  <1>1. IInv => ActiveIsSeenAlone
    BY DEF IInv, TypeOK, SeenInv, Undisturbed, ActiveIsSeenAlone, Quiet
  <1>2. QED
    BY <1>1, Invariance, PTL

(***************************************************************************)
(* The draft of a webview (CommitDraft): the inductive invariant.          *)
(***************************************************************************)
TypedTexts  == {"typed"} \X Contexts
StepTexts   == {"step"} \X Contexts \X Nat
CommitTexts == {"commit"} \X Nat
Texts       == {Blank} \cup TypedTexts \cup StepTexts \cup CommitTexts
RebaseKeys  == {"rebase"} \X Contexts \X Nat \X Nat
Keys        == {NoKey} \cup RebaseKeys \cup ({"amend"} \X Nat)
Rebases     == [why : {"running", "stopped", "unpaused"} \cup Pauses, step : Nat,
                file : Nat]
Draft       == [repo : Contexts, text : Texts, key : Keys, amend : Nat,
                saved : [text : Texts, key : Keys]]
Kind        == {"create", "add", "empty", "amend"}
Submission  == [stage : {"adding", "sent"}, kind : Kind, repo : Contexts,
                into : Contexts, text : Texts, expected : Nat, mounted : BOOLEAN]
Answer      == [stage : {"made"}, repo : Contexts, mounted : BOOLEAN]
Command     == [stage : {"sent", "running", "acted"}, at : Contexts, repo : Contexts,
                key : Keys]

DraftTypeOK ==
    /\ head \in [Contexts -> Nat \ {0}]
    /\ op \in [Contexts -> {Clean} \cup Rebases]
    /\ orig \in Nat /\ rebases \in Nat /\ newest \in Nat
    /\ made \in [kind : Kind, in : Contexts, text : Texts, replaced : Nat]
                \cup {Nothing}
    /\ view \in [Contexts -> {Clean, Loading} \cup Rebases]
    /\ shown \in Contexts
    /\ box \in BOOLEAN /\ dialog \in BOOLEAN
    /\ draft \in Draft
    /\ subs \in [Submissions -> Submission \cup Answer \cup {NoSub}]
    /\ load \in [stage : {"asked"}, repo : Contexts, mounted : BOOLEAN] \cup {NoLoad}
    /\ bar \in Command \cup {NoBar}

\* One repository at most is being rebased, and then there is a commit to return to.
OrigInv ==
    \A c \in Contexts : Rebasing(op[c]) =>
        orig # 0 /\ \A d \in Contexts : Rebasing(op[d]) => c = d

\* What a draft for a new commit in c may say: nothing, what was typed for c, or what
\* a rebase offers, and then the key is that of a rebase.
Fresh(text, key, c) ==
    /\ key \in {NoKey} \cup RebaseKeys
    /\ \/ text = Blank
       \/ text = TypedIn(c)
       \/ text \in StepTexts /\ key # NoKey

\* What a draft to amend says, and what it puts aside.
TextInv(d) ==
    IF AmendMode(d)
    THEN /\ d.text = CommitText(d.amend) /\ d.key = AmendKey(d.amend)
         /\ Fresh(d.saved.text, d.saved.key, d.repo)
    ELSE Fresh(d.text, d.key, d.repo) /\ d.saved = NoSnapshot

\* A draft fits what the box is rendered with: context c, in operation o.
Fits(d, c, o) ==
    /\ d.repo = c
    /\ \A key \in {d.key, d.saved.key} : IsRebase(key) =>
          o # Clean /\ (Paused(o) => key = RebaseKey(c, o))

DraftPart ==
    /\ draft \in Draft /\ TextInv(draft)
    /\ box => Fits(draft, shown, view[shown])
    /\ dialog => box

\* A submission has what it was made from, wherever HEAD and the tab have gone since.
Submitted(b) ==
    /\ b.stage = "adding" => b.kind = "add"
    /\ IF b.kind = "amend"
       THEN b.expected # 0 /\ b.text = CommitText(b.expected)
       ELSE /\ b.expected = 0
            /\ \/ b.text \in TypedTexts /\ (b.kind # "add" => b.text = TypedIn(b.into))
               \/ b.text \in CommitTexts /\ b.kind = "empty"

SubmissionsInv ==
    \A s \in Submissions : subs[s].stage \in {"adding", "sent"} => Submitted(subs[s])

MadeInv == AmendReplacesWhatWasLoaded /\ NewCommitsHaveNewText

DraftInv == DraftTypeOK /\ OrigInv /\ DraftPart /\ SubmissionsInv /\ MadeInv

-----------------------------------------------------------------------------
(* Lemmas about the operations, the texts and the draft store. *)

\* The operations differ by what they are under way for.
LEMMA Whys ==
  /\ {"clean", "loading", "running", "stopped"} \cap Pauses = {}
  /\ Clean.why = "clean" /\ Loading.why = "loading"
  /\ ~Paused(Clean) /\ ~Rebasing(Clean) /\ ~Paused(Loading) /\ ~Rebasing(Loading)
  /\ \A o \in Rebases : Rebasing(o) /\ o.why # "clean" /\ o # Clean /\ o # Loading
  /\ Clean # Loading
  <1>1. /\ {"clean", "loading", "running", "stopped"} \cap Pauses = {}
        /\ Clean.why = "clean" /\ Loading.why = "loading"
    BY DraftAssumption DEF Clean, Loading, Operation
  <1>2. ~Paused(Clean) /\ ~Rebasing(Clean) /\ ~Paused(Loading) /\ ~Rebasing(Loading)
    BY <1>1 DEF Paused, Rebasing
  <1>3. \A o \in Rebases : Rebasing(o) /\ o.why # "clean"
    BY <1>1 DEF Rebases, Paused, Rebasing
  <1>4. QED
    BY <1>1, <1>2, <1>3

\* What the query returns is an operation.
LEMMA SeenOK ==
  ASSUME NEW o \in {Clean} \cup Rebases
  PROVE  Seen(o) \in {Clean} \cup Rebases
  <1>1. Operation("unpaused") \in Rebases
    BY DEF Operation, Rebases
  <1>2. QED
    BY <1>1 DEF Seen

\* Two texts or keys of different kinds differ.
LEMMA Kinds ==
  /\ Blank \notin TypedTexts \cup StepTexts \cup CommitTexts
  /\ TypedTexts \cap StepTexts = {}
  /\ CommitTexts \cap (TypedTexts \cup StepTexts) = {}
  /\ \A key \in RebaseKeys : IsRebase(key) /\ key # NoKey
  /\ \A key \in Keys \ RebaseKeys : ~IsRebase(key)
  /\ \A i \in Nat : /\ CommitText(i) \in CommitTexts
                    /\ AmendKey(i) \in Keys \ RebaseKeys
  /\ \A c \in Contexts : TypedIn(c) \in TypedTexts
  /\ ~IsRebase(NoKey) /\ Blank \in Texts /\ NoKey \in Keys
  <1> USE DEF Keys, RebaseKeys, StepTexts, TypedTexts, CommitTexts, Blank, NoKey, Texts
  <1>1. /\ Blank \notin TypedTexts \cup StepTexts \cup CommitTexts
        /\ Blank \in Texts /\ NoKey \in Keys
    OBVIOUS
  <1>2. /\ TypedTexts \cap StepTexts = {}
        /\ CommitTexts \cap (TypedTexts \cup StepTexts) = {}
    OBVIOUS
  <1>3. /\ \A key \in RebaseKeys : IsRebase(key) /\ key # NoKey
        /\ \A key \in Keys \ RebaseKeys : ~IsRebase(key)
        /\ ~IsRebase(NoKey)
    BY DEF IsRebase
  <1>4. \A i \in Nat : /\ CommitText(i) \in CommitTexts
                       /\ AmendKey(i) \in Keys \ RebaseKeys
    BY DEF CommitText, AmendKey
  <1>5. \A c \in Contexts : TypedIn(c) \in TypedTexts
    BY DEF TypedIn
  <1>6. QED
    BY <1>1, <1>2, <1>3, <1>4, <1>5

\* A rebase comes to its end, pauses or stops.
LEMMA OutcomesOK ==
  ASSUME NEW o \in Rebases, NEW p \in Outcomes(o)
  PROVE  p = Clean \/ p \in Rebases
  BY DraftAssumption DEF Outcomes, Rebases

\* An empty draft fits every screen.
LEMMA EmptyDraftOK ==
  ASSUME NEW c \in Contexts
  PROVE  /\ EmptyDraft(c) \in Draft /\ TextInv(EmptyDraft(c))
         /\ EmptyDraft(c).repo = c /\ ~RebaseScoped(EmptyDraft(c))
         /\ \A o : Fits(EmptyDraft(c), c, o)
  BY Kinds DEF EmptyDraft, Draft, TextInv, AmendMode, Fresh, NoSnapshot, RebaseScoped,
               Fits

\* A prefilled draft says what a rebase offers, and its key is that of the pause.
LEMMA AutofillOK ==
  ASSUME NEW d \in Draft, TextInv(d), NEW key \in RebaseKeys, NEW text \in StepTexts
  PROVE  LET e == ApplyAutofill(d, key, text)
         IN /\ e \in Draft /\ TextInv(e) /\ e.repo = d.repo
            /\ e.key = key /\ e.saved.key = NoKey
  <1>1. CASE d.key = key
    BY <1>1, Kinds DEF ApplyAutofill, TextInv, AmendMode, Draft, NoSnapshot
  <1>2. CASE d.key # key
    <2> DEFINE f == EmptyDraft(d.repo)
               e == [f EXCEPT !.key = key, !.text = text]
    <2>1. f \in Draft /\ f.repo = d.repo /\ f.saved = NoSnapshot /\ f.amend = 0
      BY EmptyDraftOK DEF Draft, EmptyDraft
    <2> HIDE DEF f
    <2>2. text \in Texts /\ key \in Keys /\ key # NoKey
      BY Kinds DEF Texts, Keys
    <2>3. e \in Draft /\ e.key = key /\ e.text = text /\ e.repo = d.repo
          /\ e.saved = NoSnapshot /\ e.amend = 0
      BY <2>1, <2>2 DEF Draft
    <2>4. ApplyAutofill(d, key, text) = e
      BY <1>2 DEF ApplyAutofill, f
    <2>5. QED
      BY <2>2, <2>3, <2>4 DEF TextInv, AmendMode, Fresh, NoSnapshot
  <1>3. QED
    BY <1>1, <1>2

\* A call that is not under way is not mounted.
LEMMA IdleOK == [NoSub EXCEPT !.mounted = FALSE] = NoSub
  <1>1. ASSUME NEW i \in [stage : {"idle"}, mounted : {FALSE}] PROVE i = NoSub
    BY DEF NoSub
  <1>2. [NoSub EXCEPT !.mounted = FALSE] \in [stage : {"idle"}, mounted : {FALSE}]
    BY DEF NoSub
  <1>3. QED
    BY <1>1, <1>2

\* The mutations of an unmounted box go on.
LEMMA UnmountedOK ==
  ASSUME NEW b \in Submission \cup Answer \cup {NoSub}
  PROVE  LET e == [b EXCEPT !.mounted = FALSE]
         IN /\ e \in Submission \cup Answer \cup {NoSub} /\ e.stage = b.stage
            /\ b.stage \in {"adding", "sent"} => (Submitted(b) => Submitted(e))
  <1> DEFINE e == [b EXCEPT !.mounted = FALSE]
  <1>1. CASE b \in Submission
    <2>1. /\ e \in Submission /\ e.stage = b.stage /\ e.kind = b.kind /\ e.into = b.into
          /\ e.text = b.text /\ e.expected = b.expected
      BY <1>1 DEF Submission
    <2> HIDE DEF e
    <2>2. Submitted(b) => Submitted(e)
      BY <2>1 DEF Submitted
    <2>3. QED
      BY <2>1, <2>2 DEF e
  <1>2. CASE b \in Answer
    BY <1>2 DEF Answer
  <1>3. CASE b = NoSub
    <2>1. e = NoSub /\ b.stage = "idle"
      BY <1>3, IdleOK DEF NoSub
    <2> HIDE DEF e
    <2>2. QED
      BY <1>3, <2>1 DEF e
  <1>4. QED
    BY <1>1, <1>2, <1>3

\* What the effects of the commit box leave fits what it is rendered with, whatever
\* the draft was.
LEMMA BoxEffectsOK ==
  ASSUME NEW d \in Draft, TextInv(d), NEW c \in Contexts,
         NEW o \in {Clean, Loading} \cup Rebases
  PROVE  LET e == BoxEffects(d, c, o)
         IN e \in Draft /\ TextInv(e) /\ Fits(e, c, o)
  <1> DEFINE f == SwitchRepo(d, c)
             e == BoxEffects(d, c, o)
  <1>1. f \in Draft /\ TextInv(f) /\ f.repo = c
    BY EmptyDraftOK DEF SwitchRepo
  <1>2. e = Prefill(f, c, o)
    BY DEF BoxEffects
  <1> HIDE DEF f, e
  <1>3. CASE Paused(o)
    <2>1. o \in Rebases
      BY <1>3, Whys
    <2>2. o.step \in Nat /\ o.file \in Nat
      BY <2>1 DEF Rebases
    <2>3. RebaseKey(c, o) \in RebaseKeys /\ Offered(c, o) \in StepTexts
      BY <2>2 DEF RebaseKey, Offered, RebaseKeys, StepTexts
    <2>4. e = ApplyAutofill(f, RebaseKey(c, o), Offered(c, o))
      BY <1>2, <1>3, <2>1, Whys DEF Prefill
    <2>5. /\ e \in Draft /\ TextInv(e) /\ e.repo = c
          /\ e.key = RebaseKey(c, o) /\ e.saved.key = NoKey
      BY <1>1, <2>3, <2>4, AutofillOK
    <2>6. o # Clean /\ ~IsRebase(NoKey)
      BY <2>1, Whys, Kinds
    <2>7. QED
      BY <2>5, <2>6 DEF Fits, e
  <1>4. CASE o = Clean
    <2>1. ~Paused(o) /\ o.why = "clean"
      BY <1>4, Whys
    <2>2. CASE RebaseScoped(f)
      <3>1. e = EmptyDraft(c)
        BY <1>1, <1>2, <2>1, <2>2 DEF Prefill, Clear
      <3>2. QED
        BY <3>1, EmptyDraftOK DEF e
    <2>3. CASE ~RebaseScoped(f)
      <3>1. e = f
        BY <1>2, <2>1, <2>3 DEF Prefill
      <3>2. ~IsRebase(f.key) /\ ~IsRebase(f.saved.key)
        BY <1>1, <2>3, Kinds DEF RebaseScoped, TextInv, NoSnapshot
      <3>3. QED
        BY <1>1, <3>1, <3>2 DEF e, Fits
    <2>4. QED
      BY <2>2, <2>3
  <1>5. CASE ~Paused(o) /\ o # Clean
    <2>1. o.why # "clean"
      BY <1>5, Whys
    <2>2. e = f
      BY <1>2, <1>5, <2>1 DEF Prefill
    <2>3. QED
      BY <1>1, <1>5, <2>2 DEF e, Fits
  <1>6. QED
    BY <1>3, <1>4, <1>5, Whys

\* Amend mode puts aside what the draft said, and cancelling brings it back.
LEMMA BeginAmendOK ==
  ASSUME NEW d \in Draft, TextInv(d), NEW i \in Nat \ {0}
  PROVE  LET e == BeginAmend(d, i)
         IN /\ e \in Draft /\ TextInv(e) /\ e.repo = d.repo
            /\ \A key \in {e.key, e.saved.key} :
                 IsRebase(key) => key \in {d.key, d.saved.key}
  <1>1. CASE AmendMode(d)
    BY <1>1 DEF BeginAmend
  <1>2. CASE ~AmendMode(d)
    <2> DEFINE e == BeginAmend(d, i)
    <2>1. CommitText(i) \in Texts /\ AmendKey(i) \in Keys
      BY Kinds DEF Texts
    <2>2. /\ e \in Draft /\ e.repo = d.repo /\ e.amend = i /\ e.key = AmendKey(i)
          /\ e.text = CommitText(i) /\ e.saved = [text |-> d.text, key |-> d.key]
      BY <1>2, <2>1 DEF BeginAmend, Draft
    <2> HIDE DEF e
    <2>3. TextInv(e)
      BY <1>2, <2>2 DEF TextInv, AmendMode
    <2>4. QED
      BY <2>2, <2>3, Kinds DEF e
  <1>3. QED
    BY <1>1, <1>2

LEMMA CancelAmendOK ==
  ASSUME NEW d \in Draft, TextInv(d), AmendMode(d)
  PROVE  LET e == CancelAmend(d)
         IN /\ e \in Draft /\ TextInv(e) /\ e.repo = d.repo
            /\ \A key \in {e.key, e.saved.key} : IsRebase(key) => key = d.saved.key
  <1> DEFINE e == CancelAmend(d)
  <1>1. /\ e \in Draft /\ e.repo = d.repo /\ e.amend = 0 /\ e.saved = NoSnapshot
        /\ e.text = d.saved.text /\ e.key = d.saved.key
    BY EmptyDraftOK DEF CancelAmend, EmptyDraft, Draft
  <1> HIDE DEF e
  <1>2. TextInv(e) /\ e.saved.key = NoKey
    BY <1>1 DEF TextInv, AmendMode, NoSnapshot
  <1>3. QED
    BY <1>1, <1>2, Kinds DEF e

-----------------------------------------------------------------------------
(* Each part of the invariant is preserved by every action. *)

\* A submission that is sent has the draft of its time.
LEMMA SubmitTypes ==
  ASSUME DraftTypeOK, NEW s \in Submissions, NEW kind \in Kind, SubmitCommit(s, kind),
         draft' \in Draft
  PROVE  DraftTypeOK'
  <1> DEFINE b == [stage |-> IF kind = "add" THEN "adding" ELSE "sent", kind |-> kind,
                   repo |-> shown, into |-> shown, text |-> draft.text,
                   expected |-> IF kind = "amend" THEN draft.amend ELSE 0,
                   mounted |-> TRUE]
  <1>1. b \in Submission
    BY DEF DraftTypeOK, Draft, Submission
  <1> HIDE DEF b
  <1>2. subs' = [subs EXCEPT ![s] = b]
    BY DEF SubmitCommit, b
  <1>3. QED
    BY <1>1, <1>2 DEF DraftTypeOK, SubmitCommit, NothingMade, Nothing

\* With no operation on display, a draft that is not an amend and says something says
\* what was typed for the repository on display.
LEMMA NewText ==
  ASSUME DraftTypeOK, DraftPart, box, ~AmendMode(draft), NEW s \in Submissions,
         NEW kind \in Kind \ {"amend"}, SubmitCommit(s, kind)
  PROVE  draft.text = TypedIn(shown)
  <1>1. view[shown] = Clean
    BY Whys DEF SubmitCommit, CanCreate, DraftTypeOK
  <1>2. ~IsRebase(draft.key) /\ draft.repo = shown
    BY <1>1 DEF DraftPart, Fits
  <1>3. draft.key = NoKey /\ draft.text # Blank
    BY <1>2, Kinds DEF DraftPart, TextInv, Fresh, SubmitCommit
  <1>4. QED
    BY <1>2, <1>3 DEF DraftPart, TextInv, Fresh

\* The draft is well formed, and fits what the commit box is rendered with.
LEMMA DraftStep == DraftInv /\ [DraftNext]_draftVars => DraftPart'
  <1> SUFFICES ASSUME DraftInv, [DraftNext]_draftVars PROVE DraftPart'
    OBVIOUS
  <1> USE DEF DraftInv, DraftPart, DraftTypeOK
  <1>1. ASSUME NEW c \in Contexts, CommitElsewhere(c) PROVE DraftPart'
    BY <1>1 DEF CommitElsewhere
  <1>2. ASSUME NEW c \in Contexts, RebaseStarts(c) PROVE DraftPart'
    BY <1>2 DEF RebaseStarts
  <1>3. ASSUME NEW c \in Contexts, RunsOn(c) PROVE DraftPart'
    BY <1>3 DEF RunsOn
  <1>4. ASSUME NEW c \in Contexts, Shows(c) PROVE DraftPart'
    <2>1. CASE box
      BY <1>4, <2>1, BoxEffectsOK DEF Shows
    <2>2. CASE ~box
      BY <1>4, <2>2 DEF Shows
    <2>3. QED
      BY <2>1, <2>2
  <1>5. CASE Refetches
    <2>1. Seen(op[shown]) \in {Clean, Loading} \cup Rebases
      BY SeenOK
    <2>2. CASE box
      BY <1>5, <2>1, <2>2, BoxEffectsOK DEF Refetches
    <2>3. CASE ~box
      BY <1>5, <2>3 DEF Refetches
    <2>4. QED
      BY <2>2, <2>3
  <1>6. CASE BoxMounts
    BY <1>6, BoxEffectsOK DEF BoxMounts
  <1>7. CASE BoxUnmounts
    BY <1>7 DEF BoxUnmounts
  <1>8. CASE Types
    <2>1. TypedIn(shown) \in Texts
      BY Kinds DEF Texts
    <2>2. ~AmendMode(draft) /\ draft.repo = shown
      BY <1>8, Kinds DEF Types, AtBox, TextInv, Draft, Fits
    <2>3. draft' = [draft EXCEPT !.text = TypedIn(shown)]
      BY <1>8 DEF Types
    <2>4. /\ draft' \in Draft /\ draft'.text = TypedIn(shown)
          /\ draft'.key = draft.key /\ draft'.repo = draft.repo
          /\ draft'.amend = draft.amend /\ draft'.saved = draft.saved
      BY <2>1, <2>3 DEF Draft
    <2>5. TextInv(draft')
      BY <2>2, <2>4 DEF TextInv, AmendMode, Fresh
    <2>6. QED
      BY <1>8, <2>4, <2>5 DEF Types, Fits
  <1>9. ASSUME NEW s \in Submissions, NEW kind \in {"create", "add", "amend"},
               Submits(s, kind)
        PROVE  DraftPart'
    BY <1>9 DEF Submits, SubmitCommit
  <1>10. ASSUME NEW s \in Submissions, ConfirmsEmpty(s) PROVE DraftPart'
    BY <1>10 DEF ConfirmsEmpty, SubmitCommit
  <1>11. ASSUME NEW s \in Submissions, AddReturns(s) PROVE DraftPart'
    BY <1>11 DEF AddReturns
  <1>12. ASSUME NEW s \in Submissions, Commit(s) PROVE DraftPart'
    BY <1>12 DEF Commit
  <1>13. ASSUME NEW s \in Submissions, CommitFails(s) PROVE DraftPart'
    BY <1>13 DEF CommitFails
  <1>14. ASSUME NEW s \in Submissions, CommitReturns(s) PROVE DraftPart'
    <2> DEFINE e == EmptyDraft(draft.repo)
    <2>1. /\ e \in Draft /\ TextInv(e)
          /\ box => Fits(e, shown, view[shown])
      BY EmptyDraftOK DEF Draft, Fits
    <2> HIDE DEF e
    <2>2. (draft' = e \/ draft' = draft) /\ UNCHANGED <<view, shown, box>>
          /\ (dialog' => dialog)
      BY <1>14 DEF CommitReturns, Clear, e
    <2>3. QED
      BY <2>1, <2>2
  <1>15. CASE AsksForEmpty
    BY <1>15 DEF AsksForEmpty, AtBox
  <1>16. CASE DismissesEmpty
    BY <1>16 DEF DismissesEmpty
  <1>17. CASE AsksToAmend
    BY <1>17 DEF AsksToAmend
  <1>18. CASE LastCommitReturns
    <2>1. head[load.repo] \in Nat \ {0}
      BY <1>18 DEF LastCommitReturns, NoLoad
    <2>2. QED
      BY <1>18, <2>1, BeginAmendOK DEF LastCommitReturns, Fits
  <1>19. CASE CancelsAmend
    BY <1>19, CancelAmendOK DEF CancelsAmend, Fits
  <1>20. CASE Presses
    BY <1>20 DEF Presses
  <1>21. CASE BarActs
    BY <1>21 DEF BarActs
  <1>22. CASE BarFails
    BY <1>22 DEF BarFails
  <1>23. CASE BarReturns
    <2> DEFINE e == EmptyDraft(draft.repo)
    <2>1. /\ e \in Draft /\ TextInv(e)
          /\ box => Fits(e, shown, view[shown])
      BY EmptyDraftOK DEF Draft, Fits
    <2> HIDE DEF e
    <2>2. (draft' = e \/ draft' = draft) /\ UNCHANGED <<view, shown, box>>
          /\ (dialog' => dialog)
      BY <1>23 DEF BarReturns, Clear, e
    <2>3. QED
      BY <2>1, <2>2
  <1>24. CASE UNCHANGED draftVars
    BY <1>24 DEF draftVars
  <1>25. QED
    BY <1>1, <1>2, <1>3, <1>4, <1>5, <1>6, <1>7, <1>8, <1>9, <1>10, <1>11, <1>12,
       <1>13, <1>14, <1>15, <1>16, <1>17, <1>18, <1>19, <1>20, <1>21, <1>22, <1>23,
       <1>24 DEF DraftNext

\* Types.
LEMMA TypesStep == DraftInv /\ [DraftNext]_draftVars => DraftTypeOK'
  <1> SUFFICES ASSUME DraftInv, [DraftNext]_draftVars PROVE DraftTypeOK'
    OBVIOUS
  <1>0. draft' \in Draft
    BY DraftStep DEF DraftPart
  <1> USE DraftAssumption, Whys DEF DraftInv, DraftTypeOK
  <1>1. ASSUME NEW c \in Contexts, CommitElsewhere(c) PROVE DraftTypeOK'
    BY <1>1, <1>0 DEF CommitElsewhere, Moves
  <1>2. ASSUME NEW c \in Contexts, RebaseStarts(c) PROVE DraftTypeOK'
    <2>1. [why |-> "running", step |-> 1, file |-> 0] \in Rebases
      BY DEF Rebases
    <2>2. QED
      BY <1>2, <1>0, <2>1 DEF RebaseStarts, Moves
  <1>3. ASSUME NEW c \in Contexts, RunsOn(c) PROVE DraftTypeOK'
    <2>1. op[c] \in Rebases
      BY <1>3 DEF RunsOn
    <2>2. op' \in [Contexts -> {Clean} \cup Rebases]
      BY <1>3, <2>1, OutcomesOK DEF RunsOn
    <2>3. bar' \in Command \cup {NoBar}
      BY <1>3 DEF RunsOn, BarIs, BarFailed, Command, NoBar
    <2>4. QED
      BY <1>3, <1>0, <2>2, <2>3 DEF RunsOn, Moves
  <1>4. ASSUME NEW c \in Contexts, Shows(c) PROVE DraftTypeOK'
    <2>1. subs' \in [Submissions -> Submission \cup Answer \cup {NoSub}]
      BY <1>4 DEF Shows, Submission, Answer, NoSub
    <2>2. QED
      BY <1>4, <1>0, <2>1 DEF Shows, NothingMade
  <1>5. CASE Refetches
    BY <1>5, <1>0, SeenOK DEF Refetches, NothingMade
  <1>6. CASE BoxMounts
    BY <1>6, <1>0 DEF BoxMounts, NothingMade
  <1>7. CASE BoxUnmounts
    <2>1. subs' \in [Submissions -> Submission \cup Answer \cup {NoSub}]
      BY <1>7, UnmountedOK DEF BoxUnmounts
    <2>2. load' \in [stage : {"asked"}, repo : Contexts, mounted : BOOLEAN]
                      \cup {NoLoad}
      <3>1. [NoLoad EXCEPT !.mounted = FALSE] = NoLoad
        BY IdleOK DEF NoLoad, NoSub
      <3>2. QED
        BY <1>7, <3>1 DEF BoxUnmounts
    <2>3. QED
      BY <1>7, <1>0, <2>1, <2>2 DEF BoxUnmounts, NothingMade
  <1>8. CASE Types
    BY <1>8, <1>0 DEF Types, NothingMade
  <1>9. ASSUME NEW s \in Submissions, NEW kind \in {"create", "add", "amend"},
               Submits(s, kind)
        PROVE  DraftTypeOK'
    <2>1. SubmitCommit(s, kind) /\ kind \in Kind
      BY <1>9 DEF Submits, Kind
    <2>2. QED
      BY <1>0, <2>1, SubmitTypes
  <1>10. ASSUME NEW s \in Submissions, ConfirmsEmpty(s) PROVE DraftTypeOK'
    <2>1. SubmitCommit(s, "empty") /\ "empty" \in Kind
      BY <1>10 DEF ConfirmsEmpty, Kind
    <2>2. QED
      BY <1>0, <2>1, SubmitTypes
  <1>11. ASSUME NEW s \in Submissions, AddReturns(s) PROVE DraftTypeOK'
    BY <1>11, <1>0 DEF AddReturns, NothingMade, Submission, Answer, NoSub
  <1>12. ASSUME NEW s \in Submissions, Commit(s) PROVE DraftTypeOK'
    <2>1. subs[s] \in Submission
      BY <1>12 DEF Commit, Answer, NoSub
    <2>2. [stage |-> "made", repo |-> subs[s].repo, mounted |-> subs[s].mounted]
            \in Answer
      BY <2>1 DEF Submission, Answer
    <2>3. made' \in [kind : Kind, in : Contexts, text : Texts, replaced : Nat]
      BY <1>12, <2>1 DEF Commit, Submission
    <2>4. head' \in [Contexts -> Nat \ {0}] /\ newest' \in Nat
      BY <1>12, <2>1 DEF Commit, Moves, Submission
    <2>5. QED
      BY <1>12, <1>0, <2>2, <2>3, <2>4 DEF Commit
  <1>13. ASSUME NEW s \in Submissions, CommitFails(s) PROVE DraftTypeOK'
    BY <1>13, <1>0 DEF CommitFails, NothingMade
  <1>14. ASSUME NEW s \in Submissions, CommitReturns(s) PROVE DraftTypeOK'
    BY <1>14, <1>0 DEF CommitReturns, NothingMade
  <1>15. CASE AsksForEmpty
    BY <1>15, <1>0 DEF AsksForEmpty, NothingMade
  <1>16. CASE DismissesEmpty
    BY <1>16, <1>0 DEF DismissesEmpty, NothingMade
  <1>17. CASE AsksToAmend
    BY <1>17, <1>0 DEF AsksToAmend, NothingMade
  <1>18. CASE LastCommitReturns
    BY <1>18, <1>0 DEF LastCommitReturns, NothingMade
  <1>19. CASE CancelsAmend
    BY <1>19, <1>0 DEF CancelsAmend, NothingMade
  <1>20. CASE Presses
    <2>1. [stage |-> "sent", at |-> shown, repo |-> draft.repo, key |-> draft.key]
            \in Command
      BY DEF Draft, Command
    <2>2. QED
      BY <1>20, <1>0, <2>1 DEF Presses, NothingMade
  <1>21. CASE BarActs
    <2>1. bar \in Command /\ bar.at \in Contexts
      BY <1>21 DEF BarActs, NoBar, Command
    <2>2. op[bar.at] \in Rebases /\ orig # 0
      BY <1>21, <2>1 DEF BarActs, OrigInv
    <2>3. CASE StepEnds
      <3> DEFINE n == IF op[bar.at].step <= Steps THEN op[bar.at].step + 1
                      ELSE op[bar.at].step
                 o == [op[bar.at] EXCEPT !.why = "running", !.step = n]
      <3>1. n \in Nat
        BY <2>2 DEF Rebases
      <3> HIDE DEF n
      <3>2. o \in Rebases
        BY <2>2, <3>1 DEF Rebases
      <3> HIDE DEF o
      <3>3. op' = [op EXCEPT ![bar.at] = o]
        BY <2>3 DEF StepEnds, o, n
      <3>4. bar' \in Command
        BY <2>1, <2>3 DEF StepEnds, BarIs, Command
      <3>5. QED
        BY <1>21, <1>0, <2>1, <2>3, <3>2, <3>3, <3>4 DEF BarActs, StepEnds, Nothing
    <2>4. CASE StepFails
      <3> DEFINE o == [op[bar.at] EXCEPT !.why = "stopped"]
      <3>1. o \in Rebases
        BY <2>2 DEF Rebases
      <3> HIDE DEF o
      <3>2. op' = [op EXCEPT ![bar.at] = o]
        BY <2>4 DEF StepFails, o
      <3>3. QED
        BY <1>21, <1>0, <2>1, <2>4, <3>1, <3>2 DEF BarActs, StepFails, BarFailed, Moves
    <2>5. CASE Aborts
      <3>1. bar' \in Command \cup {NoBar}
        BY <2>1, <2>5 DEF Aborts, BarIs, BarFailed, Command
      <3>2. QED
        BY <1>21, <1>0, <2>1, <2>2, <2>5, <3>1 DEF BarActs, Aborts
    <2>6. QED
      BY <1>21, <2>3, <2>4, <2>5 DEF BarActs
  <1>22. CASE BarFails
    BY <1>22, <1>0 DEF BarFails, BarFailed, NothingMade
  <1>23. CASE BarReturns
    BY <1>23, <1>0 DEF BarReturns, NothingMade
  <1>24. CASE UNCHANGED draftVars
    BY <1>24, <1>0 DEF draftVars
  <1>25. QED
    BY <1>1, <1>2, <1>3, <1>4, <1>5, <1>6, <1>7, <1>8, <1>9, <1>10, <1>11, <1>12,
       <1>13, <1>14, <1>15, <1>16, <1>17, <1>18, <1>19, <1>20, <1>21, <1>22, <1>23,
       <1>24 DEF DraftNext

\* The commit that an abort returns to is there while something is rebased.
LEMMA OrigStep == DraftInv /\ [DraftNext]_draftVars => OrigInv'
  <1> SUFFICES ASSUME DraftInv, [DraftNext]_draftVars PROVE OrigInv'
    OBVIOUS
  <1> USE DraftAssumption, Whys DEF DraftInv, OrigInv, DraftTypeOK
  <1>1. ASSUME NEW c \in Contexts, CommitElsewhere(c) PROVE OrigInv'
    BY <1>1 DEF CommitElsewhere
  <1>2. ASSUME NEW c \in Contexts, RebaseStarts(c) PROVE OrigInv'
    <2>1. head[c] # 0
      BY DEF RebaseStarts
    <2>2. QED
      BY <1>2, <2>1 DEF RebaseStarts
  <1>3. ASSUME NEW c \in Contexts, RunsOn(c) PROVE OrigInv'
    <2>1. op[c] \in Rebases
      BY <1>3 DEF RunsOn
    <2>2. QED
      BY <1>3, <2>1, OutcomesOK DEF RunsOn
  <1>4. ASSUME NEW c \in Contexts, Shows(c) PROVE OrigInv'
    BY <1>4 DEF Shows, NothingMade
  <1>5. CASE Refetches
    BY <1>5 DEF Refetches, NothingMade
  <1>6. CASE BoxMounts
    BY <1>6 DEF BoxMounts, NothingMade
  <1>7. CASE BoxUnmounts
    BY <1>7 DEF BoxUnmounts, NothingMade
  <1>8. CASE Types
    BY <1>8 DEF Types, NothingMade
  <1>9. ASSUME NEW s \in Submissions, NEW kind \in {"create", "add", "amend"},
               Submits(s, kind)
        PROVE  OrigInv'
    BY <1>9 DEF Submits, SubmitCommit, NothingMade
  <1>10. ASSUME NEW s \in Submissions, ConfirmsEmpty(s) PROVE OrigInv'
    BY <1>10 DEF ConfirmsEmpty, SubmitCommit, NothingMade
  <1>11. ASSUME NEW s \in Submissions, AddReturns(s) PROVE OrigInv'
    BY <1>11 DEF AddReturns, NothingMade
  <1>12. ASSUME NEW s \in Submissions, Commit(s) PROVE OrigInv'
    BY <1>12 DEF Commit
  <1>13. ASSUME NEW s \in Submissions, CommitFails(s) PROVE OrigInv'
    BY <1>13 DEF CommitFails, NothingMade
  <1>14. ASSUME NEW s \in Submissions, CommitReturns(s) PROVE OrigInv'
    BY <1>14 DEF CommitReturns, NothingMade
  <1>15. CASE AsksForEmpty
    BY <1>15 DEF AsksForEmpty, NothingMade
  <1>16. CASE DismissesEmpty
    BY <1>16 DEF DismissesEmpty, NothingMade
  <1>17. CASE AsksToAmend
    BY <1>17 DEF AsksToAmend, NothingMade
  <1>18. CASE LastCommitReturns
    BY <1>18 DEF LastCommitReturns, NothingMade
  <1>19. CASE CancelsAmend
    BY <1>19 DEF CancelsAmend, NothingMade
  <1>20. CASE Presses
    BY <1>20 DEF Presses, NothingMade
  <1>21. CASE BarActs
    <2>1. bar.at \in Contexts
      BY <1>21 DEF BarActs, NoBar, Command
    <2>2. \A c \in Contexts \ {bar.at} : ~Rebasing(op[c]) /\ op'[c] = op[c]
      BY <1>21, <2>1 DEF BarActs, StepEnds, StepFails, Aborts
    <2>3. orig # 0 /\ (orig' = orig \/ op'[bar.at] = Clean)
      BY <1>21, <2>1 DEF BarActs, StepEnds, StepFails, Aborts
    <2>4. QED
      BY <2>2, <2>3
  <1>22. CASE BarFails
    BY <1>22 DEF BarFails, NothingMade
  <1>23. CASE BarReturns
    BY <1>23 DEF BarReturns, NothingMade
  <1>24. CASE UNCHANGED draftVars
    BY <1>24 DEF draftVars
  <1>25. QED
    BY <1>1, <1>2, <1>3, <1>4, <1>5, <1>6, <1>7, <1>8, <1>9, <1>10, <1>11, <1>12,
       <1>13, <1>14, <1>15, <1>16, <1>17, <1>18, <1>19, <1>20, <1>21, <1>22, <1>23,
       <1>24 DEF DraftNext

\* Where a submission goes is settled when it is sent, and what it says before.
LEMMA SubmissionsStep == DraftInv /\ [DraftNext]_draftVars => SubmissionsInv'
  <1> SUFFICES ASSUME DraftInv, [DraftNext]_draftVars PROVE SubmissionsInv'
    OBVIOUS
  <1> USE DEF DraftInv, SubmissionsInv, DraftTypeOK
  <1>1. ASSUME NEW c \in Contexts, CommitElsewhere(c) PROVE SubmissionsInv'
    BY <1>1 DEF CommitElsewhere
  <1>2. ASSUME NEW c \in Contexts, RebaseStarts(c) PROVE SubmissionsInv'
    BY <1>2 DEF RebaseStarts
  <1>3. ASSUME NEW c \in Contexts, RunsOn(c) PROVE SubmissionsInv'
    BY <1>3 DEF RunsOn
  <1>4. ASSUME NEW c \in Contexts, Shows(c) PROVE SubmissionsInv'
    <2>1. ASSUME NEW s \in Submissions
          PROVE  \/ subs'[s] = subs[s]
                 \/ /\ subs[s].stage = "adding" /\ subs'[s].stage = "adding"
                    /\ subs'[s].kind = subs[s].kind /\ subs'[s].text = subs[s].text
                    /\ subs'[s].expected = subs[s].expected
      BY <1>4 DEF Shows, Submission, Answer, NoSub
    <2>2. QED
      BY <2>1 DEF Submitted
  <1>5. CASE Refetches
    BY <1>5 DEF Refetches
  <1>6. CASE BoxMounts
    BY <1>6 DEF BoxMounts
  <1>7. CASE BoxUnmounts
    BY <1>7, UnmountedOK DEF BoxUnmounts
  <1>8. CASE Types
    BY <1>8 DEF Types
  <1>9. ASSUME NEW s \in Submissions, NEW kind \in {"create", "add", "amend"},
               Submits(s, kind)
        PROVE  SubmissionsInv'
    <2>1. SubmitCommit(s, kind) /\ box /\ (kind = "amend" <=> AmendMode(draft))
      BY <1>9 DEF Submits, AtBox
    <2>2. kind # "amend" => draft.text = TypedIn(shown)
      BY <2>1, NewText DEF DraftPart, Kind
    <2>3. kind = "amend" => draft.amend # 0 /\ draft.text = CommitText(draft.amend)
      BY <2>1 DEF DraftPart, TextInv, AmendMode
    <2>4. /\ subs'[s].kind = kind /\ subs'[s].text = draft.text
          /\ subs'[s].into = shown
          /\ subs'[s].expected = IF kind = "amend" THEN draft.amend ELSE 0
          /\ subs'[s].stage = IF kind = "add" THEN "adding" ELSE "sent"
          /\ \A t \in Submissions \ {s} : subs'[t] = subs[t]
      BY <2>1 DEF SubmitCommit
    <2>5. Submitted(subs'[s])
      BY <2>2, <2>3, <2>4, Kinds DEF Submitted
    <2>6. QED
      BY <2>4, <2>5
  <1>10. ASSUME NEW s \in Submissions, ConfirmsEmpty(s) PROVE SubmissionsInv'
    <2>1. SubmitCommit(s, "empty") /\ box
      BY <1>10 DEF ConfirmsEmpty, DraftPart
    <2>2. draft.text = TypedIn(shown) \/ draft.text \in CommitTexts
      <3>1. CASE AmendMode(draft)
        BY <3>1, Kinds DEF DraftPart, TextInv, Draft
      <3>2. CASE ~AmendMode(draft)
        BY <2>1, <3>2, NewText DEF DraftPart, Kind
      <3>3. QED
        BY <3>1, <3>2
    <2>3. /\ subs'[s].kind = "empty" /\ subs'[s].text = draft.text
          /\ subs'[s].into = shown /\ subs'[s].expected = 0 /\ subs'[s].stage = "sent"
          /\ \A t \in Submissions \ {s} : subs'[t] = subs[t]
      BY <2>1 DEF SubmitCommit
    <2>4. Submitted(subs'[s])
      BY <2>2, <2>3, Kinds DEF Submitted
    <2>5. QED
      BY <2>3, <2>4
  <1>11. ASSUME NEW s \in Submissions, AddReturns(s) PROVE SubmissionsInv'
    <2>1. subs[s] \in Submission /\ Submitted(subs[s])
      BY <1>11 DEF AddReturns, Answer, NoSub
    <2>2. subs'[s].stage = "sent" =>
             /\ subs'[s].kind = subs[s].kind /\ subs'[s].text = subs[s].text
             /\ subs'[s].into = subs[s].into /\ subs'[s].expected = subs[s].expected
      BY <1>11, <2>1 DEF AddReturns, NoSub, Submission
    <2>3. subs'[s].stage \in {"sent", "idle"}
      BY <1>11, <2>1 DEF AddReturns, NoSub, Submission
    <2>4. \A t \in Submissions \ {s} : subs'[t] = subs[t]
      BY <1>11 DEF AddReturns
    <2>5. QED
      BY <2>1, <2>2, <2>3, <2>4 DEF Submitted
  <1>12. ASSUME NEW s \in Submissions, Commit(s) PROVE SubmissionsInv'
    BY <1>12 DEF Commit
  <1>13. ASSUME NEW s \in Submissions, CommitFails(s) PROVE SubmissionsInv'
    BY <1>13 DEF CommitFails, NoSub
  <1>14. ASSUME NEW s \in Submissions, CommitReturns(s) PROVE SubmissionsInv'
    BY <1>14 DEF CommitReturns, NoSub
  <1>15. CASE AsksForEmpty
    BY <1>15 DEF AsksForEmpty
  <1>16. CASE DismissesEmpty
    BY <1>16 DEF DismissesEmpty
  <1>17. CASE AsksToAmend
    BY <1>17 DEF AsksToAmend
  <1>18. CASE LastCommitReturns
    BY <1>18 DEF LastCommitReturns
  <1>19. CASE CancelsAmend
    BY <1>19 DEF CancelsAmend
  <1>20. CASE Presses
    BY <1>20 DEF Presses
  <1>21. CASE BarActs
    BY <1>21 DEF BarActs
  <1>22. CASE BarFails
    BY <1>22 DEF BarFails
  <1>23. CASE BarReturns
    BY <1>23 DEF BarReturns
  <1>24. CASE UNCHANGED draftVars
    BY <1>24 DEF draftVars
  <1>25. QED
    BY <1>1, <1>2, <1>3, <1>4, <1>5, <1>6, <1>7, <1>8, <1>9, <1>10, <1>11, <1>12,
       <1>13, <1>14, <1>15, <1>16, <1>17, <1>18, <1>19, <1>20, <1>21, <1>22, <1>23,
       <1>24 DEF DraftNext

\* What the last step made.
LEMMA MadeStep == DraftInv /\ [DraftNext]_draftVars => MadeInv'
  <1> SUFFICES ASSUME DraftInv, [DraftNext]_draftVars PROVE MadeInv'
    OBVIOUS
  <1> USE DEF DraftInv, MadeInv, AmendReplacesWhatWasLoaded, NewCommitsHaveNewText, Nothing
  <1>1. ASSUME NEW c \in Contexts, CommitElsewhere(c) PROVE MadeInv'
    BY <1>1 DEF CommitElsewhere
  <1>2. ASSUME NEW c \in Contexts, RebaseStarts(c) PROVE MadeInv'
    BY <1>2 DEF RebaseStarts
  <1>3. ASSUME NEW c \in Contexts, RunsOn(c) PROVE MadeInv'
    BY <1>3 DEF RunsOn
  <1>4. ASSUME NEW c \in Contexts, Shows(c) PROVE MadeInv'
    BY <1>4 DEF Shows, NothingMade
  <1>5. CASE Refetches
    BY <1>5 DEF Refetches, NothingMade
  <1>6. CASE BoxMounts
    BY <1>6 DEF BoxMounts, NothingMade
  <1>7. CASE BoxUnmounts
    BY <1>7 DEF BoxUnmounts, NothingMade
  <1>8. CASE Types
    BY <1>8 DEF Types, NothingMade
  <1>9. ASSUME NEW s \in Submissions, NEW kind \in {"create", "add", "amend"},
               Submits(s, kind)
        PROVE  MadeInv'
    BY <1>9 DEF Submits, SubmitCommit, NothingMade
  <1>10. ASSUME NEW s \in Submissions, ConfirmsEmpty(s) PROVE MadeInv'
    BY <1>10 DEF ConfirmsEmpty, SubmitCommit, NothingMade
  <1>11. ASSUME NEW s \in Submissions, AddReturns(s) PROVE MadeInv'
    BY <1>11 DEF AddReturns, NothingMade
  <1>12. ASSUME NEW s \in Submissions, Commit(s) PROVE MadeInv'
    <2> DEFINE b == subs[s]
    <2>1. b \in Submission /\ Submitted(b)
      BY <1>12 DEF Commit, DraftTypeOK, SubmissionsInv, Answer, NoSub
    <2>2. /\ made'.kind = b.kind /\ made'.in = b.into /\ made'.text = b.text
          /\ made'.replaced = head[b.into]
      BY <1>12 DEF Commit
    <2>3. b.expected # 0 => head[b.into] = b.expected
      BY <1>12 DEF Commit, Accepts
    <2> HIDE DEF b
    <2>4. /\ \A text \in TypedTexts : text[1] = "typed"
          /\ \A text \in CommitTexts : text[1] = "commit"
          /\ \A c \in Contexts : TypedIn(c)[2] = c
      BY DEF TypedTexts, CommitTexts, TypedIn
    <2>5. b.kind \in Kind /\ b.into \in Contexts
      BY <2>1 DEF Submission
    <2>6. QED
      BY <2>1, <2>2, <2>3, <2>4, <2>5 DEF Submitted, Kind
  <1>13. ASSUME NEW s \in Submissions, CommitFails(s) PROVE MadeInv'
    BY <1>13 DEF CommitFails, NothingMade
  <1>14. ASSUME NEW s \in Submissions, CommitReturns(s) PROVE MadeInv'
    BY <1>14 DEF CommitReturns, NothingMade
  <1>15. CASE AsksForEmpty
    BY <1>15 DEF AsksForEmpty, NothingMade
  <1>16. CASE DismissesEmpty
    BY <1>16 DEF DismissesEmpty, NothingMade
  <1>17. CASE AsksToAmend
    BY <1>17 DEF AsksToAmend, NothingMade
  <1>18. CASE LastCommitReturns
    BY <1>18 DEF LastCommitReturns, NothingMade
  <1>19. CASE CancelsAmend
    BY <1>19 DEF CancelsAmend, NothingMade
  <1>20. CASE Presses
    BY <1>20 DEF Presses, NothingMade
  <1>21. CASE BarActs
    BY <1>21 DEF BarActs
  <1>22. CASE BarFails
    BY <1>22 DEF BarFails, NothingMade
  <1>23. CASE BarReturns
    BY <1>23 DEF BarReturns, NothingMade
  <1>24. CASE UNCHANGED draftVars
    BY <1>24 DEF draftVars
  <1>25. QED
    BY <1>1, <1>2, <1>3, <1>4, <1>5, <1>6, <1>7, <1>8, <1>9, <1>10, <1>11, <1>12,
       <1>13, <1>14, <1>15, <1>16, <1>17, <1>18, <1>19, <1>20, <1>21, <1>22, <1>23,
       <1>24 DEF DraftNext

LEMMA DraftInitially == DraftInit => DraftInv
  <1> SUFFICES ASSUME DraftInit PROVE DraftInv
    OBVIOUS
  <1>1. Cardinality(Contexts) \in Nat
    BY DraftAssumption, FS_CardinalityType
  <1>2. shown \in Contexts /\ draft = EmptyDraft(shown) /\ dialog = FALSE
    BY DEF DraftInit
  <1>3. DraftPart
    <2>1. draft \in Draft /\ TextInv(draft) /\ Fits(draft, shown, view[shown])
      BY <1>2, EmptyDraftOK
    <2>2. box /\ ~dialog
      BY <1>2 DEF DraftInit
    <2>3. QED
      BY <2>1, <2>2 DEF DraftPart
  <1>4. DraftTypeOK
    <2>1. head \in [Contexts -> Nat \ {0}] /\ newest \in Nat /\ orig = 0 /\ rebases = 0
      BY <1>1 DEF DraftInit
    <2>2. /\ op \in [Contexts -> {Clean} \cup Rebases] /\ made = Nothing
          /\ view \in [Contexts -> {Clean, Loading} \cup Rebases]
          /\ box \in BOOLEAN /\ load = NoLoad /\ bar = NoBar
          /\ subs \in [Submissions -> Submission \cup Answer \cup {NoSub}]
      BY DEF DraftInit
    <2>3. dialog \in BOOLEAN /\ draft \in Draft
      BY <1>2, <1>3 DEF DraftPart
    <2>4. QED
      BY <1>2, <2>1, <2>2, <2>3 DEF DraftTypeOK
  <1>5. OrigInv
    BY Whys DEF DraftInit, OrigInv
  <1>6. SubmissionsInv /\ MadeInv
    BY DEF DraftInit, SubmissionsInv, NoSub, MadeInv, Nothing,
           AmendReplacesWhatWasLoaded, NewCommitsHaveNewText
  <1>7. QED
    BY <1>3, <1>4, <1>5, <1>6 DEF DraftInv

LEMMA DraftInvStep == DraftInv /\ [DraftNext]_draftVars => DraftInv'
  BY DraftStep, TypesStep, OrigStep, SubmissionsStep, MadeStep DEF DraftInv

(***************************************************************************)
(* The theorems.                                                           *)
(***************************************************************************)

\* Types and the invariant: the draft on display fits what is shown, what it says fits
\* its key, and a submission has what it was made from, through commands of the rebase
\* that fail on the way, stopped rebases and dialogs left open.
THEOREM DraftInvariance == DraftSpec => []DraftInv
  BY DraftInitially, DraftInvStep, PTL DEF DraftSpec

\* An amend replaces the very commit whose message was loaded to be amended.
THEOREM AmendsWhatWasLoaded == DraftSpec => []AmendReplacesWhatWasLoaded
  <1>1. DraftInv => AmendReplacesWhatWasLoaded
    BY DEF DraftInv, MadeInv
  <1>2. QED
    BY <1>1, DraftInvariance, PTL

\* The message of a rebase step never becomes that of a new commit. That of a loaded
\* commit does only through the dialog of an empty commit; and what was typed in
\* another repository only where files are staged first.
THEOREM NewTextForNewCommits == DraftSpec => []NewCommitsHaveNewText
  <1>1. DraftInv => NewCommitsHaveNewText
    BY DEF DraftInv, MadeInv
  <1>2. QED
    BY <1>1, DraftInvariance, PTL

\* While the commit box is on display, its draft is of the repository shown. At a pause
\* with a reason no draft of another pause is left, and none of any once the rebase is
\* gone.
THEOREM DraftOnScreen == DraftSpec => []DraftFitsTheScreen
  <1>1. DraftInv => DraftFitsTheScreen
    BY DEF DraftInv, DraftPart, Fits, DraftFitsTheScreen
  <1>2. QED
    BY <1>1, DraftInvariance, PTL

=============================================================================
