----------------------------- MODULE TabWebviews -----------------------------
(***************************************************************************)
(* The native webviews that show the tabs (webview-tab-host.tsx): one per  *)
(* open tab, made ahead for the tabs in the background, of which only the  *)
(* active tab's is to be seen.  The functions of the host are asynchronous *)
(* and run interleaved: each action below is the code between two awaits.  *)
(* What only waits for a promise that is settled goes on before the next   *)
(* event, be it the user's, the timer's or the return of a native call.    *)
(*                                                                         *)
(* A call that shows, hides or closes a webview takes effect when it is    *)
(* made and returns later.  The order of the tabs, the bounds of the       *)
(* webviews and the reload of the host component itself are left out.      *)
(***************************************************************************)
EXTENDS Naturals, FiniteSets

CONSTANTS Tabs, FirstTab, NoTab, MaxActs

ASSUME WebviewsAssumption == FirstTab \in Tabs /\ NoTab \notin Tabs

VARIABLES
  tabs, active,     \* of the application store
  live, desired,    \* liveTabIds, desiredActiveTabId
  visible,          \* visibleTabId
  managed,          \* managedWebviews: for each tab, is its entry ready?
  task,             \* the ensureTabWebview in flight for each tab
  native,           \* the webview of each tab
  seen,             \* the webviews that are to be seen
  activations,      \* the calls of activateTabWebview under way, each in
                    \* ensureTabWebview or in show()
  prewarms,         \* the tabs in the background that reconcile waits for
  reconciles,       \* the calls of reconcileTabWebviews under way
  opened, acts,     \* ghosts: the tabs ever opened, the user's actions
  late, failed,     \* ghosts: creations that outlasted the timeout, that failed
  overtaken         \* ghost: an activation began while another was showing

hostVars == <<tabs, active, opened, acts>>
calls == <<activations, prewarms, reconciles>>
ghosts == <<late, failed, overtaken>>
vars == <<hostVars, live, desired, visible, managed, task, native, seen, calls,
          ghosts>>

Init ==
  /\ tabs = {FirstTab} /\ active = FirstTab /\ opened = {FirstTab} /\ acts = 0
  /\ live = {FirstTab} /\ desired = FirstTab /\ visible = NoTab
  /\ managed = [t \in Tabs |-> "none"]
  /\ task = [t \in Tabs |-> IF t = FirstTab THEN "lookup" ELSE "none"]
  /\ native = [t \in Tabs |-> "none"] /\ seen = {}
  /\ activations = {[tab |-> FirstTab, step |-> "ensure", previous |-> NoTab]}
  /\ prewarms = {} /\ reconciles = {[tabs |-> {FirstTab}, closing |-> FALSE]}
  /\ late = {} /\ failed = {} /\ overtaken = FALSE

There(t) == native[t] \in {"made", "hiding", "there"}

\* ensureTabWebview: an entry or a task in flight is waited for.
Ensured(ts) ==
  [t \in Tabs |-> IF t \in ts /\ managed[t] = "none" /\ task[t] = "none"
                  THEN "lookup" ELSE task[t]]
\* What a caller waits for; it finds no entry if none is managed by then.
Settled(t) == task[t] \notin {"lookup", "wait"} /\ managed[t] # "pending"

\* Some code waits for nothing but its turn.
Runnable ==
  \/ \E t \in Tabs : task[t] = "checked" \/ (t \in prewarms /\ Settled(t))
  \/ \E a \in activations : a.step = "ensure" /\ Settled(a.tab)
  \/ \E r \in reconciles : ~r.closing

-----------------------------------------------------------------------------
(* The effects of the component *)

\* activateTabWebview, up to its first await
Activates(t) ==
  /\ desired' = t
  /\ activations' = activations \cup
       {[tab |-> t, step |-> "ensure", previous |-> NoTab]}
  /\ overtaken' = (overtaken \/ \E a \in activations : a.step = "show")

\* reconcileTabWebviews, up to the end of its first await: webviews of closed
\* tabs are closed.
Reconciles(ts) ==
  LET stale == {t \in Tabs \ ts : managed[t] # "none"}
  IN /\ live' = ts
     /\ managed' = [t \in Tabs |-> IF t \in stale THEN "none" ELSE managed[t]]
     /\ visible' = IF visible \in stale THEN NoTab ELSE visible
     /\ native' = [t \in Tabs |-> IF t \in stale /\ There(t)
                                  THEN "closed" ELSE native[t]]
     /\ seen' = seen \ stale
     \* The close of a webview that is not there yet fails, and the rest of the
     \* call with it.
     /\ reconciles' = IF \A t \in stale : There(t)
                      THEN reconciles \cup {[tabs |-> ts, closing |-> stale # {}]}
                      ELSE reconciles

Act == ~Runnable /\ acts < MaxActs /\ acts' = acts + 1

OpenTab(t) ==
  /\ Act /\ t \notin opened
  /\ tabs' = tabs \cup {t} /\ active' = t /\ opened' = opened \cup {t}
  /\ Activates(t) /\ Reconciles(tabs')
  /\ task' = Ensured({t})
  /\ UNCHANGED <<prewarms, late, failed>>

SwitchTab(t) ==
  /\ Act /\ t \in tabs \ {active}
  /\ active' = t /\ Activates(t) /\ live' = live \cup {t}
  /\ task' = Ensured({t})
  /\ UNCHANGED <<tabs, opened, visible, managed, native, seen, prewarms, reconciles,
                 late, failed>>

\* Another tab takes over from an active one that is closed.
CloseTab(t, next) ==
  /\ Act /\ t \in tabs /\ next \in tabs \ {t}
  /\ t # active => next = active
  /\ tabs' = tabs \ {t} /\ active' = next
  /\ IF t = active THEN Activates(next)
                   ELSE UNCHANGED <<desired, activations, overtaken>>
  /\ Reconciles(tabs')
  /\ task' = IF t = active THEN Ensured({next}) ELSE task
  /\ UNCHANGED <<opened, prewarms, late, failed>>

-----------------------------------------------------------------------------
(* reconcileTabWebviews after its first await, with the tabs it was called
   with and the tab desired by now *)

ReconcileGoesOn(r) ==
  /\ r.closing => ~Runnable
  /\ reconciles' = reconciles \ {r}
  /\ task' = Ensured(r.tabs)
  /\ prewarms' = prewarms \cup (r.tabs \ {desired})
  /\ IF desired \in r.tabs
     THEN Activates(desired) /\ live' = live \cup {desired}
     ELSE UNCHANGED <<desired, activations, overtaken, live>>
  /\ UNCHANGED <<hostVars, visible, managed, native, seen, late, failed>>

\* hideUnlessActive; the activation was called before and goes on first.
PrewarmReturns(t) ==
  /\ t \in prewarms /\ Settled(t)
  /\ \A a \in activations :
       a.tab = desired /\ a.step = "ensure" => ~Settled(a.tab)
  /\ prewarms' = prewarms \ {t}
  /\ seen' = IF managed[t] = "ready" /\ t # desired THEN seen \ {t} ELSE seen
  /\ UNCHANGED <<hostVars, live, desired, visible, managed, task, native, activations,
                 reconciles, ghosts>>

-----------------------------------------------------------------------------
(* activateTabWebview after its awaits *)

\* Showing a webview that is not there fails.
ActivationShows(a) ==
  /\ a \in activations /\ a.step = "ensure" /\ Settled(a.tab)
  /\ LET others == activations \ {a}
         ok == managed[a.tab] = "ready" /\ desired = a.tab /\ There(a.tab)
         previous == IF visible # NoTab /\ managed[visible] # "none"
                     THEN visible ELSE NoTab
     IN IF ok
        THEN /\ seen' = seen \cup {a.tab}
             /\ activations' = others \cup
                  {[tab |-> a.tab, step |-> "show", previous |-> previous]}
             /\ overtaken' = (overtaken \/ \E b \in others : b.step = "show")
        ELSE activations' = others /\ UNCHANGED <<seen, overtaken>>
  /\ UNCHANGED <<hostVars, live, desired, visible, managed, task, native, prewarms,
                 reconciles, late, failed>>

\* Deviation: what was visible before is not hidden.
ActivationReturnsOver(a) ==
  /\ ~Runnable /\ a \in activations /\ a.step = "show"
  /\ visible' = a.tab
  /\ activations' = activations \ {a}
  /\ UNCHANGED <<hostVars, live, desired, managed, task, native, seen, prewarms,
                 reconciles, ghosts>>

ActivationReturns(a) ==
  /\ ~Runnable /\ a \in activations /\ a.step = "show"
  /\ visible' = a.tab
  /\ seen' = IF a.previous # a.tab THEN seen \ {a.previous} ELSE seen
  /\ activations' = activations \ {a}
  /\ UNCHANGED <<hostVars, live, desired, managed, task, native, prewarms, reconciles,
                 ghosts>>

-----------------------------------------------------------------------------
(* ensureTabWebview after its awaits *)

\* No webview has the label of a tab that none is managed for; one is asked
\* for, and the entry waits for it.
TaskCreates(t) ==
  /\ ~Runnable /\ task[t] = "lookup"
  /\ task' = [task EXCEPT ![t] = "wait"]
  /\ managed' = [managed EXCEPT ![t] = "pending"]
  /\ native' = [native EXCEPT ![t] = "asked"]
  /\ UNCHANGED <<hostVars, live, desired, visible, seen, calls, ghosts>>

\* A new webview is to be seen until it is hidden.
NativeIsMade(t) ==
  /\ ~Runnable /\ native[t] = "asked"
  /\ native' = [native EXCEPT ![t] = "made"]
  /\ seen' = seen \cup {t}
  /\ UNCHANGED <<hostVars, live, desired, visible, managed, task, calls, ghosts>>

Ready(t) == [managed EXCEPT ![t] = IF @ = "pending" THEN "ready" ELSE @]
TaskGoesOn(t) == [task EXCEPT ![t] = IF @ = "wait" THEN "checked" ELSE @]

\* tauri://created; a webview that is hidden is ready when that has returned.
CreatedArrives(t) ==
  /\ ~Runnable /\ native[t] = "made"
  /\ IF t = desired
     THEN /\ native' = [native EXCEPT ![t] = "there"]
          /\ managed' = Ready(t) /\ task' = TaskGoesOn(t)
          /\ UNCHANGED seen
     ELSE /\ native' = [native EXCEPT ![t] = "hiding"]
          /\ seen' = seen \ {t}
          /\ UNCHANGED <<managed, task>>
  /\ UNCHANGED <<hostVars, live, desired, visible, calls, ghosts>>

HideReturns(t) ==
  /\ ~Runnable /\ native[t] = "hiding"
  /\ native' = [native EXCEPT ![t] = "there"]
  /\ managed' = Ready(t) /\ task' = TaskGoesOn(t)
  /\ UNCHANGED <<hostVars, live, desired, visible, seen, calls, ghosts>>

\* The creation outlasts CREATE_TIMEOUT_MS.
CreationTimesOut(t) ==
  /\ ~Runnable /\ task[t] = "wait"
  /\ managed' = Ready(t) /\ task' = TaskGoesOn(t)
  /\ late' = IF native[t] = "closed" THEN late ELSE late \cup {t}
  /\ UNCHANGED <<hostVars, live, desired, visible, native, seen, calls, failed,
                 overtaken>>

\* tauri://error: there is nothing to recover or to close, the close fails, and
\* the entry stays.
CreationFails(t) ==
  /\ ~Runnable /\ native[t] = "asked"
  /\ native' = [native EXCEPT ![t] = "none"]
  /\ managed' = Ready(t)
  /\ task' = [task EXCEPT ![t] = IF @ = "wait" THEN "none" ELSE @]
  /\ failed' = failed \cup {t}
  /\ UNCHANGED <<hostVars, live, desired, visible, seen, calls, late, overtaken>>

\* Deviation: whether the tab is still open is not looked at.
TaskEndsUnchecked(t) ==
  /\ task[t] = "checked"
  /\ task' = [task EXCEPT ![t] = "none"]
  /\ UNCHANGED <<hostVars, live, desired, visible, managed, native, seen, calls,
                 ghosts>>

\* Deviation: every tab but the one desired counts as closed.
TaskEndsInBackground(t) ==
  LET close == t # desired
  IN /\ task[t] = "checked"
     /\ task' = [task EXCEPT ![t] = "none"]
     /\ native' = IF close /\ There(t) THEN [native EXCEPT ![t] = "closed"] ELSE native
     /\ seen' = IF close THEN seen \ {t} ELSE seen
     /\ managed' = IF close /\ There(t) THEN [managed EXCEPT ![t] = "none"] ELSE managed
     /\ UNCHANGED <<hostVars, live, desired, visible, calls, ghosts>>

\* A webview whose tab was closed during its creation is closed again.
TaskEnds(t) ==
  LET close == t \notin live
  IN /\ task[t] = "checked"
     /\ task' = [task EXCEPT ![t] = "none"]
     /\ native' = IF close /\ There(t) THEN [native EXCEPT ![t] = "closed"] ELSE native
     /\ seen' = IF close THEN seen \ {t} ELSE seen
     \* The entry goes only when the close succeeds.
     /\ managed' = IF close /\ There(t) THEN [managed EXCEPT ![t] = "none"]
                   ELSE managed
     /\ UNCHANGED <<hostVars, live, desired, visible, calls, ghosts>>

-----------------------------------------------------------------------------
Next ==
  \/ \E t \in Tabs :
       \/ OpenTab(t) \/ SwitchTab(t) \/ \E next \in Tabs : CloseTab(t, next)
       \/ PrewarmReturns(t)
       \/ TaskCreates(t) \/ TaskEnds(t)
       \/ NativeIsMade(t) \/ CreatedArrives(t) \/ HideReturns(t)
       \/ CreationTimesOut(t) \/ CreationFails(t)
  \/ \E r \in reconciles : ReconcileGoesOn(r)
  \/ \E a \in activations : ActivationShows(a) \/ ActivationReturns(a)

Spec == Init /\ [][Next]_vars

-----------------------------------------------------------------------------
(* Properties *)

\* Nothing is under way.
Quiet ==
  /\ activations = {} /\ prewarms = {} /\ reconciles = {}
  /\ \A t \in Tabs : task[t] = "none" /\ native[t] \notin {"asked", "made", "hiding"}

\* No webview outlives its tab, however the closing of the tab met the creation
\* of its webview; except a webview that was made after the host had given up
\* waiting for it.
NothingOutlivesItsTab ==
  Quiet => \A t \in Tabs \ tabs : There(t) => t \in late

\* Every open tab has a webview in the end, unless the creation failed.
OpenTabsAreServed ==
  Quiet => \A t \in tabs \ failed : There(t) /\ managed[t] = "ready"

\* The active tab's webview is seen, and no other, after any sequence of
\* opening, switching and closing, as long as no activation began while
\* another was being shown and no creation was late or failed.
ActiveIsSeenAlone ==
  Quiet /\ ~overtaken /\ late = {} /\ failed = {} => seen = {active}

=============================================================================
