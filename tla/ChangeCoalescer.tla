--------------------------- MODULE ChangeCoalescer ---------------------------
(****************************************************************************)
(* The debounce between the file system watcher and the rest of the         *)
(* application (crates/ipc/src/repository_watcher.rs): ChangeSink::push on  *)
(* the watcher's thread, the coalescing task, and activate/stop on the      *)
(* thread that owns the context.  The three share `pending`, a channel of   *)
(* capacity one, the `active` flag and the callback gate.                   *)
(*                                                                          *)
(* Time is one action: the quiet period of an armed worker may elapse at    *)
(* any moment.                                                              *)
(****************************************************************************)
EXTENDS Naturals

CONSTANTS
    Kinds,       \* RepositoryChangeKind
    MaxPushes    \* bound: file system events the watcher reports

ASSUME MaxPushesAssumption == MaxPushes \in Nat

VARIABLES
    pending,     \* PendingChanges.changes
    revision,    \* PendingChanges.revision
    signal,      \* wake-ups in the channel of capacity one
    ppc,         \* the watcher thread inside push
    burst,       \* the kinds it is pushing
    wpc,         \* the coalescing task
    observed,    \* its observed_revision
    batch,       \* the changes it took
    opc,         \* the owner: created, running, stopping, stopped
    touched,     \* history: pushes recorded since the worker last observed
    owed         \* history: kinds recorded while running, since the last callback

ownerVars   == <<opc>>
pusherVars  == <<ppc, burst>>
workerVars  == <<wpc, observed, batch>>
coalescerVars ==
    <<ownerVars, pusherVars, workerVars, pending, revision, signal, touched, owed>>

(* ChangeSink.active: activate stores true, stop stores false, and these    *)
(* are the steps by which the owner enters and leaves "running".            *)
Active == opc = "running"

CoalescerInit ==
    /\ pending = {}
    /\ revision = 0
    /\ signal = 0
    /\ ppc = "idle"
    /\ burst = {}
    /\ wpc = "recv"
    /\ observed = 0
    /\ batch = {}
    /\ opc = "created"
    /\ touched = 0
    /\ owed = {}

----------------------------------------------------------------------------
(* ChangeSink::push, on the thread of the notify watcher.                   *)

(* The check of `active`; the event's paths may classify to no kind at all. *)
PushBegins ==
    /\ ppc = "idle"
    /\ Active
    /\ revision < MaxPushes
    /\ \E kinds \in SUBSET Kinds : burst' = kinds
    /\ ppc' = "checked"
    /\ UNCHANGED <<ownerVars, workerVars, pending, revision, signal, touched, owed>>

(* The section under the pending lock. *)
PushRecords ==
    /\ ppc = "checked"
    /\ pending' = pending \cup burst
    /\ IF burst = {}
       THEN /\ ppc' = "idle"
            /\ UNCHANGED <<revision, touched>>
       ELSE /\ ppc' = "recorded"
            /\ revision' = revision + 1
            /\ touched' = touched + 1
    /\ owed' = IF opc = "running" THEN owed \cup burst ELSE owed
    /\ UNCHANGED <<ownerVars, workerVars, burst, signal>>

(* Deviation: no wake-up is sent to a task that is awake. *)
PushSignalsWhenAwaited ==
    /\ ppc = "recorded"
    /\ signal' = IF wpc = "recv" THEN 1 ELSE signal
    /\ ppc' = "idle"
    /\ UNCHANGED <<ownerVars, workerVars, burst, pending, revision, touched, owed>>

(* try_send on the channel of capacity one. *)
PushSignals ==
    /\ ppc = "recorded"
    /\ signal' = 1
    /\ ppc' = "idle"
    /\ UNCHANGED <<ownerVars, workerVars, burst, pending, revision, touched, owed>>

----------------------------------------------------------------------------
(* The coalescing task *)

(* recv() outside or inside the debounce.  The inner select! is biased, so  *)
(* it polls the channel first; a signal sent between its two polls still    *)
(* loses to the quiet period, and the model lets either come first.         *)
WorkerArms ==
    /\ wpc \in {"recv", "armed"}
    /\ signal = 1
    /\ signal' = 0
    /\ wpc' = "arming"
    /\ UNCHANGED <<ownerVars, pusherVars, observed, batch, pending, revision,
                   touched, owed>>

WorkerObserves ==
    /\ wpc = "arming"
    /\ observed' = revision
    /\ touched' = 0
    /\ wpc' = "armed"
    /\ UNCHANGED <<ownerVars, pusherVars, batch, pending, revision, signal, owed>>

(* Deviation: a batch that is not settled is dropped. *)
QuietElapsesForgetful ==
    /\ wpc = "armed"
    /\ pending' = {}
    /\ IF revision = observed
       THEN /\ batch' = pending
            /\ wpc' = IF pending = {} THEN "recv" ELSE "taken"
            /\ UNCHANGED <<observed, touched>>
       ELSE /\ observed' = revision
            /\ touched' = 0
            /\ UNCHANGED <<batch, wpc>>
    /\ UNCHANGED <<ownerVars, pusherVars, revision, signal, owed>>

(* The quiet period elapses: take the changes if none was recorded since    *)
(* the worker armed, else observe again and re-arm.                         *)
QuietElapses ==
    /\ wpc = "armed"
    /\ IF revision = observed
       THEN /\ batch' = pending
            /\ pending' = {}
            /\ wpc' = IF pending = {} THEN "recv" ELSE "taken"
            /\ UNCHANGED <<observed, touched>>
       ELSE /\ observed' = revision
            /\ touched' = 0
            /\ UNCHANGED <<batch, pending, wpc>>
    /\ UNCHANGED <<ownerVars, pusherVars, revision, signal, owed>>

WorkerEntersGate ==
    /\ wpc = "taken"
    /\ wpc' = "gated"
    /\ UNCHANGED <<ownerVars, pusherVars, observed, batch, pending, revision, signal,
                   touched, owed>>

(* Deviation: `active` was looked at before the gate. *)
WorkerChecksNothing ==
    /\ wpc = "gated"
    /\ wpc' = "callback"
    /\ UNCHANGED <<ownerVars, pusherVars, observed, batch, pending, revision,
                   signal, touched, owed>>

(* The check of `active` under the gate. *)
WorkerChecksActive ==
    /\ wpc = "gated"
    /\ IF Active
       THEN wpc' = "callback" /\ UNCHANGED batch
       ELSE wpc' = "recv" /\ batch' = {}
    /\ UNCHANGED <<ownerVars, pusherVars, observed, pending, revision, signal, touched, owed>>

(* The callback returns and the gate is released. *)
CallbackReturns ==
    /\ wpc = "callback"
    /\ wpc' = "recv"
    /\ owed' = owed \ (batch \ pending)
    /\ batch' = {}
    /\ UNCHANGED <<ownerVars, pusherVars, observed, pending, revision, signal, touched>>

(* An aborted task ends at its next await. *)
WorkerAborts ==
    /\ opc = "stopped"
    /\ wpc \in {"recv", "armed"}
    /\ wpc' = "dead"
    /\ UNCHANGED <<ownerVars, pusherVars, observed, batch, pending, revision,
                   signal, touched, owed>>

----------------------------------------------------------------------------
(* The owner: activate, and stop (also run by Drop, so a coalescer that was *)
(* never activated is stopped too).                                         *)

Activate ==
    /\ opc = "created"
    /\ opc' = "running"
    /\ UNCHANGED <<pusherVars, workerVars, pending, revision, signal, touched, owed>>

StopBegins ==
    /\ opc \in {"created", "running"}
    /\ opc' = "stopping"
    /\ UNCHANGED <<pusherVars, workerVars, pending, revision, signal, touched, owed>>

StopClears ==
    /\ opc = "stopping"
    /\ pending' = {}
    /\ opc' = "cleared"
    /\ UNCHANGED <<pusherVars, workerVars, revision, signal, touched, owed>>

(* The task is between taking and releasing callback_gate. *)
GateHeld == wpc \in {"gated", "callback"}

(* stop waits for the callback gate, aborts the task and returns.           *)
StopReturns ==
    /\ opc = "cleared"
    /\ ~ GateHeld
    /\ opc' = "stopped"
    /\ UNCHANGED <<pusherVars, workerVars, pending, revision, signal, touched, owed>>

Pusher == PushBegins \/ PushRecords \/ PushSignals

Worker ==
    \/ WorkerArms \/ WorkerObserves \/ QuietElapses
    \/ WorkerEntersGate \/ WorkerChecksActive \/ CallbackReturns \/ WorkerAborts

Owner == Activate \/ StopBegins \/ StopClears \/ StopReturns

CoalescerNext == Pusher \/ Worker \/ Owner

CoalescerSpec == CoalescerInit /\ [][CoalescerNext]_coalescerVars

(* The task runs when it can and timers fire; a push that began ends; a     *)
(* stop that began ends.  Nothing obliges the file system to report events  *)
(* or the owner to activate or stop.                                        *)
Fairness ==
    /\ WF_coalescerVars(Worker)
    /\ WF_coalescerVars(PushRecords \/ PushSignals)
    /\ WF_coalescerVars(StopClears \/ StopReturns)
FairSpec == CoalescerSpec /\ Fairness

----------------------------------------------------------------------------
(* Types of the shared state, the three threads and the history.            *)
CoalescerTypeOK ==
    /\ pending \in SUBSET Kinds
    /\ revision \in Nat
    /\ signal \in 0 .. 1
    /\ ppc \in {"idle", "checked", "recorded"}
    /\ burst \in SUBSET Kinds
    /\ wpc \in {"recv", "arming", "armed", "taken", "gated", "callback", "dead"}
    /\ observed \in Nat
    /\ batch \in SUBSET Kinds
    /\ opc \in {"created", "running", "stopping", "cleared", "stopped"}
    /\ touched \in Nat
    /\ owed \in SUBSET Kinds

(* stop is a hard boundary: once it has returned, no callback runs, and so  *)
(* no event of a disposed context is emitted (repository_watcher.rs, stop). *)
NoCallbackAfterStop == opc = "stopped" => wpc # "callback"

(* While the watcher runs, a change that was recorded is in the pending set *)
(* or in the batch on its way to the callback.                              *)
NothingForgotten == opc = "running" => owed \subseteq pending \cup batch

(* No lost wake-up: while changes are pending and the task is not           *)
(* debouncing them, a wake-up is in the channel or about to be put there,   *)
(* although the channel holds one and a full channel drops the rest.        *)
PendingIsAnnounced ==
    pending # {} /\ wpc \in {"recv", "taken", "gated", "callback"} =>
        signal = 1 \/ ppc = "recorded"

(* The trailing debounce: changes are taken only after a full quiet period  *)
(* in which no further change was recorded.                                 *)
TakenWhenQuiet == [][wpc = "armed" /\ wpc' = "taken" => touched = 0]_coalescerVars

(* Every change recorded while the watcher runs reaches a callback, unless  *)
(* the watcher is stopped first.                                            *)
ChangesAreReported == \A k \in Kinds : k \in owed ~> (k \notin owed \/ opc # "running")

----------------------------------------------------------------------------
(* The inductive invariant behind the safety properties.                    *)

BatchInTransit == wpc \notin {"taken", "gated", "callback"} => batch = {}

(* The revision counts the pushes recorded while the quiet period runs.     *)
RevisionCountsPushes == wpc = "armed" => revision = observed + touched

CoalescerInv ==
    /\ CoalescerTypeOK
    /\ BatchInTransit
    /\ opc # "stopped" => wpc # "dead"
    /\ opc = "created" => owed = {}
    /\ NoCallbackAfterStop
    /\ NothingForgotten
    /\ PendingIsAnnounced
    /\ RevisionCountsPushes
==============================================================================
