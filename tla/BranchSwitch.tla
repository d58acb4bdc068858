---------------------------- MODULE BranchSwitch ----------------------------
(***************************************************************************)
(* Switching and creating branches with uncommitted changes: the branch    *)
(* picker with its dialogs (current-branch-control.tsx), the checkout and  *)
(* create views of the action panel, the stash view (stash-poc-view.tsx)   *)
(* and the sequences of Git commands they start (branch.rs, stash.rs).     *)
(*                                                                         *)
(* Each Git command runs alone, under the lock of its repository; the      *)
(* sequences do not, so that those of several callers interleave.          *)
(* Uncommitted work is a set of changes; two changes may touch the same    *)
(* file, so that a stash applies for certain only where it was made.       *)
(***************************************************************************)
EXTENDS Naturals, Sequences, SequencesExt

CONSTANTS
  Names,          \* of branches
  Main,           \* the branch checked out at first
  Born,           \* those that exist at first
  Changes,        \* pieces of uncommitted work
  Picker, Panels, \* the callers
  MaxStashes      \* bound

ASSUME BranchAssumption ==
  /\ Born \subseteq Names /\ Main \in Born
  /\ Picker \notin Panels
  /\ MaxStashes \in Nat

VARIABLES
  head, branches,
  worktree, made,       \* the uncommitted changes; every change made so far
  stashes,              \* the first is stash@{0}
  call,                 \* what each caller has under way: it is stashing, switching
                        \* or popping, or has succeeded or failed
  dialog, chosen,       \* of the picker: the dialog and its pending choice
  dirty,                \* hasUncommittedChanges, as last fetched
  restoring,            \* the position being popped for the view
  discarding,           \* the position being dropped for the view
  discarded, kept       \* ghosts: changes dropped with a stash; a stash was left

repository == <<head, branches, worktree, made, stashes>>
picker == <<dialog, chosen>>
view == <<restoring, discarding>>
ghosts == <<discarded, kept>>
vars == <<repository, call, picker, dirty, view, ghosts>>

Callers == Panels \cup {Picker}
Strategies == {"StashOnCurrentBranch", "BringChanges", "default"}
NoDialog == [kind |-> "none", target |-> Main]
Positions == 0..MaxStashes      \* 0 for none
Idle == [at |-> "idle", creates |-> FALSE, target |-> Main, didCreateStash |-> FALSE]

Init ==
  /\ head = Main /\ branches = Born
  /\ worktree = {} /\ made = {} /\ stashes = <<>>
  /\ call = [k \in Callers |-> Idle]
  /\ dialog = NoDialog /\ chosen = "none"
  /\ dirty = FALSE
  /\ restoring = 0 /\ discarding = 0
  /\ discarded = {} /\ kept = FALSE

-----------------------------------------------------------------------------
(* The user and the queries. *)

Edit(c) ==
  /\ c \notin made
  /\ worktree' = worktree \cup {c} /\ made' = made \cup {c}
  /\ UNCHANGED <<head, branches, stashes, call, picker, dirty, view, ghosts>>

DirtyIsFetched ==
  /\ dirty' = (worktree # {})
  /\ UNCHANGED <<repository, call, picker, view, ghosts>>

\* What a dialog offers: a strategy for a worktree thought dirty.
Offered(strategy) == dirty <=> strategy # "default"

Started(k, creates, target, strategy) ==
  call' = [call EXCEPT ![k] =
             [at |-> IF strategy = "StashOnCurrentBranch" THEN "stashing" ELSE "switching",
              creates |-> creates, target |-> target, didCreateStash |-> FALSE]]

PickerIdle == call[Picker].at = "idle"

\* checkout: of the row of a branch.
PickBranch(target) ==
  /\ PickerIdle /\ dialog = NoDialog
  /\ target \in branches \ {head}
  /\ IF dirty THEN dialog' = [kind |-> "checkout", target |-> target] /\ UNCHANGED call
              ELSE Started(Picker, FALSE, target, "default") /\ UNCHANGED dialog
  /\ UNCHANGED <<repository, chosen, dirty, view, ghosts>>

PickNewBranch(target) ==
  /\ PickerIdle /\ dialog = NoDialog
  /\ dialog' = [kind |-> "create", target |-> target]
  /\ UNCHANGED <<repository, call, chosen, dirty, view, ghosts>>

\* The checkout dialog keeps offering its two strategies when the worktree is
\* found clean.
Choose(strategy) ==
  /\ PickerIdle /\ dialog # NoDialog /\ chosen = "none"
  /\ IF dialog.kind = "create" THEN Offered(strategy) ELSE strategy # "default"
  /\ chosen' = strategy
  /\ Started(Picker, dialog.kind = "create", dialog.target, strategy)
  /\ UNCHANGED <<repository, dialog, dirty, view, ghosts>>

CancelDialog ==
  /\ PickerIdle /\ dialog # NoDialog /\ chosen = "none"
  /\ dialog' = NoDialog
  /\ UNCHANGED <<repository, call, chosen, dirty, view, ghosts>>

\* The views of the action panel do not wait for their calls: a panel that was
\* left, or has closed, can be opened again and used while they run.
PanelChecksOut(k, target, strategy) ==
  /\ call[k].at = "idle"
  /\ target \in branches
  /\ Offered(strategy)
  /\ Started(k, FALSE, target, strategy)
  /\ UNCHANGED <<repository, picker, dirty, view, ghosts>>

PanelCreates(k, target, strategy) ==
  /\ call[k].at = "idle"
  /\ Offered(strategy)
  /\ Started(k, TRUE, target, strategy)
  /\ UNCHANGED <<repository, picker, dirty, view, ghosts>>

-----------------------------------------------------------------------------
(* switch and create of the branch service. *)

\* What was asked for is of no use any more.
Goes(k, at) == call' = [call EXCEPT ![k] = [Idle EXCEPT !.at = at]]

\* push_gitru_stash; "No local changes to save" makes none.
StashChanges(k) ==
  /\ call[k].at = "stashing"
  /\ Len(stashes) < MaxStashes
  /\ call' = [call EXCEPT ![k].at = "switching", ![k].didCreateStash = worktree # {}]
  /\ stashes' = IF worktree = {} THEN stashes
                ELSE <<[holds |-> worktree, on |-> head]>> \o stashes
  /\ worktree' = {}
  /\ UNCHANGED <<head, branches, made, picker, dirty, view, ghosts>>

StashFails(k) ==
  /\ call[k].at = "stashing"
  /\ Goes(k, "failed")
  /\ UNCHANGED <<repository, picker, dirty, view, ghosts>>

\* Deviation: git switch --discard-changes.
SwitchDiscards(k) ==
  /\ call[k].at = "switching"
  /\ call[k].creates <=> call[k].target \notin branches
  /\ head' = call[k].target
  /\ branches' = branches \cup {call[k].target}
  /\ worktree' = {}
  /\ kept' = (kept \/ call[k].didCreateStash)
  /\ Goes(k, "succeeded")
  /\ UNCHANGED <<made, stashes, picker, dirty, view, discarded>>

SwitchBranch(k) ==
  /\ call[k].at = "switching"
  /\ call[k].creates <=> call[k].target \notin branches
  /\ head' = call[k].target
  /\ branches' = branches \cup {call[k].target}
  /\ kept' = (kept \/ call[k].didCreateStash)
  /\ Goes(k, "succeeded")
  /\ UNCHANGED <<worktree, made, stashes, picker, dirty, view, discarded>>

\* Deviation: the rollback is missing from create.
SwitchFailsWithoutRollback(k) ==
  /\ call[k].at = "switching"
  /\ Goes(k, IF call[k].didCreateStash /\ ~call[k].creates THEN "popping" ELSE "failed")
  /\ UNCHANGED <<repository, picker, dirty, view, ghosts>>

\* No such branch, one that exists already, changes in the way, or a lock.
SwitchFails(k) ==
  /\ call[k].at = "switching"
  /\ Goes(k, IF call[k].didCreateStash THEN "popping" ELSE "failed")
  /\ UNCHANGED <<repository, picker, dirty, view, ghosts>>

Exists(position) == position \in 1..Len(stashes)

Fits(stash) == worktree = {} /\ head = stash.on

\* pop: a stash that does not apply is kept, applied in part or not at all; one
\* that is gone, before stash_ref_exists or after it, leaves everything as it is.
PopStash(position) ==
  IF ~Exists(position) THEN UNCHANGED <<worktree, stashes, kept>>
  ELSE \/ /\ worktree' = worktree \cup stashes[position].holds
          /\ stashes' = RemoveAt(stashes, position)
          /\ UNCHANGED kept
       \/ /\ ~Fits(stashes[position])
          /\ worktree' \in {worktree, worktree \cup stashes[position].holds}
          /\ kept' = TRUE
          /\ UNCHANGED stashes

\* The result of the rollback is ignored.
RollbackPops(k) ==
  /\ call[k].at = "popping"
  /\ PopStash(1)
  /\ Goes(k, "failed")
  /\ UNCHANGED <<head, branches, made, picker, dirty, view, discarded>>

-----------------------------------------------------------------------------
(* The answers: the queries are invalidated, the picker's dialog is closed,  *)
(* or offers its choices again.                                              *)

CallSucceeds(k) ==
  /\ call[k].at = "succeeded"
  /\ call' = [call EXCEPT ![k] = Idle]
  /\ dirty' = (worktree # {})
  /\ IF k = Picker THEN dialog' = NoDialog /\ chosen' = "none" ELSE UNCHANGED picker
  /\ UNCHANGED <<repository, view, ghosts>>

CallFails(k) ==
  /\ call[k].at = "failed"
  /\ call' = [call EXCEPT ![k] = Idle]
  /\ chosen' = IF k = Picker THEN "none" ELSE chosen
  /\ UNCHANGED <<repository, dialog, dirty, view, ghosts>>

-----------------------------------------------------------------------------
(* The stash view: a stash is named by the position it had when it was     *)
(* listed, which is not asked again before the command.                    *)

Restore(position) ==
  /\ Exists(position) /\ restoring = 0
  /\ restoring' = position
  /\ UNCHANGED <<repository, call, picker, dirty, discarding, ghosts>>

RestorePops ==
  /\ restoring # 0
  /\ PopStash(restoring)
  /\ restoring' = 0
  /\ UNCHANGED <<head, branches, made, call, picker, dirty, discarding,
                 discarded>>

Discard(position) ==
  /\ Exists(position) /\ discarding = 0
  /\ discarding' = position
  /\ UNCHANGED <<repository, call, picker, dirty, restoring, ghosts>>

\* git stash drop
DropStash ==
  /\ discarding # 0
  /\ IF Exists(discarding)
     THEN /\ discarded' = discarded \cup stashes[discarding].holds
          /\ stashes' = RemoveAt(stashes, discarding)
     ELSE UNCHANGED <<discarded, stashes>>
  /\ discarding' = 0
  /\ UNCHANGED <<head, branches, worktree, made, call, picker, dirty, restoring, kept>>

-----------------------------------------------------------------------------
Advance(k) ==
  \/ StashChanges(k) \/ StashFails(k) \/ SwitchBranch(k) \/ SwitchFails(k)
  \/ RollbackPops(k) \/ CallSucceeds(k) \/ CallFails(k)

ViewStep ==
  \/ \E position \in Positions : Restore(position) \/ Discard(position)
  \/ RestorePops \/ DropStash

Next ==
  \/ \E c \in Changes : Edit(c)
  \/ DirtyIsFetched
  \/ \E target \in Names : PickBranch(target) \/ PickNewBranch(target)
  \/ \E strategy \in Strategies : Choose(strategy)
  \/ CancelDialog
  \/ \E k \in Panels, target \in Names, strategy \in Strategies :
       PanelChecksOut(k, target, strategy) \/ PanelCreates(k, target, strategy)
  \/ \E k \in Callers : Advance(k)
  \/ ViewStep

Spec == Init /\ [][Next]_vars

-----------------------------------------------------------------------------
Held == UNION {stashes[n].holds : n \in DOMAIN stashes}

\* A change is never lost: it is in the worktree or in a stash, unless the user
\* had a stash discarded that held it - however the stashing, switching, popping
\* and dropping of several callers interleave (branch.rs:218-358, stash.rs:152).
NothingIsLost == made \subseteq worktree \cup Held \cup discarded

\* The rollbacks add up: once every call is over, if no switch that stashed
\* succeeded, no stash was discarded and none refused to apply, all the changes
\* are in the worktree, although pop(None) takes whatever stash is first by then
\* (branch.rs:262-264, 319-321).
RollbacksAddUp ==
  (/\ \A k \in Callers : call[k].at = "idle"
   /\ ~kept /\ discarded = {})
  => worktree = made
=============================================================================
