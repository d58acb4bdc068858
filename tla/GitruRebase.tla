------------------------------ MODULE GitruRebase ------------------------------
(****************************************************************************)
(* The interactive rebase of crates/git/service/rebase.rs: start, continue, *)
(* skip, abort and the todo editor, run one at a time under the             *)
(* repository's command transaction, over three pieces of durable state:    *)
(* the repository, the directory .git/gitru-rebase and the autostash with   *)
(* its marker .git/gitru-autostash.                                         *)
(*                                                                          *)
(* A step is one durable write, so that an error or the end of the process  *)
(* may come between any two.  A commit is the set of planned commits whose  *)
(* changes it carries and whose message it has.                             *)
(****************************************************************************)
EXTENDS Naturals, Sequences

CONSTANTS
    Commits,      \* the commits of the branch that is rebased
    Plans,        \* RebaseStartRequest.entries the user may ask for
    Faults,       \* what may go wrong: "start", "init", "pick", "pop", "crash"
    MaxFaults     \* bound: how often it may

Actions == {"pick", "reword", "edit", "squash", "fixup", "drop"}
RebasePlanEntry == [action : Actions, commit : Commits]

(* A plan is drawn up from a revision walk (plan_rebase), which meets each   *)
(* commit once; the user changes the actions.                               *)
ListsOnce(entries) ==
    \A i, j \in DOMAIN entries : entries[i].commit = entries[j].commit => i = j

ASSUME PlansAssumption ==
    Plans \subseteq Seq(RebasePlanEntry) /\ \A p \in Plans : ListsOnce(p)
ASSUME FaultsAssumption == Faults \subseteq {"start", "init", "pick", "pop", "crash"} /\ MaxFaults \in Nat

VARIABLES
    head,         \* the history HEAD stands on
    branch,       \* the history the branch points to
    attached,     \* HEAD is the branch, not detached
    staged,       \* changes in the index that HEAD lacks
    conflicted,   \* the index has unmerged paths
    picking,      \* CHERRY_PICK_HEAD exists: repo.state() is not Clean
    work,         \* the user's uncommitted changes: "clean", "tree", "stash"
    marker,       \* .git/gitru-autostash exists
    written,      \* how many of DirFiles exist
    named,        \* the file head-name names a branch
    todo, index,  \* the files todo and current-index
    pause,        \* the file pause-reason, or "none"
    message,      \* the file message: whose message it holds, or "none"
    pc,           \* where the running command stands; "idle" between commands
    call,         \* which command it is
    plan, idx, typed,   \* its locals: the request's entries, idx, the user's message
    faults,       \* history: faults so far
    resigned,     \* history: commits whose changes the user gave up
    onBranch      \* history: HEAD was a branch at first, not detached

repoVars    == <<head, branch, attached, staged, conflicted, picking>>
stashVars   == <<work, marker>>
dirVars     == <<written, named, todo, index, pause, message>>
callVars    == <<pc, call, plan, idx, typed>>
historyVars == <<faults, resigned, onBranch>>
vars == <<repoVars, stashVars, dirVars, callVars, historyVars>>

(* init_gitru_state makes the directory and then these files, in order.     *)
DirFiles == <<"gitru-rebase", "onto", "orig-head", "head-name", "current-index", "todo">>
DirExists   == written >= 1
HasOnto     == written >= 2
HasOrigHead == written >= 3
HasHeadName == written >= 4
HasTodo     == written >= 6

(* A history: what it stands on and the commits replayed onto that.         *)
Orig == [base |-> "orig", applied |-> <<>>]
Onto == [base |-> "onto", applied |-> <<>>]

(* The planned commits whose changes a history contains. *)
Contained(h) ==
    (IF h.base = "orig" THEN Commits ELSE {})
        \cup UNION {h.applied[i].changes : i \in DOMAIN h.applied}

Entry(i) == todo[i + 1]
Applied(e) == e.action # "drop"

(* validate_todo *)
ValidTodo(entries) ==
    LET applied == SelectSeq(entries, Applied)
    IN applied # <<>> /\ Head(applied).action \notin {"squash", "fixup"}

(* The command returns, with a result or an error; its locals are gone.     *)
Return ==
    /\ pc' = "idle"
    /\ call' = "none"
    /\ plan' = <<>>
    /\ idx' = 0
    /\ typed' = "none"

Goto(label) == pc' = label /\ UNCHANGED <<call, plan, idx, typed>>

Begin(command, label) ==
    /\ pc = "idle"
    /\ pc' = label
    /\ call' = command

Fault(kind) ==
    /\ kind \in Faults
    /\ faults < MaxFaults
    /\ faults' = faults + 1

(* Deviation: the branch follows HEAD, detached or not. *)
CommitOnBranch(msg) ==
    LET commit == [changes |-> staged, msg |-> msg]
        new == [head EXCEPT !.applied = Append(@, commit)]
    IN /\ head' = new
       /\ branch' = new
       /\ staged' = {}
       /\ picking' = FALSE
       /\ UNCHANGED <<attached, conflicted>>

(* commit_from_index: the index becomes a commit on HEAD; cleanup_state.    *)
CommitFromIndex(msg) ==
    LET commit == [changes |-> staged, msg |-> msg]
        new == [head EXCEPT !.applied = Append(@, commit)]
    IN /\ head' = new
       /\ branch' = IF attached THEN new ELSE branch
       /\ staged' = {}
       /\ picking' = FALSE
       /\ UNCHANGED <<attached, conflicted>>

Init ==
    /\ head = Orig
    /\ branch = Orig
    /\ onBranch \in BOOLEAN
    /\ attached = onBranch
    /\ staged = {}
    /\ conflicted = FALSE
    /\ picking = FALSE
    /\ work = "clean"
    /\ marker = FALSE
    /\ written = 0
    /\ named = FALSE
    /\ todo = <<>>
    /\ index = 0
    /\ pause = "none"
    /\ message = "none"
    /\ pc = "idle"
    /\ call = "none"
    /\ plan = <<>>
    /\ idx = 0
    /\ typed = "none"
    /\ faults = 0
    /\ resigned = {}

----------------------------------------------------------------------------
(* start_rebase_blocking with a plan.                                       *)

(* The user edits files while no rebase is in progress. *)
UserEdits ==
    /\ pc = "idle" /\ ~ DirExists /\ work = "clean" /\ head = Orig /\ branch = Orig
    /\ work' = "tree"
    /\ UNCHANGED <<repoVars, marker, dirVars, callVars, historyVars>>

(* The guards of start, and the stash_save of an autostash.  What has been  *)
(* rebased is not rebased again (bound).                                    *)
Start ==
    /\ ~ picking /\ ~ conflicted /\ ~ DirExists
    /\ head = Orig /\ branch = Orig
    /\ \E p \in Plans, autostash \in BOOLEAN :
        /\ autostash \/ work # "tree"
        /\ plan' = p
        /\ Begin("start", IF work = "tree" THEN "mark" ELSE "validate")
    /\ work' = IF work = "tree" THEN "stash" ELSE work
    /\ resigned' = {}
    /\ UNCHANGED <<repoVars, marker, dirVars, idx, typed, faults, onBranch>>

WriteMarker ==
    /\ pc = "mark"
    /\ marker' = TRUE
    /\ Goto("validate")
    /\ UNCHANGED <<repoVars, work, dirVars, historyVars>>

(* validate_todo and the revisions, looked at after the autostash is saved. *)
ValidatePlan ==
    /\ pc = "validate"
    /\ ValidTodo(plan)
    /\ Goto("init")
    /\ UNCHANGED <<repoVars, stashVars, dirVars, historyVars>>

(* The todo or a revision is refused: the autostash stays where it is.      *)
StartRefused ==
    /\ pc = "validate"
    /\ Fault("start")
    /\ Return
    /\ UNCHANGED <<repoVars, stashVars, dirVars, resigned, onBranch>>

(* init_gitru_state, one file at a time; head-name says so when HEAD is     *)
(* detached.                                                                *)
WriteDirFile ==
    /\ pc = "init"
    /\ written' = written + 1
    /\ named' = IF DirFiles[written'] = "head-name" THEN attached ELSE named
    /\ todo' = IF DirFiles[written'] = "todo" THEN plan ELSE todo
    /\ Goto(IF written' = Len(DirFiles) THEN "detach" ELSE "init")
    /\ UNCHANGED <<repoVars, stashVars, index, pause, message, historyVars>>

(* One of init_gitru_state's steps after create_dir_all returns an error.   *)
InitFails ==
    /\ pc \in {"init", "detach", "reset"} /\ DirExists
    /\ Fault("init")
    /\ Return
    /\ UNCHANGED <<repoVars, stashVars, dirVars, resigned, onBranch>>

(* set_head_detached: HEAD moves, the index still has the tree it had.      *)
Detach ==
    /\ pc = "detach"
    /\ head' = Onto
    /\ attached' = FALSE
    /\ staged' = staged \cup Commits
    /\ Goto("reset")
    /\ UNCHANGED <<branch, conflicted, picking, stashVars, dirVars, historyVars>>

(* The hard reset onto the new base. *)
ResetToOnto ==
    /\ pc = "reset"
    /\ staged' = {}
    /\ Goto("run")
    /\ UNCHANGED <<head, branch, attached, conflicted, picking, stashVars, dirVars,
                   historyVars>>

----------------------------------------------------------------------------
(* run_gitru_until_pause                                                    *)

(* It reads todo (an error when there is none) and current-index.           *)
RunReads ==
    /\ pc = "run"
    /\ IF HasTodo
       THEN pc' = "step" /\ idx' = index /\ UNCHANGED <<call, plan, typed>>
       ELSE Return
    /\ UNCHANGED <<repoVars, stashVars, dirVars, historyVars>>

(* The head of the loop: current-index is written for every entry, and      *)
(* again after an entry that was not dropped.                               *)
RunStep ==
    /\ pc = "step"
    /\ idx < Len(todo)
    /\ index' = idx
    /\ IF Applied(Entry(idx))
       THEN Goto("pick")
       ELSE idx' = idx + 1 /\ UNCHANGED <<pc, call, plan, typed>>
    /\ UNCHANGED <<repoVars, stashVars, written, named, todo, pause, message, historyVars>>

RunEnds ==
    /\ pc = "step"
    /\ idx >= Len(todo)
    /\ Goto("finish")
    /\ UNCHANGED <<repoVars, stashVars, dirVars, historyVars>>

(* What follows a cherry-pick without conflicts. *)
AfterPick(action) ==
    CASE action = "reword" -> "reword"
      [] action \in {"pick", "edit"} -> "commit"
      [] action \in {"squash", "fixup"} -> "meld"

(* Repository::cherrypick: the changes HEAD lacks go to the index, with or  *)
(* without conflicts.                                                       *)
CherryPick ==
    /\ pc = "pick"
    /\ staged' = staged \cup ({Entry(idx).commit} \ Contained(head))
    /\ picking' = TRUE
    /\ \/ /\ staged' # {}
          /\ conflicted' = TRUE
          /\ Goto("pauseConflict")
       \/ /\ UNCHANGED conflicted
          /\ Goto(AfterPick(Entry(idx).action))
    /\ UNCHANGED <<head, branch, attached, stashVars, dirVars, historyVars>>

(* Repository::cherrypick refuses, before it changed anything: a merge      *)
(* commit (plan_rebase lists them too), a locked index, files in the way.   *)
CherryPickFails ==
    /\ pc = "pick"
    /\ \/ Fault("pick")
       \/ staged # {} /\ UNCHANGED faults
    /\ Return
    /\ UNCHANGED <<repoVars, stashVars, dirVars, resigned, onBranch>>

(* Deviation: the pause has no reason. *)
PauseWithoutReason ==
    /\ pc = "pauseConflict"
    /\ Return
    /\ UNCHANGED <<repoVars, stashVars, dirVars, historyVars>>

PauseConflict ==
    /\ pc = "pauseConflict"
    /\ pause' = "conflict"
    /\ Return
    /\ UNCHANGED <<repoVars, stashVars, written, named, todo, index, message, historyVars>>

WriteMessage ==
    /\ pc = "reword"
    /\ message' = Entry(idx).commit
    /\ Goto("pauseReword")
    /\ UNCHANGED <<repoVars, stashVars, written, named, todo, index, pause, historyVars>>

PauseReword ==
    /\ pc = "pauseReword"
    /\ pause' = "reword"
    /\ Return
    /\ UNCHANGED <<repoVars, stashVars, written, named, todo, index, message, historyVars>>

(* commit_cherrypick, with the commit's own message. *)
CommitPick ==
    /\ pc = "commit"
    /\ CommitFromIndex(Entry(idx).commit)
    /\ Goto(IF Entry(idx).action = "edit" THEN "pauseEdit" ELSE "advance")
    /\ UNCHANGED <<stashVars, dirVars, historyVars>>

PauseEdit ==
    /\ pc = "pauseEdit"
    /\ pause' = "edit"
    /\ Return
    /\ UNCHANGED <<repoVars, stashVars, written, named, todo, index, message, historyVars>>

(* Squash and fixup replace HEAD's commit.  On the rebase base the code     *)
(* refuses; elsewhere Repository::commit does, since it updates HEAD only   *)
(* to a commit whose first parent is HEAD (libgit2's rule for update_ref),  *)
(* and the replacement has HEAD's parents.                                  *)
Meld ==
    /\ pc = "meld"
    /\ Return
    /\ UNCHANGED <<repoVars, stashVars, dirVars, historyVars>>

Advance ==
    /\ pc = "advance"
    /\ index' = idx + 1
    /\ idx' = idx + 1
    /\ pc' = "step"
    /\ UNCHANGED <<repoVars, stashVars, written, named, todo, pause, message, call, plan,
                   typed, historyVars>>

----------------------------------------------------------------------------
(* finish_gitru, and what abort shares with it                              *)

MoveBranch ==
    /\ pc = "finish"
    /\ named
    /\ branch' = head
    /\ Goto("attach")
    /\ UNCHANGED <<head, attached, staged, conflicted, picking, stashVars, dirVars,
                   historyVars>>

(* A rebase that began on a detached HEAD has no branch to move. *)
StayDetached ==
    /\ pc = "finish"
    /\ ~ named
    /\ Goto("removeDir")
    /\ UNCHANGED <<repoVars, stashVars, dirVars, historyVars>>

(* set_head: HEAD becomes the branch, and stands on its history.            *)
Attach ==
    /\ pc = "attach"
    /\ attached' = TRUE
    /\ head' = branch
    /\ Goto("removeDir")
    /\ UNCHANGED <<branch, staged, conflicted, picking, stashVars, dirVars, historyVars>>

RemoveDir ==
    /\ pc = "removeDir"
    /\ written' = 0
    /\ named' = FALSE
    /\ todo' = <<>>
    /\ index' = 0
    /\ pause' = "none"
    /\ message' = "none"
    /\ picking' = (picking /\ call # "abort")
    /\ Goto("restore")
    /\ UNCHANGED <<head, branch, attached, staged, conflicted, stashVars, historyVars>>

(* Deviation: only an abort brings the stash back. *)
RestoreAfterAbort ==
    /\ pc = "restore"
    /\ work' = IF marker /\ call = "abort" THEN "tree" ELSE work
    /\ marker' = FALSE
    /\ Return
    /\ UNCHANGED <<repoVars, dirVars, historyVars>>

(* restore_autostash *)
Restore ==
    /\ pc = "restore"
    /\ work' = IF marker THEN "tree" ELSE work
    /\ marker' = FALSE
    /\ Return
    /\ UNCHANGED <<repoVars, dirVars, historyVars>>

(* stash_pop returns an error: the marker and the stash stay. *)
RestoreFails ==
    /\ pc = "restore"
    /\ marker
    /\ Fault("pop")
    /\ Return
    /\ UNCHANGED <<repoVars, stashVars, dirVars, resigned, onBranch>>

----------------------------------------------------------------------------
(* continue_gitru_blocking and skip_gitru_blocking, for a directory that    *)
(* get_repo_operation takes for a rebase of Gitru's (it has `onto`).        *)

(* Deviation: only a pause that was announced is answered with a commit.    *)
ContinueCommitsIfAnnounced ==
    index < Len(todo) /\ pause \in {"conflict", "reword"}

(* Whether a commit is made of the index before the rebase goes on.         *)
ContinueCommits ==
    /\ index < Len(todo)
    /\ \/ pause = "conflict"
       \/ pause \in {"reword", "none"}
          /\ Entry(index).action \in {"pick", "reword", "squash", "fixup"}

Continue ==
    /\ HasOnto /\ ~ conflicted /\ HasTodo
    /\ Begin("continue", IF ContinueCommits THEN "contCommit" ELSE "clearPause")
    /\ idx' = index
    /\ typed' \in {"none", "typed"}
    /\ UNCHANGED <<repoVars, stashVars, dirVars, plan, historyVars>>

(* The user's message, or the file's, or the commit's own. *)
ContinueMessage ==
    CASE typed # "none" -> typed
      [] typed = "none" /\ message # "none" -> message
      [] OTHER -> Entry(idx).commit

ContCommit ==
    /\ pc = "contCommit"
    /\ CommitFromIndex(ContinueMessage)
    /\ Goto("clearPause")
    /\ UNCHANGED <<stashVars, dirVars, historyVars>>

(* cleanup_state and clear_pause; the file message is left alone. *)
ClearPause ==
    /\ pc = "clearPause"
    /\ picking' = FALSE
    /\ pause' = "none"
    /\ Goto("nextIndex")
    /\ UNCHANGED <<head, branch, attached, staged, conflicted, stashVars, written, named, todo,
                   index, message, historyVars>>

(* Deviation: the entry that was answered is run again. *)
NextIndexStays ==
    /\ pc = "nextIndex"
    /\ index' = idx
    /\ Goto("run")
    /\ UNCHANGED <<repoVars, stashVars, written, named, todo, pause, message, historyVars>>

NextIndex ==
    /\ pc = "nextIndex"
    /\ index' = idx + 1
    /\ Goto("run")
    /\ UNCHANGED <<repoVars, stashVars, written, named, todo, pause, message, historyVars>>

(* The hard reset to HEAD.  A directory without todo can be skipped in only *)
(* once (bound).                                                            *)
Skip ==
    /\ HasOnto /\ index <= Len(todo)
    /\ Begin("skip", "clearPause")
    /\ staged' = {}
    /\ conflicted' = FALSE
    /\ picking' = FALSE
    /\ idx' = index
    /\ resigned' = IF index < Len(todo) /\ pause # "edit"
                   THEN resigned \cup {Entry(index).commit} ELSE resigned
    /\ UNCHANGED <<head, branch, attached, stashVars, dirVars, plan, typed, faults, onBranch>>

----------------------------------------------------------------------------
(* abort_gitru_blocking.  Without orig-head it changes nothing.             *)

AbortResets ==
    /\ HasOnto /\ HasOrigHead
    /\ Begin("abort", IF HasHeadName /\ named THEN "abortBranch" ELSE "removeDir")
    /\ head' = Orig
    /\ branch' = IF attached THEN Orig ELSE branch
    /\ staged' = {}
    /\ conflicted' = FALSE
    /\ UNCHANGED <<attached, picking, stashVars, dirVars, plan, idx, typed, historyVars>>

(* Deviation: abort trusts the branch to be where it was. *)
AbortKeepsBranch ==
    /\ pc = "abortBranch"
    /\ Goto("attach")
    /\ UNCHANGED <<repoVars, stashVars, dirVars, historyVars>>

(* The branch ref is forced back, and checked out. *)
AbortBranch ==
    /\ pc = "abortBranch"
    /\ branch' = Orig
    /\ Goto("attach")
    /\ UNCHANGED <<head, attached, staged, conflicted, picking, stashVars, dirVars,
                   historyVars>>

----------------------------------------------------------------------------
(* Between commands                                                         *)

(* The user resolves the conflict, keeping the picked change or taking      *)
(* "ours", that is HEAD's side (resolve_conflict_blocking).                 *)
ResolveConflict ==
    /\ pc = "idle" /\ conflicted
    /\ conflicted' = FALSE
    /\ \/ UNCHANGED <<staged, resigned>>
       \/ staged' = {} /\ resigned' = resigned \cup staged
    /\ UNCHANGED <<head, branch, attached, picking, stashVars, dirVars, callVars, faults,
                   onBranch>>

(* update_todo_locked, as the todo list calls it: one pending entry gets    *)
(* another action.                                                          *)
UpdateTodo ==
    /\ pc = "idle" /\ HasTodo
    /\ \E i \in index + 1 .. Len(todo) - 1, a \in Actions :
        LET new == [todo EXCEPT ![i + 1].action = a]
        IN ValidTodo(new) /\ todo' = new
    /\ UNCHANGED <<repoVars, stashVars, written, named, index, pause, message, callVars,
                   historyVars>>

(* The process ends in the middle of a command. *)
Crash ==
    /\ pc # "idle"
    /\ Fault("crash")
    /\ Return
    /\ UNCHANGED <<repoVars, stashVars, dirVars, resigned, onBranch>>

Sequencer ==
    \/ WriteMarker \/ ValidatePlan \/ WriteDirFile \/ Detach \/ ResetToOnto
    \/ RunReads \/ RunStep \/ RunEnds \/ CherryPick
    \/ PauseConflict \/ WriteMessage \/ PauseReword \/ CommitPick \/ PauseEdit \/ Meld
    \/ Advance \/ MoveBranch \/ StayDetached \/ Attach \/ RemoveDir \/ Restore
    \/ ContCommit \/ ClearPause \/ NextIndex \/ AbortBranch

Failure == StartRefused \/ InitFails \/ CherryPickFails \/ RestoreFails \/ Crash

User ==
    \/ UserEdits \/ Start \/ Continue \/ Skip \/ AbortResets
    \/ ResolveConflict \/ UpdateTodo

Next == Sequencer \/ Failure \/ User

Spec == Init /\ [][Next]_vars

(* A command that runs gets to its end, and a user who started a rebase     *)
(* resolves its conflicts and continues it.                                 *)
Fairness ==
    /\ WF_vars(Sequencer)
    /\ WF_vars(ResolveConflict)
    /\ WF_vars(Continue)
FairSpec == Spec /\ Fairness

----------------------------------------------------------------------------
(* Nothing has failed so far: what some properties are restricted to.       *)
Faultless == faults = 0

(* Where the history has a replayed change: not at its empty commits.       *)
Replayed == {i \in DOMAIN head.applied : head.applied[i].changes # {}}
(* What the todo asks for, without what the user skipped or resolved away.  *)
Wanted == {i \in DOMAIN todo : Applied(todo[i]) /\ todo[i].commit \notin resigned}

(* When the todo is through, HEAD carries every change the todo keeps, once  *)
(* each and in the order of the todo, on top of the new base: each commit   *)
(* has the change of one entry, and it may have those of the squash and     *)
(* fixup entries that follow it.  Whether such an entry is melded is left   *)
(* open on purpose.  The comments of rebase.rs (898, 910, 928) and the hint *)
(* "Meld into previous" of rebase-todo-list.tsx:22 say that it is; but the  *)
(* commit that would do it is refused (see Meld), and the user's Continue   *)
(* then makes a commit of its own.                                          *)
EveryChangeReplayed ==
    pc = "finish" /\ Faultless =>
        /\ head.base = "onto"
        /\ staged = {}
        /\ \E place \in [Wanted -> Replayed] :
            /\ \A r \in Replayed : head.applied[r].changes =
                    {todo[i].commit : i \in {w \in Wanted : place[w] = r}}
            /\ \A i, j \in Wanted : i < j =>
                    \/ place[i] < place[j]
                    \/ place[i] = place[j] /\ todo[j].action \in {"squash", "fixup"}

(* Whatever fails or crashes, while HEAD is detached the branch never names *)
(* a half-replayed history: it has moved only when nothing of the todo is   *)
(* left to apply, and not at all when HEAD was detached from the start.     *)
BranchMovesLast ==
    ~ attached /\ branch # Orig =>
        onBranch /\ \A i \in index .. Len(todo) - 1 : Entry(i).action = "drop"

(* Abort, from any state errors and crashes leave behind, puts HEAD, branch *)
(* and index back before the autostash is restored, and HEAD on the branch  *)
(* if that is where it was.                                                 *)
AbortRestores ==
    call = "abort" /\ pc = "restore" =>
        /\ (attached <=> onBranch) /\ head = Orig /\ branch = Orig
        /\ staged = {} /\ ~ conflicted /\ ~ picking

(* The autostash is out only while its rebase is in progress, or after a    *)
(* failure: a start that is refused once it has stashed counts as one.      *)
AutostashReturned ==
    pc = "idle" /\ ~ DirExists /\ Faultless => work # "stash"

(* A pause that awaits an answer says why: while the index holds a change   *)
(* HEAD lacks, Continue makes a commit of it before it goes on.             *)
PausedChangeIsCommitted ==
    pc = "idle" /\ DirExists /\ Faultless /\ staged # {} => ContinueCommits

(* A user who keeps resolving and continuing gets to the end of the rebase. *)
EveryRebaseEnds == (DirExists /\ Faultless) ~> ~ (DirExists /\ Faultless)
==============================================================================
