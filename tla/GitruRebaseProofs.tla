--------------------------- MODULE GitruRebaseProofs ---------------------------
(****************************************************************************)
(* For any commits, plans and faults.                                       *)
(*                                                                          *)
(* Whatever fails, and wherever the process ends: an abort that gets to its *)
(* end has put everything back, and the branch is moved last.  The          *)
(* invariant relates what the directory says to where HEAD and the branch   *)
(* are, for every place a command can stop at.                              *)
(*                                                                          *)
(* As long as nothing fails: every change of the todo is replayed once and  *)
(* in order, a pause is answered with a commit, and the autostash comes     *)
(* back.  The invariant matches the replayed commits with the entries that  *)
(* are done so far.                                                         *)
(****************************************************************************)
EXTENDS GitruRebase, SequenceTheorems, TLAPS

Commit == [changes : SUBSET Commits, msg : Commits \cup {"none", "typed"}]
History == [base : {"orig", "onto"}, applied : Seq(Commit)]

StartLabels == {"mark", "validate", "init", "detach", "reset"}
EntryLabels == {"pick", "pauseConflict", "reword", "pauseReword", "commit", "pauseEdit",
                "meld", "advance"}
AnswerLabels == {"contCommit", "clearPause", "nextIndex"}
RunLabels == {"run", "step", "finish"} \cup EntryLabels
EndLabels == {"attach", "removeDir", "restore"}

TypeOK ==
  /\ head \in History /\ branch \in History /\ attached \in BOOLEAN
  /\ staged \subseteq Commits /\ conflicted \in BOOLEAN /\ picking \in BOOLEAN
  /\ work \in {"clean", "tree", "stash"} /\ marker \in BOOLEAN
  /\ written \in 0..6 /\ named \in BOOLEAN /\ todo \in Seq(RebasePlanEntry) /\ index \in Nat
  /\ pause \in {"none", "conflict", "reword", "edit"} /\ message \in Commits \cup {"none"}
  /\ pc \in {"idle", "abortBranch"} \cup StartLabels \cup AnswerLabels \cup RunLabels
            \cup EndLabels
  /\ call \in {"none", "start", "continue", "skip", "abort"}
  /\ plan \in Seq(RebasePlanEntry) /\ idx \in Nat /\ typed \in {"none", "typed"}
  /\ faults \in Nat /\ resigned \subseteq Commits /\ onBranch \in BOOLEAN

\* Which command is where.
CallInv ==
  /\ pc = "idle" <=> call = "none"
  /\ pc \in StartLabels => call = "start"
  /\ pc \in AnswerLabels => call \in {"continue", "skip"}
  /\ pc \in RunLabels => call \in {"start", "continue", "skip"}
  /\ pc = "abortBranch" => call = "abort"

\* How much of the directory there is, and what it says.
DirInv ==
  /\ written < 6 => todo = <<>>
  /\ written = 0 => index = 0 /\ pause = "none" /\ message = "none"
  /\ pc \in {"mark", "validate", "restore"} => written = 0
  /\ pc \in {"init", "detach", "reset"} => index = 0 /\ pause = "none" /\ message = "none"
  /\ pc = "init" => written < 6
  /\ pc \in {"detach", "reset", "step", "finish"} \cup EntryLabels => written = 6
  /\ pc \in {"run", "abortBranch", "attach", "removeDir"} \cup AnswerLabels => written >= 2

\* HEAD leaves the branch only while the directory is complete; the directory
\* knows the branch, and one that HEAD was not on is never touched.
HeadInv ==
  /\ (attached <=> onBranch) \/ written = 6
  /\ HasHeadName => (named <=> onBranch)
  /\ pc \in StartLabels => branch = Orig
  /\ pc \in (StartLabels \ {"reset"}) \cup {"removeDir", "restore"} => (attached <=> onBranch)
  /\ pc = "reset" => head = Onto
  /\ pc \in {"attach", "abortBranch"} => onBranch
  /\ ~onBranch => ~attached /\ branch = Orig

\* Where the loop is in the todo.
LoopInv ==
  /\ pc \in EntryLabels \cup AnswerLabels => idx = index
  /\ pc \in EntryLabels \cup {"contCommit"} => index < Len(todo)
  /\ pc \in EntryLabels => Applied(Entry(index))
  /\ pc \in {"step", "finish"} =>
       idx = index \/ (idx = index + 1 /\ (index < Len(todo) => Entry(index).action = "drop"))
  /\ pc = "finish" => idx >= Len(todo)

\* The branch moves when the loop is through.
BranchInv == ~attached /\ branch # Orig =>
  /\ Len(todo) <= index + 1
  /\ index < Len(todo) => Entry(index).action = "drop"

\* An abort is at most as far from the state before the rebase as its label says.
AbortInv == call = "abort" =>
  /\ head = Orig /\ staged = {} /\ ~conflicted
  /\ pc # "abortBranch" => branch = Orig
  /\ pc = "restore" => ~picking

SafeInv == TypeOK /\ CallInv /\ DirInv /\ HeadInv /\ LoopInv /\ BranchInv /\ AbortInv

----------------------------------------------------------------------------
(* While nothing has failed.                                                *)

\* The autostash is out from before its marker to the last step of its rebase.
StashInv == Faultless /\ work = "stash" =>
  /\ marker \/ pc = "mark"
  /\ DirExists \/ pc \in {"mark", "validate", "init", "restore"}

\* Plan and todo list each commit once, and nothing is given up at the start.
PlanInv ==
  /\ ListsOnce(plan) /\ ListsOnce(todo)
  /\ pc \in StartLabels => resigned = {}

\* A rebase is in progress, and no abort.
InProgress == pc \in RunLabels \cup AnswerLabels \/ (pc = "idle" /\ DirExists)

\* The entry at index awaits an answer, or what will make a commit of it.
AwaitsAnswer ==
  \/ pc \in {"pauseConflict", "reword", "pauseReword", "commit", "meld", "contCommit"}
  \/ pc = "idle" /\ pause # "edit"

\* How many entries are dealt with.
Done ==
  IF \/ pc \in {"pauseEdit", "advance", "clearPause", "nextIndex"}
     \/ pc = "idle" /\ pause = "edit"
  THEN index + 1
  ELSE IF pc \in {"step", "finish"} THEN idx ELSE index

\* Where a history has a change, and what the first n entries of a todo ask for.
ReplayedIn(a) == {i \in DOMAIN a : a[i].changes # {}}
WantedIn(t, r, n) == {i \in DOMAIN t : i <= n /\ Applied(t[i]) /\ t[i].commit \notin r}

\* Each is replayed once, in order, and nothing else is.
Matched(a, t, r, n) ==
  \E place \in [WantedIn(t, r, n) -> ReplayedIn(a)] :
    /\ \A i \in WantedIn(t, r, n) : a[place[i]].changes = {t[i].commit}
    /\ \A i, j \in WantedIn(t, r, n) : i < j => place[i] < place[j]
    /\ \A x \in ReplayedIn(a) : \E i \in WantedIn(t, r, n) : place[i] = x

\* What was given up is dealt with, or it is the entry that awaits an answer.
ResignedInv ==
  \A i \in DOMAIN todo :
    todo[i].commit \in resigned => i <= Done \/ (AwaitsAnswer /\ i = index + 1)

\* The index holds the change that awaits an answer, unless it was given up.
StagedInv ==
  IF AwaitsAnswer
  THEN /\ index < Len(todo) /\ Applied(Entry(index))
       /\ \/ staged = {Entry(index).commit} /\ Entry(index).commit \notin resigned
          \/ staged = {} /\ Entry(index).commit \in resigned
  ELSE staged = {}

Progress ==
  /\ written = 6 /\ head.base = "onto"
  /\ Matched(head.applied, todo, resigned, Done)
  /\ ResignedInv /\ StagedInv

ProgressInv == Faultless /\ InProgress => Progress

\* Why a command returned.
PauseInv == Faultless =>
  /\ pc \in RunLabels \cup {"nextIndex"} => pause = "none"
  /\ pc = "idle" /\ DirExists =>
       /\ index < Len(todo)
       /\ pause = "reword" => Entry(index).action = "reword"
       /\ pause = "none" => Entry(index).action \in {"squash", "fixup"}
  /\ pc \in {"reword", "pauseReword"} => Entry(index).action = "reword"
  /\ pc = "meld" => Entry(index).action \in {"squash", "fixup"}

FaultlessInv == StashInv /\ PlanInv /\ ProgressInv /\ PauseInv

----------------------------------------------------------------------------
USE DEF repoVars, stashVars, dirVars, callVars, historyVars, Goto, Return, Begin, Fault,
        StartLabels, EntryLabels, AnswerLabels, RunLabels, EndLabels,
        DirExists, HasOnto, HasOrigHead, HasHeadName, HasTodo, DirFiles

LEMMA OrigAndOnto == Orig \in History /\ Onto \in History
  BY DEF Orig, Onto, History

LEMMA EntryType ==
  ASSUME TypeOK, NEW i \in Nat, i < Len(todo)
  PROVE  /\ Entry(i) \in RebasePlanEntry /\ Entry(i).commit \in Commits
         /\ Entry(i).action \in Actions
<1>1. todo \in Seq(RebasePlanEntry) /\ i + 1 \in 1..Len(todo)
  BY DEF TypeOK
<1>2. todo[i + 1] \in RebasePlanEntry
  BY <1>1, ElementOfSeq
<1> QED
  BY <1>2 DEF Entry, RebasePlanEntry

\* What a commit made of the index leaves.
LEMMA CommitFacts ==
  ASSUME TypeOK, NEW msg \in Commits \cup {"none", "typed"}, CommitFromIndex(msg)
  PROVE  /\ head' \in History /\ head'.base = head.base
         /\ head'.applied = Append(head.applied, [changes |-> staged, msg |-> msg])
         /\ branch' = (IF attached THEN head' ELSE branch)
         /\ staged' = {} /\ ~picking' /\ UNCHANGED <<attached, conflicted>>
<1> DEFINE commit == [changes |-> staged, msg |-> msg]
<1>1. head \in History /\ commit \in Commit
  BY DEF TypeOK, Commit
<1>2. Append(head.applied, commit) \in Seq(Commit)
  BY <1>1, AppendProperties DEF History
<1> HIDE DEF commit
<1>3. [head EXCEPT !.applied = Append(@, commit)] \in History
  BY <1>1, <1>2 DEF History
<1> QED
  BY <1>1, <1>3 DEF CommitFromIndex, commit, History

\* The branch is the one that a start remembered, or a detached HEAD leaves it.
LEMMA BranchType ==
  ASSUME TypeOK, NEW msg \in Commits \cup {"none", "typed"}, CommitFromIndex(msg)
  PROVE  branch' \in History
  BY CommitFacts DEF TypeOK

\* What a cherry-pick is followed by.
LEMMA CherryPickFacts ==
  ASSUME SafeInv, CherryPick
  PROVE  /\ idx = index /\ index < Len(todo) /\ written = 6
         /\ Entry(index).commit \in Commits
         /\ Entry(index).action \in Actions /\ Applied(Entry(index))
         /\ pc' \in {"pauseConflict", "reword", "commit", "meld"}
         /\ pc' = "reword" => Entry(index).action = "reword"
         /\ pc' = "meld" => Entry(index).action \in {"squash", "fixup"}
         /\ staged' = staged \cup ({Entry(index).commit} \ Contained(head))
         /\ UNCHANGED <<head, branch, attached, stashVars, dirVars, historyVars, call, plan, idx>>
<1>1. /\ idx = index /\ index < Len(todo) /\ written = 6 /\ Applied(Entry(index))
      /\ Entry(index).commit \in Commits /\ Entry(index).action \in Actions
  BY EntryType DEF SafeInv, TypeOK, DirInv, LoopInv, CherryPick
<1>2. LET next == AfterPick(Entry(index).action)
      IN  /\ next \in {"reword", "commit", "meld"}
          /\ next = "reword" => Entry(index).action = "reword"
          /\ next = "meld" => Entry(index).action \in {"squash", "fixup"}
  BY <1>1 DEF AfterPick, Actions, Applied
<1> QED
  BY <1>1, <1>2 DEF CherryPick

LEMMA TypesKept ==
  ASSUME SafeInv, Next
  PROVE  TypeOK'
<1> USE DEF SafeInv
<1>1. CASE UserEdits
  BY <1>1 DEF TypeOK, UserEdits
<1>2. CASE Start
  <2>1. PICK p \in Plans : plan' = p
    BY <1>2 DEF Start
  <2>2. p \in Seq(RebasePlanEntry)
    BY PlansAssumption
  <2> QED
    BY <1>2, <2>1, <2>2 DEF TypeOK, Start
<1>3. CASE WriteMarker
  BY <1>3 DEF TypeOK, WriteMarker
<1>4. CASE ValidatePlan
  BY <1>4 DEF TypeOK, ValidatePlan
<1>5. CASE StartRefused
  BY <1>5 DEF TypeOK, StartRefused
<1>6. CASE WriteDirFile
  BY <1>6 DEF TypeOK, WriteDirFile, DirInv
<1>7. CASE InitFails
  BY <1>7 DEF TypeOK, InitFails
<1>8. CASE Detach
  <2>1. head' \in History /\ staged' \subseteq Commits
    BY <1>8, OrigAndOnto DEF TypeOK, Detach
  <2>2. /\ branch' \in History /\ attached' \in BOOLEAN
        /\ conflicted' \in BOOLEAN /\ picking' \in BOOLEAN /\ pc' = "reset"
    BY <1>8 DEF TypeOK, Detach
  <2>3. UNCHANGED <<stashVars, dirVars, historyVars, call, plan, idx, typed>>
    BY <1>8 DEF Detach
  <2> QED
    BY <2>1, <2>2, <2>3 DEF TypeOK
<1>36. CASE ResetToOnto
  BY <1>36 DEF TypeOK, ResetToOnto
<1>37. CASE StayDetached
  BY <1>37 DEF TypeOK, StayDetached
<1>9. CASE RunReads
  <2>1. pc' \in {"step", "idle"} /\ call' \in {call, "none"} /\ idx' \in {index, 0}
        /\ (plan' = plan \/ plan' = <<>>) /\ typed' \in {typed, "none"}
    BY <1>9 DEF RunReads
  <2>2. UNCHANGED <<repoVars, stashVars, dirVars, historyVars>>
    BY <1>9 DEF RunReads
  <2>3. plan' \in Seq(RebasePlanEntry) /\ idx' \in Nat
    <3>1. <<>> \in Seq(RebasePlanEntry)
      BY EmptySeq
    <3>2. plan \in Seq(RebasePlanEntry) /\ index \in Nat
      BY DEF TypeOK
    <3>3. plan' \in Seq(RebasePlanEntry)
      BY ONLY <2>1, <3>1, <3>2
    <3>4. idx' \in Nat
      BY ONLY <2>1, <3>2
    <3> QED
      BY <3>3, <3>4
  <2> QED
    BY <2>1, <2>2, <2>3 DEF TypeOK
<1>10. CASE RunStep
  BY <1>10 DEF TypeOK, RunStep
<1>11. CASE RunEnds
  BY <1>11 DEF TypeOK, RunEnds
<1>12. CASE CherryPick
  <2>1. staged' \subseteq Commits
    BY <1>12, CherryPickFacts DEF TypeOK
  <2>2. conflicted' \in BOOLEAN /\ picking' \in BOOLEAN /\ typed' = typed
    BY <1>12 DEF TypeOK, CherryPick
  <2> QED
    BY <1>12, <2>1, <2>2, CherryPickFacts DEF TypeOK
<1>13. CASE CherryPickFails
  BY <1>13 DEF TypeOK, CherryPickFails
<1>14. CASE PauseConflict
  BY <1>14 DEF TypeOK, PauseConflict
<1>15. CASE WriteMessage
  <2>1. Entry(idx).commit \in Commits
    BY <1>15, EntryType DEF SafeInv, TypeOK, LoopInv, WriteMessage
  <2> QED
    BY <1>15, <2>1 DEF TypeOK, WriteMessage
<1>16. CASE PauseReword
  BY <1>16 DEF TypeOK, PauseReword
<1>17. CASE CommitPick
  <2>1. Entry(idx).commit \in Commits
    BY <1>17, EntryType DEF SafeInv, TypeOK, LoopInv, CommitPick
  <2>2. head' \in History /\ branch' \in History
    BY <1>17, <2>1, CommitFacts, BranchType DEF CommitPick
  <2>3. staged' = {} /\ ~picking' /\ UNCHANGED <<attached, conflicted>>
    BY <1>17, <2>1, CommitFacts DEF CommitPick
  <2>4. pc' \in {"pauseEdit", "advance"} /\ UNCHANGED <<stashVars, dirVars, historyVars, call, plan, idx, typed>>
    BY <1>17 DEF CommitPick
  <2>5. attached' \in BOOLEAN /\ conflicted' \in BOOLEAN /\ picking' \in BOOLEAN
    BY <1>17 DEF TypeOK, CommitPick, CommitFromIndex
  <2>6. named' \in BOOLEAN /\ onBranch' \in BOOLEAN /\ marker' \in BOOLEAN
    BY <2>4 DEF TypeOK
  <2> QED
    BY <2>2, <2>3, <2>4, <2>5, <2>6 DEF TypeOK
<1>18. CASE PauseEdit
  BY <1>18 DEF TypeOK, PauseEdit
<1>19. CASE Meld
  BY <1>19 DEF TypeOK, Meld
<1>20. CASE Advance
  BY <1>20 DEF TypeOK, Advance
<1>21. CASE MoveBranch
  BY <1>21 DEF TypeOK, MoveBranch
<1>22. CASE Attach
  BY <1>22 DEF TypeOK, Attach
<1>23. CASE AbortBranch
  BY <1>23, OrigAndOnto DEF TypeOK, AbortBranch
<1>24. CASE RemoveDir
  <2>1. todo' \in Seq(RebasePlanEntry) /\ picking' \in BOOLEAN
    BY <1>24, EmptySeq DEF TypeOK, RemoveDir
  <2>2. /\ written' = 0 /\ named' = FALSE /\ index' = 0 /\ pause' = "none"
        /\ message' = "none" /\ pc' = "restore"
    BY <1>24 DEF RemoveDir
  <2>3. UNCHANGED <<head, branch, attached, staged, conflicted, stashVars, historyVars, call,
                    plan, idx, typed>>
    BY <1>24 DEF RemoveDir
  <2>4. named' \in BOOLEAN
    BY ONLY <2>2, Zenon
  <2> QED
    BY <2>1, <2>2, <2>3, <2>4 DEF TypeOK
<1>25. CASE Restore
  <2>1. work' \in {"clean", "tree", "stash"}
    BY <1>25 DEF TypeOK, Restore
  <2> QED
    BY <1>25, <2>1, EmptySeq DEF TypeOK, Restore
<1>26. CASE RestoreFails
  BY <1>26 DEF TypeOK, RestoreFails
<1>27. CASE Crash
  BY <1>27 DEF TypeOK, Crash
<1>28. CASE Continue
  BY <1>28 DEF TypeOK, Continue
<1>29. CASE ContCommit
  <2>1. ContinueMessage \in Commits \cup {"none", "typed"}
    BY <1>29, EntryType DEF SafeInv, TypeOK, LoopInv, ContCommit, ContinueMessage
  <2>2. head' \in History /\ branch' \in History
    BY <1>29, <2>1, CommitFacts, BranchType DEF ContCommit
  <2>3. staged' = {} /\ ~picking' /\ UNCHANGED <<attached, conflicted>>
    BY <1>29, <2>1, CommitFacts DEF ContCommit
  <2>4. pc' \in {"clearPause"} /\ UNCHANGED <<stashVars, dirVars, historyVars, call, plan, idx, typed>>
    BY <1>29 DEF ContCommit
  <2>5. attached' \in BOOLEAN /\ conflicted' \in BOOLEAN /\ picking' \in BOOLEAN
    BY <1>29 DEF TypeOK, ContCommit, CommitFromIndex
  <2>6. named' \in BOOLEAN /\ onBranch' \in BOOLEAN /\ marker' \in BOOLEAN
    BY <2>4 DEF TypeOK
  <2> QED
    BY <2>2, <2>3, <2>4, <2>5, <2>6 DEF TypeOK
<1>30. CASE ClearPause
  BY <1>30 DEF TypeOK, ClearPause
<1>31. CASE NextIndex
  BY <1>31 DEF TypeOK, NextIndex
<1>32. CASE Skip
  <2>1. resigned' \subseteq Commits
    BY <1>32, EntryType DEF TypeOK, Skip
  <2> QED
    BY <1>32, <2>1 DEF TypeOK, Skip
<1>33. CASE AbortResets
  <2>1. head' \in History /\ branch' \in History
    BY <1>33, OrigAndOnto DEF TypeOK, AbortResets
  <2>2. /\ staged' = {} /\ conflicted' = FALSE /\ call' = "abort"
        /\ pc' \in {"abortBranch", "removeDir"}
    BY <1>33 DEF AbortResets
  <2>3. UNCHANGED <<attached, picking, stashVars, dirVars, plan, idx, typed, historyVars>>
    BY <1>33 DEF AbortResets
  <2> QED
    BY <2>1, <2>2, <2>3 DEF TypeOK
<1>34. CASE ResolveConflict
  <2>1. conflicted' = FALSE /\ staged' \subseteq Commits /\ resigned' \subseteq Commits
    BY <1>34 DEF TypeOK, ResolveConflict
  <2>2. UNCHANGED <<head, branch, attached, picking, stashVars, dirVars, callVars, faults, onBranch>>
    BY <1>34 DEF ResolveConflict
  <2>3. /\ attached' \in BOOLEAN /\ picking' \in BOOLEAN /\ marker' \in BOOLEAN
        /\ named' \in BOOLEAN /\ onBranch' \in BOOLEAN
    BY <2>2 DEF TypeOK
  <2> QED
    BY <2>1, <2>2, <2>3 DEF TypeOK
<1>35. CASE UpdateTodo
  <2>1. PICK i \in index + 1 .. Len(todo) - 1, a \in Actions :
          todo' = [todo EXCEPT ![i + 1].action = a]
    BY <1>35 DEF UpdateTodo
  <2>2. i \in Nat /\ i < Len(todo) /\ i + 1 \in 1..Len(todo)
    BY <2>1 DEF TypeOK
  <2>3. todo[i + 1] \in RebasePlanEntry
    BY <2>2, EntryType DEF Entry
  <2>4. [todo[i + 1] EXCEPT !.action = a] \in RebasePlanEntry
    BY <2>3 DEF RebasePlanEntry
  <2>5. todo' \in Seq(RebasePlanEntry)
    BY <2>1, <2>2, <2>4, ExceptSeq DEF TypeOK
  <2> QED
    BY <1>35, <2>5 DEF TypeOK, UpdateTodo
<1> QED
  BY <1>1, <1>2, <1>3, <1>4, <1>5, <1>6, <1>7, <1>8, <1>9, <1>10, <1>11, <1>12,
     <1>13, <1>14, <1>15, <1>16, <1>17, <1>18, <1>19, <1>20, <1>21, <1>22, <1>23,
     <1>24, <1>25, <1>26, <1>27, <1>28, <1>29, <1>30, <1>31, <1>32, <1>33, <1>34,
     <1>35, <1>36, <1>37 DEF Next, Sequencer, Failure, User

LEMMA SafeKept ==
  ASSUME SafeInv, TypeOK', Next
  PROVE  CallInv' /\ DirInv' /\ HeadInv' /\ LoopInv' /\ BranchInv' /\ AbortInv'
<1> USE DEF SafeInv, CallInv, DirInv, HeadInv, LoopInv, BranchInv, AbortInv
<1>1. CASE UserEdits
  BY <1>1 DEF TypeOK, UserEdits, Entry, Applied
<1>2. CASE Start
  BY <1>2 DEF TypeOK, Start, Entry, Applied
<1>3. CASE WriteMarker
  BY <1>3 DEF TypeOK, WriteMarker, Entry, Applied
<1>4. CASE ValidatePlan
  BY <1>4 DEF TypeOK, ValidatePlan, Entry, Applied
<1>5. CASE StartRefused
  BY <1>5 DEF TypeOK, StartRefused, Entry, Applied
<1>6. CASE WriteDirFile
  BY <1>6 DEF TypeOK, WriteDirFile, Entry, Applied
<1>7. CASE InitFails
  BY <1>7 DEF TypeOK, InitFails, Entry, Applied
<1>8. CASE Detach
  BY <1>8 DEF TypeOK, Detach, Entry, Applied
<1>36. CASE ResetToOnto
  BY <1>36 DEF TypeOK, ResetToOnto, Entry, Applied
<1>37. CASE StayDetached
  BY <1>37 DEF TypeOK, StayDetached, Entry, Applied
<1>9. CASE RunReads
  BY <1>9 DEF TypeOK, RunReads, Entry, Applied
<1>10. CASE RunStep
  BY <1>10 DEF TypeOK, RunStep, Entry, Applied
<1>11. CASE RunEnds
  BY <1>11 DEF TypeOK, RunEnds, Entry, Applied
<1>12. CASE CherryPick
  BY <1>12, CherryPickFacts DEF CherryPick, Entry
<1>13. CASE CherryPickFails
  BY <1>13 DEF TypeOK, CherryPickFails, Entry, Applied
<1>14. CASE PauseConflict
  BY <1>14 DEF TypeOK, PauseConflict, Entry, Applied
<1>15. CASE WriteMessage
  BY <1>15 DEF TypeOK, WriteMessage, Entry, Applied
<1>16. CASE PauseReword
  BY <1>16 DEF TypeOK, PauseReword, Entry, Applied
<1>17. CASE CommitPick
  <2>1. index = idx /\ Entry(idx).commit \in Commits
    BY <1>17, EntryType DEF TypeOK, CommitPick
  <2>2. UNCHANGED <<attached, conflicted>> /\ branch' = IF attached THEN head' ELSE branch
    BY <1>17, <2>1, CommitFacts DEF CommitPick
  <2>3. pc' \in {"pauseEdit", "advance"} /\ UNCHANGED <<dirVars, call, idx>>
    BY <1>17 DEF CommitPick
  <2> QED
    BY <1>17, <2>1, <2>2, <2>3 DEF CommitPick, Entry, Applied
<1>18. CASE PauseEdit
  BY <1>18 DEF TypeOK, PauseEdit, Entry, Applied
<1>19. CASE Meld
  BY <1>19 DEF TypeOK, Meld, Entry, Applied
<1>20. CASE Advance
  BY <1>20 DEF TypeOK, Advance, Entry, Applied
<1>21. CASE MoveBranch
  <2>1. onBranch /\ written = 6
    BY <1>21 DEF MoveBranch
  <2> QED
    BY <1>21, <2>1 DEF TypeOK, MoveBranch, Entry, Applied
<1>22. CASE Attach
  BY <1>22 DEF TypeOK, Attach, Entry, Applied
<1>23. CASE AbortBranch
  BY <1>23 DEF TypeOK, AbortBranch, Entry, Applied
<1>24. CASE RemoveDir
  BY <1>24 DEF TypeOK, RemoveDir, Entry, Applied
<1>25. CASE Restore
  BY <1>25 DEF TypeOK, Restore, Entry, Applied
<1>26. CASE RestoreFails
  BY <1>26 DEF TypeOK, RestoreFails, Entry, Applied
<1>27. CASE Crash
  BY <1>27 DEF TypeOK, Crash, Entry, Applied
<1>28. CASE Continue
  <2>1. /\ (pc' = "contCommit" /\ index < Len(todo)) \/ pc' = "clearPause"
        /\ call' = "continue" /\ idx' = index
    BY <1>28 DEF Continue, ContinueCommits
  <2>2. UNCHANGED <<repoVars, stashVars, dirVars>> /\ written >= 2 /\ call = "none"
    BY <1>28 DEF Continue
  <2>3. UNCHANGED onBranch
    BY <1>28 DEF Continue
  <2>4. CallInv' /\ DirInv' /\ LoopInv'
    BY <2>1, <2>2 DEF Entry, Applied
  <2>5. HeadInv' /\ BranchInv' /\ AbortInv'
    BY <2>1, <2>2, <2>3 DEF Entry
  <2> QED
    BY <2>4, <2>5
<1>29. CASE ContCommit
  <2>1. ContinueMessage \in Commits \cup {"none", "typed"}
    BY <1>29, EntryType DEF TypeOK, ContCommit, ContinueMessage
  <2>2. UNCHANGED <<attached, conflicted>> /\ branch' = IF attached THEN head' ELSE branch
    BY <1>29, <2>1, CommitFacts DEF ContCommit
  <2>3. pc' = "clearPause" /\ UNCHANGED <<dirVars, call, idx>>
    BY <1>29 DEF ContCommit
  <2> QED
    BY <1>29, <2>2, <2>3 DEF ContCommit, Entry
<1>30. CASE ClearPause
  BY <1>30 DEF TypeOK, ClearPause, Entry, Applied
<1>31. CASE NextIndex
  BY <1>31 DEF TypeOK, NextIndex, Entry, Applied
<1>32. CASE Skip
  BY <1>32 DEF TypeOK, Skip, Entry, Applied
<1>33. CASE AbortResets
  BY <1>33 DEF TypeOK, AbortResets, Entry, Applied
<1>34. CASE ResolveConflict
  BY <1>34 DEF TypeOK, ResolveConflict, Entry, Applied
<1>35. CASE UpdateTodo
  BY <1>35 DEF TypeOK, UpdateTodo, Entry, Applied
<1> QED
  BY <1>1, <1>2, <1>3, <1>4, <1>5, <1>6, <1>7, <1>8, <1>9, <1>10, <1>11, <1>12,
     <1>13, <1>14, <1>15, <1>16, <1>17, <1>18, <1>19, <1>20, <1>21, <1>22, <1>23,
     <1>24, <1>25, <1>26, <1>27, <1>28, <1>29, <1>30, <1>31, <1>32, <1>33, <1>34,
     <1>35, <1>36, <1>37 DEF Next, Sequencer, Failure, User

LEMMA InitSafe == Init => SafeInv
<1> SUFFICES ASSUME Init PROVE SafeInv
  OBVIOUS
<1> USE DEF Init
<1>1. /\ todo \in Seq(RebasePlanEntry) /\ plan \in Seq(RebasePlanEntry)
      /\ head \in History /\ branch \in History
  BY EmptySeq, OrigAndOnto
<1>2. TypeOK
  <2>1. attached \in BOOLEAN /\ named \in BOOLEAN /\ onBranch \in BOOLEAN
        /\ conflicted \in BOOLEAN /\ picking \in BOOLEAN
        /\ marker \in BOOLEAN /\ staged \subseteq Commits /\ resigned \subseteq Commits
    OBVIOUS
  <2>2. work \in {"clean", "tree", "stash"} /\ message \in Commits \cup {"none"}
        /\ pause \in {"none", "conflict", "reword", "edit"} /\ typed \in {"none", "typed"}
    OBVIOUS
  <2>3. written \in 0..6 /\ index \in Nat /\ idx \in Nat /\ faults \in Nat
    OBVIOUS
  <2>4. pc = "idle" /\ call = "none"
    OBVIOUS
  <2> QED
    BY ONLY <1>1, <2>1, <2>2, <2>3, <2>4 DEF TypeOK
<1>3. CallInv /\ DirInv /\ HeadInv /\ LoopInv /\ BranchInv /\ AbortInv
  BY DEF CallInv, DirInv, HeadInv, LoopInv, BranchInv, AbortInv
<1> QED
  BY <1>2, <1>3 DEF SafeInv

LEMMA SafeStep == SafeInv /\ [Next]_vars => SafeInv'
<1>1. CASE UNCHANGED vars
  BY <1>1 DEF vars, SafeInv, TypeOK, CallInv, DirInv, HeadInv, LoopInv, BranchInv, AbortInv,
     Entry, Applied
<1>2. CASE Next
  BY <1>2, TypesKept, SafeKept DEF SafeInv
<1> QED
  BY <1>1, <1>2

\* What the directory says, wherever a command stops, and where HEAD and the
\* branch are: the inductive invariant of all that holds whatever fails.
THEOREM SafeInvariance == Spec => []SafeInv
  BY InitSafe, SafeStep, PTL DEF Spec

\* The state keeps its types.
THEOREM TypesHold == Spec => []TypeOK
<1>1. SafeInv => TypeOK
  BY DEF SafeInv
<1> QED
  BY <1>1, SafeInvariance, PTL

\* An abort that gets as far as its autostash has put HEAD, the branch and the
\* index back, from any state that errors and crashes left (abort_gitru_blocking,
\* rebase.rs:1052).
THEOREM AbortsRestore == Spec => []AbortRestores
<1>1. SafeInv => AbortRestores
  BY DEF SafeInv, CallInv, HeadInv, AbortInv, AbortRestores
<1> QED
  BY <1>1, SafeInvariance, PTL

\* The branch never names a history that lacks what the todo still asks for
\* (finish_gitru, rebase.rs:1109).
THEOREM BranchesMoveLast == Spec => []BranchMovesLast
<1>1. SafeInv => BranchMovesLast
  <2> SUFFICES ASSUME SafeInv, ~attached, branch # Orig,
                      NEW i \in index .. Len(todo) - 1
               PROVE  Entry(i).action = "drop"
    BY DEF BranchMovesLast, SafeInv, HeadInv
  <2>1. i = index /\ index < Len(todo)
    BY DEF SafeInv, TypeOK, BranchInv
  <2> QED
    BY <2>1 DEF SafeInv, BranchInv
<1> QED
  BY <1>1, SafeInvariance, PTL


----------------------------------------------------------------------------
\* The autostash (start_rebase_blocking, restore_autostash).
LEMMA StashKept ==
  ASSUME SafeInv, FaultlessInv, TypeOK', Next
  PROVE  StashInv'
<1> USE PlansAssumption DEF SafeInv, FaultlessInv, Faultless, StashInv, CallInv, DirInv
<1>1. CASE UserEdits \/ Start \/ WriteMarker \/ ValidatePlan \/ StartRefused \/
          WriteDirFile \/ InitFails \/ Detach \/ ResetToOnto
  BY <1>1 DEF TypeOK, UserEdits, Start, WriteMarker, ValidatePlan, StartRefused,
     WriteDirFile, InitFails, Detach, ResetToOnto
<1>2. CASE RunReads \/ RunStep \/ RunEnds
  BY <1>2 DEF TypeOK, RunReads, RunStep, RunEnds
<1>3. CASE CherryPick
  BY <1>3 DEF TypeOK, CherryPick
<1>4. CASE CherryPickFails \/ PauseConflict \/ WriteMessage \/ PauseReword
  BY <1>4 DEF TypeOK, CherryPickFails, PauseConflict, WriteMessage, PauseReword
<1>5. CASE CommitPick \/ PauseEdit \/ Meld \/ Advance
  BY <1>5 DEF TypeOK, CommitPick, PauseEdit, Meld, Advance, CommitFromIndex
<1>6. CASE MoveBranch \/ StayDetached \/ Attach \/ AbortBranch \/ RemoveDir \/ Restore \/
          RestoreFails \/ Crash
  BY <1>6 DEF TypeOK, MoveBranch, StayDetached, Attach, AbortBranch, RemoveDir, Restore,
     RestoreFails, Crash
<1>7. CASE Continue \/ ContCommit \/ ClearPause \/ NextIndex
  BY <1>7 DEF TypeOK, Continue, ContCommit, ClearPause, NextIndex, CommitFromIndex
<1>8. CASE Skip \/ AbortResets \/ ResolveConflict \/ UpdateTodo
  BY <1>8 DEF TypeOK, Skip, AbortResets, ResolveConflict, UpdateTodo
<1> QED
  BY <1>1, <1>2, <1>3, <1>4, <1>5, <1>6, <1>7, <1>8 DEF Next, Sequencer, Failure,
     User

LEMMA PlanKept ==
  ASSUME SafeInv, FaultlessInv, TypeOK', Next
  PROVE  PlanInv'
<1> USE PlansAssumption DEF SafeInv, FaultlessInv, Faultless, PlanInv, CallInv, DirInv, ListsOnce
<1>1. CASE UserEdits \/ Start \/ WriteMarker \/ ValidatePlan \/ StartRefused \/
          WriteDirFile \/ InitFails \/ Detach \/ ResetToOnto
  BY <1>1 DEF TypeOK, UserEdits, Start, WriteMarker, ValidatePlan, StartRefused,
     WriteDirFile, InitFails, Detach, ResetToOnto
<1>2. CASE RunReads \/ RunStep \/ RunEnds
  BY <1>2 DEF TypeOK, RunReads, RunStep, RunEnds
<1>3. CASE CherryPick
  BY <1>3, CherryPickFacts
<1>4. CASE CherryPickFails \/ PauseConflict \/ WriteMessage \/ PauseReword
  BY <1>4 DEF TypeOK, CherryPickFails, PauseConflict, WriteMessage, PauseReword
<1>5. CASE CommitPick \/ PauseEdit \/ Meld \/ Advance
  BY <1>5 DEF TypeOK, CommitPick, PauseEdit, Meld, Advance, CommitFromIndex
<1>6. CASE MoveBranch \/ StayDetached \/ Attach \/ AbortBranch \/ RemoveDir \/ Restore \/
          RestoreFails \/ Crash
  BY <1>6 DEF TypeOK, MoveBranch, StayDetached, Attach, AbortBranch, RemoveDir, Restore,
     RestoreFails, Crash
<1>7. CASE Continue \/ ContCommit \/ ClearPause \/ NextIndex
  BY <1>7 DEF TypeOK, Continue, ContCommit, ClearPause, NextIndex, CommitFromIndex
<1>8. CASE Skip \/ AbortResets \/ ResolveConflict
  BY <1>8 DEF TypeOK, Skip, AbortResets, ResolveConflict
<1>9. CASE UpdateTodo
  BY <1>9 DEF TypeOK, UpdateTodo
<1> QED
  BY <1>1, <1>2, <1>3, <1>4, <1>5, <1>6, <1>7, <1>8, <1>9 DEF Next, Sequencer, Failure,
     User

----------------------------------------------------------------------------
(* The replayed commits and the entries that are done.                      *)

\* Nothing is replayed at first.
LEMMA MatchedAtFirst ==
  ASSUME NEW t \in Seq(RebasePlanEntry), NEW r
  PROVE  Matched(<<>>, t, r, 0)
<1>1. WantedIn(t, r, 0) = {} /\ ReplayedIn(<<>>) = {}
  BY DEF WantedIn, ReplayedIn
<1>2. [x \in {} |-> 0] \in [{} -> {}]
  OBVIOUS
<1> QED
  BY <1>1, <1>2 DEF Matched

\* The same entries are wanted.
LEMMA MatchedStill ==
  ASSUME NEW a, NEW t, NEW r, NEW n, NEW u, NEW q, NEW m, Matched(a, t, r, n),
         WantedIn(u, q, m) = WantedIn(t, r, n),
         \A i \in WantedIn(t, r, n) : u[i].commit = t[i].commit
  PROVE  Matched(a, u, q, m)
BY DEF Matched

\* An empty commit matches nothing.
LEMMA MatchedWithEmpty ==
  ASSUME NEW a \in Seq(Commit), NEW t, NEW r, NEW n, NEW c \in Commit, c.changes = {},
         Matched(a, t, r, n)
  PROVE  Matched(Append(a, c), t, r, n)
<1> DEFINE b == Append(a, c)
<1>1. /\ b \in Seq(Commit) /\ Len(b) = Len(a) + 1 /\ b[Len(a) + 1] = c
      /\ \A i \in 1..Len(a) : b[i] = a[i]
  BY AppendProperties
<1>2. /\ DOMAIN a = 1..Len(a) /\ Len(a) \in Nat /\ DOMAIN b = 1..(Len(a) + 1)
  BY <1>1
<1> HIDE DEF b
<1>3. ReplayedIn(b) = ReplayedIn(a)
  BY <1>1, <1>2 DEF ReplayedIn
<1>4. \A x \in ReplayedIn(a) : b[x] = a[x]
  BY <1>1, <1>2 DEF ReplayedIn
<1>5. PICK place \in [WantedIn(t, r, n) -> ReplayedIn(a)] :
        /\ \A i \in WantedIn(t, r, n) : a[place[i]].changes = {t[i].commit}
        /\ \A i, j \in WantedIn(t, r, n) : i < j => place[i] < place[j]
        /\ \A x \in ReplayedIn(a) : \E i \in WantedIn(t, r, n) : place[i] = x
  BY DEF Matched
<1>6. \A i \in WantedIn(t, r, n) : b[place[i]].changes = {t[i].commit}
  BY <1>4, <1>5
<1>7. Matched(b, t, r, n)
  BY <1>3, <1>5, <1>6 DEF Matched
<1> QED
  BY <1>7 DEF b

\* A commit with the change of the next entry matches it.
LEMMA MatchedWithNext ==
  ASSUME NEW a \in Seq(Commit), NEW t \in Seq(RebasePlanEntry), NEW r, NEW n \in Nat,
         NEW c \in Commit, n + 1 \in WantedIn(t, r, n + 1), c.changes = {t[n + 1].commit},
         Matched(a, t, r, n)
  PROVE  Matched(Append(a, c), t, r, n + 1)
<1> DEFINE b == Append(a, c)
           W == WantedIn(t, r, n)
           V == WantedIn(t, r, n + 1)
<1>1. /\ b \in Seq(Commit) /\ Len(b) = Len(a) + 1 /\ b[Len(a) + 1] = c
      /\ \A i \in 1..Len(a) : b[i] = a[i]
  BY AppendProperties
<1>2. /\ DOMAIN a = 1..Len(a) /\ Len(a) \in Nat /\ DOMAIN b = 1..(Len(a) + 1)
  BY <1>1
<1>3. V = W \cup {n + 1} /\ n + 1 \notin W /\ \A i \in W : i \in Nat /\ i < n + 1
  BY DEF WantedIn
<1>4. PICK place \in [W -> ReplayedIn(a)] :
        /\ \A i \in W : a[place[i]].changes = {t[i].commit}
        /\ \A i, j \in W : i < j => place[i] < place[j]
        /\ \A x \in ReplayedIn(a) : \E i \in W : place[i] = x
  BY DEF Matched
<1> HIDE DEF b, W, V
<1>5. ReplayedIn(b) = ReplayedIn(a) \cup {Len(a) + 1}
  <2>1. Len(a) + 1 \in ReplayedIn(b)
    <3>1. Len(a) + 1 \in DOMAIN b
      BY <1>2
    <3>2. b[Len(a) + 1].changes # {}
      BY ONLY <1>1, c.changes = {t[n + 1].commit}
    <3> QED
      BY <3>1, <3>2 DEF ReplayedIn
  <2>2. ASSUME NEW x \in 1..Len(a)
        PROVE  x \in ReplayedIn(b) <=> x \in ReplayedIn(a)
    BY <1>1, <1>2 DEF ReplayedIn
  <2>3. /\ \A x \in ReplayedIn(b) : x \in 1..Len(a) \/ x = Len(a) + 1
        /\ ReplayedIn(a) \subseteq 1..Len(a)
    BY <1>2 DEF ReplayedIn
  <2> QED
    BY <2>1, <2>2, <2>3
<1>6. \A x \in ReplayedIn(a) : b[x] = a[x] /\ x < Len(a) + 1
  BY <1>1, <1>2 DEF ReplayedIn
<1> DEFINE longer == [i \in V |-> IF i = n + 1 THEN Len(a) + 1 ELSE place[i]]
<1>7. /\ longer \in [V -> ReplayedIn(b)] /\ longer[n + 1] = Len(a) + 1
      /\ \A i \in W : longer[i] = place[i] /\ place[i] \in ReplayedIn(a)
  BY <1>3, <1>4, <1>5
<1> HIDE DEF longer
<1>8. \A i \in V : b[longer[i]].changes = {t[i].commit}
  <2>1. b[longer[n + 1]].changes = {t[n + 1].commit}
    BY <1>1, <1>7
  <2>2. ASSUME NEW i \in W
        PROVE  b[longer[i]].changes = {t[i].commit}
    BY <1>4, <1>6, <1>7
  <2> QED
    BY <1>3, <2>1, <2>2
<1>9. ASSUME NEW i \in V, NEW j \in V, i < j
      PROVE  longer[i] < longer[j]
  <2>1. i \in W
    BY <1>3, <1>9
  <2>2. CASE j \in W
    BY <1>4, <1>7, <1>9, <2>1, <2>2
  <2>3. CASE j = n + 1
    BY <1>6, <1>7, <2>1, <2>3
  <2> QED
    BY <1>3, <2>2, <2>3
<1>10. \A x \in ReplayedIn(b) : \E i \in V : longer[i] = x
  BY <1>3, <1>4, <1>5, <1>7
<1> QED
  BY <1>7, <1>8, <1>9, <1>10 DEF Matched, b, V

\* The change of an entry that is not done is not in the history.
LEMMA NotYetContained ==
  ASSUME TypeOK, head.base = "onto", ListsOnce(todo), NEW n \in Nat, n < Len(todo),
         Matched(head.applied, todo, resigned, n)
  PROVE  todo[n + 1].commit \notin Contained(head)
<1>1. PICK place \in [WantedIn(todo, resigned, n) -> ReplayedIn(head.applied)] :
        /\ \A i \in WantedIn(todo, resigned, n) :
             head.applied[place[i]].changes = {todo[i].commit}
        /\ \A x \in ReplayedIn(head.applied) :
             \E i \in WantedIn(todo, resigned, n) : place[i] = x
  BY DEF Matched
<1>2. ASSUME NEW x \in DOMAIN head.applied, todo[n + 1].commit \in head.applied[x].changes
      PROVE  FALSE
  <2>1. x \in ReplayedIn(head.applied)
    BY <1>2 DEF ReplayedIn
  <2>2. PICK i \in WantedIn(todo, resigned, n) : place[i] = x
    BY <1>1, <2>1
  <2>3. todo[n + 1].commit = todo[i].commit
    BY <1>1, <1>2, <2>2
  <2>4. i \in DOMAIN todo /\ i <= n /\ n + 1 \in DOMAIN todo
    BY DEF WantedIn, TypeOK
  <2> QED
    BY <2>3, <2>4 DEF ListsOnce
<1> QED
  BY <1>2 DEF Contained

LEMMA ProgressStill ==
  ASSUME Progress, UNCHANGED <<written, head, todo, staged, resigned>>, Done' = Done,
         AwaitsAnswer' <=> AwaitsAnswer, AwaitsAnswer => index' = index
  PROVE  Progress'
<1>1. ResignedInv'
  BY DEF Progress, ResignedInv
<1>2. StagedInv'
  BY DEF Progress, StagedInv, Entry
<1> QED
  BY <1>1, <1>2 DEF Progress

\* The index becomes a commit, of the entry's change or, if that was given up,
\* an empty one.
LEMMA CommitProgresses ==
  ASSUME TypeOK, ListsOnce(todo), Progress, AwaitsAnswer, Done = index,
         NEW msg \in Commits \cup {"none", "typed"}, CommitFromIndex(msg),
         UNCHANGED <<written, todo, index, resigned>>, ~AwaitsAnswer', Done' = index + 1
  PROVE  Progress'
<1> DEFINE c == [changes |-> staged, msg |-> msg]
<1>1. /\ head.applied \in Seq(Commit) /\ c \in Commit /\ index \in Nat
      /\ todo \in Seq(RebasePlanEntry) /\ c.changes = staged
  BY DEF TypeOK, Commit, History
<1>2. head'.applied = Append(head.applied, c) /\ head'.base = head.base /\ staged' = {}
  BY CommitFacts
<1>3. index + 1 \in DOMAIN todo /\ Entry(index) = todo[index + 1] /\ Applied(todo[index + 1])
  BY <1>1 DEF Progress, StagedInv, Entry
<1> HIDE DEF c
<1>4. ASSUME staged = {Entry(index).commit}, Entry(index).commit \notin resigned
      PROVE  Matched(Append(head.applied, c), todo, resigned, index + 1)
  <2>1. index + 1 \in WantedIn(todo, resigned, index + 1)
    BY <1>1, <1>3, <1>4 DEF WantedIn
  <2> QED
    BY <1>1, <1>3, <1>4, <2>1, MatchedWithNext DEF Progress
<1>5. ASSUME staged = {}, Entry(index).commit \in resigned
      PROVE  Matched(Append(head.applied, c), todo, resigned, index + 1)
  <2>1. WantedIn(todo, resigned, index + 1) = WantedIn(todo, resigned, index)
    BY <1>1, <1>3, <1>5 DEF WantedIn
  <2>2. Matched(Append(head.applied, c), todo, resigned, index)
    BY <1>1, <1>5, MatchedWithEmpty DEF Progress
  <2> QED
    BY <2>1, <2>2, MatchedStill
<1>6. Matched(head'.applied, todo', resigned', Done')
  BY <1>2, <1>4, <1>5 DEF Progress, StagedInv
<1>7. ResignedInv'
  BY <1>1 DEF Progress, ResignedInv
<1> QED
  BY <1>2, <1>6, <1>7 DEF Progress, StagedInv

\* A pause that was announced, or the refusal of a squash or fixup.
LEMMA PauseKept ==
  ASSUME SafeInv, FaultlessInv, TypeOK', Next
  PROVE  PauseInv'
<1> USE DEF SafeInv, FaultlessInv, Faultless, PauseInv, CallInv, DirInv, LoopInv
<1>1. CASE UserEdits \/ Start \/ WriteMarker \/ ValidatePlan \/ StartRefused \/
          WriteDirFile \/ InitFails \/ Detach \/ ResetToOnto
  BY <1>1 DEF TypeOK, UserEdits, Start, WriteMarker, ValidatePlan, StartRefused,
     WriteDirFile, InitFails, Detach, ResetToOnto, Entry
<1>2. CASE RunReads \/ RunStep \/ RunEnds
  <2>1. Faultless => written = 6
    BY <1>2 DEF RunReads, RunStep, RunEnds, ProgressInv, InProgress, Progress
  <2> QED
    BY <1>2, <2>1 DEF TypeOK, RunReads, RunStep, RunEnds
<1>3. CASE CherryPick
  BY <1>3, CherryPickFacts DEF CherryPick, Entry
<1>4. CASE CherryPickFails
  BY <1>4 DEF TypeOK, CherryPickFails, ProgressInv, InProgress, Progress, StagedInv,
     AwaitsAnswer
<1>5. CASE PauseConflict \/ WriteMessage \/ PauseReword
  BY <1>5 DEF TypeOK, PauseConflict, WriteMessage, PauseReword, Entry
<1>6. CASE CommitPick
  BY <1>6 DEF TypeOK, CommitPick, CommitFromIndex, Entry
<1>7. CASE PauseEdit \/ Meld \/ Advance
  BY <1>7 DEF TypeOK, PauseEdit, Meld, Advance, Entry
<1>8. CASE MoveBranch \/ StayDetached \/ Attach \/ AbortBranch \/ RemoveDir \/ Restore \/
          RestoreFails \/ Crash
  BY <1>8 DEF TypeOK, MoveBranch, StayDetached, Attach, AbortBranch, RemoveDir, Restore,
     RestoreFails, Crash, Entry
<1>9. CASE Continue \/ ClearPause \/ NextIndex
  BY <1>9 DEF TypeOK, Continue, ClearPause, NextIndex, Entry
<1>10. CASE ContCommit
  BY <1>10 DEF TypeOK, ContCommit, CommitFromIndex, Entry
<1>11. CASE Skip \/ AbortResets \/ ResolveConflict
  BY <1>11 DEF TypeOK, Skip, AbortResets, ResolveConflict, Entry
<1>12. CASE UpdateTodo
  BY <1>12 DEF TypeOK, UpdateTodo, Entry
<1> QED
  BY <1>1, <1>2, <1>3, <1>4, <1>5, <1>6, <1>7, <1>8, <1>9, <1>10, <1>11, <1>12 DEF
     Next, Sequencer, Failure, User

LEMMA ProgressKept ==
  ASSUME SafeInv, FaultlessInv, TypeOK', Next
  PROVE  ProgressInv'
<1> USE DEF SafeInv, FaultlessInv, CallInv, DirInv, LoopInv, Faultless
<1> SUFFICES ASSUME Faultless', InProgress' PROVE Progress'
  BY DEF ProgressInv
<1> USE DEF InProgress
\* Neither are these in the progress of a rebase, nor do they bring it there.
<1>1. CASE UserEdits \/ Start \/ WriteMarker \/ ValidatePlan \/ StartRefused \/ WriteDirFile
           \/ InitFails \/ Detach \/ MoveBranch \/ StayDetached \/ Attach \/ AbortBranch \/ RemoveDir \/ Restore
           \/ RestoreFails \/ Crash
  BY <1>1 DEF TypeOK, UserEdits, Start, WriteMarker, ValidatePlan, StartRefused, WriteDirFile,
     InitFails, Detach, MoveBranch, StayDetached, Attach, AbortBranch, RemoveDir, Restore, RestoreFails, Crash
<1>2. CASE AbortResets
  BY <1>2 DEF TypeOK, AbortResets, ProgressInv, Progress
<1>3. CASE ResetToOnto
  <2>1. /\ written' = 6 /\ head' = Onto /\ staged' = {} /\ resigned' = {}
        /\ todo' = todo /\ pc' = "run" /\ index' = 0
    BY <1>3 DEF ResetToOnto, PlanInv, HeadInv
  <2>2. Done' = 0 /\ ~AwaitsAnswer'
    BY <2>1 DEF Done, AwaitsAnswer
  <2>3. Matched(head'.applied, todo', resigned', Done')
    BY <2>1, <2>2, MatchedAtFirst DEF Onto, TypeOK
  <2> QED
    BY <2>1, <2>2, <2>3 DEF Progress, ResignedInv, StagedInv, Onto
<1>4. Faultless /\ InProgress =>
        /\ Progress /\ ListsOnce(todo)
        /\ AwaitsAnswer <=> (\/ pc \in {"pauseConflict", "reword", "pauseReword", "commit",
                                      "meld", "contCommit"}
                             \/ pc = "idle" /\ pause # "edit")
  BY DEF ProgressInv, PlanInv, AwaitsAnswer
<1>5. CASE RunReads \/ RunEnds \/ PauseConflict \/ WriteMessage \/ PauseReword \/ PauseEdit
           \/ Meld \/ Advance \/ ClearPause \/ NextIndex
  <2>1. Progress
    BY <1>4, <1>5 DEF TypeOK, RunReads, RunEnds, PauseConflict, WriteMessage, PauseReword,
       PauseEdit, Meld, Advance, ClearPause, NextIndex
  <2>2. UNCHANGED <<written, head, todo, staged, resigned>>
    BY <1>5 DEF RunReads, RunEnds, PauseConflict, WriteMessage, PauseReword,
       PauseEdit, Meld, Advance, ClearPause, NextIndex
  <2>3. CASE RunReads \/ RunEnds \/ Advance \/ ClearPause \/ NextIndex
    <3>1. Done' = Done
      BY <2>1, <2>3 DEF RunReads, RunEnds, Advance, ClearPause, NextIndex, Done, Progress
    <3>2. ~AwaitsAnswer /\ ~AwaitsAnswer'
      BY <2>1, <2>3 DEF RunReads, RunEnds, Advance, ClearPause, NextIndex, AwaitsAnswer, Progress
    <3> QED
      BY <2>1, <2>2, <3>1, <3>2, ProgressStill
  <2>4. CASE PauseConflict \/ WriteMessage \/ PauseReword \/ Meld
    <3>1. Done' = Done /\ index' = index
      BY <2>4 DEF PauseConflict, WriteMessage, PauseReword, Meld, PauseInv, Done
    <3>2. AwaitsAnswer /\ AwaitsAnswer'
      BY <2>4 DEF PauseConflict, WriteMessage, PauseReword, Meld, PauseInv, AwaitsAnswer
    <3> QED
      BY <2>1, <2>2, <3>1, <3>2, ProgressStill
  <2>5. CASE PauseEdit
    <3>1. Done' = Done /\ ~AwaitsAnswer /\ ~AwaitsAnswer'
      BY <2>5 DEF PauseEdit, Done, AwaitsAnswer
    <3> QED
      BY <2>1, <2>2, <3>1, ProgressStill
  <2> QED
    BY <1>5, <2>3, <2>4, <2>5
<1>6. CASE RunStep
  <2>1. Progress /\ ~AwaitsAnswer /\ ~AwaitsAnswer' /\ Done = idx
    BY <1>4, <1>6 DEF RunStep, AwaitsAnswer, Done
  <2>2. UNCHANGED <<written, head, todo, staged, resigned>>
    BY <1>6 DEF RunStep
  <2>3. CASE Applied(Entry(idx))
    <3>1. Done' = Done
      BY <1>6, <2>1, <2>3 DEF RunStep, Done
    <3> QED
      BY <2>1, <2>2, <3>1, ProgressStill
  <2>4. CASE ~Applied(Entry(idx))
    <3>1. Done' = idx + 1
      BY <1>6, <2>4 DEF RunStep, Done
    <3>2. WantedIn(todo, resigned, idx + 1) = WantedIn(todo, resigned, idx)
      BY <2>4 DEF WantedIn, Entry, TypeOK
    <3>3. Matched(head'.applied, todo', resigned', Done')
      BY <2>1, <2>2, <3>1, <3>2, MatchedStill DEF Progress
    <3>4. ResignedInv'
      BY <2>1, <2>2, <3>1 DEF Progress, ResignedInv, TypeOK
    <3> QED
      BY <2>1, <2>2, <3>3, <3>4 DEF Progress, StagedInv
  <2> QED
    BY <2>3, <2>4
<1>7. CASE CherryPick
  <2> USE CherryPickFacts
  <2>1. Progress /\ ListsOnce(todo) /\ ~AwaitsAnswer /\ AwaitsAnswer' /\ Done = index
        /\ Done' = index
    BY <1>4, <1>7 DEF CherryPick, AwaitsAnswer, Done
  <2>2. UNCHANGED <<written, head, todo, resigned, index>> /\ staged = {}
    BY <1>7, <2>1 DEF Progress, StagedInv
  <2>3. Entry(index) = todo[index + 1] /\ index + 1 \in DOMAIN todo /\ index \in Nat
    BY <1>7 DEF Entry, TypeOK
  <2>4. todo[index + 1].commit \notin Contained(head)
    BY <1>7, <2>1, <2>3, NotYetContained DEF Progress
  <2>5. staged' = {Entry(index).commit}
    BY <1>7, <2>2, <2>3, <2>4
  <2>6. Entry(index).commit \notin resigned
    BY <2>1, <2>3 DEF Progress, ResignedInv
  <2>7. ResignedInv'
    BY <2>1, <2>2 DEF Progress, ResignedInv
  <2>8. StagedInv'
    BY <1>7, <2>1, <2>2, <2>5, <2>6 DEF StagedInv, Entry
  <2> QED
    BY <2>1, <2>2, <2>7, <2>8 DEF Progress
<1>8. CASE CherryPickFails
  <2>1. staged = {} /\ Faultless
    BY <1>4, <1>8 DEF CherryPickFails, TypeOK, AwaitsAnswer, Progress, StagedInv
  <2> QED
    BY <1>8, <2>1 DEF CherryPickFails, TypeOK
<1>9. CASE CommitPick
  <2>1. Progress /\ ListsOnce(todo) /\ AwaitsAnswer /\ Done = index
    BY <1>4, <1>9 DEF CommitPick, AwaitsAnswer, Done
  <2>2. /\ UNCHANGED <<written, todo, index, resigned>>
        /\ ~AwaitsAnswer' /\ Done' = index + 1
    BY <1>9 DEF CommitPick, AwaitsAnswer, Done
  <2>3. Entry(idx).commit \in Commits \cup {"none", "typed"}
    BY <1>9, EntryType DEF CommitPick, TypeOK
  <2> QED
    BY <1>9, <2>1, <2>2, <2>3, CommitProgresses DEF CommitPick
<1>10. CASE ContCommit
  <2>1. Progress /\ ListsOnce(todo) /\ AwaitsAnswer /\ Done = index
    BY <1>4, <1>10 DEF ContCommit, AwaitsAnswer, Done
  <2>2. /\ UNCHANGED <<written, todo, index, resigned>>
        /\ ~AwaitsAnswer' /\ Done' = index + 1
    BY <1>10 DEF ContCommit, AwaitsAnswer, Done
  <2>3. ContinueMessage \in Commits \cup {"none", "typed"}
    BY <1>10, EntryType DEF ContCommit, ContinueMessage, TypeOK
  <2> QED
    BY <1>10, <2>1, <2>2, <2>3, CommitProgresses DEF ContCommit
<1>11. CASE Continue
  <2>1. Progress /\ pc = "idle" /\ UNCHANGED <<written, head, todo, staged, resigned, index, pause>>
    BY <1>4, <1>11 DEF Continue, TypeOK
  <2>2. (pause # "edit") <=> ContinueCommits
    BY <1>11, <2>1 DEF Continue, PauseInv, ContinueCommits, TypeOK
  <2>3. Done' = Done /\ (AwaitsAnswer' <=> AwaitsAnswer)
    BY <1>11, <2>1, <2>2 DEF Continue, Done, AwaitsAnswer
  <2> QED
    BY <2>1, <2>3, ProgressStill
<1>12. CASE Skip
  <2>1. /\ Progress /\ ListsOnce(todo) /\ pc = "idle" /\ pc' = "clearPause" /\ staged' = {}
        /\ UNCHANGED <<written, head, todo, index>> /\ ~AwaitsAnswer' /\ Done' = index + 1
    BY <1>4, <1>12 DEF Skip, AwaitsAnswer, Done, TypeOK
  <2>2. index \in Nat /\ todo \in Seq(RebasePlanEntry)
    BY DEF TypeOK
  <2>3. CASE pause = "edit"
    <3>1. resigned' = resigned /\ Done = index + 1 /\ ~AwaitsAnswer
      BY <1>12, <2>1, <2>3 DEF Skip, Done, AwaitsAnswer
    <3> QED
      BY <2>1, <3>1 DEF Progress, ResignedInv, StagedInv
  <2>4. CASE pause # "edit"
    <3>1. /\ AwaitsAnswer /\ Done = index /\ index < Len(todo)
          /\ resigned' = resigned \cup {Entry(index).commit}
      BY <1>12, <2>1, <2>4 DEF Skip, Done, AwaitsAnswer, Progress, StagedInv
    <3>2. /\ index + 1 \in DOMAIN todo /\ Entry(index) = todo[index + 1]
          /\ \A i \in DOMAIN todo : todo[i].commit = Entry(index).commit => i = index + 1
      BY <2>1, <2>2, <3>1 DEF Entry, ListsOnce
    <3>3. WantedIn(todo, resigned', index + 1) = WantedIn(todo, resigned, index)
      BY <2>2, <3>1, <3>2 DEF WantedIn
    <3>4. Matched(head'.applied, todo', resigned', Done')
      BY <2>1, <3>1, <3>3, MatchedStill DEF Progress
    <3>5. ResignedInv'
      BY <2>1, <2>2, <3>1, <3>2 DEF Progress, ResignedInv
    <3> QED
      BY <2>1, <3>4, <3>5 DEF Progress, StagedInv
  <2> QED
    BY <2>3, <2>4
<1>13. CASE ResolveConflict
  <2>1. /\ Progress /\ pc = "idle" /\ pc' = "idle" /\ pause' = pause
        /\ UNCHANGED <<written, head, todo, index>>
    BY <1>4, <1>13 DEF ResolveConflict
  <2>2. Done' = Done /\ (AwaitsAnswer' <=> AwaitsAnswer)
    BY <2>1 DEF Done, AwaitsAnswer
  <2>3. CASE UNCHANGED <<staged, resigned>> \/ staged = {}
    <3>1. UNCHANGED <<staged, resigned>>
      BY <1>13, <2>3 DEF ResolveConflict
    <3> QED
      BY <2>1, <2>2, <3>1, ProgressStill
  <2>4. CASE staged' = {} /\ resigned' = resigned \cup staged /\ staged # {}
    <3>1. /\ AwaitsAnswer /\ index < Len(todo) /\ staged = {Entry(index).commit}
          /\ Done = index /\ Applied(Entry(index))
      BY <2>1, <2>4 DEF Progress, StagedInv, AwaitsAnswer, Done
    <3>2. /\ index \in Nat /\ todo \in Seq(RebasePlanEntry)
          /\ index + 1 \in DOMAIN todo /\ Entry(index) = todo[index + 1]
          /\ \A i \in DOMAIN todo : todo[i].commit = Entry(index).commit => i = index + 1
      BY <3>1 DEF Entry, ListsOnce, PlanInv, TypeOK
    <3>3. WantedIn(todo, resigned', index) = WantedIn(todo, resigned, index)
      BY <2>4, <3>1, <3>2 DEF WantedIn
    <3>4. Matched(head'.applied, todo', resigned', Done')
      BY <2>1, <2>2, <3>1, <3>3, MatchedStill DEF Progress
    <3>5. ResignedInv'
      BY <2>1, <2>2, <2>4, <3>1, <3>2 DEF Progress, ResignedInv
    <3>6. StagedInv'
      BY <2>1, <2>2, <2>4, <3>1 DEF StagedInv, Entry
    <3> QED
      BY <2>1, <3>4, <3>5, <3>6 DEF Progress
  <2> QED
    BY <1>13, <2>3, <2>4 DEF ResolveConflict
<1>14. CASE UpdateTodo
  <2>1. /\ Progress /\ pc = "idle" /\ pc' = "idle"
        /\ UNCHANGED <<written, head, staged, resigned, index, pause>>
    BY <1>4, <1>14 DEF UpdateTodo
  <2>2. /\ Done' = Done /\ (AwaitsAnswer' <=> AwaitsAnswer) /\ Done <= index + 1 /\ Done \in Nat
        /\ index \in Nat /\ todo \in Seq(RebasePlanEntry)
    BY <2>1 DEF Done, AwaitsAnswer, TypeOK
  <2>3. PICK i \in index + 1 .. Len(todo) - 1, a \in Actions :
          todo' = [todo EXCEPT ![i + 1].action = a]
    BY <1>14 DEF UpdateTodo
  <2>4. /\ DOMAIN todo' = DOMAIN todo /\ Len(todo') = Len(todo)
        /\ \A j \in DOMAIN todo : /\ todo'[j].commit = todo[j].commit
                                  /\ j <= index + 1 => todo'[j] = todo[j]
    <3>1. i + 1 \in DOMAIN todo /\ i + 1 > index + 1 /\ todo[i + 1] \in RebasePlanEntry
      BY <2>2, <2>3, ElementOfSeq
    <3>2. [todo[i + 1] EXCEPT !.action = a].commit = todo[i + 1].commit
      BY <3>1 DEF RebasePlanEntry
    <3>3. /\ DOMAIN todo' = DOMAIN todo /\ Len(todo') = Len(todo)
          /\ todo'[i + 1] = [todo[i + 1] EXCEPT !.action = a]
          /\ \A j \in DOMAIN todo : j # i + 1 => todo'[j] = todo[j]
      BY <2>2, <2>3, <3>1
    <3>4. ASSUME NEW j \in DOMAIN todo
          PROVE  /\ todo'[j].commit = todo[j].commit
                 /\ j <= index + 1 => todo'[j] = todo[j]
      <4>1. CASE j = i + 1
        <5>1. todo'[j].commit = todo[j].commit
          BY <3>2, <3>3, <4>1
        <5>2. ~(j <= index + 1)
          BY <2>2, <3>1, <4>1
        <5> QED
          BY <5>1, <5>2
      <4>2. CASE j # i + 1
        BY <3>3, <4>2
      <4> QED
        BY <4>1, <4>2
    <3> QED
      BY <3>3, <3>4
  <2>5. WantedIn(todo', resigned', Done') = WantedIn(todo, resigned, Done)
    BY <2>1, <2>2, <2>4 DEF WantedIn
  <2>6. Matched(head'.applied, todo', resigned', Done')
    BY <2>1, <2>4, <2>5, MatchedStill DEF Progress, WantedIn
  <2>7. ResignedInv'
    BY <2>1, <2>2, <2>4 DEF Progress, ResignedInv
  <2>8. AwaitsAnswer => index + 1 \in DOMAIN todo
    BY <2>1, <2>2 DEF Progress, StagedInv
  <2>9. StagedInv'
    BY <2>1, <2>2, <2>4, <2>8 DEF Progress, StagedInv, Entry
  <2> QED
    BY <2>1, <2>6, <2>7, <2>9 DEF Progress
<1> QED
  BY <1>1, <1>2, <1>3, <1>5, <1>6, <1>7, <1>8, <1>9, <1>10, <1>11, <1>12, <1>13, <1>14
     DEF Next, Sequencer, Failure, User

LEMMA InitFaultless == Init => FaultlessInv
  BY DEF Init, FaultlessInv, StashInv, PlanInv, ListsOnce, ProgressInv, InProgress, PauseInv

LEMMA FaultlessStep == SafeInv /\ FaultlessInv /\ [Next]_vars => FaultlessInv'
<1>1. CASE UNCHANGED vars
  <2> USE <1>1 DEF vars
  <2>1. SafeInv /\ FaultlessInv => StashInv' /\ PlanInv' /\ PauseInv'
    BY DEF FaultlessInv, StashInv, PlanInv, PauseInv, Faultless, ListsOnce, Entry
  <2>2. Done' = Done /\ (AwaitsAnswer' <=> AwaitsAnswer) /\ (InProgress' <=> InProgress)
    BY DEF Done, AwaitsAnswer, InProgress
  <2>3. FaultlessInv => ProgressInv'
    BY <2>2, ProgressStill DEF FaultlessInv, ProgressInv, Faultless
  <2> QED
    BY <2>1, <2>3 DEF FaultlessInv
<1>2. CASE Next
  BY <1>2, TypesKept, StashKept, PlanKept, ProgressKept, PauseKept DEF FaultlessInv
<1> QED
  BY <1>1, <1>2

\* How the replayed commits follow the entries that are done, as long as nothing
\* has failed: the inductive invariant of the rebase.
THEOREM FaultlessInvariance == Spec => [](SafeInv /\ FaultlessInv)
  BY InitSafe, SafeStep, InitFaultless, FaultlessStep, PTL DEF Spec

\* When finish_gitru is reached, HEAD carries each change the todo keeps, once
\* and in order, on top of the new base (run_gitru_until_pause, rebase.rs:793).
\* A squash or fixup entry may be melded into the commit before or not.
THEOREM ChangesReplayed == Spec => []EveryChangeReplayed
<1>1. SafeInv /\ FaultlessInv => EveryChangeReplayed
  <2> SUFFICES ASSUME SafeInv, FaultlessInv, pc = "finish", Faultless
               PROVE  EveryChangeReplayed
    BY DEF EveryChangeReplayed
  <2>1. Progress /\ Done = idx /\ ~AwaitsAnswer
    BY DEF FaultlessInv, ProgressInv, InProgress, Done, AwaitsAnswer
  <2>2. head.base = "onto" /\ staged = {} /\ Matched(head.applied, todo, resigned, idx)
    BY <2>1 DEF Progress, StagedInv
  <2>3. WantedIn(todo, resigned, idx) = Wanted /\ ReplayedIn(head.applied) = Replayed
        /\ \A i \in Wanted : i \in Nat
    BY DEF WantedIn, Wanted, ReplayedIn, Replayed, SafeInv, LoopInv, TypeOK
  <2>4. PICK place \in [Wanted -> Replayed] :
          /\ \A i \in Wanted : head.applied[place[i]].changes = {todo[i].commit}
          /\ \A i, j \in Wanted : i < j => place[i] < place[j]
          /\ \A r \in Replayed : \E i \in Wanted : place[i] = r
    BY <2>2, <2>3 DEF Matched
  <2>5. \A r \in Replayed : r \in Nat
    BY DEF Replayed, SafeInv, TypeOK, History
  <2>6. ASSUME NEW r \in Replayed
        PROVE  head.applied[r].changes =
                 {todo[i].commit : i \in {w \in Wanted : place[w] = r}}
    <3>1. PICK i \in Wanted : place[i] = r
      BY <2>4
    <3>2. ASSUME NEW w \in Wanted, place[w] = r
          PROVE  w = i
      <4>1. ~(w < i) /\ ~(i < w)
        BY <2>4, <2>5, <3>1, <3>2
      <4> QED
        BY <2>3, <4>1
    <3>3. {w \in Wanted : place[w] = r} = {i}
      BY <3>1, <3>2
    <3> QED
      BY <2>4, <3>1, <3>3
  <2> QED
    BY <2>2, <2>4, <2>6 DEF EveryChangeReplayed
<1> QED
  BY <1>1, FaultlessInvariance, PTL

\* While the index holds a change that HEAD lacks, Continue makes a commit of it
\* (continue_gitru_blocking, rebase.rs:946).
THEOREM PausesCommit == Spec => []PausedChangeIsCommitted
<1>1. SafeInv /\ FaultlessInv => PausedChangeIsCommitted
  <2> SUFFICES ASSUME SafeInv, FaultlessInv, pc = "idle", DirExists, Faultless, staged # {}
               PROVE  ContinueCommits
    BY DEF PausedChangeIsCommitted
  <2>1. Progress
    BY DEF FaultlessInv, ProgressInv, InProgress
  <2>2. pause # "edit"
    BY <2>1 DEF Progress, StagedInv, AwaitsAnswer
  <2> QED
    BY <2>2 DEF FaultlessInv, PauseInv, ContinueCommits, SafeInv, TypeOK
<1> QED
  BY <1>1, FaultlessInvariance, PTL

\* Without failures the autostash is not left behind by a rebase that ends, or by an abort
\* (restore_autostash, rebase.rs:1279).
THEOREM AutostashComesBack == Spec => []AutostashReturned
<1>1. SafeInv /\ FaultlessInv => AutostashReturned
  BY DEF FaultlessInv, StashInv, AutostashReturned
<1> QED
  BY <1>1, FaultlessInvariance, PTL
=============================================================================
