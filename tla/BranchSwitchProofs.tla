------------------------ MODULE BranchSwitchProofs ------------------------
(***************************************************************************)
(* For any branches, changes, callers and number of stashes: no            *)
(* uncommitted change is ever lost, and the rollbacks add up.              *)
(*                                                                         *)
(* The second needs a count: as long as no stash was left or discarded,    *)
(* there are no more stashes than callers that still have to pop one,      *)
(* although none of them knows which one it will pop.                      *)
(***************************************************************************)
EXTENDS BranchSwitch, SequenceTheorems, FiniteSetTheorems, TLAPS

Stash == [holds : SUBSET Changes, on : Names]
Call == [ at : {"idle", "stashing", "switching", "popping", "succeeded", "failed"},
          creates : BOOLEAN, target : Names, didCreateStash : BOOLEAN ]

TypeOK ==
  /\ head \in Names /\ branches \subseteq Names
  /\ worktree \subseteq Changes /\ made \subseteq Changes
  /\ stashes \in Seq(Stash)
  /\ call \in [Callers -> Call]
  /\ dialog \in [kind : {"none", "checkout", "create"}, target : Names]
  /\ chosen \in Strategies \cup {"none"} /\ dirty \in BOOLEAN
  /\ restoring \in Positions /\ discarding \in Positions
  /\ discarded \subseteq Changes /\ kept \in BOOLEAN

HeldIn(s) == UNION {s[n].holds : n \in DOMAIN s}

\* The callers that have a stash to pop should their switch fail.
Pending ==
  {k \in Callers :
     call[k].at = "popping" \/ (call[k].at = "switching" /\ call[k].didCreateStash)}

\* Every stash holds something that was changed, and so does the worktree.
HeldInv ==
  /\ worktree \subseteq made /\ Held \subseteq made
  /\ \A n \in 1..Len(stashes) : stashes[n].holds # {}

\* While no stash was left behind or discarded, each is still to be popped.
PopsInv ==
  /\ IsFiniteSet(Pending)
  /\ ~kept /\ discarded = {} => Len(stashes) <= Cardinality(Pending)

IInv == TypeOK /\ NothingIsLost /\ HeldInv /\ PopsInv
-----------------------------------------------------------------------------
LEMMA RemoveAtFacts ==
  ASSUME NEW S, NEW s \in Seq(S), NEW i \in 1..Len(s)
  PROVE  /\ RemoveAt(s, i) \in Seq(S)
         /\ Len(RemoveAt(s, i)) = Len(s) - 1
         /\ \A j \in 1..(Len(s) - 1) : RemoveAt(s, i)[j] = IF j < i THEN s[j] ELSE s[j + 1]
<1> DEFINE front == SubSeq(s, 1, i - 1)
           back == SubSeq(s, i + 1, Len(s))
<1>1. /\ front \in Seq(S) /\ Len(front) = i - 1
      /\ \A j \in 1..(i - 1) : front[j] = s[j]
  OBVIOUS
<1>2. /\ back \in Seq(S) /\ Len(back) = Len(s) - i
      /\ \A j \in 1..(Len(s) - i) : back[j] = s[i + j]
  OBVIOUS
<1> HIDE DEF front, back
<1>3. /\ front \o back \in Seq(S) /\ Len(front \o back) = Len(front) + Len(back)
      /\ \A j \in 1..(Len(front) + Len(back)) :
           (front \o back)[j] = IF j <= Len(front) THEN front[j] ELSE back[j - Len(front)]
  BY <1>1, <1>2, ConcatProperties
<1>4. Len(front) + Len(back) = Len(s) - 1
  BY <1>1, <1>2
<1>5. ASSUME NEW j \in 1..(Len(s) - 1)
      PROVE  (front \o back)[j] = IF j < i THEN s[j] ELSE s[j + 1]
  <2>1. CASE j < i
    <3>1. j \in 1..(Len(front) + Len(back)) /\ j <= Len(front) /\ j \in 1..(i - 1)
      BY <2>1, <1>1, <1>4
    <3> QED
      BY <2>1, <3>1, <1>1, <1>3
  <2>2. CASE ~(j < i)
    <3>1. j - (i - 1) \in 1..(Len(s) - i) /\ i + (j - (i - 1)) = j + 1
      BY <2>2
    <3>2. j \in 1..(Len(front) + Len(back)) /\ ~(j <= Len(front)) /\ Len(front) = i - 1
      BY <2>2, <1>1, <1>4
    <3>3. (front \o back)[j] = back[j - (i - 1)]
      BY <3>2, <1>3
    <3>4. back[j - (i - 1)] = s[j + 1]
      BY <3>1, <1>2
    <3> QED
      BY <2>2, <3>3, <3>4
  <2> QED
    BY <2>1, <2>2
<1>6. RemoveAt(s, i) = front \o back
  BY DEF RemoveAt, front, back
<1> QED
  BY <1>3, <1>4, <1>5, <1>6

\* What is held before and after a stash is taken out, and one put in.
LEMMA HeldWithout ==
  ASSUME NEW s \in Seq(Stash), NEW i \in 1..Len(s)
  PROVE  /\ HeldIn(s) = s[i].holds \cup HeldIn(RemoveAt(s, i))
         /\ (\A n \in 1..Len(s) : s[n].holds # {})
              => \A n \in 1..Len(RemoveAt(s, i)) : RemoveAt(s, i)[n].holds # {}
<1> DEFINE r == RemoveAt(s, i)
<1>1. /\ r \in Seq(Stash) /\ Len(r) = Len(s) - 1
      /\ \A j \in 1..(Len(s) - 1) : r[j] = IF j < i THEN s[j] ELSE s[j + 1]
  BY RemoveAtFacts
<1>2. DOMAIN s = 1..Len(s) /\ DOMAIN r = 1..Len(r) /\ Len(s) \in Nat
  BY <1>1
<1> HIDE DEF r
<1>3. ASSUME NEW n \in DOMAIN s
      PROVE  s[n].holds \subseteq s[i].holds \cup HeldIn(r)
  <2>1. CASE n < i
    BY <2>1, <1>1, <1>2 DEF HeldIn
  <2>2. CASE n > i
    <3>1. n - 1 \in DOMAIN r /\ r[n - 1] = s[n]
      BY <2>2, <1>1, <1>2
    <3> QED
      BY <3>1 DEF HeldIn
  <2> QED
    BY <2>1, <2>2, <1>2
<1>4. ASSUME NEW n \in DOMAIN r
      PROVE  \E m \in DOMAIN s : r[n] = s[m]
  BY <1>1, <1>2
<1>5. s[i].holds \subseteq HeldIn(s)
  BY <1>2 DEF HeldIn
<1>6. HeldIn(r) \subseteq HeldIn(s)
  BY <1>4 DEF HeldIn
<1>7. HeldIn(s) \subseteq s[i].holds \cup HeldIn(r)
  BY <1>3 DEF HeldIn
<1>8. (\A n \in 1..Len(s) : s[n].holds # {}) => \A n \in 1..Len(r) : r[n].holds # {}
  BY <1>2, <1>4
<1> QED
  BY <1>5, <1>6, <1>7, <1>8 DEF r

LEMMA HeldWith ==
  ASSUME NEW s \in Seq(Stash), NEW e \in Stash
  PROVE  /\ <<e>> \o s \in Seq(Stash) /\ Len(<<e>> \o s) = Len(s) + 1
         /\ HeldIn(<<e>> \o s) = e.holds \cup HeldIn(s)
         /\ e.holds # {} /\ (\A n \in 1..Len(s) : s[n].holds # {})
              => \A n \in 1..Len(<<e>> \o s) : (<<e>> \o s)[n].holds # {}
<1> DEFINE r == <<e>> \o s
<1>1. /\ r \in Seq(Stash) /\ Len(r) = Len(s) + 1 /\ r[1] = e
      /\ \A n \in 1..Len(s) : r[n + 1] = s[n]
      /\ \A n \in 2..Len(r) : r[n] = s[n - 1]
  OBVIOUS
<1>2. DOMAIN s = 1..Len(s) /\ DOMAIN r = 1..Len(r) /\ Len(s) \in Nat
  BY <1>1
<1> HIDE DEF r
<1>3. e.holds \subseteq HeldIn(r)
  BY <1>1, <1>2 DEF HeldIn
<1>4. ASSUME NEW n \in DOMAIN s PROVE \E m \in DOMAIN r : r[m] = s[n]
  <2>1. n + 1 \in DOMAIN r
    BY <1>1, <1>2
  <2> QED
    BY <2>1, <1>1, <1>2
<1>5. ASSUME NEW m \in DOMAIN r PROVE r[m] = e \/ \E n \in DOMAIN s : r[m] = s[n]
  <2>1. CASE m = 1
    BY <2>1, <1>1
  <2>2. CASE m # 1
    <3>1. m \in 2..Len(r) /\ m - 1 \in DOMAIN s
      BY <2>2, <1>1, <1>2
    <3> QED
      BY <3>1, <1>1
  <2> QED
    BY <2>1, <2>2
<1>6. HeldIn(r) = e.holds \cup HeldIn(s)
  BY <1>3, <1>4, <1>5 DEF HeldIn
<1>7. e.holds # {} /\ (\A n \in 1..Len(s) : s[n].holds # {})
        => \A n \in 1..Len(r) : r[n].holds # {}
  BY <1>2, <1>5
<1> QED
  BY <1>1, <1>6, <1>7 DEF r

-----------------------------------------------------------------------------
\* What a caller's next step makes of the pending pops.
LEMMA NotPending ==
  ASSUME TypeOK, NEW k \in Callers, NEW c \in Call,
         call' = [call EXCEPT ![k] = c], k \notin Pending,
         c.at # "popping", c.at = "switching" => ~c.didCreateStash
  PROVE  call' \in [Callers -> Call] /\ Pending' = Pending
<1>1. /\ call \in [Callers -> Call] /\ call' \in [Callers -> Call] /\ call'[k] = c
      /\ \A q \in Callers : q # k => call'[q] = call[q]
  BY DEF TypeOK
<1> QED
  BY <1>1 DEF Pending

LEMMA StillPending ==
  ASSUME TypeOK, NEW k \in Callers, NEW c \in Call,
         call' = [call EXCEPT ![k] = c], k \in Pending, c.at = "popping"
  PROVE  call' \in [Callers -> Call] /\ Pending' = Pending
<1>1. /\ call \in [Callers -> Call] /\ call' \in [Callers -> Call] /\ call'[k] = c
      /\ \A q \in Callers : q # k => call'[q] = call[q]
  BY DEF TypeOK
<1> QED
  BY <1>1 DEF Pending

LEMMA NowPending ==
  ASSUME TypeOK, PopsInv, NEW k \in Callers, NEW c \in Call,
         call' = [call EXCEPT ![k] = c], k \notin Pending,
         c.at = "switching", c.didCreateStash
  PROVE  /\ call' \in [Callers -> Call] /\ IsFiniteSet(Pending')
         /\ Cardinality(Pending) \in Nat /\ Cardinality(Pending') = Cardinality(Pending) + 1
<1>1. /\ call \in [Callers -> Call] /\ call' \in [Callers -> Call] /\ call'[k] = c
      /\ \A q \in Callers : q # k => call'[q] = call[q]
  BY DEF TypeOK
<1>2. Pending' = Pending \cup {k}
  BY <1>1 DEF Pending
<1>3. IsFiniteSet(Pending)
  BY DEF PopsInv
<1> QED
  BY <1>1, <1>2, <1>3, FS_AddElement, FS_CardinalityType

LEMMA NoLongerPending ==
  ASSUME TypeOK, PopsInv, NEW k \in Callers, NEW c \in Call,
         call' = [call EXCEPT ![k] = c], c.at \notin {"popping", "switching"}
  PROVE  /\ call' \in [Callers -> Call] /\ IsFiniteSet(Pending')
         /\ Cardinality(Pending) \in Nat
         /\ Cardinality(Pending') = IF k \in Pending THEN Cardinality(Pending) - 1
                                    ELSE Cardinality(Pending)
<1>1. /\ call \in [Callers -> Call] /\ call' \in [Callers -> Call] /\ call'[k] = c
      /\ \A q \in Callers : q # k => call'[q] = call[q]
  BY DEF TypeOK
<1>2. Pending' = Pending \ {k}
  BY <1>1 DEF Pending
<1>3. IsFiniteSet(Pending)
  BY DEF PopsInv
<1> QED
  BY <1>1, <1>2, <1>3, FS_RemoveElement, FS_CardinalityType

LEMMA HeldIsHeldIn == Held = HeldIn(stashes) /\ Held' = HeldIn(stashes')
  BY DEF Held, HeldIn

\* A pop moves what a stash holds to the worktree, or leaves the stash.
LEMMA PopKeeps ==
  ASSUME IInv, NEW position \in Nat, PopStash(position),
         made' = made, discarded' = discarded
  PROVE  /\ worktree' \subseteq Changes /\ stashes' \in Seq(Stash) /\ kept' \in BOOLEAN
         /\ NothingIsLost' /\ HeldInv'
         /\ \/ Len(stashes') = Len(stashes) - 1 /\ kept' = kept
            \/ stashes' = stashes /\ kept' = kept /\ ~Exists(position)
            \/ kept'
<1>1. /\ stashes \in Seq(Stash) /\ worktree \subseteq made /\ Held \subseteq made
      /\ made \subseteq Changes /\ kept \in BOOLEAN /\ made \subseteq worktree \cup Held \cup discarded
  BY DEF IInv, TypeOK, HeldInv, NothingIsLost
<1>2. CASE ~Exists(position)
  <2>1. worktree' = worktree /\ stashes' = stashes /\ kept' = kept
    BY <1>2 DEF PopStash
  <2>2. Held' = Held
    BY <2>1, HeldIsHeldIn
  <2> QED
    BY <1>1, <1>2, <2>1, <2>2 DEF IInv, NothingIsLost, HeldInv
<1>3. CASE Exists(position)
  <2> DEFINE taken == stashes[position].holds
  <2>1. position \in 1..Len(stashes)
    BY <1>3 DEF Exists
  <2>2. /\ HeldIn(stashes) = taken \cup HeldIn(RemoveAt(stashes, position))
        /\ \A n \in 1..Len(RemoveAt(stashes, position)) :
             RemoveAt(stashes, position)[n].holds # {}
    BY <1>1, <2>1, HeldWithout DEF IInv, HeldInv
  <2>3. /\ RemoveAt(stashes, position) \in Seq(Stash)
        /\ Len(RemoveAt(stashes, position)) = Len(stashes) - 1
    BY <1>1, <2>1, RemoveAtFacts
  <2>4. taken \subseteq made
    BY <1>1, <2>2, HeldIsHeldIn
  <2> HIDE DEF taken
  <2>5. CASE /\ worktree' = worktree \cup taken
             /\ stashes' = RemoveAt(stashes, position) /\ kept' = kept
    BY <1>1, <2>2, <2>3, <2>4, <2>5, HeldIsHeldIn DEF NothingIsLost, HeldInv
  <2>6. CASE /\ worktree' \in {worktree, worktree \cup taken}
             /\ stashes' = stashes /\ kept' = TRUE
    <3>1. Held' = Held
      BY <2>6, HeldIsHeldIn
    <3> QED
      BY <1>1, <2>4, <2>6, <3>1 DEF IInv, NothingIsLost, HeldInv
  <2> QED
    BY <1>3, <2>5, <2>6 DEF PopStash, taken
<1> QED
  BY <1>2, <1>3

-----------------------------------------------------------------------------
LEMMA IdleIsCall == Idle \in Call /\ Main \in Names
  BY BranchAssumption DEF Idle, Call

LEMMA NoDialogIsDialog == NoDialog \in [kind : {"none", "checkout", "create"}, target : Names]
  BY IdleIsCall DEF NoDialog

LEMMA InitIInv == Init => IInv
<1> SUFFICES ASSUME Init PROVE IInv
  OBVIOUS
<1> USE DEF Init
<1>1. TypeOK
  <2>1. call \in [Callers -> Call]
    BY IdleIsCall
  <2>2. dialog \in [kind : {"none", "checkout", "create"}, target : Names]
    BY NoDialogIsDialog
  <2>3. head \in Names /\ branches \subseteq Names
    BY BranchAssumption
  <2>4. restoring \in Positions /\ discarding \in Positions
    BY BranchAssumption DEF Positions
  <2>5. stashes \in Seq(Stash)
    OBVIOUS
  <2> QED
    BY <2>1, <2>2, <2>3, <2>4, <2>5 DEF TypeOK
<1>2. Held = {}
  BY DEF Held
<1>3. NothingIsLost /\ HeldInv
  BY <1>2 DEF NothingIsLost, HeldInv
<1>4. Pending = {}
  BY DEF Pending, Idle
<1>5. PopsInv
  BY <1>4, FS_EmptySet DEF PopsInv
<1> QED
  BY <1>1, <1>3, <1>5 DEF IInv

\* A step that leaves the stashes, and who is to pop them, alone.
LEMMA QuietKeeps ==
  ASSUME IInv, TypeOK', UNCHANGED <<stashes, discarded, kept>>, Pending' = Pending,
         \/ worktree' = worktree /\ made' = made
         \/ \E c \in Changes : worktree' = worktree \cup {c} /\ made' = made \cup {c}
  PROVE  IInv'
<1>1. Held' = Held
  BY HeldIsHeldIn
<1>2. NothingIsLost'
  BY <1>1 DEF IInv, NothingIsLost
<1>3. HeldInv'
  BY <1>1 DEF IInv, HeldInv
<1>4. PopsInv'
  BY DEF IInv, PopsInv
<1> QED
  BY <1>2, <1>3, <1>4 DEF IInv

LEMMA UserKeeps ==
  ASSUME IInv, (\E c \in Changes : Edit(c)) \/ DirtyIsFetched \/ CancelDialog
  PROVE  IInv'
<1>1. call' = call
  BY DEF Edit, DirtyIsFetched, CancelDialog
<1>2. Pending' = Pending
  BY <1>1 DEF Pending
<1>3. TypeOK'
  <2> USE DEF repository, picker, view, ghosts
  <2>1. CASE \E c \in Changes : Edit(c)
    BY <2>1 DEF IInv, TypeOK, Edit
  <2>2. CASE DirtyIsFetched
    BY <2>2 DEF IInv, TypeOK, DirtyIsFetched
  <2>3. CASE CancelDialog
    BY <2>3, NoDialogIsDialog DEF IInv, TypeOK, CancelDialog
  <2> QED
    BY <2>1, <2>2, <2>3
<1> QED
  BY <1>2, <1>3, QuietKeeps DEF Edit, DirtyIsFetched, CancelDialog, repository, picker,
     view, ghosts

\* A call that starts has no stash yet.
LEMMA StartedKeeps ==
  ASSUME IInv, NEW k \in Callers, NEW creates \in BOOLEAN, NEW target \in Names,
         NEW strategy \in Strategies, call[k].at = "idle",
         Started(k, creates, target, strategy)
  PROVE  call' \in [Callers -> Call] /\ Pending' = Pending
<1> DEFINE c == [ at |-> IF strategy = "StashOnCurrentBranch" THEN "stashing" ELSE "switching",
                  creates |-> creates, target |-> target, didCreateStash |-> FALSE ]
<1>1. c \in Call /\ c.at # "popping" /\ ~c.didCreateStash
  BY DEF Call
<1>2. call' = [call EXCEPT ![k] = c]
  BY DEF Started
<1>3. k \notin Pending
  BY DEF Pending
<1> QED
  BY <1>1, <1>2, <1>3, NotPending DEF IInv

LEMMA BeginningKeeps ==
  ASSUME IInv,
         \/ \E target \in Names : PickBranch(target) \/ PickNewBranch(target)
         \/ \E strategy \in Strategies : Choose(strategy)
         \/ \E k \in Panels, target \in Names, strategy \in Strategies :
              PanelChecksOut(k, target, strategy) \/ PanelCreates(k, target, strategy)
  PROVE  IInv'
<1> USE DEF repository, view, ghosts
<1>1. Picker \in Callers /\ Panels \subseteq Callers /\ "default" \in Strategies
  BY DEF Callers, Strategies
<1>2. SUFFICES call' \in [Callers -> Call] /\ Pending' = Pending
  <2>1. TypeOK'
    <3>1. CASE \E target \in Names : PickBranch(target) \/ PickNewBranch(target)
      <4>1. PICK target \in Names : PickBranch(target) \/ PickNewBranch(target)
        BY <3>1
      <4>2. dialog' \in {dialog, [kind |-> "checkout", target |-> target],
                         [kind |-> "create", target |-> target]}
        BY <4>1 DEF PickBranch, PickNewBranch
      <4>3. dialog' \in [kind : {"none", "checkout", "create"}, target : Names]
        BY <4>2 DEF IInv, TypeOK
      <4>4. UNCHANGED <<repository, chosen, dirty, view, ghosts>>
        BY <4>1 DEF PickBranch, PickNewBranch
      <4> QED
        BY <1>2, <4>3, <4>4 DEF IInv, TypeOK
    <3>2. CASE \E strategy \in Strategies : Choose(strategy)
      BY <1>2, <3>2 DEF IInv, TypeOK, Choose
    <3>3. CASE \E k \in Panels, target \in Names, strategy \in Strategies :
                 PanelChecksOut(k, target, strategy) \/ PanelCreates(k, target, strategy)
      <4>1. UNCHANGED <<repository, picker, dirty, view, ghosts>>
        BY <3>3 DEF PanelChecksOut, PanelCreates
      <4> QED
        BY <1>2, <4>1 DEF IInv, TypeOK, picker
    <3> QED
      BY <3>1, <3>2, <3>3
  <2> QED
    BY <1>2, <2>1, QuietKeeps DEF PickBranch, PickNewBranch, Choose, PanelChecksOut,
       PanelCreates
<1>3. call' = call => call' \in [Callers -> Call] /\ Pending' = Pending
  BY DEF IInv, TypeOK, Pending
<1>4. ASSUME NEW target \in Names, PickBranch(target) \/ PickNewBranch(target)
      PROVE  call' \in [Callers -> Call] /\ Pending' = Pending
  BY <1>1, <1>3, <1>4, StartedKeeps DEF PickBranch, PickNewBranch, PickerIdle
<1>5. ASSUME NEW strategy \in Strategies, Choose(strategy)
      PROVE  call' \in [Callers -> Call] /\ Pending' = Pending
  <2>1. dialog.target \in Names /\ (dialog.kind = "create") \in BOOLEAN
    BY DEF IInv, TypeOK
  <2> QED
    BY <1>1, <1>5, <2>1, StartedKeeps DEF Choose, PickerIdle
<1>6. ASSUME NEW k \in Panels, NEW target \in Names, NEW strategy \in Strategies,
             PanelChecksOut(k, target, strategy) \/ PanelCreates(k, target, strategy)
      PROVE  call' \in [Callers -> Call] /\ Pending' = Pending
  BY <1>1, <1>6, StartedKeeps DEF PanelChecksOut, PanelCreates
<1> QED
  BY <1>4, <1>5, <1>6

LEMMA GoesFacts ==
  ASSUME NEW k \in Callers, NEW at, Goes(k, at),
         at \in {"idle", "stashing", "switching", "popping", "succeeded", "failed"}
  PROVE  \E c \in Call : c.at = at /\ call' = [call EXCEPT ![k] = c]
<1>1. [Idle EXCEPT !.at = at] \in Call /\ [Idle EXCEPT !.at = at].at = at
  BY IdleIsCall DEF Call, Idle
<1> QED
  BY <1>1 DEF Goes

LEMMA StashChangesKeeps ==
  ASSUME IInv, NEW k \in Callers, StashChanges(k)
  PROVE  IInv'
<1> USE DEF StashChanges, picker, view, ghosts
<1> DEFINE c == [call[k] EXCEPT !.at = "switching", !.didCreateStash = worktree # {}]
           e == [holds |-> worktree, on |-> head]
<1>1. /\ c \in Call /\ c.at = "switching" /\ c.didCreateStash = (worktree # {})
      /\ call' = [call EXCEPT ![k] = c]
  BY DEF IInv, TypeOK, Call
<1>2. k \notin Pending
  BY DEF Pending
<1>3. e \in Stash /\ e.holds = worktree /\ stashes \in Seq(Stash)
  BY DEF IInv, TypeOK, Stash
<1> HIDE DEF c
<1>4. CASE worktree = {}
  <2>1. call' \in [Callers -> Call] /\ Pending' = Pending
    BY <1>1, <1>2, <1>4, NotPending DEF IInv
  <2>2. TypeOK'
    BY <1>4, <2>1 DEF IInv, TypeOK
  <2> QED
    BY <1>4, <2>1, <2>2, QuietKeeps
<1>5. CASE worktree # {}
  <2>1. /\ call' \in [Callers -> Call] /\ IsFiniteSet(Pending')
        /\ Cardinality(Pending) \in Nat /\ Cardinality(Pending') = Cardinality(Pending) + 1
    BY <1>1, <1>2, <1>5, NowPending DEF IInv
  <2>2. stashes' = <<e>> \o stashes
    BY <1>5
  <2> HIDE DEF e
  <2>3. /\ stashes' \in Seq(Stash) /\ Len(stashes') = Len(stashes) + 1
        /\ Held' = worktree \cup Held
        /\ \A n \in 1..Len(stashes') : stashes'[n].holds # {}
    BY <1>3, <1>5, <2>2, HeldWith, HeldIsHeldIn DEF IInv, HeldInv
  <2>4. TypeOK'
    BY <2>1, <2>3 DEF IInv, TypeOK
  <2>5. NothingIsLost' /\ HeldInv'
    BY <2>3 DEF IInv, NothingIsLost, HeldInv
  <2>6. Len(stashes) \in Nat
    BY <1>3
  <2>7. PopsInv'
    BY <2>1, <2>3, <2>6 DEF IInv, PopsInv
  <2> QED
    BY <2>4, <2>5, <2>7 DEF IInv
<1> QED
  BY <1>4, <1>5

LEMMA StashFailsKeeps ==
  ASSUME IInv, NEW k \in Callers, StashFails(k)
  PROVE  IInv'
<1> USE DEF StashFails, repository, picker, view, ghosts
<1>1. PICK c \in Call : c.at = "failed" /\ call' = [call EXCEPT ![k] = c]
  BY GoesFacts
<1>2. k \notin Pending
  BY DEF Pending
<1>3. call' \in [Callers -> Call] /\ Pending' = Pending
  BY <1>1, <1>2, NotPending DEF IInv
<1>4. TypeOK'
  BY <1>3 DEF IInv, TypeOK
<1> QED
  BY <1>3, <1>4, QuietKeeps

\* A switch that stashed leaves its stash behind.
LEMMA SwitchBranchKeeps ==
  ASSUME IInv, NEW k \in Callers, SwitchBranch(k)
  PROVE  IInv'
<1> USE DEF SwitchBranch, picker, view
<1>1. PICK c \in Call : c.at = "succeeded" /\ call' = [call EXCEPT ![k] = c]
  BY GoesFacts
<1>2. /\ call' \in [Callers -> Call] /\ IsFiniteSet(Pending')
      /\ Cardinality(Pending) \in Nat
      /\ Cardinality(Pending') = IF k \in Pending THEN Cardinality(Pending) - 1
                                 ELSE Cardinality(Pending)
  BY <1>1, NoLongerPending DEF IInv
<1>3. k \in Pending <=> call[k].didCreateStash
  BY DEF Pending
<1>4. call[k].target \in Names /\ call[k].didCreateStash \in BOOLEAN
  BY DEF IInv, TypeOK, Call
<1>5. TypeOK'
  BY <1>2, <1>4 DEF IInv, TypeOK
<1>6. Held' = Held
  BY HeldIsHeldIn
<1>7. NothingIsLost' /\ HeldInv'
  BY <1>6 DEF IInv, NothingIsLost, HeldInv
<1>8. PopsInv'
  BY <1>2, <1>3 DEF IInv, PopsInv
<1> QED
  BY <1>5, <1>7, <1>8 DEF IInv

LEMMA SwitchFailsKeeps ==
  ASSUME IInv, NEW k \in Callers, SwitchFails(k)
  PROVE  IInv'
<1> USE DEF SwitchFails, repository, picker, view, ghosts
<1>1. k \in Pending <=> call[k].didCreateStash
  BY DEF Pending
<1>2. call' \in [Callers -> Call] /\ Pending' = Pending
  <2>1. CASE call[k].didCreateStash
    <3>1. PICK c \in Call : c.at = "popping" /\ call' = [call EXCEPT ![k] = c]
      BY <2>1, GoesFacts
    <3> QED
      BY <1>1, <2>1, <3>1, StillPending DEF IInv
  <2>2. CASE ~call[k].didCreateStash
    <3>1. PICK c \in Call : c.at = "failed" /\ call' = [call EXCEPT ![k] = c]
      BY <2>2, GoesFacts
    <3> QED
      BY <1>1, <2>2, <3>1, NotPending DEF IInv
  <2> QED
    BY <2>1, <2>2
<1>3. TypeOK'
  BY <1>2 DEF IInv, TypeOK
<1> QED
  BY <1>2, <1>3, QuietKeeps

LEMMA RollbackPopsKeeps ==
  ASSUME IInv, NEW k \in Callers, RollbackPops(k)
  PROVE  IInv'
<1> USE DEF RollbackPops, picker, view
<1>1. PICK c \in Call : c.at = "failed" /\ call' = [call EXCEPT ![k] = c]
  BY GoesFacts
<1>2. /\ call' \in [Callers -> Call] /\ IsFiniteSet(Pending')
      /\ Cardinality(Pending) \in Nat
      /\ Cardinality(Pending') = IF k \in Pending THEN Cardinality(Pending) - 1
                                 ELSE Cardinality(Pending)
  BY <1>1, NoLongerPending DEF IInv
<1>3. k \in Pending /\ Pending # {}
  BY DEF Pending
<1>4. Cardinality(Pending) > 0
  BY <1>2, <1>3, FS_EmptySet DEF IInv, PopsInv
<1>5. /\ worktree' \subseteq Changes /\ stashes' \in Seq(Stash) /\ kept' \in BOOLEAN
      /\ NothingIsLost' /\ HeldInv'
      /\ \/ Len(stashes') = Len(stashes) - 1 /\ kept' = kept
         \/ stashes' = stashes /\ kept' = kept /\ ~Exists(1)
         \/ kept'
  BY PopKeeps
<1>6. TypeOK'
  BY <1>2, <1>5 DEF IInv, TypeOK
<1>7. Len(stashes) \in Nat /\ (~Exists(1) => Len(stashes) = 0)
  BY DEF Exists, IInv, TypeOK
<1>8. PopsInv'
  BY <1>2, <1>3, <1>4, <1>5, <1>7 DEF IInv, PopsInv
<1> QED
  BY <1>5, <1>6, <1>8 DEF IInv

LEMMA AnswerKeeps ==
  ASSUME IInv, NEW k \in Callers, CallSucceeds(k) \/ CallFails(k)
  PROVE  IInv'
<1> USE DEF CallSucceeds, CallFails, repository, picker, view, ghosts
<1>1. k \notin Pending
  BY DEF Pending
<1>2. call' = [call EXCEPT ![k] = Idle] /\ Idle.at = "idle"
  BY DEF Idle
<1>3. call' \in [Callers -> Call] /\ Pending' = Pending
  BY <1>1, <1>2, IdleIsCall, NotPending DEF IInv
<1>4. TypeOK'
  <2>1. dialog' = dialog \/ dialog' = NoDialog
    OBVIOUS
  <2>2. chosen' = chosen \/ chosen' = "none"
    OBVIOUS
  <2>3. dirty' \in BOOLEAN
    BY DEF IInv, TypeOK
  <2>4. UNCHANGED <<repository, view, ghosts>>
    OBVIOUS
  <2> QED
    BY <1>3, <2>1, <2>2, <2>3, <2>4, NoDialogIsDialog DEF IInv, TypeOK
<1> QED
  BY <1>3, <1>4, QuietKeeps

LEMMA ViewKeeps ==
  ASSUME IInv, ViewStep
  PROVE  IInv'
<1>1. call' = call
  BY DEF ViewStep, Restore, Discard, RestorePops, DropStash
<1>2. Pending' = Pending
  BY <1>1 DEF Pending
<1>3. CASE \E position \in Positions : Restore(position) \/ Discard(position)
  <2> USE DEF Restore, Discard, repository, picker, ghosts
  <2>1. TypeOK'
    BY <1>3 DEF IInv, TypeOK
  <2> QED
    BY <1>2, <1>3, <2>1, QuietKeeps
<1>4. CASE RestorePops
  <2> USE DEF RestorePops, picker
  <2>1. restoring \in Nat
    BY BranchAssumption DEF IInv, TypeOK, Positions
  <2>2. /\ worktree' \subseteq Changes /\ stashes' \in Seq(Stash) /\ kept' \in BOOLEAN
        /\ NothingIsLost' /\ HeldInv'
        /\ \/ Len(stashes') = Len(stashes) - 1 /\ kept' = kept
           \/ stashes' = stashes /\ kept' = kept /\ ~Exists(restoring)
           \/ kept'
    BY <1>4, <2>1, PopKeeps
  <2>3. TypeOK'
    BY <1>4, <2>2, BranchAssumption DEF IInv, TypeOK, Positions
  <2>4. Len(stashes) \in Nat
    BY DEF IInv, TypeOK
  <2>5. Cardinality(Pending) \in Nat
    BY FS_CardinalityType DEF IInv, PopsInv
  <2>6. PopsInv'
    BY <1>2, <1>4, <2>2, <2>4, <2>5 DEF IInv, PopsInv
  <2> QED
    BY <2>2, <2>3, <2>6 DEF IInv
<1>5. CASE DropStash
  <2> USE DEF DropStash, picker
  <2>1. CASE Exists(discarding)
    <3> DEFINE dropped == stashes[discarding].holds
    <3>1. stashes \in Seq(Stash) /\ discarding \in 1..Len(stashes)
      BY <2>1 DEF Exists, IInv, TypeOK
    <3>2. /\ HeldIn(stashes) = dropped \cup HeldIn(stashes')
          /\ \A n \in 1..Len(stashes') : stashes'[n].holds # {}
      BY <1>5, <2>1, <3>1, HeldWithout DEF IInv, HeldInv
    <3>3. stashes' \in Seq(Stash) /\ discarded' = discarded \cup dropped
      BY <1>5, <2>1, <3>1, RemoveAtFacts
    <3>4. dropped # {} /\ dropped \subseteq Changes
      <4>1. stashes[discarding] \in Stash
        BY <3>1, ElementOfSeq
      <4>2. dropped \subseteq Changes
        BY <4>1 DEF Stash
      <4>3. dropped # {}
        BY <3>1 DEF IInv, HeldInv
      <4> QED
        BY <4>2, <4>3
    <3> HIDE DEF dropped
    <3>5. TypeOK'
      BY <1>1, <1>5, <3>3, <3>4, BranchAssumption DEF IInv, TypeOK, Positions
    <3>6. NothingIsLost' /\ HeldInv'
      BY <1>5, <3>2, <3>3, HeldIsHeldIn DEF IInv, NothingIsLost, HeldInv
    <3>7. PopsInv'
      BY <1>2, <3>3, <3>4 DEF IInv, PopsInv
    <3> QED
      BY <3>5, <3>6, <3>7 DEF IInv
  <2>2. CASE ~Exists(discarding)
    <3>1. TypeOK'
      BY <1>1, <1>5, <2>2, BranchAssumption DEF IInv, TypeOK, Positions
    <3> QED
      BY <1>2, <1>5, <2>2, <3>1, QuietKeeps
  <2> QED
    BY <2>1, <2>2
<1> QED
  BY <1>3, <1>4, <1>5 DEF ViewStep

LEMMA NextIInv == IInv /\ [Next]_vars => IInv'
<1> SUFFICES ASSUME IInv, [Next]_vars PROVE IInv'
  OBVIOUS
<1>1. CASE UNCHANGED vars
  <2> USE <1>1 DEF vars, repository, picker, view, ghosts
  <2>1. Pending' = Pending
    BY DEF Pending
  <2>2. TypeOK'
    BY DEF IInv, TypeOK
  <2> QED
    BY <2>1, <2>2, QuietKeeps
<1>2. CASE Next
  BY <1>2, UserKeeps, BeginningKeeps, StashChangesKeeps, StashFailsKeeps, SwitchBranchKeeps,
     SwitchFailsKeeps, RollbackPopsKeeps, AnswerKeeps, ViewKeeps DEF Next, Advance
<1> QED
  BY <1>1, <1>2

\* The inductive invariant of the switches.
THEOREM Invariance == Spec => []IInv
  BY InitIInv, NextIInv, PTL DEF Spec

\* The state keeps its types.
THEOREM TypesHold == Spec => []TypeOK
<1>1. IInv => TypeOK
  BY DEF IInv
<1> QED
  BY <1>1, Invariance, PTL

\* A change stays in the worktree or in a stash until the user discards it,
\* however many callers stash, switch, pop and drop (branch.rs:218-358).
THEOREM NoChangeLost == Spec => []NothingIsLost
<1>1. IInv => NothingIsLost
  BY DEF IInv
<1> QED
  BY <1>1, Invariance, PTL

\* With no stash left behind or discarded, the callers that are done have put
\* back what they stashed, whichever of the stashes each of them popped
\* (branch.rs:262-264, 319-321).
THEOREM RollbacksRestore == Spec => []RollbacksAddUp
<1>1. IInv => RollbacksAddUp
  <2> SUFFICES ASSUME IInv, \A k \in Callers : call[k].at = "idle", ~kept, discarded = {}
               PROVE  worktree = made
    BY DEF RollbacksAddUp
  <2>1. Pending = {}
    BY DEF Pending
  <2>2. Len(stashes) <= 0 /\ stashes \in Seq(Stash)
    BY <2>1, FS_EmptySet DEF IInv, PopsInv, TypeOK
  <2>3. DOMAIN stashes = {}
    BY <2>2
  <2>4. Held = {}
    BY <2>3 DEF Held
  <2> QED
    BY <2>4 DEF IInv, NothingIsLost, HeldInv
<1> QED
  BY <1>1, Invariance, PTL
=============================================================================
