---------------------------- MODULE CommitDraft ----------------------------
(***************************************************************************)
(* The message of the next commit (store/use-commit-draft-store.ts): one   *)
(* draft per webview, which the commit box edits, prefills and submits     *)
(* (write-commit-box.tsx) and which the rebase controls read               *)
(* (rebase-actions-bar.tsx), while the repository is shown through a       *)
(* polled query and moves under the commands of the backend, another tab   *)
(* and the command line.                                                   *)
(*                                                                         *)
(* What a text says is abstracted to what it was written for: a tuple      *)
(*   <<"typed", c>>      typed while context c was on display              *)
(*   <<"commit", i>>     the message of commit i, loaded to amend it       *)
(*   <<"step", c, k>>    the message of step k of the rebase of c          *)
(* An edit of a text does not change what it is for.  A draft that was     *)
(* prefilled has the key of what it was prefilled from: <<"amend", i>>, or *)
(*   <<"rebase", c, k, f>>   the pause at step k of the rebase of c, when  *)
(*                           the message it offered was that of step f     *)
(* Step k of a rebase is the k-th place it stops at.                       *)
(***************************************************************************)
EXTENDS Integers, FiniteSets

CONSTANTS
    Contexts,        \* repository contexts the tab switches between
    Pauses,          \* what a rebase pauses for, of "reword", "edit", "conflict"
    Steps,           \* the steps a rebase can stop at are 1..Steps
    MaxCommits,      \* bound: commits beyond the first one of each context
    MaxRebases,      \* bound: rebases
    MaxCalls,        \* bound: calls under way at the same time
    Submissions      \* bound: submissions of the box that may overlap

ASSUME DraftAssumption ==
    /\ Pauses \subseteq {"reword", "edit", "conflict"}
    /\ Steps \in Nat /\ MaxCommits \in Nat /\ MaxRebases \in Nat /\ MaxCalls \in Nat
    /\ IsFiniteSet(Contexts) /\ Contexts # {}

VARIABLES
    head,            \* context -> the commit HEAD names
    op,              \* context -> the operation under way in the repository
    orig,            \* where an abort returns to; 0 while nothing is rebased
    rebases,         \* how many rebases there have been
    newest,          \* the newest commit
    made,            \* the commit the last step made for this webview, if any
    view,            \* context -> the operation the query last returned
    shown,           \* the context on display
    box,             \* is the commit box mounted?
    dialog,          \* does it show the dialog of an empty commit?
    draft,           \* the draft store
    subs,            \* submission -> what is under way
    load,            \* the last commit being loaded to be amended
    bar              \* the rebase command under way

draftVars == <<head, op, orig, rebases, newest, made, view, shown, box, dialog, draft, subs, load,
               bar>>

Blank   == <<>>
NoKey   == <<"none">>
Operation(why) == [why |-> why, step |-> 0, file |-> 0]
Clean   == Operation("clean")
Loading == Operation("loading")

\* A rebase under way, as read_gitru_operation finds it: paused for a reason; or
\* without one, while a command is at work ("running") and when it has failed on
\* the way to the next pause ("stopped"); of which the webview learns that the
\* rebase is "unpaused".
Paused(o)   == o.why \in Pauses
Rebasing(o) == Paused(o) \/ o.why \in {"running", "stopped", "unpaused"}

\* What the webview gets to know: of a rebase that is not paused, only that it is one.
Seen(o) == IF Rebasing(o) /\ ~Paused(o) THEN Operation("unpaused") ELSE o

\* The message on offer is that of the file `message`, which a reword writes and
\* no step removes; without one it is that of the step (resolve_commit_message).
Offered(c, o)   == <<"step", c, IF o.file # 0 THEN o.file ELSE o.step>>
RebaseKey(c, o) == <<"rebase", c, o.step, Offered(c, o)[3]>>
IsRebase(key)   == key[1] = "rebase"

TypedIn(c)      == <<"typed", c>>
CommitText(i)   == <<"commit", i>>
AmendKey(i)     == <<"amend", i>>

\* getCommitActionAvailability; a merge, revert or cherry-pick is left out.
CanCreate(o) == o.why = "clean"
CanAmend(o)  == o.why \in {"clean", "edit"}

Commits == 1..(Cardinality(Contexts) + MaxCommits)
NoSnapshot == [text |-> Blank, key |-> NoKey]

-----------------------------------------------------------------------------
(* The draft store. *)

EmptyDraft(c) ==
    [repo |-> c, text |-> Blank, key |-> NoKey, amend |-> 0, saved |-> NoSnapshot]

AmendMode(d) == d.amend # 0

Clear(d) == EmptyDraft(d.repo)

SwitchRepo(d, c) == IF d.repo = c THEN d ELSE EmptyDraft(c)

\* Deviation: an amend under way is never overwritten.
ApplyAutofillButAmend(d, key, text) ==
    IF d.key = key \/ AmendMode(d) THEN d
    ELSE [EmptyDraft(d.repo) EXCEPT !.key = key, !.text = text]

ApplyAutofill(d, key, text) ==
    IF d.key = key THEN d ELSE [EmptyDraft(d.repo) EXCEPT !.key = key, !.text = text]

BeginAmend(d, i) ==
    IF AmendMode(d) THEN d
    ELSE [d EXCEPT !.amend = i, !.key = AmendKey(i), !.text = CommitText(i),
                   !.saved = [text |-> d.text, key |-> d.key]]

CancelAmend(d) ==
    [EmptyDraft(d.repo) EXCEPT !.text = d.saved.text, !.key = d.saved.key]

\* Deviation: the draft under an amend is forgotten.
RebaseScopedByKey(d) == IsRebase(d.key)

\* Does the draft, or the one under an amend, belong to a rebase step?
RebaseScoped(d) == IsRebase(d.key) \/ (AmendMode(d) /\ IsRebase(d.saved.key))

-----------------------------------------------------------------------------
(* The effects of the commit box. They run when the context or the         *)
(* operation on display changes and when the box is mounted, before the    *)
(* user can act on what is rendered.  A rebase that is not paused for a    *)
(* reason, and a query that has not returned, leave the draft as it is.    *)

Prefill(d, c, o) ==
    CASE Paused(o)                             -> ApplyAutofill(d, RebaseKey(c, o), Offered(c, o))
      [] o.why = "clean" /\ RebaseScoped(d)    -> Clear(d)
      [] OTHER                                 -> d

BoxEffects(d, c, o) == Prefill(SwitchRepo(d, c), c, o)

Busy == \/ \E s \in Submissions : subs[s].stage # "idle" /\ subs[s].mounted
        \/ load.stage # "idle" /\ load.mounted

\* How many calls are under way.
Calls == Cardinality({s \in Submissions : subs[s].stage # "idle"})
           + Cardinality({c \in {load, bar} : c.stage # "idle"})

NoSub  == [stage |-> "idle", mounted |-> FALSE]
NoLoad == [stage |-> "idle", mounted |-> FALSE]
NoBar  == [stage |-> "idle"]
Nothing == [kind |-> "none"]

BarIs(stage) == bar' = [bar EXCEPT !.stage = stage]
\* An error's answer does nothing to the draft, so that it may as well be here.
BarFailed == bar' = NoBar

-----------------------------------------------------------------------------

DraftInit ==
    /\ \E f \in [Contexts -> 1..Cardinality(Contexts)] :
          /\ \A c, d \in Contexts : f[c] = f[d] => c = d
          /\ head = f
    /\ op = [c \in Contexts |-> Clean]
    /\ orig = 0
    /\ rebases = 0
    /\ newest = Cardinality(Contexts)
    /\ made = Nothing
    /\ view = [c \in Contexts |-> Loading]
    /\ shown \in Contexts
    /\ box = TRUE
    /\ dialog = FALSE
    /\ draft = EmptyDraft(shown)
    /\ subs = [s \in Submissions |-> NoSub]
    /\ load = NoLoad
    /\ bar = NoBar

-----------------------------------------------------------------------------
(* The repository: other programs, and what the commands do. *)

NothingMade == UNCHANGED <<head, op, orig, rebases, newest>> /\ made' = Nothing

Moves(c) == /\ newest + 1 \in Commits
            /\ newest' = newest + 1
            /\ head' = [head EXCEPT ![c] = newest + 1]

\* A commit made at the command line, or from another tab.
CommitElsewhere(c) ==
    /\ ~Rebasing(op[c])
    /\ Moves(c)
    /\ made' = Nothing
    /\ UNCHANGED <<op, orig, rebases, view, shown, box, dialog, draft, subs, load, bar>>

\* A rebase starts, with HEAD on a new base. Bound: one repository is rebased at
\* a time.
RebaseStarts(c) ==
    /\ \A d \in Contexts : ~Rebasing(op[d])
    /\ rebases < MaxRebases /\ rebases' = rebases + 1
    /\ Moves(c)
    /\ op' = [op EXCEPT ![c] = [why |-> "running", step |-> 1, file |-> 0]]
    /\ orig' = head[c]
    /\ made' = Nothing
    /\ UNCHANGED <<view, shown, box, dialog, draft, subs, load, bar>>

\* What a rebase comes to, after picks that need nothing of the user: its end, a
\* pause at the step it is at (a reword writes the file), or an error.
Outcomes(o) ==
    {Clean} \cup
    {x \in [why : Pauses \cup {"stopped"}, step : {o.step}, file : {o.file, o.step}] :
        o.step <= Steps /\ x.file = IF x.why = "reword" THEN o.step ELSE o.file}

\* The command at work gets there. It fails with the rebase stopped, and may also
\* fail with it paused or at its end: the autostash comes back last.
RunsOn(c) ==
    /\ op[c].why = "running"
    /\ \E o \in Outcomes(op[c]) :
        /\ op' = [op EXCEPT ![c] = o]
        /\ orig' = IF o = Clean THEN 0 ELSE orig
        /\ IF bar.stage = "running" /\ bar.at = c
           THEN BarFailed \/ (o.why # "stopped" /\ BarIs("acted"))
           ELSE UNCHANGED bar
    /\ Moves(c) \/ UNCHANGED <<head, newest>>
    /\ made' = Nothing
    /\ UNCHANGED <<rebases, view, shown, box, dialog, draft, subs, load>>

-----------------------------------------------------------------------------
(* The tab and its query. *)

\* The tab shows another repository. Mutations of a mounted box that have not
\* called the backend yet go to the context of its last render.
Shows(c) ==
    /\ c # shown
    /\ shown' = c
    /\ draft' = IF box THEN BoxEffects(draft, c, view[c]) ELSE draft
    /\ subs' = [s \in Submissions |->
                  IF subs[s].mounted /\ subs[s].stage = "adding" THEN [subs[s] EXCEPT !.into = c]
                  ELSE subs[s]]
    /\ NothingMade /\ UNCHANGED <<view, box, dialog, load, bar>>

\* The query of the operation returns: a poll, or an invalidation.
Refetches ==
    /\ view[shown] # Seen(op[shown])
    /\ view' = [view EXCEPT ![shown] = Seen(op[shown])]
    /\ draft' = IF box THEN BoxEffects(draft, shown, Seen(op[shown])) ELSE draft
    /\ NothingMade /\ UNCHANGED <<shown, box, dialog, subs, load, bar>>

\* The panel of changes opens, and closes for the history or the stashes.
BoxMounts ==
    /\ ~box
    /\ box' = TRUE
    /\ draft' = BoxEffects(draft, shown, view[shown])
    /\ NothingMade /\ UNCHANGED <<view, shown, dialog, subs, load, bar>>

BoxUnmounts ==
    /\ box
    /\ box' = FALSE
    /\ dialog' = FALSE
    /\ subs' = [s \in Submissions |-> [subs[s] EXCEPT !.mounted = FALSE]]
    /\ load' = [load EXCEPT !.mounted = FALSE]
    /\ NothingMade /\ UNCHANGED <<view, shown, draft, bar>>

-----------------------------------------------------------------------------
(* The commit box. *)

\* What the user can reach: the box, but not behind the dialog.
AtBox == box /\ ~dialog

\* The inputs are enabled while a submission is under way.
Types ==
    /\ AtBox
    /\ draft.text = Blank
    /\ draft' = [draft EXCEPT !.text = TypedIn(shown)]
    /\ NothingMade /\ UNCHANGED <<view, shown, box, dialog, subs, load, bar>>

\* submitCommit: an amend, a commit of what is staged, one that stages the visible
\* files first ("add"), or an empty one. Only an amend names the commit expected.
SubmitCommit(s, kind) ==
    /\ ~Busy /\ draft.text # Blank
    /\ subs[s].stage = "idle" /\ Calls < MaxCalls
    /\ IF kind = "amend" THEN CanAmend(view[shown]) ELSE CanCreate(view[shown])
    /\ subs' = [subs EXCEPT ![s] =
                  [stage |-> IF kind = "add" THEN "adding" ELSE "sent", kind |-> kind,
                   repo |-> shown, into |-> shown, text |-> draft.text,
                   expected |-> IF kind = "amend" THEN draft.amend ELSE 0, mounted |-> TRUE]]
    /\ NothingMade /\ UNCHANGED <<view, shown, box, dialog, draft, load, bar>>

\* The button of the box.
Submits(s, kind) ==
    /\ AtBox
    /\ (kind = "amend") = AmendMode(draft)
    /\ SubmitCommit(s, kind)

\* The menu's empty commit, which is not for an amend, and its dialog.
AsksForEmpty ==
    /\ AtBox /\ ~Busy /\ ~AmendMode(draft)
    /\ CanCreate(view[shown]) /\ draft.text # Blank
    /\ dialog' = TRUE
    /\ NothingMade /\ UNCHANGED <<view, shown, box, draft, subs, load, bar>>

\* The dialog's button, which does not look at the mode of the draft.
ConfirmsEmpty(s) == dialog /\ SubmitCommit(s, "empty")

DismissesEmpty ==
    /\ dialog /\ ~Busy
    /\ dialog' = FALSE
    /\ NothingMade /\ UNCHANGED <<view, shown, box, draft, subs, load, bar>>

\* git add answers, and the commit is sent; or it fails.
AddReturns(s) ==
    /\ subs[s].stage = "adding"
    /\ \/ subs' = [subs EXCEPT ![s].stage = "sent"]
       \/ subs' = [subs EXCEPT ![s] = NoSub]
    /\ NothingMade /\ UNCHANGED <<view, shown, box, dialog, draft, load, bar>>

\* Deviation: HEAD is not compared with the commit that was loaded.
AcceptsAnyHead(c, expected) ==
    IF expected = 0 THEN CanCreate(op[c]) ELSE CanAmend(op[c])

\* The conditions create_commit checks under the lock of the repository.
Accepts(c, expected) ==
    IF expected = 0 THEN CanCreate(op[c])
                    ELSE CanAmend(op[c]) /\ head[c] = expected

\* create_commit succeeds, in one transaction.
Commit(s) ==
    LET b == subs[s] IN
    /\ b.stage = "sent"
    /\ Accepts(b.into, b.expected)
    /\ Moves(b.into)
    /\ made' = [kind |-> b.kind, in |-> b.into, text |-> b.text, replaced |-> head[b.into]]
    /\ subs' = [subs EXCEPT ![s] = [stage |-> "made", repo |-> b.repo, mounted |-> b.mounted]]
    /\ UNCHANGED <<op, orig, rebases, view, shown, box, dialog, draft, load, bar>>

\* create_commit refuses or fails: the box keeps the draft.
CommitFails(s) ==
    /\ subs[s].stage = "sent"
    /\ subs' = [subs EXCEPT ![s] = NoSub]
    /\ NothingMade /\ UNCHANGED <<view, shown, box, dialog, draft, load, bar>>

\* The answer to a commit: the draft is cleared, with all typed meanwhile, and the
\* dialog of the box that asked closes.
CommitReturns(s) ==
    /\ subs[s].stage = "made"
    /\ draft' = IF draft.repo = subs[s].repo THEN Clear(draft) ELSE draft
    /\ dialog' = (dialog /\ ~subs[s].mounted)
    /\ subs' = [subs EXCEPT ![s] = NoSub]
    /\ NothingMade /\ UNCHANGED <<view, shown, box, load, bar>>

\* enterAmendMode, up to the request for the latest commit.
AsksToAmend ==
    /\ AtBox /\ ~Busy /\ ~AmendMode(draft)
    /\ CanAmend(view[shown])
    /\ load.stage = "idle" /\ Calls < MaxCalls
    /\ load' = [stage |-> "asked", repo |-> shown, mounted |-> TRUE]
    /\ NothingMade /\ UNCHANGED <<view, shown, box, dialog, draft, subs, bar>>

\* The rest of enterAmendMode, with the latest commit or an error. That HEAD is
\* read in the same step loses nothing: it can still move right after.
LastCommitReturns ==
    /\ load.stage = "asked"
    /\ \/ draft' = IF draft.repo = load.repo THEN BeginAmend(draft, head[load.repo]) ELSE draft
       \/ UNCHANGED draft
    /\ load' = NoLoad
    /\ NothingMade /\ UNCHANGED <<view, shown, box, dialog, subs, bar>>

CancelsAmend ==
    /\ AtBox /\ ~Busy /\ AmendMode(draft)
    /\ draft' = CancelAmend(draft)
    /\ NothingMade /\ UNCHANGED <<view, shown, box, dialog, subs, load, bar>>

-----------------------------------------------------------------------------
(* The rebase controls, on display while the operation shown is a rebase. *)

\* Continue, skip or abort. Which of them, and the message that a continue carries,
\* no property is about: the command is chosen when it acts.
Presses ==
    /\ ~dialog
    /\ bar.stage = "idle" /\ Calls < MaxCalls
    /\ Rebasing(view[shown])
    /\ bar' = [stage |-> "sent", at |-> shown, repo |-> draft.repo, key |-> draft.key]
    /\ NothingMade /\ UNCHANGED <<view, shown, box, dialog, draft, subs, load>>

\* Continue and skip end the step the rebase is at, and the next one is run. The
\* commit that a continue may make of it is counted with those of RunsOn.
StepEnds ==
    /\ op' = [op EXCEPT ![bar.at].why = "running",
                        ![bar.at].step = IF @ <= Steps THEN @ + 1 ELSE @]
    /\ BarIs("running")
    /\ UNCHANGED <<head, orig, newest>>

\* They fail halfway, with the pause reason removed and current-index not written.
StepFails ==
    /\ op' = [op EXCEPT ![bar.at].why = "stopped"]
    /\ BarFailed
    /\ Moves(bar.at) \/ UNCHANGED <<head, newest>>
    /\ UNCHANGED orig

\* An abort; it may fail after the reset, or when the rebase has ended.
Aborts ==
    /\ head' = [head EXCEPT ![bar.at] = orig]
    /\ \/ op' = [op EXCEPT ![bar.at] = Clean] /\ orig' = 0 /\ (BarIs("acted") \/ BarFailed)
       \/ UNCHANGED <<op, orig>> /\ BarFailed
    /\ UNCHANGED newest

\* Commands on a repository run one at a time.
BarActs ==
    /\ bar.stage = "sent"
    /\ Rebasing(op[bar.at]) /\ op[bar.at].why # "running"
    /\ StepEnds \/ StepFails \/ Aborts
    /\ made' = Nothing
    /\ UNCHANGED <<rebases, view, shown, box, dialog, draft, subs, load>>

\* The command fails before it has changed anything, as when no rebase is left.
BarFails ==
    /\ bar.stage = "sent"
    /\ BarFailed
    /\ NothingMade /\ UNCHANGED <<view, shown, box, dialog, draft, subs, load>>

\* The hook's onSuccess has awaited a refetch of what is on display; then
\* clearRebaseDraftIfUnchanged.
BarReturns ==
    /\ bar.stage = "acted"
    /\ view[shown] = Seen(op[shown]) \/ shown # bar.at
    /\ draft' = IF draft.repo = bar.repo /\ draft.key = bar.key THEN Clear(draft) ELSE draft
    /\ bar' = NoBar
    /\ NothingMade /\ UNCHANGED <<view, shown, box, dialog, subs, load>>

-----------------------------------------------------------------------------

DraftNext ==
    \/ \E c \in Contexts : CommitElsewhere(c) \/ RebaseStarts(c) \/ RunsOn(c) \/ Shows(c)
    \/ Refetches \/ BoxMounts \/ BoxUnmounts \/ Types
    \/ \E s \in Submissions : \/ \E kind \in {"create", "add", "amend"} : Submits(s, kind)
                              \/ ConfirmsEmpty(s) \/ AddReturns(s)
                              \/ Commit(s) \/ CommitFails(s) \/ CommitReturns(s)
    \/ AsksForEmpty \/ DismissesEmpty
    \/ AsksToAmend \/ LastCommitReturns \/ CancelsAmend
    \/ Presses \/ BarActs \/ BarFails \/ BarReturns

DraftSpec == DraftInit /\ [][DraftNext]_draftVars

-----------------------------------------------------------------------------
(* Properties. *)

\* An amend replaces the commit whose message was loaded into the draft it was
\* made from, though HEAD moves and the context changes between loading it,
\* submitting it and making it (the lease of commit.rs:135).
AmendReplacesWhatWasLoaded ==
    made.kind = "amend" => made.text = CommitText(made.replaced)

\* A new commit carries text typed for a new commit, in the repository it is
\* made in: never the message of a rebase step, or of a commit that was to be
\* amended, that stayed in the draft. Two submissions are exempt: one that stages
\* files first, as to the repository; and an empty commit, as to the message of a
\* commit that was loaded while its dialog was open (see the README).
NewCommitsHaveNewText ==
    made.kind \in {"create", "add", "empty"} =>
        \/ made.text[1] = "typed" /\ (made.kind # "add" => made.text[2] = made.in)
        \/ made.kind = "empty" /\ made.text[1] = "commit"

\* While the box is on display, the draft is one of the repository shown. At a
\* pause with a reason, a prefilled draft was prefilled from that pause, and so was
\* the one that cancelling an amend would bring back; what it was prefilled with
\* may be the message of an earlier reword, which the backend offers again
\* (operation.rs:226). Once no rebase is left, no such draft is. Nothing is claimed
\* of a rebase without a pause reason: there the draft of the former pause stays.
DraftFitsTheScreen ==
    LET rebaseKeys == {key \in {draft.key, draft.saved.key} : IsRebase(key)} IN
    box => /\ draft.repo = shown
           /\ Paused(view[shown]) => rebaseKeys \subseteq {RebaseKey(shown, view[shown])}
           /\ view[shown] = Clean => rebaseKeys = {}

=============================================================================
