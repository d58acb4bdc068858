---------------------------- MODULE MCCommitDraft ----------------------------
(* A small instance of the commit draft: two repositories. *)
EXTENDS CommitDraft, TLC

Perms == Permutations(Contexts) \cup Permutations(Submissions)
=============================================================================
