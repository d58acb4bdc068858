---------------------------- MODULE MCRepoContexts ----------------------------
(* The symmetry of RepoContexts: calls of one kind are interchangeable.     *)
EXTENDS RepoContexts, TLC

Symmetry == Permutations(Creates) \cup Permutations(Disposals) \cup Permutations(Owners)
==============================================================================
