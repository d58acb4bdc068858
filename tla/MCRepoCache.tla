----------------------------- MODULE MCRepoCache -----------------------------
(* Instances of RepoCache for TLC: calls and invalidations are               *)
(* interchangeable, so their permutations are symmetries.                    *)
EXTENDS RepoCache, TLC

Symmetry == Permutations(Requests) \cup Permutations(Invalidations)
==============================================================================
