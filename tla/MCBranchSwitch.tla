--------------------------- MODULE MCBranchSwitch ---------------------------
(* A small instance: a branch to create, two changes, one panel. *)
EXTENDS BranchSwitch, TLC

Perms == Permutations(Changes)
=============================================================================
