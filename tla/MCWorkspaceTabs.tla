--------------------------- MODULE MCWorkspaceTabs ---------------------------
(* Small instances of WorkspaceTabs for TLC. *)
EXTENDS WorkspaceTabs, TLC
Perms == Permutations(Repos)
=============================================================================
