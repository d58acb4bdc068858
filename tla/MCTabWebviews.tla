---------------------------- MODULE MCTabWebviews ----------------------------
(* A small instance of TabWebviews for TLC: the tabs other than the first are
   interchangeable. *)
EXTENDS TabWebviews, TLC
Perms == Permutations(Tabs \ {FirstTab})
=============================================================================
