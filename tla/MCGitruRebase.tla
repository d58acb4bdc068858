---------------------------- MODULE MCGitruRebase ----------------------------
(****************************************************************************)
(* Plans for model-checking GitruRebase.                                    *)
(****************************************************************************)
EXTENDS GitruRebase

CONSTANTS c1, c2, c3

MCCommits == {c1, c2, c3}

E(a, c) == [action |-> a, commit |-> c]

(* Three commits: what the todo list can be edited to during the rebase     *)
(* covers every action of the later entries; a plan that melds at once; and  *)
(* one that validate_todo refuses.                                          *)
MCPlansOfThree ==
    {<<E(a, c1), E("pick", c2), E("pick", c3)>> : a \in {"pick", "reword"}}
      \cup {<<E("pick", c1), E("squash", c2), E("pick", c3)>>,
            <<E("fixup", c1), E("pick", c2)>>}
==============================================================================
