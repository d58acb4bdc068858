SPECIFICATION DraftSpec
CONSTANTS
    Contexts = {a, b}
    Steps = 2
    MaxCommits = 2
    MaxRebases = 1
    Pauses = {"reword", "edit"}
    MaxCalls = 2
    Submissions = {s1}
SYMMETRY Perms
INVARIANTS
    AmendReplacesWhatWasLoaded
    NewCommitsHaveNewText
    DraftFitsTheScreen
CHECK_DEADLOCK FALSE
