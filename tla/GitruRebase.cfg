SPECIFICATION FairSpec
CHECK_DEADLOCK FALSE
CONSTANTS
    c1 = c1
    c2 = c2
    c3 = c3
    Commits <- MCCommits
    Plans <- MCPlansOfThree
    Faults = {"start", "init", "pick", "pop", "crash"}
    MaxFaults = 1
INVARIANTS
    EveryChangeReplayed
    AutostashReturned
    PausedChangeIsCommitted
    BranchMovesLast
    AbortRestores
PROPERTIES
    EveryRebaseEnds
