\* Two kinds of change and four reported events. Events run out, so the system stops.
CONSTANTS
    Kinds = {"index", "head"}
    MaxPushes = 4
SPECIFICATION FairSpec
INVARIANTS NoCallbackAfterStop NothingForgotten
PROPERTIES ChangesAreReported
CHECK_DEADLOCK FALSE
