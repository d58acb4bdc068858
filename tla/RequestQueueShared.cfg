SPECIFICATION FairSpec
CHECK_DEADLOCK FALSE
CONSTANTS
    Requests = {r1, r2, r3}
    Paths = {a, b}
    Queues = {q1}
    QueueOf <- MCOneQueue
    MaxWorkers = 2
    NoRequest = NoRequest
INVARIANTS
    SlotsBounded
    DisplacedAreCancelled
    SupersededForCause
PROPERTY
    EveryRequestReturns
