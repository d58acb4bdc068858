\* A multi-threaded runtime: the leader may notify before the follower registers.
CONSTANTS
    Requests = {r1, r2}
    Invalidations = {}
    Namespaces = {n1}
    MaxVersion = 0
    AtomicSubscribe = FALSE
SPECIFICATION FairSpec
PROPERTY EveryCallReturns
CHECK_DEADLOCK FALSE
