\* Three calls and one invalidation over two namespaces, multi-threaded runtime. The calls end, so the system stops.
CONSTANTS
    Requests = {r1, r2, r3}
    Invalidations = {i1}
    Namespaces = {n1, n2}
    MaxVersion = 1
    AtomicSubscribe = FALSE
SPECIFICATION Spec
SYMMETRY Symmetry
INVARIANTS FreshAfterInvalidation SingleFlight WokenFindsResult
PROPERTY ImplementsContract
CHECK_DEADLOCK FALSE
