SPECIFICATION Spec
CHECK_DEADLOCK FALSE
CONSTANTS
    Creates = {c1, c2, c3}
    Disposals = {d1}
    Closings = {k1}
    Owners = {o1, o2}
    NoContext = NoContext
SYMMETRY Symmetry
INVARIANTS
    NoneOutlivesItsOwner
    OneContextPerOwner
    ReturnedContextsLive
