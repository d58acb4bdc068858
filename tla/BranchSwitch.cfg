SPECIFICATION Spec
CONSTANTS
    Names = {main, new}
    Main = main
    Born = {main}
    Changes = {c1, c2}
    Picker = picker
    Panels = {p1}
    MaxStashes = 2
SYMMETRY Perms
INVARIANTS
    NothingIsLost
    RollbacksAddUp
CHECK_DEADLOCK FALSE
