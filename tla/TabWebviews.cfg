SPECIFICATION Spec
CONSTANTS
  Tabs = {t1, t2, t3}
  FirstTab = t1
  NoTab = NoTab
  MaxActs = 4
INVARIANTS NothingOutlivesItsTab OpenTabsAreServed ActiveIsSeenAlone
CHECK_DEADLOCK FALSE
SYMMETRY Perms
