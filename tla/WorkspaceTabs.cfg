SPECIFICATION Spec
CONSTANTS
  SessionIds = {t1, t2}
  MainTab = t1
  Repos = {r1, r2}
  NoRepo = NoRepo
  NoSnap = NoSnap
  Unloaded = Unloaded
  Unbound = Unbound
  KnownAtStart = {r1, r2}
  Views = {"none", "FileDiff"}
  Kinds = {k}
  MaxActs = 3
  MaxEvents = 1
INVARIANTS NothingToRepair TabsAreIsolated HostLearnsWhatTabsShow
PROPERTIES DropMatchesPreview
CHECK_DEADLOCK FALSE
SYMMETRY Perms
