SPECIFICATION Spec
CONSTANTS
  Watched = {"status"}
  Kinds = {"head", "stash"}
  Commands = {"stashPop"}
  MaxChanges = 1
  MaxCommands = 1
  MaxFocus = 2
  MaxFailures = 1
INVARIANTS AnnouncedIsShown WatchedIsCurrent TablesAgree
CHECK_DEADLOCK FALSE
