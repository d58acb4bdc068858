SPECIFICATION ScopeFairSpec
CONSTANTS
  Repos = {r1, r2}
  NoRepo = NoRepo
  NoScopeContext = NoScopeContext
  MaxSwitches = 3
  MaxContexts = 3
INVARIANTS ShownIsLive ReadyIsCurrent NothingStaysBehind LastSwitchWins
CHECK_DEADLOCK FALSE
PROPERTY ScopeSettles
