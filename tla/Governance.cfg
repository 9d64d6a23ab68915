SPECIFICATION AllSpec
CONSTANTS
  Repos = {"r1", "r2"}
  InitRepos = {"r1"}
  Exceptions = {"group", "r1"}
  ScopeOf <- MCScopeOf
  Admins = {"a1"}
  Stages <- MCStages
  Changes = {"mode", "settings", "exception"}
  RepositoriesLeave = FALSE
  MaxChanges = 3
  MaxCrashes = 1
  MaxAttempts = 1
  Loops = {"l1", "l2"}
  OneLoop = {"l1"}
  MaxRetries = 1
  MaxFailures = 1
  Scheduled = {1, 2}
  LateScope = {2}
  PerTick = 1
  MaxSlots = 2
  MaxRevisions = 1
  MaxOutages = 1
  Ids = {"s1", "s2"}
  MaxOpen = 1
  Drafts = {2}
INVARIANTS
  Types
  FreshWhenUpToDate
  RecordedAsDone
PROPERTIES
  VersionsAdvance
  WorkEnds
CHECK_DEADLOCK FALSE
