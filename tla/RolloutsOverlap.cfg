SPECIFICATION Spec
CONSTANTS
  Repos = {"r1", "r2"}
  InitRepos = {"r1"}
  Exceptions = {}
  ScopeOf <- MCScopeOf
  Admins = {"a1", "a2"}
  Stages <- MCStages
  Changes = {"publish", "rollout", "repositories"}
  RepositoriesLeave = FALSE
  MaxChanges = 5
  MaxCrashes = 0
  MaxAttempts = 1
INVARIANTS
  FreshWhenUpToDate
CHECK_DEADLOCK FALSE
