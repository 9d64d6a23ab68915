SPECIFICATION Spec
CONSTANTS
  Repos = {"r1"}
  Handlers = {"h1", "h2"}
  Jobs = {}
  Syncs = {}
  MaxChanges = 3
  MaxHandled = 3
  MaxCrashes = 0
PROPERTIES
  DeletedIsNotRevived
CHECK_DEADLOCK FALSE
