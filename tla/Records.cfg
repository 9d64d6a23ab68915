SPECIFICATION AllSpec
CONSTANTS
  Keys <- MCKeys
  Addresses <- MCAddresses
  Endpoints <- MCEndpoints
  Processes <- MCProcesses
  MaxAttempts = 2
  MaxLosses = 1
  LeaseOutlived = FALSE
  Repos = {"r"}
  Handlers = {"h"}
  Jobs = {"w"}
  Syncs = {"s"}
  MaxChanges = 2
  MaxHandled = 2
  MaxCrashes = 1
  Users = {"u"}
  Elsewhere = {}
  SignIns = {"s"}
  SessionIds = {1, 2}
  Threads = {"t1", "t2"}
  StateLimit = 1
  IdleLimit = 2
  Lifetime = 3
INVARIANTS
  Types
  OneSender
PROPERTIES
  FansOutOnce
  RemovedIsQuiet
  RemovedIsDiscarded
  WorkEnds
CHECK_DEADLOCK FALSE
