SPECIFICATION SharedSpec
CONSTANTS
  ScanKeys = {"pr_new", "push_dev"}
  GroupOf <- MCGroupOf
  SlotOf <- MCSlotOf
  Groups <- MCGroups
  Slots <- MCSlots
  PullRequests <- MCPullRequests
  MergeGroups <- MCMergeGroups
  w1 = w1
  w2 = w2
  Workers = {w1, w2}
  QueueSize = 1
  MaxAttempts = 2
  MaxRetries = 1
  MaxJobs = 2
  MaxCrashes = 1
  ApiFails = TRUE
  StoreFails = TRUE
  AccessChanges = FALSE
SYMMETRY WorkerSymmetry
INVARIANTS
  TypeOK
  OneHolder
  ResultMatchesCheck
PROPERTIES
  NewerResultStands
CHECK_DEADLOCK FALSE
