SPECIFICATION FairSpec
CONSTANTS
  ScanKeys = {"pr_old"}
  GroupOf <- MCGroupOf
  SlotOf <- MCSlotOf
  Groups <- MCGroups
  Slots <- MCSlots
  PullRequests <- MCPullRequests
  MergeGroups <- MCMergeGroups
  w1 = w1
  Workers = {w1}
  QueueSize = 1
  MaxAttempts = 2
  MaxRetries = 0
  MaxJobs = 3
  MaxCrashes = 0
  ApiFails = FALSE
  StoreFails = FALSE
  AccessChanges = FALSE
PROPERTIES
  ReopenedIsScanned
CHECK_DEADLOCK FALSE
