SPECIFICATION Spec
CONSTANTS
  Drafts = {"d1"}
  Users = {"a", "b"}
  Threads = {"t1", "t2", "t3"}
  Docs = {1, 2}
  RequireApproval = TRUE
  SeparateApprover = TRUE
  MaxOpenDrafts = 2
  MaxVersions = 1
  MaxRevisions = 3
INVARIANTS
  PublishedWasApproved
CHECK_DEADLOCK FALSE
