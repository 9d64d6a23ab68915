SPECIFICATION AllSpec
CONSTANTS
  Findings <- MCFindings
  PullRequests <- MCPullRequests
  Branches <- MCBranches
  MergeGroups <- MCMergeGroups
  MaxScans = 3
  Acknowledging = TRUE
  RepositoryGroups = {"g1", "g2"}
  MaxGrants = 2
  MaxEntries = 2
  HooksWritten = {"h1", "h2"}
  MaxWrites = 4
  FewRepos = {"r1"}
  MoreRepos = {"r1", "r2"}
  Refreshes = {"f1"}
  MaxFacts = 2
  CloneBranches = {"main", "b"}
  MainBranch = "main"
  Pushers = {"p"}
  MaxCommits = 4
  MaxPushes = 3
  FewCommits = 3
  FewPushes = 1
  AgedPages <- MCAgedPages
  ListedPages <- MCListedPages
  ReopenedPages <- MCReopenedPages
INVARIANTS
  Types
  StatusMatchesExposures
  NewestScanStands
  NothingUnchecked
  NothingLost
  SecureIsEarned
  PagesAgree
  FloorHolds
PROPERTIES
  BranchExposureKept
  WorkIsKept
  StricterNeverWeakens
CHECK_DEADLOCK FALSE
