SPECIFICATION AllSpec
CONSTANTS
  Drafts = {"d1"}
  Users = {"a"}
  Threads = {"t1", "t2"}
  Docs = {1, 2}
  RequireApproval = FALSE
  SeparateApprover = FALSE
  MaxOpenDrafts = 1
  MaxVersions = 2
  MaxRevisions = 2
  Members = {"u1", "u2"}
  Elsewhere = {}
  SignIns = {"s1", "s2"}
  SessionIds = {1, 2}
  Requests = {"t1", "t2"}
  StateLimit = 1
  IdleLimit = 1
  Lifetime = 1
  MaxRoleChanges = 3
  Callers = {"u"}
  Colleagues = {"u", "v"}
  ApiOrganizations = {"o"}
  ApiSessions = {"s", "r"}
  OneSession = {"s"}
  OneRequest = {"t1"}
  RequestLimit = 1
  HigherLimit = 2
  Tracked = 5
  MaxSent = 3
  MaxMinutes = 1
  Simulations = {"s1"}
  Runners = {"p1"}
  ScannedRepos = {1, 2}
  Branches = {"g", "h"}
  ScanLimit = 2
  MaxOpen = 1
  MaxRecorded = 3
  PanelTypes = {"h"}
  PanelMandatory = {}
  Administrators = {"a1", "a2"}
  MaxSaves = 2
  EventTypes = {"m", "h"}
  MandatoryTypes = {"m"}
  InboxMembers = {"u"}
  MaxOccurrences = 3
  RowIds = {1, 2, 3}
  RowRanks = {1, 2}
  PageRows = 1
  MaxListed = 3
  MaxMoments = 2
  Operations = {"list_installation_repositories", "update_check_run", "create_check_run", "exchange_oauth_code"}
  Granted = {"r1", "r2", "r3", "r4"}
  PerPage = 1
  MaxPages = 3
  MaxAttempts = 3
  MaxRateLimitWait = 60
  Waits = {2, 90}
  MaxCalls = 2
INVARIANTS
  Types
  ResultsAreSound
  SignInOnce
  RequestsAreJudged
  PagesStable
  CarriedOutOnce
PROPERTIES
  ImplementsHistory
  OwnerKept
  SettingsAreRespected
CHECK_DEADLOCK FALSE
