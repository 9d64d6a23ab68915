------------------------------- MODULE MCScans -------------------------------
(***************************************************************************)
(* What a scan finds and what becomes of it, on small instances checked in *)
(* one run: violations, the commits of a push, hook files, the policy of a *)
(* rule, and the pages and the posture that show the result.  The variable *)
(* "part" says which component, with which constants, a behaviour is one   *)
(* of; the variables of the others do not change.                          *)
(***************************************************************************)
EXTENDS Violations, FiniteSets

CONSTANTS
  RepositoryGroups,      \* the groups of a repository whose policy is resolved
  MaxGrants, MaxEntries, \* bounds of its exceptions, and of layers with an entry
  HooksWritten, MaxWrites, \* the hooks the user may write, and how often
  FewRepos, MoreRepos,     \* repositories whose posture is shown
  Refreshes,               \* refreshes of their enforcement status
  MaxFacts,                \* bound of what is known against one of the few
  CloneBranches, MainBranch, Pushers, \* a clone, its default branch, and what pushes from it
  MaxCommits, MaxPushes,   \* bounds of its commits, and of pushes
  FewCommits, FewPushes,   \* of commits that are pushed, of pushes that rewrite
  AgedPages, ListedPages, ReopenedPages  \* installations whose pages are shown

\* A repository starts with one commit, on its default branch.
ASSUME FirstCommit == MainBranch \in CloneBranches /\ MaxCommits \in Nat \ {0}

\* The bounds of what is counted are numbers.
ASSUME CountedBounds == {MaxWrites, MaxPushes} \subseteq Nat

\* A session ends (SESSION_LIFETIME, 8 hours) before anything is old enough to be deleted
\* (COMMITGUARD_APP_RETENTION_DAYS, at least a day); "any" is a filter that selects everything.
ASSUME ShownInstallations ==
  /\ ~AgedPages.reopens /\ ~ListedPages.reopens
  /\ \A c \in {AgedPages, ListedPages, ReopenedPages} :
       /\ IsFiniteSet(c.repos) /\ IsFiniteSet(c.rules) /\ "any" \notin c.repos
       /\ c.kinds \subseteq {"configuration", "other"} /\ {c.scans, c.time} \subseteq Nat
       /\ c.lifetime \in Nat /\ c.retention \in Nat /\ c.lifetime <= c.retention

VARIABLES
  part,
  commits, local, known, tracking, remote, push, pushes, unchecked, events, scanned, accepted,
  path, chained, setting, op, kept, writes,
  branch, evidence, refresh, installation, listed, facts,
  now, connection, repos, required, jobs, findings, violations, session, sequence, changes,
  in

violationVars == vars
commitVars == <<commits, local, known, tracking, remote, push, pushes, unchecked, events, scanned,
                accepted>>
hookVars == <<path, chained, setting, op, kept, writes>>
postureVars == <<branch, evidence, refresh, installation, listed, facts>>
viewVars == <<now, connection, repos, required, jobs, findings, violations, session, sequence, changes>>
allVars == <<part, violationVars, commitVars, hookVars, postureVars, viewVars, in>>

-----------------------------------------------------------------------------
\* Violations: one finding in a group of each kind.  The transactions treat the rows of
\* every finding on their own, so one finding shows what can happen to it.
MCFindings == {"v1"}
MCPullRequests == {"pr"}
MCBranches == {"main"}
MCMergeGroups == {"mg"}

\* The clone of a developer: pushes of its branches, with other people's pushes and force
\* pushes in between; and commits that the pre-push hook rewrites
Clone == INSTANCE OutgoingCommits WITH Branches <- CloneBranches, Default <- MainBranch, Kinds <- {"line", "identity"}

Hooks == INSTANCE HookFiles WITH Hooks <- HooksWritten, Meanwhile <- FALSE

\* One repository of which everything may be known
OneRepository == INSTANCE Posture WITH
  Repos <- FewRepos, Settings <- {"none", "other", "ours"},
  FactsUsed <- {"paused", "configuration_error", "policy_error", "critical", "monitor", "high_exception"}

\* Two repositories, and the protection of their branches
TwoRepositories == INSTANCE Posture WITH
  Repos <- MoreRepos, Settings <- {"none", "ours"}, FactsUsed <- {"paused"}, MaxFacts <- 0

\* The pages of an installation, and the history behind them
Views(c) == INSTANCE DashboardViews WITH
  Repos <- c.repos, Rules <- c.rules, Heads <- c.heads, Critical <- c.critical, Kinds <- c.kinds,
  Retention <- c.retention, SessionLifetime <- c.lifetime, Reopens <- c.reopens,
  MaxScans <- c.scans, MaxTime <- c.time, MaxChanges <- c.changes,
  installation <- connection, evidence <- required

OneShown ==
  [repos |-> {"r1"}, rules |-> {"k1"}, heads |-> {1}, critical |-> {"k1"}, kinds |-> {"configuration"},
   retention |-> 1, lifetime |-> 1, reopens |-> FALSE, scans |-> 1, time |-> 3, changes |-> 2]

\* One repository for three periods of retention; two repositories and two scans; a pull
\* request that is closed and opened again
MCAgedPages == OneShown
MCListedPages == [OneShown EXCEPT !.repos = {"r1", "r2"}, !.kinds = {}, !.scans = 2, !.time = 2, !.changes = 1]
MCReopenedPages == [OneShown EXCEPT !.reopens = TRUE, !.kinds = {}, !.time = 2, !.changes = 1]

\* The policy layers, exceptions and configuration of a rule
Resolved == INSTANCE GovernedResolution WITH Groups <- RepositoryGroups

Parts == {"violations", "pushed", "rewritten", "hooks", "one_repository", "two_repositories",
          "aging", "listed", "reopened", "resolved"}

-----------------------------------------------------------------------------
AllInit ==
  /\ part \in Parts
  /\ Init
  /\ Clone!Init
  /\ Hooks!Init /\ (part # "hooks" => setting = "unset")
  /\ IF part = "two_repositories" THEN TwoRepositories!Init ELSE OneRepository!Init
  /\ CASE part = "listed" -> Views(ListedPages)!Init
       [] part = "reopened" -> Views(ReopenedPages)!Init
       [] OTHER -> Views(AgedPages)!Init
  /\ Resolved!Init

ViolationsStep ==
  part = "violations" /\ Next /\ UNCHANGED <<part, commitVars, hookVars, postureVars, viewVars, in>>

CommitsOnly == UNCHANGED <<part, violationVars, hookVars, postureVars, viewVars, in>>
PushedStep ==
  /\ part = "pushed" /\ Clone!Next /\ CommitsOnly
  /\ Len(commits') <= FewCommits /\ \A c \in 1..Len(commits') : commits'[c].kind # "identity"
RewrittenStep == part = "rewritten" /\ Clone!Next /\ CommitsOnly /\ pushes' <= FewPushes

HooksStep ==
  part = "hooks" /\ Hooks!Next /\ UNCHANGED <<part, violationVars, commitVars, postureVars, viewVars, in>>

PostureOnly == UNCHANGED <<part, violationVars, commitVars, hookVars, viewVars, in>>
OneRepositoryStep == part = "one_repository" /\ OneRepository!Next /\ PostureOnly
TwoRepositoriesStep == part = "two_repositories" /\ TwoRepositories!Next /\ PostureOnly

ViewsOnly == UNCHANGED <<part, violationVars, commitVars, hookVars, postureVars, in>>
AgingStep == part = "aging" /\ Views(AgedPages)!Next /\ ViewsOnly
ListedStep == part = "listed" /\ Views(ListedPages)!Next /\ ViewsOnly
ReopenedStep == part = "reopened" /\ Views(ReopenedPages)!Next /\ ViewsOnly

ResolvedStep ==
  part = "resolved" /\ Resolved!Next
    /\ UNCHANGED <<part, violationVars, commitVars, hookVars, postureVars, viewVars>>

AllNext ==
  \/ ViolationsStep \/ PushedStep \/ RewrittenStep \/ HooksStep
  \/ OneRepositoryStep \/ TwoRepositoriesStep
  \/ AgingStep \/ ListedStep \/ ReopenedStep \/ ResolvedStep

AllSpec == AllInit /\ [][AllNext]_allVars

-----------------------------------------------------------------------------
\* The variables of the component that runs have their types.
Types ==
  CASE part = "violations" -> TypeOK
    [] part \in {"pushed", "rewritten"} -> Clone!TypeOK
    [] part = "hooks" -> Hooks!TypeOK
    [] part = "one_repository" -> OneRepository!TypeOK
    [] part = "two_repositories" -> TwoRepositories!TypeOK
    [] part = "aging" -> Views(AgedPages)!TypeOK
    [] part = "listed" -> Views(ListedPages)!TypeOK
    [] part = "reopened" -> Views(ReopenedPages)!TypeOK
    [] part = "resolved" -> Resolved!TypeOK

\* No blocked commit reaches the remote past the pre-push hook unless it was pushed past
\* it, and when every push event was handled the CI check has analysed every commit of
\* every branch (CheckedBeforePublished, EverythingScanned).
NothingUnchecked == Clone!CheckedBeforePublished /\ Clone!EverythingScanned

\* Whatever moves a branch of the clone, the work of its history is kept (OutgoingCommits).
WorkIsKept == Clone!WorkIsKept

\* No operation on hooks loses a hook the user wrote (HookFiles).
NothingLost == part = "hooks" => Hooks!NothingLost

\* An organization is shown as secure only on evidence for each of its repositories (Posture).
SecureIsEarned ==
  /\ part = "one_repository" => OneRepository!SecureIsEarned
  /\ part = "two_repositories" => TwoRepositories!SecureIsEarned

\* The pages that show the same history agree, and what they show can be explained
\* (DashboardViews; a reopened violation may have lost its evidence).
PagesAgree ==
  /\ part = "aging" => Views(AgedPages)!PagesAgree /\ Views(AgedPages)!HistoryIsExplained
  /\ part = "listed" => Views(ListedPages)!PagesAgree /\ Views(ListedPages)!HistoryIsExplained
  /\ part = "reopened" => Views(ReopenedPages)!PagesAgree

\* A mandatory requirement is enforced, whatever else is configured, and a stricter one
\* never weakens a rule (GovernedResolution).
FloorHolds == part = "resolved" => Resolved!FloorHolds
StricterNeverWeakens == Resolved!StricterNeverWeakens
=============================================================================
