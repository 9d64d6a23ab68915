# CommitGuard: TLA+ models and proofs

CommitGuard inspects commits for declared AI involvement and enforces policy on
them. Its GitHub App is a service that receives webhooks, queues scan jobs,
publishes Check Runs, tracks violations, applies an organization's governance and
notifies people; its hooks and CI check do the same in a clone. This directory
holds TLA+ models of the parts whose correctness depends on concurrency, failure
and ordering, the TLC runs that check them on small instances, and TLAPS proofs of
main properties for every instance.

Paths below are relative to `src/src/commitguard/`, those of documents to `src/`.

## 1. The system

| Part | State it keeps | Operations | Talks to |
|---|---|---|---|
| Webhook service (`github/app.py`, `server.py`, `webhooks.py`) | `deliveries`, `merge_groups` | receive, handle, redeliver, declare stuck | stores jobs, ends exposures, wakes workers |
| State store (`github/storage.py`) | SQLite tables; every method is one transaction | see the parts that use it | shared by all threads and by several processes |
| Queue (`github/queue.py`) | bounded in-process set of job IDs | put (dropped when full), get | woken by events and maintenance |
| Workers (`github/worker.py`) | progress of a scan; per-slot locks | claim, own the check, publish, record, cancel, fail | GitHub API, store, violations, outbox |
| Recovery (`github/recovery.py`, maintenance loop of `app.py`) | attempts and leases in `scan_jobs` | recover, retry, declare exhausted | queue, workers |
| Violations (`controlplane/results.py`) | `violations`, `violation_exposures` | record a scan, close, merge, reopen, delete, destroy | called by workers and handlers |
| Dashboard commands (`controlplane/commands.py`) | acknowledgements, monitoring | acknowledge, re-scan, pause | store |
| Installations (`github/installations.py`), tokens (`auth.py`), mirrors (`repositories.py`) | installations, known repositories, token cache, bare clones | sync, suspend, remove, mint, invalidate, fetch, purge | GitHub, jobs, disk |
| GitHub client (`github/client.py`) | none | calls with retries, lists page by page | GitHub |
| Notifications (`notifications/`, `controlplane/notifications.py`, `web/`) | outbox events, inbox entries, deliveries, endpoints, settings | emit, dispatch, attempt, retry, purge, edit settings, mute, mark | in the transactions of all others; SMTP, HTTP |
| Policy workflow (`governance/workflow.py`, `controlplane/policies.py`) | drafts, approvals, immutable versions | edit, submit, approve, publish, roll back | rollouts, cache |
| Simulations (`governance/simulation.py`) | `policy_simulations` | start, claim, evaluate, finish | history of scans, resolution |
| Rollouts, schedules, bulk, exceptions, groups (`governance/`) | stages, runs and cursors, leased items, grants, members | advance, pause, roll back, run, expire | jobs, cache, outbox |
| Policy resolution (`policies/governance.py`, `governance/resolver.py`, `cache.py`) | `repository_effective_policies` | resolve, invalidate, propagate | scans |
| Posture (`governance/posture.py`, `reports.py`) | `enforcement_status` | refresh, classify, summarise | GitHub, store |
| Identity and members (`controlplane/identity.py`, `members.py`) | sign-in states, sessions, memberships | sign in, authenticate, revoke, grant | all dashboard requests |
| Dashboard API (`api/`, `controlplane/queries.py`) | rate limit windows | authenticate, limit, authorise, list, count | everything above |
| Ranges and analysis (`git/`, `services/`, `ci.py`) | none | select commits, judge them, rewrite them | hooks, CI, workers |
| Git hooks (`git/hooks.py`, `services/hooks.py`, `push_fix.py`) | files of a clone and of a template directory | install, chain, repair, remove, check, rewrite | git |
| Detection and evaluation (`core/`, `detectors/`, `rules/`, `policies/`) | none | pure functions over commits | all of the above |

What makes it hard:

* several worker threads, request threads, a maintenance thread and a notification
  thread share one database, and several processes may run on the same host;
* every step may be the last one of a process; recovery is by leases, attempt
  counters and redelivery;
* GitHub is a second store that cannot be part of a transaction: calls fail, or
  take effect although the answer is lost, and webhooks arrive late, twice or in
  another order;
* two scans may publish to the same Check Run, because checks belong to a commit
  and not to a branch or pull request;
* many operations read in one transaction and write in a later one;
* several tables tell the same story and are deleted by different rules.

What would make each part correct, in a sentence: a delivery is handled once and
not lost; a job is run by one worker and ends; a Check Run shows the newest result
and does not hang; a violation is open exactly while some pull request, branch or
merge group contains it; a message is sent by one sender, ends, and is not
forgotten; a target's policy is a history to which approved and current documents
are added one at a time; no scan uses a policy that no longer applies, and nothing
weakens what an organization makes mandatory; an operation that has ended did what
it reports; what an installation's removal must discard is discarded; every commit
of a branch is looked at by somebody; no hook of a user is lost; a repository
called secure is; pages of the dashboard agree. `PROJECT.json` lists the hazards
line by line.

## 2. Plan

All modules of the plan are written (section 3); what the first plan called
`Policies` is `PolicyWorkflow`, `Rollouts` and `PolicyCache` are one module,
`EffectivePolicy`, since rollouts decide what the cache has to hold, and
`BulkAndSchedules` are two. Left for later, most important first:

1. Proofs: the invariants that section 5 lists as only model-checked, of the modules
   without recursive functions first.
2. Composition of `Deliveries` and `ScanPipeline` over the job table, and
   `ScanPipeline` with several processes, whose slot locks do not exclude each
   other, and with retention of ownership records.
3. An abstract "newest result per slot" that `ScanPipeline` implements.

## 3. Modules and code

### ScanPipeline

One repository of one installation, in one service process. A job is its sequence
number; a scan key is a logical scan (event, base, head); a slot is a (commit,
check name) pair. Time is abstracted to what it decides: leases are live or
expired, backoff may or may not have passed.

| Variable | Code |
|---|---|
| `jobs` | rows of `scan_jobs`, in sequence order |
| `slots` | `check_runs`: `owner_sequence`, and whether `check_run_id` is set |
| `queue` | `ScanQueue` |
| `workers` | the step, job, attempt and `_Progress` of each worker thread |
| `maint`, `rerun` | a retry or re-run that was checked and is still to be stored |
| `checks` | the Check Run GitHub shows, and which attempt of which job wrote it |
| `group`, `access` | GitHub's pull requests and merge groups; installation and monitoring |

`ScanEvent` is `create_job` and `put`; `RequestRerun`/`CreateRerun` and
`SelectRetry`/`CreateRetry` are the two halves of requests that check first and
store later. `Claim` is `claim_job_outcome`. A worker then takes the steps of
`_run`: `CheckJob` (supersession, pull request state), `ClaimCheck` (ownership and
the slot lock), `QueueCheck`, `SetRun`, `StoreRun`, `Plan`, `PublishResult`,
`RecordResult`, and the error paths `CancelJob`, `FailJob`, `PublishFailure`,
`Exhaust`. Every API call may succeed, fail without effect, or fail with effect;
every store call may raise. `Recover` is the maintenance loop, `Crash` loses
threads and queue. `EndGroup`, `GroupEnded`, `PullRequestMerged`, `Reopen`,
`RemoveAccess`, `RestoreAccess`, `SetMonitoring` are GitHub and administrators.
The scan itself is a choice between an allowed and a refused result. `ExpireLease` may
come while a worker is at the job; the history field `overrun` records it.

### Violations

A violation is a finding with its commit. `scans` holds running and completed
scans with the findings reachable from their head and those in their range;
`exposure`, `status` and `ack` are the columns of the two tables. `CheckReachable`
asks git before the transaction, `RecordCompleted` is the whole of
`record_completed` (upsert, staleness, exposures activated and closed, statuses
refreshed), and the group events are `pull_request_closed`, `_merged`,
`_reopened`, branch deletion and merge group destruction, each with its refresh.

### Deliveries

`record` is the `deliveries` table, `handler` the request threads. `Receive` is
`record_delivery` (new, duplicate, or processed again), the other steps are the
transactions of the handlers in order, and `finish_delivery`. A handler may fail or
die between any two. `Age` and `FailStuck` are `fail_stuck_deliveries`.

### Notifications

`events` and `deliveries` are the tables, `enabled` and `removed` the settings and
removed endpoints, `process` the attempt of each notification thread, `sends` a
count of the messages handed to a provider (no code variable; it is counted up to
one more than `SendLimit`, so exceeding the limit shows). `Emit`, `Dispatch`,
`Purge`, `SetEnabled`, `RemoveWebhook`, `Claim`, `ReadDelivery`, `Send` and
`StoreResult` are one transaction or call each.

### Governance

`PolicyWorkflow`: the versions of one target, and the drafts that propose new ones.
Every request thread first reads (`ReadUpdate`, `ReadSubmit`, `ReadDecide`,
`ReadCancel`, `PublishDraft`, `SavePolicy`, `RollBack`) and later writes in its
transaction (`Update`, `Submit`, `Decide`, `Cancel`, `CheckPublication`,
`CommitPublication`), as `workflow.py` and `policies.py` do; only what the code
compares again in the transaction is compared again. A document is the strictness
of its one rule. `PolicyHistory` is the abstract specification: a history to which
one version is added at a time, each with a true record of whether it weakens the
one before it, and every draft published at most once. `ImplementsHistory` is that
`PolicyWorkflow` implements it, with `history` the versions and `published` the
drafts in state `published`.

`EffectivePolicy`: which governance a scan of a repository uses. `versions`,
`rollout`, `group`, `exception`, `mode`, `settings`, `rules` and `known` are tables
that changes write together with the invalidation of `row`
(`repository_effective_policies`); `Resolve` is what a scan would compute from the
database, `Propagate` the maintenance loop's job that resolves stale rows one by
one, `Scan` the resolution before a scan. `ReadAdvance`/`Advance`, `ReadRollback`/
`RollBack` and `Halt` are the two-transaction operations on rollouts.

`GovernedResolution`: `resolve_policy` as an operator (`Decision`) on a record of
inputs, with an action for every change of an input. Rules do not influence each
other, so a rule stands for all.

`BulkOperations`: one operation, its lease, its items, and the passes of every
maintenance loop (claim, batch after batch, item by item when a batch fails or the
operation schedules scans, store, finish), with `ReadRequest` before `Cancel` and
`Retry`. `Schedules`: one schedule; a pass keeps the place in the list it computed while
the stored cursor, the schedule and the scope change. `Simulations`: queued simulations,
the runners that claim them, read the policies once and then the scans of one repository
after the other.

### Access

`Sessions`: `ConsumeState`, `StoreSession` and `SignInFails` are the steps of a
sign-in around its calls of GitHub; `Authenticate`, `Expire`, `Touch`, `ReadRoles`
and `Serve` those of a request; `PutMember`, `DeleteMember`, `OperatorGrants` and
`OperatorRevokes` change roles. Ages are counted in `LAST_SEEN_RESOLUTION`.

`DashboardRequests`: the way of a request through the dispatcher. The route table
with its two permissions (the dispatcher's and the handler's) is that of `api/app.py`
and `api/governance.py`; `counted` holds the limiter's windows. A session expires and is
deleted later, by the first request that finds it or by maintenance (`Authenticate`,
`PurgeExpired`); it ends at once when it is revoked, or with the last membership of its
user. `Documented` is the table of permissions in `docs/dashboard.md`, and `Required` what
the code asks for where that table says something else (section 4).

`InstallationAccess`: GitHub's state and its events on one side, and the record, the
listed repositories, cached tokens and mirrors on the other. `Handle`, `SyncStep`
and `WorkerStep` are the transactions and calls of event handlers, synchronisation
and jobs; `CheckUnused` and `RemoveUnused` are retention of mirrors.

`GitHubCalls`: one call after another, with the retry rules of `client.py` for rate
limits, server errors and lost answers, and lists that grow while they are paged.

### Clones

`OutgoingCommits`: a graph of commits, the clone's and the remote's branches, the
pushes of the clone through the pre-push hook (ranges, analysis, rewriting,
`git update-ref` on the branch it read), pushes of others and past the hook, and
the CI check of every push event with the range and the policy it selects.
`HookFiles`: every file system call of install, repair and uninstall is a step, and
the process may die between two of them, while the user and other tools write hooks.

### What the dashboard shows

`Posture`: two reads of GitHub and the transaction that stores their result, and
the classification of repositories and organization. `DashboardViews`: each count,
filter and link is an operator translated from its query, over tables that scans
write and `Purge` deletes by different rules. `Listings`: keyset and offset cursors,
read page by page while rows are inserted, deleted and detected again.
`NotificationCenter`: the settings panel of the dashboard (edit, refetch, confirm),
its save with the version check, mutes, roles and the inbox.

### Modules for TLC

`MCScanPipeline`, `MCDeliveries` and `MCRollouts` instantiate one module each. The
former's `SharedSpec` is `ScanPipeline` without loss of access, which `MCPipelineLive`
has, and with at most one outlived lease. `MCPipelineLive`, `MCRecords`, `MCGovernance`,
`MCScans` and `MCDashboard` check several components, most of them with more than one
set of constants, in one run: `part` says which instance a behaviour is one of,
`AllInit` chooses it, and a step of one part leaves the variables of the others alone.
The parts share nothing, so a run is as good as one for each of them; a property is a
conjunction over the parts it is about, and the fairness of a part is stated of its own
steps. `MCRecords` extends `Notifications`, `MCScans` extends `Violations`,
`MCDashboard` extends `PolicyWorkflow`, and `MCGovernance` extends `EffectivePolicy`;
their sizes are constants that the `.cfg` files give values, so that the theorems are
about every size. The events and the synchronisations of an installation are two parts
of `MCRecords` over one instance, of which a part takes only its own steps. `*Proofs`
modules hold the theorems.

## 4. Runs

Runs that pass:

| Run | Properties | What it shows |
|---|---|---|
| `pipeline_shared` | `TypeOK`, `OneHolder`, `NewerResultStands`, `ResultMatchesCheck` | with an outlived lease, lost answers, failing calls, a crash and a pull request that is closed, merged or reopened, no older job overwrites a newer one; a job whose lease was not outlived has one worker, and its recorded result is what GitHub shows |
| `pipeline_live` | `OneHandlerPerDelivery`, `EventNotLost`, `WorkEnds`, `ChecksComplete` | events are handled by one thread and not lost; abandoned events and all jobs end; checks of open work complete, unless their job ended without GitHub being told |
| `records` | `Types`, `OneSender`, `FansOutOnce`, `RemovedIsQuiet`, `RemovedIsDiscarded`, `WorkEnds` | a message has one sender and one fan-out, removed destinations stay quiet, tokens and mirrors of a removed installation go; events, deliveries and sessions end |
| `governance` | `Types`, `FreshWhenUpToDate`, `RecordedAsDone`, `VersionsAdvance`, `WorkEnds` | no row called up to date follows outdated governance; bulk operations, schedule runs and simulations that are recorded as ended have nothing left to do; everything started ends |
| `scans` | `Types`, `StatusMatchesExposures`, `NewestScanStands`, `BranchExposureKept`, `NothingUnchecked`, `WorkIsKept`, `NothingLost`, `SecureIsEarned`, `PagesAgree`, `FloorHolds`, `StricterNeverWeakens` | from the commit to the dashboard: no commit and no work is lost, violations follow the newest scans, mandatory requirements are enforced, nothing is called secure without evidence |
| `dashboard` | `Types`, `ResultsAreSound`, `SignInOnce`, `RequestsAreJudged`, `PagesStable`, `CarriedOutOnce`, `ImplementsHistory`, `OwnerKept`, `SettingsAreRespected` | what administrators and members do at the same time, with requests to every route |

Some of these are conjunctions over components:

| Property | Of |
|---|---|
| `WorkEnds` of `pipeline_live` | `JobsEnd` (ScanPipeline), `AbandonedEnds` (Deliveries) |
| `WorkEnds` of `records` | `EventsDispatched`, `DeliveriesEnd` (Notifications), `SessionsEnd` (Sessions) |
| `WorkEnds` of `governance` | `PropagationEnds`, `OperationsEnd`, `RunsEnd`, `SimulationsEnd` |
| `RecordedAsDone` | `StatusMatchesItems`, `NoneSkippedSilently`, `SimulatedOnce` |
| `NothingUnchecked` | `CheckedBeforePublished`, `EverythingScanned` (OutgoingCommits) |
| `PagesAgree` | `PagesAgree`, `HistoryIsExplained` (DashboardViews) |
| `RequestsAreJudged` | `AnswersAreAllowed`, `LimitsHold` (DashboardRequests) |
| `CarriedOutOnce` | `CarriedOutOnce`, `ListsAreWhole` (GitHubCalls) |
| `SettingsAreRespected` | `SavesOnlyWhatWasAsked`, `MandatoryReaches` (NotificationCenter) |

Instances:

| Run | Part | Bounds |
|---|---|---|
| `pipeline_shared` | | a pull request and the branch pushed to its head, 2 workers, 2 jobs, 2 attempts, 1 retry, 1 crash, a queue of one; one lease is outlived, in behaviours without a crash, a repetition or an ended group |
| `pipeline_live` | deliveries | 2 deliveries of any event, 2 threads, 1 crash |
| | pushes | two branches at one commit, 2 workers, 2 jobs, 2 attempts, no retry, 1 crash, a queue of one; a job that is alone may outlive its lease |
| | failing | an open pull request, 1 worker, 2 jobs, 2 attempts, 1 retry, 2 crashes; calls of GitHub and the store fail, so attempts are used up |
| | paused, restarted | a merge group while the installation is removed and restored or monitoring paused, 1 worker; 2 jobs with a retry, or one job and a crash |
| `records` | outbox | an event for an address and an endpoint, 2 processes, 2 attempts, 1 lost attempt |
| | events, synced | one repository, a job, and 2 events or a synchronisation, 2 changes at GitHub, 1 crash |
| | sessions | one user, two sessions, two request threads |
| `governance` | rollouts, groups, modes | two repositories, 3 changes out of those the part is named for, 1 administrator; `modes` with a crash |
| | bulk_shared, bulk_retried | two repositories in batches of one; two loops of which one outlives its lease and that take one item in a pass, or one loop that takes both, and a retry; 1 failure |
| | two_loops, edited, shrinking | two repositories, one per pass, 2 slots, 1 outage; two loops, an edit, or a scope that shrinks |
| | simulated | 2 simulations, 2 runners, 1 open at a time, 1 crash |
| `scans` | violations | a finding in a pull request, a branch and a merge group, 3 scans in any order |
| | pushed, rewritten | two branches; 3 commits in 3 pushes, or 4 commits in a push that rewrites |
| | hooks | a repository and a template directory, 2 hooks of the user, 4 writes |
| | one_repository, two_repositories | all facts about one repository, or the protection of two |
| | aging, listed, reopened | retention of one period: a scan over 3 periods, two repositories, a pull request that is opened again |
| | resolved | two groups, 2 entries, 2 exceptions |
| `dashboard` | workflow | a draft, two threads, 2 documents, 2 versions, 2 revisions |
| | simulated | two repositories with two branches each, 3 scans, a publication meanwhile |
| | signed_in | two members, two sign-ins, two threads, 3 changes of roles |
| | limited, routed | three requests of a viewer in two minutes, whose session does not expire; one request to any route |
| | demoted, ended | two requests of two users of which one takes the other's role or membership, each with its session and token, of which none expires; two requests of one user of which one ends, or begins, a session |
| | dated, ranked | every list, 3 rows, pages of one, 2 times; 2 ranks in the lists sorted by one |
| | saved, delivered | two administrators, or a member with a mandatory and an optional event |
| | called | four repositories in pages of one, at most 3 pages, 3 attempts |

Runs that end in a counterexample, each a disagreement between the code and what
its documentation says (quoted in `PROJECT.json`, `findings`):

| Run | What the code does |
|---|---|
| `pipeline_reopen` | a pull request reopened while its scan finds it closed is left unscanned |
| `deliveries_merge_group` | a failure between two transactions loses a merge group |
| `policy_unapproved` | a submission and a decision that read the draft before an edit get the edited document published unapproved |
| `rollouts_overlap` | two administrators advance one rollout at the same time: a completed rollout goes back to an earlier stage, and a cached resolution for the other version stays up to date |
| `installation_revived` | an event that reads the state before a removal commits stores a live installation after it |
| `hooks_rollback` | the rollback of an installation overwrites a hook written meanwhile |

Bounds. Two workers, handlers, processes, loops or threads are enough for every race the
code guards against, since each guard is a conditional update on one row between two
parties. Two scan keys give a shared slot or two heads of a group; two attempts and a
crash make takeover and retry happen (the code allows three), two crashes exhaustion.
`MaxJobs` bounds rows (events, re-runs and retries), `MaxScans` scans, `MaxCrashes`,
`MaxLosses`, `MaxFailures` and `MaxOutages` failures that would otherwise repeat for
ever, `MaxChanges` what administrators and GitHub do. `QueueSize = 1` makes the queue
overflow, pages of one row put a page border at every place, `Budget = 1`,
`BatchSize = 1` and `PerTick = 1` an interruption after every item. One finding, rule or
repository loses nothing where the code treats each on its own. Worker threads are
symmetric in `pipeline_shared`, deliveries and threads in `deliveries_merge_group`, both
safety runs; no liveness run uses symmetry.

`CHECK_DEADLOCK FALSE` everywhere: a bounded instance in which all jobs, scans,
requests or changes are used up and done has nothing left to do; that the system does
not stop early is what the liveness properties check.

Fairness. Threads run on until they finish (weak fairness of `WorkerStep`,
`HandlerStep`, `ProcessStep`, `Pass`, `GoOn`, `Work`, `Propagate`): they have no
unbounded waits, and API, git, SMTP and HTTP calls have timeouts; the loops of bulk
operations, schedules and simulations are called on every tick. The maintenance and
notification loops run at fixed intervals and select by age, so a job or delivery that
is claimable again and again is claimed (strong fairness of `Claim` and `Recover`); a
claim is one transaction of a local database, so one that is tried for ever does not
fail for ever (`Claimed`). Nothing else that may fail is assumed to succeed. Time passes
(`ExpireLease`, `LeaseExpires`, `RetryDue`, `Age`, `Tick`). No fairness is assumed of
GitHub, of users, or of failures, and crashes are bounded: nothing ends in a system that
crashes for ever.

### Known limits of the code

Seen while modelling; the models contain them. Where a property states what is then
violated, it stands in the module with the constants that show it; no run checks it.

Scans:

* a worker that outlives its lease overwrites the attempt of the same job that replaced
  it (`github/worker.py:104`, `:365`: ownership is compared by job, not by attempt), so
  of such a job nothing is said of what GitHub shows; `OneHolder` and
  `ResultMatchesCheck` exempt it;
* a commit that arrives between the check of a re-run and its storing becomes older
  than the re-run (`github/app.py:635`; `RepeatsOnlyNewest`);
* a success check stays although its result could not be stored
  (`github/worker.py:341`; `SuccessIsStored`);
* push scans completing out of order leave findings without an exposure
  (`controlplane/results.py:555`; `PushedFindingIsExposed`);
* an event redelivered while a re-run or retry of its scan is active stores a
  second active execution, since `create_job` looks for `job_key` only
  (`github/storage.py:1668`);
* `_exhausted` returns when the job has no `check_run_id`, so a job whose attempts
  all died before storing it leaves a queued check (`github/worker.py:600`), where
  `github/recovery.py:20-21` says that one which cannot be recovered is failed and its
  check completed; the same happens when the one call that tells GitHub of a failed or
  exhausted job fails, or the process dies before it. Those jobs are in `unreported` of
  `MCPipelineLive`, and `ChecksComplete` exempts their checks, and only theirs;
* a scan that was running when its pull request was closed opens violations there,
  and reopening restores exposures the newest scan does not contain
  (`controlplane/results.py:166`, `:458`);
* `MAX_ATTEMPTS` counts results, not attempts: an attempt lost with its process is
  made again (`SendsBounded` is the bound that does hold, and is proved).

Governance:

* `advance` and `halt` check a rollout outside the transaction that stores the next
  stage: with two administrators a paused or rolled back rollout is expanded
  (`governance/rollouts.py:486`; `PausedIsNotExpanded`, `RollbackUndoesRollout`), and a
  completed one is opened again, so that repositories fall back to an older version
  (`VersionsAdvance` of the instance of `rollouts_overlap`);
* a scan that is running while its repository is purged stores a row for it, which a
  rollout that is completed before the repository comes back does not invalidate
  (`FreshWhenUpToDate` with `RepositoriesLeave` and rollouts);
  propagation gives up after 5 failures until the next scan; a scan reads the
  organization rules in a transaction of their own; an exception for a group that is
  archived between the check and the insert stays open;
* a bulk operation that is cancelled still applies the items a pass has read
  (`docs/repository-management.md:139`; `CancelStopsItems`), and one that is retried
  while a pass of another loop is ending ends with pending items (`StatusMatchesItems`
  with two loops and a retry, which is exactly what `RetriesAreSerial` of section 5
  excludes);
* a schedule's cursor counts places in a list that is computed again: a repository that
  leaves the scope makes the run skip the one after it (`governance/schedules.py:582`;
  `NoneSkippedSilently` with `ScopeShrinks`, which is why the run checks it for the
  other instances and of `shrinking` only that runs end); a stale pass can set a run
  that ended back to running;
* a submission that read its draft before another one leaves an approval nobody can
  decide (`PendingHasRequest`); a draft cancelled or edited after `publish` read it is
  published as it was read; an emergency publication leaves its approval pending; a
  decision that read an earlier submission lets a submitter approve their own;
* with `LeaseOutlived`, a simulation is recorded twice (`SimulatedOnce`), and nothing
  bounds how often one is claimed again.

Access and GitHub:

* a revoked session is answered with `UNAUTHENTICATED`, not with `SESSION_EXPIRED`
  (`docs/dashboard.md:154`; `Authenticate`), and so is an expired one after its first
  request; a sign-in under way stores a session after its member was
  removed; a request that read its role before a demotion still acts; `last_seen_at`
  may go back;
* cancelling and retrying bulk scans asks for `scans:trigger` only, where
  `docs/dashboard.md:646-647` says `repositories:manage` (`governance/bulk.py:372`,
  `:402`). `RequestsAreJudged` holds of these two routes with the permission the code
  asks for, which is the one line of `Required`; with `Documented` alone it does not.
  Requests that match no route or have no session are not counted by the limiter, which
  forgets all windows when its table is full;
* an authorization lists a repository again that was removed meanwhile; a token
  minted during `invalidate` is cached (`github/auth.py:158`); mirrors are deleted
  without the lock of their clone (`github/repositories.py:290`); a crash between the
  removal of an installation's rows and its mirrors leaves these to retention; a
  synchronisation status can stay "syncing"; an installation is also revived by a
  synchronisation or by the first event of a repository;
* repositories revoked while their list is paged hide others
  (`github/client.py:565`; `ListsAreWhole` with `Revokes`).

Clones:

* a push to a branch other than the default is judged by the configuration the push
  before it left there, also when that weakened it (`services/ci.py`;
  `WeakeningNeedsDefaultBranch` with `Kinds = {"line", "weakens"}`, no pushers, 3
  commits and 2 pushes);
* two installations of a hook at a time can overwrite the preserved hook.

Pages:

* a refresh that is older than another one stores its evidence over it; a report reads
  the overview and its rows separately; searches cut at 30 rows before visibility is
  checked; the implicit owner of a personal account is on every page of the list of
  members and pushes one member off all pages (`api/app.py:517`; `PagesStable` of
  `Listings` with `Lists = {"own members"}`); pages with offsets shift when members are
  removed, and a violation that is detected again while the list is read may be missed;
* an open violation links to the scan that detected it last, also when retention deleted
  that scan (`github/storage.py:2265`; `LinksOpen`), and one that is reopened may have
  lost its evidence (`HistoryIsExplained` with `Reopens`);
* an event that occurs between the display of the inbox and "mark all read" is marked
  unseen; an event that recurs keeps its first severity.

## 5. Proofs

TLAPS checks the following for every value of the constants of a module, under the
assumptions named: any number of scans, groups, workers, attempts, crashes, deliveries,
destinations, drafts, threads, policies, sign-ins, loops, repositories and simulations.
What a module for TLC fixes for one of its parts, its theorems fix too.

`ScanPipelineProofs`. `TypeCorrect` and `NewerStands` (`NewerResultStands`) hold
without a further assumption. No single worker step shows that a writer is not
older than the last one: it follows from an invariant that a worker past
`ClaimCheck` still holding the lock is the owner of its slot (`LockHolderOwns`)
and that the last writer of a check is never newer than the owner
(`OwnerIsNewest`). `OneHolderHolds` and `ResultIsShown` hold in all behaviours too, of
every job whose lease was not outlived, whatever the workers of other jobs do after
theirs. Their invariant adds that a worker's attempt is the job's current one
(`HolderIsCurrent`) and that a worker about to record has published what it records
(`RecordedIsShown`), both of the jobs that are not `overrun`.

`ScansProofs`, about what `MCScans` runs. `StatusIsExposure`, `NewestStands`,
`ReopenedIsUnacknowledged` and `BranchExposureIsKept`, from an invariant that also says
that an exposed violation is stored and that a finding a scan holds for gone is not
reachable from its head (`GoneIsUnreachable`): without it the check made before the
transaction would tell nothing in it. `FloorsHold`: with any layers, any configuration
and any mode, a mandatory requirement is lowered by nothing but an exception, and what
blocks is reported as a warning in monitor mode. `StricterIsNeverWeaker`: a mandatory
entry that is added or made stricter at any level never makes the decision weaker. Both
follow from lemmas on the ranks each stage of the resolution (`RequestedPolicy`,
`FloorRank`, `FlooredRank`, `GrantedRank`) returns.

`ScansTyped` (`Types`), of all components of the run. The types of a component are not
inductive where a value comes out of what others wrote, so they are proved with its
invariant (`ScanTypes`): what a push records names commits that exist because the tips of
all branches do (`CloneInv`) and the work of a commit is that of commits (`WorkIsKnown`);
what a refresh stores is one of the statuses because what it has read is known at each of
its steps; the counters of the views stay in their bounds because scans are numbered
without a gap.

`HooksAreKept` (`NothingLost`), for any hooks the user writes: an operation has several
steps, and may be killed between any two of them. The invariant says that what the user
wrote is in the hook or in the preserved one (`HooksInv`), that what an operation read is
still there when it acts on it, and that the hook is out of the way when it is wrapped.
The last two hold because nobody writes while an operation runs, which the instance
states (`Meanwhile = FALSE`); without it `hooks_rollback` has the counterexample.
`SecureIsAlwaysEarned` (`SecureIsEarned`), for any repositories and refreshes: the two
answers a refresh combines are of different moments, so the invariant relates what it has
read, and what the branch requires now if it may still read that, to whether the check was
required at any time since it began (`Witnessed`). The lemmas are about any settings and
facts (`Postured`, an instance with parameters) and carried over to the two organizations
of the run.

`PagesAlwaysAgree` (`PagesAgree`), for any repositories, rules, failures, retention and
bounds (`Views(c)`, an instance whose constants are the record `c`). The rows of the
overview come from the repositories that are known, its numbers from the violations a
session may see, and `purge_expired` forgets repositories. So the invariant relates the
time a repository was removed to the time the session began (`SessionInv`): it holds
because a session (8 hours) is never longer than the retention (at least a day), which is
the assumption `ShownInstallations`. What explains a violation or a blocked scan
(`HistoryInv`) is never older than it. That the rows sum up to the numbers is a fact about
a recursive function over sets (`RowsSum`): the induction theorems of the library cannot
be used, but a smallest counterexample can be taken (`SmallestMember`), which also gives
that the function exists (`SumExists`).

`NothingIsUnchecked` (`NothingUnchecked`) and `WorkStaysKept` (`WorkIsKept`), for any
branches, commits, pushes and pushers, in the commits of `OutgoingCommits`. A graph of
commits is acyclic since parents are older, so the recursive function of `Reach` exists
(`ReachExists`) and what it reaches is known by its unfolding (`History`), again from
smallest counterexamples: histories are closed (`HistoryIsClosed`) and do not change when
commits are added (`KeptHistory`). The invariant (`CloneInv`) says for the hook that all
tips it may leave out of a range are clean, those of the remote, the tracking refs and
the commits a push replaces, which were tips when it began (`Clean`, `OutgoingIsAll`);
for the rewriting that the tip of a branch with a blocked commit is itself rewritten and
that the copies, parents first, carry the work of the originals (`RewrittenTips`,
`CopiesCarry`); and for the checks that every commit not yet analysed is in the range of
an event that waits, and one on the default branch in an event of that branch
(`Awaited`). The last part is why the range of another branch may leave out what the
default branch has: its own event, of which nothing but its past bounds the range, is
still to be checked.

`DeliveriesProofs`. `OneHandler` and `ProcessedIsFinal`, from the invariant that the
record a handler works on is `processing` and not declared stuck
(`HandledIsProcessing`). `NotLost` (`EventNotLost`) says that a delivery recorded as
handled has had the effects of its event. It needs the position of every handler: each
is at a step its event leads to, and can finish only when what the steps before were to
store is stored (`HandlersArePlaced`), and what is stored stays (`EffectsStay`); so
handled records are done (`HandledIsDone`). `EventNotLost` is about pull request and
branch events; merge groups are a divergence of section 4.

`NotificationsProofs`, about what `MCRecords` runs, all under `~LeaseOutlived` (SMTP and
webhook calls time out after 15 and 10 seconds, the lease lasts 120). `TypeCorrect`
includes the limit of the attempt counter; `OneSenderHolds`, `SentStays`, `OneFanOut`,
`PendingStays`. The invariant says that an attempt holds the live lease of its record,
which is pending, or was cancelled or deleted with its endpoint (`SenderOwns`), and that
whatever is pending or attempted has an attempt left (`AttemptsLeft`). `SendsAreBounded`
(`SendsBounded`, which is in no run) adds that what an attempt read of the counter stays
true (`ReadIsCurrent`) and that the messages of a delivery are the attempts counted,
those lost and the one whose result is still to be stored; a record that retention
deleted under a running attempt has at most that one message (`SendsCounted`).

`RecordsTyped` (`Types`) adds the other records of `MCRecords`. The types of an
installation and of sessions are inductive on their own: what a handler, a job or a
synchronisation carries from one step to the next is of the kind its place says
(`HandlerKinds`, `JobKinds`, `SyncKinds`), and so is what a request thread holds
(`ThreadKinds`), so neither late events nor a crash store anything else. `RecordsSent`
carries `OneSender` and `FansOutOnce` over to all behaviours of the run (`OutboxSpec`).

`DashboardProofs`, about what `MCDashboard` runs. `Refinement` is that the workflow
implements `PolicyHistory`: initial states map to initial states, and every step to the
publication of a version or to a stutter. It is not obvious because a publication is
prepared in two earlier steps, from a draft and a version read before others wrote. The
invariant says that what a request has read is true of some version there was
(`RequestInv`), that a draft's base is a version there is (`DraftInv`), and that a
publication of a draft which another thread published meanwhile expects an older version
than the latest (`LateInv`), so that the comparison of versions in `CommitPublication`,
which does not look at the draft again, refuses it. `Finality` (`PublishedIsFinal`) says
that no request under way changes a published draft.

Of sessions, `AccessInv` is the inductive invariant: a sign-in is in one place at a
time, its stored state, the one thread that consumed it, or the one session it gave
(`HeldOnce`). `OneSessionPerSignIn` (`SignInOnce`) follows by counting. `OwnerIsKept`
(`OwnerKept`) holds since the transactions of grant and remove count the other owners
themselves, whatever role a request read before. `ResultsStaySound` is the theorem of
`SimulationsProofs`, carried over to the behaviours of the run.

`CalledOnce` (`CarriedOutOnce`), for any operations, waits and limits of attempts and
pages: a request that may be sent again, and must not happen twice, has not happened
(`CallInv`), and the pages read so far are the beginning of GitHub's list, which only
grows meanwhile (`Reading`). `SettingsStayRespected` (`SettingsAreRespected`), for any
types, administrators and members: a panel or a save under way that shows the stored
version shows the stored settings, so that what was touched and what was told is the
difference to them (`PanelIsKnown`, `SaveIsKnown`); one of an older version is refused in
the transaction. The inboxes need no more than `MandatoryReaches` itself.

`PagesStayStable` (`PagesStable`), for any rows, sort keys and sizes of a page, for every
list except the members (whose offsets shift, section 4). A key ends in a column that no
two rows share, the identifier or the place in the order of insertion, so the rows of a
list have exactly one order (`KeysDiffer`, `ColumnsOrdered`, `Sorts`). The invariant
(`Visited`) says of a row that stays unwritten where the reader is: up to the cursor it was
shown once, after it not at all. Of the versions, which are read by offset, it says that a
row is shown when at most `offset` versions are newer: that is so because they are numbered
without a gap (`VersionsInOrder`), and a new one only moves the others back, so one may be
shown twice but none is passed over.

`RequestsStayJudged` (`RequestsAreJudged`), for any users, organizations, sessions,
threads and limits, and for all routes (`Judged(c)`, an instance whose constants are the
record `c`). That the handler of every route asks for the permission that is `Required` is
a fact of each part of the route table (`RoutesDocumented`). What a request was allowed is
about roles that are read at one step and used at another, so the invariant
(`Entitled`) says of a request under way that its user's role now, and the role it read,
are both among those the user had since it arrived; and that a session which was not live
when the request arrived is over for good, expired or ended (`Over`), and ended once
somebody was told so (`Gone`). For the limits, the window of a minute is computed
before the lock is taken, so a late thread starts the count of the running minute again.
The invariant (`Balanced`) counts, of the minute that runs, how many threads may still do
so, and of one that is over, how many threads computed it and have not counted yet. The
proof gave the bound of `LimitsHold`: `(Limit + 1) * Cardinality(Threads)`. The limit
times the number of threads, which the small instance agrees with, is exceeded by three
threads in three minutes. The bound needs that the keys fit in `MAX_TRACKED`, since a
full table is emptied (`Kept`); that a request is refused only after the limit was used
up does not.

`DashboardTyped` (`Types`), of all components of the run. Of the calls it needs how often a
request can have been carried out when the call is at a page and an attempt (`CallBounds`);
of lists, that the rows a reader saw are rows there are; of the settings, that no version
shown or saved is newer than the stored one; of the requests, sessions and simulations, the
invariants above.

`GovernanceProofs`, about what `MCGovernance` runs, with the sizes of
`EffectivePolicyAssumption`. The invariant `Inv` (types, rollouts that lead from an
older version to one there is, counters) is kept by every step. `InputsStayCurrent`
needs nothing else: every change of a group, an exception, a mode, a setting or a rule
marks the rows it concerns in its own transaction, so a row that a scan may use agrees
with all of them. The version of the policy is different, since operations on a rollout
read it before their transaction. `FreshRows` (`FreshWhenUpToDate`) and
`VersionsNeverFall` (`VersionsAdvance`) are about behaviours in which no two operations
on one rollout overlap (`RolloutsSerial`), `FreshRows` for installations whose
repositories stay while versions are published (`RepositoriesStay`): both are where the
code's promise ends, since without the first `rollouts_overlap` has the counterexample
and without the second a scan of a purged repository stores a row that no rollout
invalidates (section 4). Their invariant adds that a rollout about to be advanced is
in progress (`AdvanceInv`) and that rows belong to known repositories (`KnownRows`).

`GovernanceTyped` (`Types`), `RowsAreFresh` (`FreshWhenUpToDate`) and `NoVersionFalls`
(`VersionsAdvance`) extend this to all parts of the run. Which kinds of change occur, and
whether repositories leave, is asked in `Next` and not in the actions; so the steps of the
three parts about policies are steps of one set of actions (`PolicySteps`), and a lemma
about an action is about all parts. Only what versions and rows need differs
(`PartsVersionInv`): where repositories leave there is one version and no rollout
(`OneVersion`), elsewhere rows belong to known repositories (`KnownRows`). The types of
schedules hold also where the scope shrinks, unlike `NothingIsSkipped`
(`ScheduleTypeStep`).

`DoneWasRecorded` (`RecordedAsDone`) is about all behaviours of the run: each component
keeps its invariant, of the two modules below, while it runs and is left alone otherwise
(`OperationsInv`, `OneComponentSteps`).

`OperationsProofs`. `OperationsEndAsRecorded` (`StatusMatchesItems`): a pass counts the
items in one transaction and stores the status in another, and what it counted is still
true then, because only pending items are ever replaced and none is left
(`FinishIsCurrent`). A retry makes items pending again; `RetriesAreSerial` says that
nothing is retried or there is one loop, in which case no pass runs meanwhile
(`RetryIsAlone`). `NothingIsSkipped` (`NoneSkippedSilently`): a run is resumed at a place
in a list that is computed again. As long as no repository leaves (`~ScopeShrinks`),
places only grow, so the repositories before the stored place have been considered in
whatever list comes next (`CursorIsCurrent`, and `PassIsCurrent` for the list a pass
computed before others joined).

`SimulationsProofs`. `ResultsSound` holds also when runners outlive their leases and two
of them run one simulation: the invariant gives each runner one version its counts are
about, the newest scan of every branch as it was counted, and the repositories it has
left (`ReadsSoundly`). `SimulatedOnlyOnce` and `TypeCorrect` assume `~LeaseOutlived`: one
runner works on a running simulation (`OneRunner`), so each is audited once.

Assumptions on constants are those the modules name: limits and bounds are natural numbers,
positive where the code has at least one (`MaxPages`, `MaxAttempts`, `PageRows`), sets of
threads, users and simulations that are counted are finite, mandatory types are among the
types, a session is not longer than the retention (`ShownInstallations`), and names the
code uses as marks (`NoRepo`, `"none"`) are no one's. TLC evaluates
them in the runs of these modules.

Only model-checked: the liveness properties (`WorkEnds`, `ChecksComplete`,
`RemovedIsQuiet`, `RemovedIsDiscarded`), since liveness under fairness and `ENABLED` are
beyond the prover, and the runs that end in a counterexample. Every invariant and every
action property of the other runs is a theorem: where a theorem has a hypothesis
(`~LeaseOutlived` of the other modules, `RolloutsSerial`, `~RepositoriesLeave`), the run
satisfies it, with one administrator.

## 6. Not modelled

Pure text processing (trailers, normalisation, sanitising, templates, Markdown),
configuration and YAML parsing, signatures and HTTP, SMTP, logs, metrics and audit
records that no decision reads, migrations, rendering of checks and pages, research
tools and the command line. `PROJECT.json` lists every part with its reason.

In the models themselves: the pipeline has one process and no retention, GitHub keeps
one Check Run per slot, the closed and reopened events of a pull request are handled
in order, and a webhook handler is not slower than `STUCK_DELIVERY_SECONDS`; onboarding
states and names of groups are left out; the requests of the dashboard are those that
match a route; tags and detached heads are a choice where a push reads them; the
recipients of e-mails are not part of the notification settings; "queued" stands for
queued and running scans on pages.
