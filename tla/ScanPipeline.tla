---------------------------- MODULE ScanPipeline ----------------------------
(***************************************************************************)
(* The scan pipeline of the GitHub App for one repository: the stored scan *)
(* jobs (github/storage.py), the wake-up queue (github/queue.py), the      *)
(* worker threads (github/worker.py), the maintenance thread that recovers *)
(* and retries jobs (github/recovery.py, github/app.py) and the Check Run  *)
(* that GitHub shows for every (commit, check name) slot.                  *)
(*                                                                         *)
(* A job is its sequence number: the position of its row in `jobs`.  A     *)
(* scan key is a logical scan (scan_key): the event, its base and its head *)
(* commit.  Time is abstracted to what it decides: a lease that is live or *)
(* expired, and backoff delays that may or may not have passed.            *)
(***************************************************************************)
EXTENDS Integers, Sequences, FiniteSets, FiniteSetsExt

CONSTANTS
  ScanKeys,      \* logical scans
  Groups,        \* pull requests, branches and merge groups (group_key)
  PullRequests,  \* the groups that are pull requests
  MergeGroups,   \* the groups that are merge groups; the others are branches
  Slots,         \* (head_sha, check_name) pairs
  GroupOf,       \* the group of a logical scan
  SlotOf,        \* the slot its result is published to
  Workers,       \* worker threads of the one service process
  QueueSize,     \* capacity of the in-process queue
  MaxAttempts,   \* MAX_JOB_ATTEMPTS
  MaxRetries,    \* MAX_AUTOMATIC_RETRIES
  MaxJobs,       \* bound: rows of scan_jobs
  MaxCrashes,    \* bound: process crashes
  ApiFails,      \* may a GitHub API call or a fetch fail?
  StoreFails,    \* may the state store raise InfrastructureError?
  AccessChanges  \* may access be lost or monitoring be paused?

ASSUME ConstantsAssumption ==
  /\ GroupOf \in [ScanKeys -> Groups]
  /\ SlotOf \in [ScanKeys -> Slots]
  /\ PullRequests \subseteq Groups
  /\ MergeGroups \subseteq Groups \ PullRequests
  /\ QueueSize \in Nat \ {0}
  /\ MaxAttempts \in Nat \ {0}
  /\ MaxRetries \in Nat
  /\ MaxJobs \in Nat
  /\ MaxCrashes \in Nat
  /\ {ApiFails, StoreFails, AccessChanges} \subseteq BOOLEAN

VARIABLES
  jobs,     \* table scan_jobs, in sequence order
  slots,    \* table check_runs: owner_sequence and whether a check_run_id is stored
  queue,    \* job IDs waiting for a worker
  workers,  \* what every worker thread is doing
  maint,    \* the job the maintenance thread is about to retry, 0 if none
  rerun,    \* the job a "Re-run" request is about to repeat, 0 if none
  checks,   \* the Check Run GitHub shows for each slot
  group,    \* GitHub's state of each pull request and merge group
  access,   \* is the App installed, and is monitoring on?
  crashes   \* number of process crashes so far

stored == <<jobs, slots>>
vars == <<jobs, slots, queue, workers, maint, rerun, checks, group, access, crashes>>

-----------------------------------------------------------------------------
Active    == {"queued", "running"}
Completed == {"passed", "failed"}
JobState  == Active \cup Completed \cup {"error", "cancelled"}

Job == [key     : ScanKeys,
        trigger : {"event", "rerun", "retry"},
        state   : JobState,
        attempts: 0..MaxAttempts,
        lease   : {"none", "live", "expired"},
        run     : BOOLEAN,                       \* check_run_id is set
        failure : {"none", "retryable", "final", "stale"},
        overrun : BOOLEAN]     \* history: its lease expired with a worker at it

JobIds == DOMAIN jobs

(* Steps of ScanWorker.process; the name is the step the thread does next. *)
Step == {"idle", "check", "claim_check", "queue_check", "set_run", "store_run",
         "plan", "publish", "record", "cancel", "fail", "publish_failure", "exhausted"}

Worker == [step    : Step,
           job     : 0..MaxJobs,
           attempt : 0..MaxAttempts,
           run     : BOOLEAN,                    \* progress.check_run_id is set
           allowed : BOOLEAN,                    \* result.enforcement.allowed
           failure : {"none", "retryable", "final", "stale"}]

Idle == [step |-> "idle", job |-> 0, attempt |-> 0, run |-> FALSE,
         allowed |-> FALSE, failure |-> "none"]

Check == [status    : {"none", "queued", "in_progress", "completed"},
          conclusion: {"none", "success", "failure"},
          by        : 0..MaxJobs]                \* the job that wrote it last

\* "ended": closed on GitHub, the webhook is still to be handled.
GroupState == {"open", "ended", "handled", "merged"}

TypeOK ==
  /\ jobs \in Seq(Job) /\ Len(jobs) <= MaxJobs
  /\ slots \in [Slots -> [owner: 0..MaxJobs, run: BOOLEAN]]
  /\ queue \subseteq 1..MaxJobs
  /\ workers \in [Workers -> Worker]
  /\ maint \in 0..MaxJobs /\ rerun \in 0..MaxJobs
  /\ checks \in [Slots -> Check]
  /\ group \in [Groups -> GroupState]
  /\ access \in [installed: BOOLEAN, monitored: BOOLEAN]
  /\ crashes \in 0..MaxCrashes

Init ==
  /\ jobs = <<>>
  /\ slots = [s \in Slots |-> [owner |-> 0, run |-> FALSE]]
  /\ queue = {}
  /\ workers = [w \in Workers |-> Idle]
  /\ maint = 0 /\ rerun = 0
  /\ checks = [s \in Slots |-> [status |-> "none", conclusion |-> "none", by |-> 0]]
  /\ group = [g \in Groups |-> "open"]
  /\ access = [installed |-> TRUE, monitored |-> TRUE]
  /\ crashes = 0

-----------------------------------------------------------------------------
(* Queries of the store.                                                   *)

KeyOf(j)  == jobs[j].key
JobSlot(j) == SlotOf[KeyOf(j)]
JobGroup(j) == GroupOf[KeyOf(j)]

InGroup(g) == {j \in JobIds : JobGroup(j) = g}
Executions(k) == {j \in JobIds : KeyOf(j) = k}
Last(S) == IF S = {} THEN 0 ELSE Max(S)

\* create_job looks its equivalent up by job_key, which only jobs created for
\* an event share; executions (re-runs, retries) get a job_key of their own.
EquivalentJob(k) == Last({j \in Executions(k) : jobs[j].trigger = "event"})

ActiveExecution(k) == \E j \in Executions(k) : jobs[j].state \in Active

-----------------------------------------------------------------------------
(* Insertion of jobs.                                                      *)

\* queue.put: a full queue drops the wake-up; the job stays stored.
Put(j) == queue' = IF Cardinality(queue) < QueueSize THEN queue \cup {j} ELSE queue

\* _insert_job followed by the caller's queue.put.
InsertJob(k, trigger) ==
  /\ Len(jobs) < MaxJobs
  /\ jobs' = Append(jobs, [key |-> k, trigger |-> trigger, state |-> "queued",
                           attempts |-> 0, lease |-> "none", run |-> FALSE,
                           failure |-> "none", overrun |-> FALSE])
  /\ Put(Len(jobs) + 1)

\* A scan event leads to a job: it is for an active installation, monitoring is
\* on, and create_job finds no equivalent job that is active or completed.  A
\* merge group is requested once, and never after it was destroyed.
Accepted(k) ==
  LET e == EquivalentJob(k)
      g == GroupOf[k]
  IN /\ access.installed /\ access.monitored
     /\ e # 0 => jobs[e].state \in {"error", "cancelled"}
     /\ g \in MergeGroups => e = 0 /\ group[g] # "handled"

\* GitHubAppService._enqueue.  Events may be handled late, after their pull
\* request was closed.
ScanEvent(k) ==
  /\ Accepted(k)
  /\ InsertJob(k, "event")
  /\ UNCHANGED <<slots, workers, maint, rerun, checks, group, access, crashes>>

\* "Re-run" on a check (_request_rerun) needs the newest job of the group to be
\* an execution of the same scan; "Scan again" in the dashboard
\* (rescan_eligibility) needs the job itself to be the newest, and finished.
MayRerun(j) ==
  LET g == JobGroup(j)
      newest == Last(InGroup(g))
  IN \/ /\ KeyOf(newest) = KeyOf(j)
        /\ g \in MergeGroups => group[g] # "handled"
     \/ newest = j /\ jobs[j].state \notin Active

RequestRerun(j) ==
  /\ rerun = 0
  /\ access.installed /\ access.monitored
  /\ MayRerun(j)
  /\ rerun' = j
  /\ UNCHANGED <<stored, queue, workers, maint, checks, group, access, crashes>>

\* ... and then create_execution stores the new execution in a transaction.
CreateRerun ==
  /\ rerun # 0
  /\ rerun' = 0
  /\ IF ActiveExecution(KeyOf(rerun))
       THEN UNCHANGED <<jobs, queue>>
       ELSE InsertJob(KeyOf(rerun), "rerun")
  /\ UNCHANGED <<slots, workers, maint, checks, group, access, crashes>>

\* Maintenance selects an errored job that is the newest of its group ...
SelectRetry(j) ==
  /\ maint = 0
  /\ jobs[j].state = "error" /\ jobs[j].failure = "retryable"
  /\ j = Last(InGroup(JobGroup(j)))
  /\ access.installed
  /\ maint' = j
  /\ UNCHANGED <<stored, queue, workers, rerun, checks, group, access, crashes>>

Retries(k) == Cardinality({j \in Executions(k) : jobs[j].trigger = "retry"})

\* ... and schedules a new execution of it, unless its retries are used up.
CreateRetry ==
  /\ maint # 0
  /\ maint' = 0
  /\ IF \/ jobs[maint].state # "error"
        \/ Retries(KeyOf(maint)) >= MaxRetries
        \/ ~access.monitored
        \/ ActiveExecution(KeyOf(maint))
       THEN UNCHANGED <<jobs, queue>>
       ELSE InsertJob(KeyOf(maint), "retry")
  /\ UNCHANGED <<slots, workers, rerun, checks, group, access, crashes>>

\* Mutant: a running job is claimable although its lease is live.
ClaimableRunning(j) == jobs[j].state \in Active

\* A waiting job, and a running job whose lease expired, may be (re)started.
Claimable(j) ==
  \/ jobs[j].state = "queued"
  \/ jobs[j].state = "running" /\ jobs[j].lease = "expired"

\* Mutant: jobs that still wait are not recovered.
RecoverRunning(j) ==
  /\ jobs[j].state = "running" /\ jobs[j].lease = "expired"
  /\ j \notin queue
  /\ Cardinality(queue) < QueueSize
  /\ queue' = queue \cup {j}
  /\ UNCHANGED <<stored, workers, maint, rerun, checks, group, access, crashes>>

\* recover() and recoverable_jobs: the maintenance thread queues such a job again.
Recover(j) ==
  /\ Claimable(j)
  /\ j \notin queue
  /\ Cardinality(queue) < QueueSize
  /\ queue' = queue \cup {j}
  /\ UNCHANGED <<stored, workers, maint, rerun, checks, group, access, crashes>>

-----------------------------------------------------------------------------
(* ScanWorker.                                                             *)

Goto(w, step) == workers' = [workers EXCEPT ![w].step = step]
Stop(w) == workers' = [workers EXCEPT ![w] = Idle]
FailWith(w, failure) == workers' = [workers EXCEPT ![w].step = "fail", ![w].failure = failure]
CancelWith(w, failure) == workers' = [workers EXCEPT ![w].step = "cancel", ![w].failure = failure]

\* Mutant: the Check Run that was stored with the job is forgotten.
ExhaustForgetful(w, j) ==
  /\ jobs' = [jobs EXCEPT ![j].state = "error", ![j].failure = "final", ![j].lease = "none"]
  /\ workers' = [workers EXCEPT ![w] =
       [Idle EXCEPT !.step = "exhausted", !.job = j, !.attempt = jobs[j].attempts]]

\* claim_job_outcome ends a job that used up its attempts ...
Exhaust(w, j) ==
  /\ jobs' = [jobs EXCEPT ![j].state = "error", ![j].failure = "final", ![j].lease = "none"]
  /\ workers' = [workers EXCEPT ![w] =
       [Idle EXCEPT !.step = "exhausted", !.job = j, !.attempt = jobs[j].attempts,
                    !.run = jobs[j].run]]

\* ... and starts any other one.
Start(w, j) ==
  /\ jobs' = [jobs EXCEPT ![j].state = "running", ![j].lease = "live", ![j].attempts = @ + 1]
  /\ workers' = [workers EXCEPT ![w] =
       [Idle EXCEPT !.step = "check", !.job = j, !.attempt = jobs[j].attempts + 1]]

\* Mutant: a job may be claimed once more than allowed.
UsedUpLate(j) == jobs[j].attempts > MaxAttempts

UsedUp(j) == jobs[j].attempts >= MaxAttempts

\* process(): a wake-up for a job that cannot be claimed is dropped.
Claim(w, j) ==
  /\ workers[w].step = "idle"
  /\ j \in queue
  /\ queue' = queue \ {j}
  /\ \/ (~Claimable(j) \/ StoreFails) /\ UNCHANGED <<jobs, workers>>
     \/ Claimable(j) /\ UsedUp(j) /\ Exhaust(w, j)
     \/ Claimable(j) /\ ~UsedUp(j) /\ Start(w, j)
  /\ UNCHANGED <<slots, maint, rerun, checks, group, access, crashes>>

\* The first part of _run: monitoring, merge group, authorization, newest event
\* of the pull request, pull request still open.
CheckJob(w) ==
  LET j == workers[w].job
      g == JobGroup(j)
      destroyed == g \in MergeGroups /\ group[g] = "handled"
  IN /\ workers[w].step = "check"
     /\ \/ ~access.monitored /\ CancelWith(w, "none")
        \/ access.monitored /\ destroyed /\ CancelWith(w, "stale")
        \/ /\ access.monitored /\ ~destroyed
           /\ \/ ~access.installed /\ FailWith(w, "final")
              \/ ApiFails /\ FailWith(w, "retryable")
              \/ /\ access.installed
                 /\ IF g \notin PullRequests THEN Goto(w, "claim_check")
                    ELSE IF Last(InGroup(g)) > j THEN CancelWith(w, "stale")
                    ELSE IF group[g] # "open" THEN CancelWith(w, "none")
                    ELSE Goto(w, "claim_check")
     /\ UNCHANGED <<stored, queue, maint, rerun, checks, group, access, crashes>>

-----------------------------------------------------------------------------
(* Writes to GitHub.  A call succeeds, fails without effect, or takes effect *)
(* although the caller sees an error (a lost answer).                        *)

ApiOutcome == IF ~access.installed THEN {"no_effect"}
              ELSE IF ApiFails THEN {"ok", "no_effect", "lost_answer"} ELSE {"ok"}

\* GitHub answers 401, 403 (authorization) or 404 (infrastructure) without access.
ApiFailure == IF access.installed THEN {"retryable"} ELSE {"retryable", "final"}

WriteCheck(w, status, conclusion, outcome) ==
  checks' = IF outcome = "no_effect" THEN checks
            ELSE [checks EXCEPT ![JobSlot(workers[w].job)] =
                    [status |-> status, conclusion |-> conclusion, by |-> workers[w].job]]

\* The slot's lock is held from claim_check to set_check_run_id; _publish holds
\* it for one step.
Locked(s) == \E w \in Workers : /\ workers[w].step \in {"queue_check", "set_run"}
                               /\ JobSlot(workers[w].job) = s

\* Mutant: an older job takes the slot from a newer one.
ClaimCheckAlways(w) ==
  LET s == JobSlot(workers[w].job)
  IN /\ workers[w].step = "claim_check"
     /\ ~Locked(s)
     /\ slots' = [slots EXCEPT ![s].owner = workers[w].job]
     /\ workers' = [workers EXCEPT ![w].step = "queue_check", ![w].run = slots[s].run]
     /\ UNCHANGED <<jobs, queue, maint, rerun, checks, group, access, crashes>>

\* claim_check: a newer job takes the slot over, an older one loses it.
ClaimCheck(w) ==
  LET j == workers[w].job
      s == JobSlot(j)
  IN /\ workers[w].step = "claim_check"
     /\ ~Locked(s)
     /\ IF slots[s].owner > j
          THEN CancelWith(w, "stale") /\ UNCHANGED slots
          ELSE /\ slots' = [slots EXCEPT ![s].owner = j]
               /\ workers' = [workers EXCEPT ![w].step = "queue_check",
                                             ![w].run = slots[s].run]
     /\ UNCHANGED <<jobs, queue, maint, rerun, checks, group, access, crashes>>

\* The "queued" Check Run: created, or updated when the slot has one.
QueueCheck(w) ==
  /\ workers[w].step = "queue_check"
  /\ \E outcome \in ApiOutcome, failure \in ApiFailure :
       /\ WriteCheck(w, "queued", "none", outcome)
       /\ IF outcome # "ok" THEN FailWith(w, failure)
          ELSE Goto(w, IF workers[w].run THEN "store_run" ELSE "set_run")
  /\ UNCHANGED <<stored, queue, maint, rerun, group, access, crashes>>

\* set_check_run_id
SetRun(w) ==
  /\ workers[w].step = "set_run"
  /\ IF slots[JobSlot(workers[w].job)].owner = workers[w].job
       THEN /\ slots' = [slots EXCEPT ![JobSlot(workers[w].job)].run = TRUE]
            /\ workers' = [workers EXCEPT ![w].step = "store_run", ![w].run = TRUE]
       ELSE CancelWith(w, "stale") /\ UNCHANGED slots
  /\ UNCHANGED <<jobs, queue, maint, rerun, checks, group, access, crashes>>

\* update_job(check_run_id=...)
StoreRun(w) ==
  /\ workers[w].step = "store_run"
  /\ jobs' = [jobs EXCEPT ![workers[w].job].run = TRUE]
  /\ Goto(w, "plan")
  /\ UNCHANGED <<slots, queue, maint, rerun, checks, group, access, crashes>>

Superseded(w) == slots[JobSlot(workers[w].job)].owner # workers[w].job

\* _publish: the write happens only while this job still owns the slot.
Publish(w, status, conclusion, outcome) ==
  /\ ~Locked(JobSlot(workers[w].job))
  /\ ~Superseded(w)
  /\ WriteCheck(w, status, conclusion, outcome)

LoseCheck(w) ==
  /\ ~Locked(JobSlot(workers[w].job))
  /\ Superseded(w)
  /\ UNCHANGED checks

\* Mirror, governance and plan, then the "in_progress" Check Run.
Plan(w) ==
  /\ workers[w].step = "plan"
  /\ \/ /\ ApiFails
        /\ \E failure \in {"retryable", "final"} : FailWith(w, failure)
        /\ UNCHANGED checks
     \/ LoseCheck(w) /\ CancelWith(w, "stale")
     \/ \E outcome \in ApiOutcome, failure \in ApiFailure :
          /\ Publish(w, "in_progress", "none", outcome)
          /\ IF outcome = "ok" THEN Goto(w, "publish") ELSE FailWith(w, failure)
  /\ UNCHANGED <<stored, queue, maint, rerun, group, access, crashes>>

\* Mutant: the result is recorded although GitHub did not accept it.
PublishResultUnconfirmed(w) ==
  /\ workers[w].step = "publish"
  /\ \/ LoseCheck(w) /\ CancelWith(w, "stale")
     \/ \E allowed \in BOOLEAN, outcome \in ApiOutcome :
          /\ Publish(w, "completed", IF allowed THEN "success" ELSE "failure", outcome)
          /\ workers' = [workers EXCEPT ![w].step = "record", ![w].allowed = allowed]
  /\ UNCHANGED <<stored, queue, maint, rerun, group, access, crashes>>

\* The scan, then the "completed" Check Run with its conclusion.
PublishResult(w) ==
  /\ workers[w].step = "publish"
  /\ \/ LoseCheck(w) /\ CancelWith(w, "stale")
     \/ \E allowed \in BOOLEAN, outcome \in ApiOutcome, failure \in ApiFailure :
          /\ Publish(w, "completed", IF allowed THEN "success" ELSE "failure", outcome)
          /\ IF outcome = "ok"
               THEN workers' = [workers EXCEPT ![w].step = "record",
                                               ![w].allowed = allowed]
               ELSE FailWith(w, failure)
  /\ UNCHANGED <<stored, queue, maint, rerun, group, access, crashes>>

\* record_completed: the job's final state (its violations: module Violations).
RecordResult(w) ==
  /\ workers[w].step = "record"
  /\ jobs' = [jobs EXCEPT ![workers[w].job].state =
                            IF workers[w].allowed THEN "passed" ELSE "failed",
                          ![workers[w].job].lease = "none"]
  /\ Stop(w)
  /\ UNCHANGED <<slots, queue, maint, rerun, checks, group, access, crashes>>

\* _cancel
CancelJob(w) ==
  /\ workers[w].step = "cancel"
  /\ jobs' = [jobs EXCEPT ![workers[w].job].state = "cancelled",
                          ![workers[w].job].failure = workers[w].failure,
                          ![workers[w].job].lease = "none"]
  /\ Stop(w)
  /\ UNCHANGED <<slots, queue, maint, rerun, checks, group, access, crashes>>

\* _fail: the job state in one transaction ...
FailJob(w) ==
  /\ workers[w].step = "fail"
  /\ jobs' = [jobs EXCEPT ![workers[w].job].state = "error",
                          ![workers[w].job].failure = workers[w].failure,
                          ![workers[w].job].lease = "none"]
  /\ IF workers[w].run THEN Goto(w, "publish_failure") ELSE Stop(w)
  /\ UNCHANGED <<slots, queue, maint, rerun, checks, group, access, crashes>>

\* ... then the failing Check Run, best effort; _exhausted ends the same way.
PublishFailure(w) ==
  /\ workers[w].step \in {"publish_failure", "exhausted"}
  /\ Stop(w)
  /\ \/ ~workers[w].run /\ UNCHANGED checks
     \/ workers[w].run /\ LoseCheck(w)
     \/ /\ workers[w].run
        /\ \E outcome \in ApiOutcome : Publish(w, "completed", "failure", outcome)
  /\ UNCHANGED <<stored, queue, maint, rerun, group, access, crashes>>

\* The store raises InfrastructureError: process() fails the job, and an error
\* while it ends a job reaches the worker loop, which drops the job.
StoreError(w) ==
  /\ StoreFails
  /\ \/ /\ workers[w].step \in {"check", "claim_check", "set_run", "store_run", "plan",
                                 "publish", "record"}
        /\ FailWith(w, "retryable")
     \/ workers[w].step \in {"cancel", "fail", "publish_failure", "exhausted"} /\ Stop(w)
  /\ UNCHANGED <<stored, queue, maint, rerun, checks, group, access, crashes>>

-----------------------------------------------------------------------------
(* The environment: time, GitHub, administrators and crashes.              *)

AtWork(w, j) == workers[w].job = j /\ workers[w].attempt = jobs[j].attempts

\* JOB_LEASE_SECONDS pass.  A lease is never renewed: it may end while a worker is
\* still at the job, which then goes on beside the one that takes the job over.
ExpireLease(j) ==
  /\ jobs[j].state = "running" /\ jobs[j].lease = "live"
  /\ jobs' = [jobs EXCEPT ![j].lease = "expired",
                          ![j].overrun = @ \/ \E w \in Workers : AtWork(w, j)]
  /\ UNCHANGED <<slots, queue, workers, maint, rerun, checks, group, access, crashes>>

\* A pull request is closed or a merge group is destroyed on GitHub ...
EndGroup(g) ==
  /\ g \in PullRequests \cup MergeGroups
  /\ group[g] = "open"
  /\ group' = [group EXCEPT ![g] = "ended"]
  /\ UNCHANGED <<stored, queue, workers, maint, rerun, checks, access, crashes>>

\* ... its webhook cancels the group's queued jobs (cancel_queued_group) ...
GroupEnded(g) ==
  /\ group[g] = "ended"
  /\ group' = [group EXCEPT ![g] = "handled"]
  /\ jobs' = [j \in JobIds |->
                IF JobGroup(j) = g /\ jobs[j].state = "queued"
                  THEN [jobs[j] EXCEPT !.state = "cancelled"] ELSE jobs[j]]
  /\ UNCHANGED <<slots, queue, workers, maint, rerun, checks, access, crashes>>

\* ... unless a pull request was merged: its jobs find it closed themselves.
PullRequestMerged(g) ==
  /\ g \in PullRequests
  /\ group[g] = "ended"
  /\ group' = [group EXCEPT ![g] = "merged"]
  /\ UNCHANGED <<stored, queue, workers, maint, rerun, checks, access, crashes>>

\* A pull request is reopened, and its "reopened" event is handled.
Reopen(g) ==
  /\ g \in PullRequests
  /\ group[g] = "handled"
  /\ group' = [group EXCEPT ![g] = "open"]
  /\ \E k \in ScanKeys :
       /\ GroupOf[k] = g
       /\ IF Accepted(k) THEN InsertJob(k, "event") ELSE UNCHANGED <<jobs, queue>>
  /\ UNCHANGED <<slots, workers, maint, rerun, checks, access, crashes>>

\* The installation (or the repository) is removed: active jobs are cancelled.
RemoveAccess ==
  /\ AccessChanges /\ access.installed
  /\ access' = [access EXCEPT !.installed = FALSE]
  /\ jobs' = [j \in JobIds |->
                IF jobs[j].state \in Active
                  THEN [jobs[j] EXCEPT !.state = "cancelled"] ELSE jobs[j]]
  /\ UNCHANGED <<slots, queue, workers, maint, rerun, checks, group, crashes>>

\* It is installed (or the repository is added) again.
RestoreAccess ==
  /\ ~access.installed
  /\ access' = [access EXCEPT !.installed = TRUE]
  /\ UNCHANGED <<stored, queue, workers, maint, rerun, checks, group, crashes>>

\* An administrator pauses or resumes monitoring.
SetMonitoring ==
  /\ AccessChanges
  /\ access' = [access EXCEPT !.monitored = ~@]
  /\ UNCHANGED <<stored, queue, workers, maint, rerun, checks, group, crashes>>

\* The process dies: everything in memory is lost, the database is not.
Crash ==
  /\ crashes < MaxCrashes
  /\ crashes' = crashes + 1
  /\ queue' = {}
  /\ workers' = [w \in Workers |-> Idle]
  /\ maint' = 0 /\ rerun' = 0
  /\ UNCHANGED <<stored, checks, group, access>>

-----------------------------------------------------------------------------
WorkerStep(w) ==
  \/ CheckJob(w) \/ ClaimCheck(w) \/ QueueCheck(w) \/ SetRun(w) \/ StoreRun(w)
  \/ Plan(w) \/ PublishResult(w) \/ RecordResult(w) \/ CancelJob(w) \/ FailJob(w)
  \/ PublishFailure(w) \/ StoreError(w)

JobStep(j) ==
  \/ RequestRerun(j) \/ SelectRetry(j) \/ Recover(j) \/ ExpireLease(j)
  \/ \E w \in Workers : Claim(w, j)

GroupStep(g) == EndGroup(g) \/ GroupEnded(g) \/ PullRequestMerged(g) \/ Reopen(g)

Next ==
  \/ \E k \in ScanKeys : ScanEvent(k)
  \/ \E j \in JobIds : JobStep(j)
  \/ \E w \in Workers : WorkerStep(w)
  \/ \E g \in Groups : GroupStep(g)
  \/ CreateRerun \/ CreateRetry
  \/ RemoveAccess \/ RestoreAccess \/ SetMonitoring \/ Crash

Spec == Init /\ [][Next]_vars

(* Worker threads run until they finish a job.  The queue is first in, first *)
(* out and the maintenance thread looks at every stored job each minute, so  *)
(* no job is passed over for ever; leases end when their time has passed;    *)
(* a re-run or retry that was decided on is stored.                          *)
Fairness ==
  /\ WF_vars(CreateRerun) /\ WF_vars(CreateRetry)
  /\ \A w \in Workers : WF_vars(WorkerStep(w))
  /\ \A j \in 1..MaxJobs :
       /\ SF_vars(j \in JobIds /\ \E w \in Workers : Claim(w, j))
       /\ SF_vars(j \in JobIds /\ Recover(j))
       /\ WF_vars(j \in JobIds /\ ExpireLease(j))

FairSpec == Spec /\ Fairness

-----------------------------------------------------------------------------
(* Safety.                                                                 *)

\* The result of an older scan never replaces the result of a newer one: every
\* write of a Check Run comes from a job at least as new as the last writer
\* (claim_check takes the slot over, _publish checks the owner).
NewerResultStands ==
  [][\A s \in Slots : checks'[s].by >= checks[s].by]_vars

\* A job is processed by one worker at a time, although wake-ups are repeated and
\* abandoned jobs are recovered (claim_job_outcome), unless a worker outlived its
\* lease: then the next one takes the job over while the first is still at it.
OneHolder ==
  \A v, w \in Workers :
    v # w /\ workers[v].step # "idle" /\ workers[v].job = workers[w].job =>
      jobs[workers[v].job].overrun

\* Once a scan is recorded as passed or failed, and until a newer job takes the
\* slot, GitHub shows exactly this result, whatever failed or crashed before, and
\* whatever workers of other jobs did that outlived their lease (_publish).  Only
\* the attempts of one job, which share its sequence, are not told apart.
ResultMatchesCheck ==
  \A j \in JobIds :
    (jobs[j].state \in Completed /\ ~jobs[j].overrun /\ slots[JobSlot(j)].owner = j) =>
      LET check == checks[JobSlot(j)]
      IN /\ check.by = j /\ check.status = "completed"
         /\ check.conclusion = IF jobs[j].state = "passed" THEN "success" ELSE "failure"

\* Re-runs and retries repeat only the newest scan of a pull request or branch,
\* so they never make an older commit the newest one.
RepeatsOnlyNewest ==
  [][Len(jobs') > Len(jobs) =>
       LET new == jobs'[Len(jobs')]
       IN new.trigger # "event" => new.key = KeyOf(Last(InGroup(GroupOf[new.key])))]_vars

\* A scan whose result could not be stored ends without a success check.
SuccessIsStored ==
  \A s \in Slots : checks[s].conclusion = "success" =>
    \/ jobs[checks[s].by].state = "passed"
    \/ \E w \in Workers : workers[w].job = checks[s].by

-----------------------------------------------------------------------------
(* Liveness.                                                               *)

JobActive(j) == j \in JobIds /\ jobs[j].state \in Active

\* No accepted scan is lost to a full queue, a crashed worker or a restart:
\* every stored job ends (queue.py, recoverable_jobs).
JobsEnd == \A j \in 1..MaxJobs : JobActive(j) ~> ~JobActive(j)

\* The merge requirement of an open pull request, branch or merge group waits for a
\* scan: a check shows "queued" or "in_progress", and its owner is the newest scan of
\* the group.  (When it may wait for ever: module MCPipelineLive, ChecksComplete.)
Pending(s) ==
  /\ checks[s].status \in {"queued", "in_progress"}
  /\ LET j == slots[s].owner
     IN j = Last(InGroup(JobGroup(j))) /\ group[JobGroup(j)] = "open"

Unscanned(g) ==
  /\ group[g] = "open" /\ InGroup(g) # {}
  /\ jobs[Last(InGroup(g))].state = "cancelled"

\* Reopening a pull request scans it: an open pull request is not left with a
\* cancelled scan as its newest one.
ReopenedIsScanned == \A g \in PullRequests : Unscanned(g) ~> ~Unscanned(g)
=============================================================================
