---------------------------- MODULE MCPipelineLive ----------------------------
(***************************************************************************)
(* What must eventually happen between a webhook and a completed check, on *)
(* small instances checked in one run: the variable "part" says which      *)
(* component, with which constants, a behaviour is one of, and the         *)
(* variables of the others do not change.                                  *)
(***************************************************************************)
EXTENDS Deliveries

VARIABLES part, jobs, slots, queue, workers, maint, rerun, checks, group, access, restarts,
  unreported   \* history: the jobs that ended while GitHub was not told

deliveryVars == vars
pipelineVars == <<jobs, slots, queue, workers, maint, rerun, checks, group, access, restarts,
                  unreported>>
allVars == <<part, deliveryVars, pipelineVars>>

-----------------------------------------------------------------------------
Threads == {"w1", "w2"}
JobNumbers == 1..2

\* Two branches are pushed to one commit, and the process crashes once.  A logical
\* scan has the name of its group.  The only job may outlive its lease.
Pushes == INSTANCE ScanPipeline WITH
  ScanKeys <- {"a", "b"}, Groups <- {"a", "b"}, Slots <- {"head"},
  GroupOf <- [k \in {"a", "b"} |-> k], SlotOf <- [k \in {"a", "b"} |-> "head"],
  PullRequests <- {}, MergeGroups <- {}, Workers <- Threads, QueueSize <- 1,
  MaxAttempts <- 2, MaxRetries <- 0, MaxJobs <- 2, MaxCrashes <- 1,
  ApiFails <- FALSE, StoreFails <- FALSE, AccessChanges <- FALSE,
  crashes <- restarts

\* An open pull request is scanned while GitHub, the store and the process fail: every
\* attempt of a job may die, and a scan that ended in error is retried once.
Failing == INSTANCE ScanPipeline WITH
  ScanKeys <- {"a"}, Groups <- {"a"}, Slots <- {"head"},
  GroupOf <- [k \in {"a"} |-> k], SlotOf <- [k \in {"a"} |-> "head"],
  PullRequests <- {"a"}, MergeGroups <- {}, Workers <- {"w1"}, QueueSize <- 1,
  MaxAttempts <- 2, MaxRetries <- 1, MaxJobs <- 2, MaxCrashes <- 2,
  ApiFails <- TRUE, StoreFails <- TRUE, AccessChanges <- FALSE,
  crashes <- restarts

\* A merge group whose installation loses access or whose monitoring is paused:
\* with re-runs and retries, and with a crash.
Paused == INSTANCE ScanPipeline WITH
  ScanKeys <- {"a"}, Groups <- {"a"}, Slots <- {"head"},
  GroupOf <- [k \in {"a"} |-> k], SlotOf <- [k \in {"a"} |-> "head"],
  PullRequests <- {}, MergeGroups <- {"a"}, Workers <- {"w1"}, QueueSize <- 1,
  MaxAttempts <- 2, MaxRetries <- 1, MaxJobs <- 2, MaxCrashes <- 0,
  ApiFails <- FALSE, StoreFails <- FALSE, AccessChanges <- TRUE,
  crashes <- restarts

Restarted == INSTANCE ScanPipeline WITH
  ScanKeys <- {"a"}, Groups <- {"a"}, Slots <- {"head"},
  GroupOf <- [k \in {"a"} |-> k], SlotOf <- [k \in {"a"} |-> "head"],
  PullRequests <- {}, MergeGroups <- {"a"}, Workers <- {"w1"}, QueueSize <- 1,
  MaxAttempts <- 2, MaxRetries <- 1, MaxJobs <- 1, MaxCrashes <- 1,
  ApiFails <- FALSE, StoreFails <- FALSE, AccessChanges <- TRUE,
  crashes <- restarts

-----------------------------------------------------------------------------
AllInit ==
  /\ part \in {"deliveries", "pushes", "failing", "paused", "restarted"}
  /\ Init
  /\ IF part \in {"failing", "paused", "restarted"} THEN Paused!Init ELSE Pushes!Init
  /\ unreported = {}

\* A thread lets go of a job that ended, and its Check Run stays as it is: the thread
\* never learned the run's id (_fail, _exhausted), or telling GitHub, which is tried
\* once, fails, or the process dies before.
EndsUnreported(w) ==
  LET j == workers[w].job
  IN /\ workers[w].step # "idle" /\ workers'[w].step = "idle"
     /\ jobs'[j].state \notin Pushes!Active
     /\ UNCHANGED checks
     /\ \/ workers[w].step = "fail" /\ ~workers[w].run
        \/ workers[w].step = "exhausted" /\ ~jobs[j].run
        \/ /\ workers[w].step \in {"publish_failure", "exhausted"} /\ workers[w].run
           /\ part = "failing"
        \/ restarts' # restarts

Remember ==
  unreported' = unreported \cup
    {workers[w].job : w \in {v \in DOMAIN workers : EndsUnreported(v)}}

DeliveriesOnly == UNCHANGED <<part, pipelineVars>>

\* Bound: where a lease is outlived, there is one job.
PipelineOnly ==
  /\ UNCHANGED <<part, deliveryVars>>
  /\ \A j \in DOMAIN jobs' : jobs'[j].overrun => part = "pushes" /\ DOMAIN jobs' = {1}
  /\ Remember

DeliveriesStep == part = "deliveries" /\ Next /\ DeliveriesOnly
PushesStep == part = "pushes" /\ Pushes!Next /\ PipelineOnly
FailingStep == part = "failing" /\ Failing!Next /\ rerun' = 0 /\ group' = group /\ PipelineOnly
PausedStep == part = "paused" /\ Paused!Next /\ PipelineOnly
RestartedStep == part = "restarted" /\ Restarted!Next /\ PipelineOnly

AllNext == DeliveriesStep \/ PushesStep \/ FailingStep \/ PausedStep \/ RestartedStep

\* The fairness of the two components, while they are the one that runs.
HandlerGoesOn(h) == part = "deliveries" /\ HandlerStep(h) /\ DeliveriesOnly
RecordAges(d) == part = "deliveries" /\ (Age(d) \/ FailStuck(d)) /\ DeliveriesOnly

WorkerGoesOn(w) ==
  /\ \/ part = "pushes" /\ Pushes!WorkerStep(w)
     \/ part = "failing" /\ w = "w1" /\ Failing!WorkerStep(w)
     \/ part = "paused" /\ w = "w1" /\ Paused!WorkerStep(w)
     \/ part = "restarted" /\ w = "w1" /\ Restarted!WorkerStep(w)
  /\ PipelineOnly

\* At most one re-run and one retry are about to be stored.
RepetitionIsStored ==
  /\ \/ part = "pushes" /\ Pushes!CreateRerun
     \/ part = "failing" /\ (Failing!CreateRerun \/ Failing!CreateRetry)
     \/ part = "paused" /\ (Paused!CreateRerun \/ Paused!CreateRetry)
     \/ part = "restarted" /\ (Restarted!CreateRerun \/ Restarted!CreateRetry)
  /\ PipelineOnly

\* A claim that the store answers: one that is tried for ever is answered in the end.
Claimed(j) ==
  /\ j \in DOMAIN jobs
  /\ \/ part = "pushes" /\ \E w \in Threads : Pushes!Claim(w, j)
     \/ part = "failing" /\ Failing!Claim("w1", j)
     \/ part = "paused" /\ Paused!Claim("w1", j)
     \/ part = "restarted" /\ Restarted!Claim("w1", j)
  /\ Pushes!Claimable(j) => jobs' # jobs
  /\ PipelineOnly

Recovered(j) ==
  /\ j \in DOMAIN jobs
  /\ \/ part = "pushes" /\ Pushes!Recover(j)
     \/ part = "failing" /\ Failing!Recover(j)
     \/ part = "paused" /\ Paused!Recover(j)
     \/ part = "restarted" /\ Restarted!Recover(j)
  /\ PipelineOnly

LeaseEnds(j) ==
  /\ j \in DOMAIN jobs
  /\ \/ part = "pushes" /\ Pushes!ExpireLease(j)
     \/ part = "failing" /\ Failing!ExpireLease(j)
     \/ part = "paused" /\ Paused!ExpireLease(j)
     \/ part = "restarted" /\ Restarted!ExpireLease(j)
  /\ PipelineOnly

AllSpec ==
  /\ AllInit /\ [][AllNext]_allVars
  /\ \A h \in Handlers : WF_allVars(HandlerGoesOn(h))
  /\ \A d \in Ids : WF_allVars(RecordAges(d))
  /\ \A w \in Threads : WF_allVars(WorkerGoesOn(w))
  /\ WF_allVars(RepetitionIsStored)
  /\ \A j \in JobNumbers :
       SF_allVars(Claimed(j)) /\ SF_allVars(Recovered(j)) /\ WF_allVars(LeaseEnds(j))

-----------------------------------------------------------------------------
\* Work that was begun ends, in spite of crashes: stored jobs (JobsEnd), and the
\* records of deliveries whose handler died (AbandonedEnds).
WorkEnds == Pushes!JobsEnd /\ AbandonedEnds

\* The merge requirement of an open pull request or branch does not hang: a Check Run
\* that shows "queued" or "in_progress" is completed, unless a newer scan of the group
\* arrives or the group ends, or its job ended and GitHub was not told.  (recovery.py:20
\* says that a check is always completed: jobs that end in EndsUnreported are those
\* for which the code does not.)
ChecksComplete ==
  part \in {"pushes", "failing"} =>
    (Pushes!Pending("head") ~> ~Pushes!Pending("head") \/ slots["head"].owner \in unreported)
=============================================================================
