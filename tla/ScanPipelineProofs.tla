-------------------------- MODULE ScanPipelineProofs --------------------------
(***************************************************************************)
(* Proofs about ScanPipeline, for any scans, groups, workers, queue size,  *)
(* attempts, retries and crashes.                                          *)
(***************************************************************************)
EXTENDS ScanPipeline, SequenceTheorems, TLAPS

\* What refers to a job refers to a stored one; an idle thread holds nothing.
RefsOK ==
  /\ maint \in JobIds \cup {0}
  /\ rerun \in JobIds \cup {0}
  /\ \A w \in Workers : IF workers[w].step = "idle" THEN workers[w] = Idle
                        ELSE workers[w].job \in JobIds

TypeInv == TypeOK /\ RefsOK

-----------------------------------------------------------------------------
(* Changes of the stored jobs.                                             *)

\* The jobs are numbered from 1, and belong to a slot and to a group.
LEMMA JobIdsType ==
  ASSUME TypeOK
  PROVE  /\ JobIds = 1..Len(jobs) /\ Len(jobs) \in Nat /\ Len(jobs) <= MaxJobs
         /\ \A j \in JobIds : /\ jobs[j] \in Job
                              /\ KeyOf(j) \in ScanKeys
                              /\ JobSlot(j) \in Slots /\ JobGroup(j) \in Groups
<1>1. /\ JobIds = 1..Len(jobs) /\ Len(jobs) \in Nat /\ Len(jobs) <= MaxJobs
      /\ \A j \in JobIds : jobs[j] \in Job
  BY LenProperties, ElementOfSeq DEF TypeOK, JobIds
<1>2. \A j \in JobIds : jobs[j].key \in ScanKeys
  BY <1>1 DEF Job
<1>. QED
  BY <1>1, <1>2, ConstantsAssumption DEF KeyOf, JobSlot, JobGroup

\* A changed job keeps its number, and the other jobs stay the same.
LEMMA ChangeJob ==
  ASSUME TypeOK, NEW j \in JobIds, NEW r \in Job, jobs' = [jobs EXCEPT ![j] = r]
  PROVE  /\ jobs' \in Seq(Job) /\ Len(jobs') <= MaxJobs
         /\ JobIds' = JobIds
         /\ jobs'[j] = r
         /\ \A i \in JobIds : i # j => jobs'[i] = jobs[i]
<1>1. j \in 1..Len(jobs) /\ JobIds = 1..Len(jobs) /\ Len(jobs) <= MaxJobs
  BY JobIdsType
<1>2. /\ jobs' \in Seq(Job) /\ Len(jobs') = Len(jobs)
      /\ \A i \in 1..Len(jobs) : jobs'[i] = IF i = j THEN r ELSE jobs[i]
  BY <1>1, ExceptSeq DEF TypeOK
<1>3. JobIds' = 1..Len(jobs')
  BY <1>2, LenProperties DEF JobIds
<1>. QED
  BY <1>1, <1>2, <1>3

\* A job ends: its lease is cleared, what identifies it stays.
LEMMA EndJob ==
  ASSUME TypeOK, NEW j \in JobIds, NEW st \in JobState,
         NEW f \in {"none", "retryable", "final", "stale"},
         jobs' = [jobs EXCEPT ![j].state = st, ![j].failure = f, ![j].lease = "none"]
  PROVE  /\ jobs' \in Seq(Job) /\ Len(jobs') <= MaxJobs
         /\ JobIds' = JobIds
         /\ jobs'[j].state = st /\ jobs'[j].key = jobs[j].key
         /\ jobs'[j].attempts = jobs[j].attempts /\ jobs'[j].overrun = jobs[j].overrun
         /\ \A i \in JobIds : i # j => jobs'[i] = jobs[i]
<1> DEFINE r == [jobs[j] EXCEPT !.state = st, !.failure = f, !.lease = "none"]
<1>1. jobs[j] \in Job
  BY JobIdsType
<1>2. /\ r \in Job /\ r.state = st /\ r.key = jobs[j].key
      /\ r.attempts = jobs[j].attempts /\ r.overrun = jobs[j].overrun
  BY <1>1 DEF Job
<1>3. jobs' = [jobs EXCEPT ![j] = r]
  OBVIOUS
<1> HIDE DEF r
<1>4. /\ jobs' \in Seq(Job) /\ Len(jobs') <= MaxJobs
      /\ JobIds' = JobIds
      /\ jobs'[j] = r
      /\ \A i \in JobIds : i # j => jobs'[i] = jobs[i]
  BY <1>2, <1>3, ChangeJob
<1>. QED
  BY <1>2, <1>4

\* A completed job keeps its failure as well.
LEMMA CompleteJob ==
  ASSUME TypeOK, NEW j \in JobIds, NEW st \in JobState,
         jobs' = [jobs EXCEPT ![j].state = st, ![j].lease = "none"]
  PROVE  /\ jobs' \in Seq(Job) /\ Len(jobs') <= MaxJobs
         /\ JobIds' = JobIds
         /\ jobs'[j].state = st /\ jobs'[j].key = jobs[j].key
         /\ jobs'[j].attempts = jobs[j].attempts /\ jobs'[j].overrun = jobs[j].overrun
         /\ \A i \in JobIds : i # j => jobs'[i] = jobs[i]
<1> DEFINE r == [jobs[j] EXCEPT !.state = st, !.lease = "none"]
<1>1. jobs[j] \in Job
  BY JobIdsType
<1>2. /\ r \in Job /\ r.state = st /\ r.key = jobs[j].key
      /\ r.attempts = jobs[j].attempts /\ r.overrun = jobs[j].overrun
  BY <1>1 DEF Job
<1>3. jobs' = [jobs EXCEPT ![j] = r]
  OBVIOUS
<1> HIDE DEF r
<1>4. /\ jobs' \in Seq(Job) /\ Len(jobs') <= MaxJobs
      /\ JobIds' = JobIds
      /\ jobs'[j] = r
      /\ \A i \in JobIds : i # j => jobs'[i] = jobs[i]
  BY <1>2, <1>3, ChangeJob
<1>. QED
  BY <1>2, <1>4

\* A started job runs under a live lease, and has one attempt more.
LEMMA StartJob ==
  ASSUME TypeOK, NEW j \in JobIds, ~UsedUp(j),
         jobs' = [jobs EXCEPT ![j].state = "running", ![j].lease = "live", ![j].attempts = @ + 1]
  PROVE  /\ jobs' \in Seq(Job) /\ Len(jobs') <= MaxJobs
         /\ JobIds' = JobIds
         /\ jobs'[j].state = "running" /\ jobs'[j].lease = "live"
         /\ jobs'[j].key = jobs[j].key /\ jobs'[j].overrun = jobs[j].overrun
         /\ jobs[j].attempts \in Nat /\ jobs'[j].attempts = jobs[j].attempts + 1
         /\ jobs'[j].attempts \in 0..MaxAttempts
         /\ \A i \in JobIds : i # j => jobs'[i] = jobs[i]
<1> DEFINE r == [jobs[j] EXCEPT !.state = "running", !.lease = "live",
                                !.attempts = jobs[j].attempts + 1]
<1>1. jobs[j] \in Job
  BY JobIdsType
<1>2. jobs[j].attempts \in Nat /\ jobs[j].attempts + 1 \in 0..MaxAttempts
  BY <1>1, ConstantsAssumption DEF Job, UsedUp
<1>3. /\ r \in Job /\ r.state = "running" /\ r.lease = "live" /\ r.key = jobs[j].key
      /\ r.attempts = jobs[j].attempts + 1 /\ r.overrun = jobs[j].overrun
  BY <1>1, <1>2 DEF Job, JobState, Active
<1>4. jobs' = [jobs EXCEPT ![j] = r]
  OBVIOUS
<1> HIDE DEF r
<1>5. /\ jobs' \in Seq(Job) /\ Len(jobs') <= MaxJobs
      /\ JobIds' = JobIds
      /\ jobs'[j] = r
      /\ \A i \in JobIds : i # j => jobs'[i] = jobs[i]
  BY <1>3, <1>4, ChangeJob
<1>6. /\ jobs'[j].state = "running" /\ jobs'[j].lease = "live" /\ jobs'[j].key = jobs[j].key
      /\ jobs'[j].attempts = jobs[j].attempts + 1 /\ jobs'[j].overrun = jobs[j].overrun
  BY <1>3, <1>5
<1>. QED
  BY <1>2, <1>5, <1>6

\* A job learns its Check Run: its state and its lease stay.
LEMMA TouchJob ==
  ASSUME TypeOK, NEW j \in JobIds, jobs' = [jobs EXCEPT ![j].run = TRUE]
  PROVE  /\ jobs' \in Seq(Job) /\ Len(jobs') <= MaxJobs
         /\ JobIds' = JobIds
         /\ jobs'[j].state = jobs[j].state /\ jobs'[j].key = jobs[j].key
         /\ jobs'[j].attempts = jobs[j].attempts /\ jobs'[j].lease = jobs[j].lease
         /\ jobs'[j].overrun = jobs[j].overrun
         /\ \A i \in JobIds : i # j => jobs'[i] = jobs[i]
<1> DEFINE r == [jobs[j] EXCEPT !.run = TRUE]
<1>1. jobs[j] \in Job
  BY JobIdsType
<1>2. /\ r \in Job /\ r.state = jobs[j].state /\ r.key = jobs[j].key
      /\ r.attempts = jobs[j].attempts /\ r.lease = jobs[j].lease
      /\ r.overrun = jobs[j].overrun
  BY <1>1 DEF Job
<1>3. jobs' = [jobs EXCEPT ![j] = r]
  OBVIOUS
<1> HIDE DEF r
<1>4. /\ jobs' \in Seq(Job) /\ Len(jobs') <= MaxJobs
      /\ JobIds' = JobIds
      /\ jobs'[j] = r
      /\ \A i \in JobIds : i # j => jobs'[i] = jobs[i]
  BY <1>2, <1>3, ChangeJob
<1>. QED
  BY <1>2, <1>4

\* The lease of a job expires, perhaps with a worker at it: its state stays.
LEMMA ExpireJob ==
  ASSUME TypeOK, NEW j \in JobIds, NEW b \in BOOLEAN,
         jobs' = [jobs EXCEPT ![j].lease = "expired", ![j].overrun = b]
  PROVE  /\ jobs' \in Seq(Job) /\ Len(jobs') <= MaxJobs
         /\ JobIds' = JobIds
         /\ jobs'[j].state = jobs[j].state /\ jobs'[j].key = jobs[j].key
         /\ jobs'[j].attempts = jobs[j].attempts /\ jobs'[j].overrun = b
         /\ \A i \in JobIds : i # j => jobs'[i] = jobs[i]
<1> DEFINE r == [jobs[j] EXCEPT !.lease = "expired", !.overrun = b]
<1>1. jobs[j] \in Job
  BY JobIdsType
<1>2. /\ r \in Job /\ r.state = jobs[j].state /\ r.key = jobs[j].key
      /\ r.attempts = jobs[j].attempts /\ r.overrun = b
  BY <1>1 DEF Job
<1>3. jobs' = [jobs EXCEPT ![j] = r]
  OBVIOUS
<1> HIDE DEF r
<1>4. /\ jobs' \in Seq(Job) /\ Len(jobs') <= MaxJobs
      /\ JobIds' = JobIds
      /\ jobs'[j] = r
      /\ \A i \in JobIds : i # j => jobs'[i] = jobs[i]
  BY <1>2, <1>3, ChangeJob
<1>. QED
  BY <1>2, <1>4

\* A new job is queued under the next number.
LEMMA InsertedJob ==
  ASSUME TypeOK, NEW k \in ScanKeys, NEW t \in {"event", "rerun", "retry"}, InsertJob(k, t)
  PROVE  /\ jobs' \in Seq(Job) /\ Len(jobs') <= MaxJobs
         /\ JobIds' = JobIds \cup {Len(jobs) + 1}
         /\ \A i \in JobIds : jobs'[i] = jobs[i]
         /\ jobs'[Len(jobs) + 1].state = "queued"
         /\ queue' \subseteq 1..MaxJobs
<1> DEFINE r == [key |-> k, trigger |-> t, state |-> "queued", attempts |-> 0,
                 lease |-> "none", run |-> FALSE, failure |-> "none", overrun |-> FALSE]
<1>1. r \in Job
  BY ConstantsAssumption DEF Job, JobState, Active
<1>2. r.state = "queued"
  OBVIOUS
<1>3. jobs' = Append(jobs, r) /\ Len(jobs) < MaxJobs
  BY DEF InsertJob
<1> HIDE DEF r
<1>4. JobIds = 1..Len(jobs) /\ Len(jobs) \in Nat
  BY JobIdsType
<1>5. /\ jobs' \in Seq(Job) /\ Len(jobs') = Len(jobs) + 1
      /\ \A i \in 1..Len(jobs) : jobs'[i] = jobs[i]
      /\ jobs'[Len(jobs) + 1] = r
  BY <1>1, <1>3, AppendProperties DEF TypeOK
<1>6. JobIds' = 1..Len(jobs')
  BY <1>5, LenProperties DEF JobIds
<1>7. queue' \subseteq queue \cup {Len(jobs) + 1} /\ queue \subseteq 1..MaxJobs
  BY DEF InsertJob, Put, TypeOK
<1>8. queue' \subseteq 1..MaxJobs
  BY <1>3, <1>4, <1>7, ConstantsAssumption
<1>. QED
  BY <1>2, <1>3, <1>4, <1>5, <1>6, <1>8, ConstantsAssumption

\* Jobs are cancelled by an event: nothing but their state changes.
LEMMA CancelledJobs ==
  ASSUME TypeOK, NEW S,
         jobs' = [j \in JobIds |-> IF j \in S THEN [jobs[j] EXCEPT !.state = "cancelled"]
                                   ELSE jobs[j]]
  PROVE  /\ jobs' \in Seq(Job) /\ Len(jobs') <= MaxJobs
         /\ JobIds' = JobIds
         /\ \A j \in JobIds : /\ jobs'[j].key = jobs[j].key
                              /\ jobs'[j].attempts = jobs[j].attempts
                              /\ jobs'[j].lease = jobs[j].lease
                              /\ jobs'[j].overrun = jobs[j].overrun
                              /\ jobs'[j].state \in {jobs[j].state, "cancelled"}
                              /\ j \in S \/ jobs'[j].state = jobs[j].state
<1>1. /\ JobIds = 1..Len(jobs) /\ Len(jobs) \in Nat /\ Len(jobs) <= MaxJobs
      /\ \A j \in JobIds : jobs[j] \in Job
  BY JobIdsType
<1>2. \A j \in JobIds : /\ jobs'[j] \in Job /\ jobs'[j].key = jobs[j].key
                        /\ jobs'[j].attempts = jobs[j].attempts
                        /\ jobs'[j].lease = jobs[j].lease
                        /\ jobs'[j].overrun = jobs[j].overrun
                        /\ jobs'[j].state \in {jobs[j].state, "cancelled"}
                        /\ j \in S \/ jobs'[j].state = jobs[j].state
  BY <1>1 DEF Job, JobState
<1>3. jobs' \in [1..Len(jobs) -> Job]
  BY <1>1, <1>2
<1>4. jobs' \in Seq(Job)
  BY <1>1, <1>3, SeqDef
<1>5. DOMAIN jobs' = 1..Len(jobs') /\ Len(jobs') \in Nat
  BY <1>4, LenProperties
<1>6. DOMAIN jobs' = 1..Len(jobs)
  BY <1>1
<1>7. Len(jobs') = Len(jobs)
  BY <1>1, <1>5, <1>6
<1>8. JobIds' = JobIds
  BY <1>1, <1>6 DEF JobIds
<1>. QED
  BY <1>1, <1>2, <1>4, <1>7, <1>8

-----------------------------------------------------------------------------
(* Steps of the worker threads.                                            *)

\* A thread goes on with its job, or is done with it.
Moved(w) ==
  /\ workers' \in [Workers -> Worker]
  /\ \A v \in Workers : v # w => workers'[v] = workers[v]
  /\ workers'[w].step # "idle"
  /\ workers'[w].job = workers[w].job
  /\ workers'[w].attempt = workers[w].attempt

Stopped(w) ==
  /\ workers' \in [Workers -> Worker]
  /\ \A v \in Workers : v # w => workers'[v] = workers[v]
  /\ workers'[w] = Idle

\* A thread moves when only its step, run, allowed or failure changes.
LEMMA MoveWorker ==
  ASSUME TypeOK, NEW w \in Workers, NEW step \in Step \ {"idle"}, NEW run \in BOOLEAN,
         NEW allowed \in BOOLEAN, NEW f \in {"none", "retryable", "final", "stale"},
         workers' = [workers EXCEPT ![w] =
           [workers[w] EXCEPT !.step = step, !.run = run, !.allowed = allowed, !.failure = f]]
  PROVE  Moved(w) /\ workers'[w].step = step /\ workers'[w].allowed = allowed
<1> DEFINE r == [workers[w] EXCEPT !.step = step, !.run = run, !.allowed = allowed,
                                   !.failure = f]
<1>1. workers[w] \in Worker
  BY DEF TypeOK
<1>2. /\ r \in Worker /\ r.step = step /\ r.job = workers[w].job
      /\ r.attempt = workers[w].attempt /\ r.allowed = allowed
  BY <1>1 DEF Worker
<1>3. workers' = [workers EXCEPT ![w] = r]
  OBVIOUS
<1> HIDE DEF r
<1>. QED
  BY <1>2, <1>3 DEF TypeOK, Moved

\* Goto is such a move,
LEMMA GotoMoves ==
  ASSUME TypeOK, NEW w \in Workers, NEW step \in Step \ {"idle"}, Goto(w, step)
  PROVE  Moved(w) /\ workers'[w].step = step
<1>1. workers[w] \in Worker
  BY DEF TypeOK
<1>2. workers[w].run \in BOOLEAN /\ workers[w].allowed \in BOOLEAN
      /\ workers[w].failure \in {"none", "retryable", "final", "stale"}
  BY <1>1 DEF Worker
<1>3. workers' = [workers EXCEPT ![w] =
        [workers[w] EXCEPT !.step = step, !.run = workers[w].run,
                           !.allowed = workers[w].allowed, !.failure = workers[w].failure]]
  BY <1>1 DEF Goto, Worker
<1>. QED
  BY <1>2, <1>3, MoveWorker

\* so is FailWith,
LEMMA FailMoves ==
  ASSUME TypeOK, NEW w \in Workers, NEW f \in {"none", "retryable", "final", "stale"},
         FailWith(w, f)
  PROVE  Moved(w) /\ workers'[w].step = "fail"
<1>1. workers[w] \in Worker
  BY DEF TypeOK
<1>2. workers[w].run \in BOOLEAN /\ workers[w].allowed \in BOOLEAN
  BY <1>1 DEF Worker
<1>3. workers' = [workers EXCEPT ![w] =
        [workers[w] EXCEPT !.step = "fail", !.run = workers[w].run,
                           !.allowed = workers[w].allowed, !.failure = f]]
  BY <1>1 DEF FailWith, Worker
<1>. QED
  BY <1>2, <1>3, MoveWorker DEF Step

\* and so is CancelWith.
LEMMA CancelMoves ==
  ASSUME TypeOK, NEW w \in Workers, NEW f \in {"none", "retryable", "final", "stale"},
         CancelWith(w, f)
  PROVE  Moved(w) /\ workers'[w].step = "cancel"
<1>1. workers[w] \in Worker
  BY DEF TypeOK
<1>2. workers[w].run \in BOOLEAN /\ workers[w].allowed \in BOOLEAN
  BY <1>1 DEF Worker
<1>3. workers' = [workers EXCEPT ![w] =
        [workers[w] EXCEPT !.step = "cancel", !.run = workers[w].run,
                           !.allowed = workers[w].allowed, !.failure = f]]
  BY <1>1 DEF CancelWith, Worker
<1>. QED
  BY <1>2, <1>3, MoveWorker DEF Step

\* An idle thread is well-typed ...
LEMMA IdleType == Idle \in Worker
BY ConstantsAssumption DEF Idle, Worker, Step

\* ... so a thread may stop.
LEMMA StopStops ==
  ASSUME TypeOK, NEW w \in Workers, Stop(w)
  PROVE  Stopped(w)
BY IdleType DEF TypeOK, Stop, Stopped

(* The effects a step of a worker can have on what others see.             *)

SlotOfWorker(w) == JobSlot(workers[w].job)

\* It neither takes a lock nor records a result ...
Quiet(w) ==
  /\ Moved(w) \/ Stopped(w)
  /\ workers'[w].step \notin {"queue_check", "set_run", "record"}

\* ... and changes nothing else,
LocalStep(w) == Quiet(w) /\ UNCHANGED <<jobs, slots, checks>>

\* or it takes the slot over from an older job,
TakeStep(w) ==
  LET s == SlotOfWorker(w)
  IN /\ Moved(w) /\ workers'[w].step = "queue_check"
     /\ ~Locked(s)
     /\ ~(slots[s].owner > workers[w].job)
     /\ slots' = [slots EXCEPT ![s].owner = workers[w].job]
     /\ UNCHANGED <<jobs, checks>>

\* or it stores the Check Run of the slot or of the job,
RunStep(w) ==
  /\ Quiet(w) /\ Moved(w)
  /\ \/ /\ slots' = [slots EXCEPT ![SlotOfWorker(w)].run = TRUE]
        /\ UNCHANGED jobs
     \/ /\ jobs' = [jobs EXCEPT ![workers[w].job].run = TRUE]
        /\ UNCHANGED slots
  /\ UNCHANGED checks

\* or it writes the Check Run of a slot that its job owns,
WriteStep(w) ==
  LET s == SlotOfWorker(w)
  IN /\ Moved(w) \/ Stopped(w)
     /\ workers'[w].step # "queue_check"
     /\ slots[s].owner = workers[w].job
     /\ \/ UNCHANGED checks /\ workers'[w].step # "record"
        \/ \E c \in Check :
             /\ c.by = workers[w].job
             /\ checks' = [checks EXCEPT ![s] = c]
             /\ workers'[w].step = "record" =>
                  /\ c.status = "completed"
                  /\ c.conclusion = IF workers'[w].allowed THEN "success" ELSE "failure"
     /\ UNCHANGED <<jobs, slots>>

\* or it ends the job, with a result only if it was about to record one.
EndStep(w) ==
  LET j == workers[w].job
  IN /\ Quiet(w)
     /\ jobs' \in Seq(Job) /\ Len(jobs') <= MaxJobs /\ JobIds' = JobIds
     /\ jobs'[j].key = jobs[j].key /\ jobs'[j].attempts = jobs[j].attempts
     /\ jobs'[j].overrun = jobs[j].overrun
     /\ \A i \in JobIds : i # j => jobs'[i] = jobs[i]
     /\ \/ jobs'[j].state \in {"cancelled", "error"}
        \/ /\ workers[w].step = "record" /\ Stopped(w)
           /\ jobs'[j].state = IF workers[w].allowed THEN "passed" ELSE "failed"
     /\ UNCHANGED <<slots, checks>>

\* A thread that holds the lock of a slot owns the slot.
LockHolderOwns ==
  \A w \in Workers : workers[w].step \in {"queue_check", "set_run"} =>
    slots[SlotOfWorker(w)].owner = workers[w].job

\* The write of a Check Run is well-typed.
LEMMA WriteType ==
  ASSUME TypeInv, NEW w \in Workers, workers[w].step # "idle",
         NEW st \in {"queued", "in_progress", "completed"},
         NEW co \in {"none", "success", "failure"}, NEW outcome, WriteCheck(w, st, co, outcome)
  PROVE  \/ outcome = "no_effect" /\ UNCHANGED checks
         \/ \E c \in Check : /\ c.by = workers[w].job
                             /\ c.status = st /\ c.conclusion = co
                             /\ checks' = [checks EXCEPT ![SlotOfWorker(w)] = c]
<1> DEFINE c == [status |-> st, conclusion |-> co, by |-> workers[w].job]
<1>1. workers[w] \in Worker
  BY DEF TypeInv, TypeOK
<1>2. c \in Check
  BY <1>1 DEF Check, Worker
<1>3. outcome = "no_effect" \/ checks' = [checks EXCEPT ![SlotOfWorker(w)] = c]
  BY DEF WriteCheck, SlotOfWorker
<1>4. outcome = "no_effect" => UNCHANGED checks
  BY DEF WriteCheck
<1>. QED
  BY <1>2, <1>3, <1>4

\* The first checks of a job change nothing others see.
LEMMA CheckJobEffect ==
  ASSUME TypeInv, NEW w \in Workers, CheckJob(w)
  PROVE  LocalStep(w)
<1>1. \/ CancelWith(w, "none") \/ CancelWith(w, "stale")
      \/ FailWith(w, "final") \/ FailWith(w, "retryable") \/ Goto(w, "claim_check")
  BY DEF CheckJob
<1>2. Quiet(w)
  BY <1>1, CancelMoves, FailMoves, GotoMoves DEF Quiet, TypeInv, Step
<1>. QED
  BY <1>2 DEF CheckJob, LocalStep, stored

\* claim_check takes the slot, or loses it.
LEMMA ClaimCheckEffect ==
  ASSUME TypeInv, NEW w \in Workers, ClaimCheck(w)
  PROVE  LocalStep(w) \/ TakeStep(w)
<1> DEFINE s == SlotOfWorker(w)
<1>1. CASE slots[s].owner > workers[w].job
  <2>1. CancelWith(w, "stale") /\ UNCHANGED <<jobs, slots, checks>>
    BY <1>1 DEF ClaimCheck, SlotOfWorker
  <2>. QED
    BY <2>1, CancelMoves DEF TypeInv, LocalStep, Quiet
<1>2. CASE ~(slots[s].owner > workers[w].job)
  <2>0. workers[w] \in Worker /\ workers[w].job \in JobIds
    BY DEF TypeInv, TypeOK, RefsOK, ClaimCheck
  <2>1. /\ slots' = [slots EXCEPT ![s].owner = workers[w].job]
        /\ workers' = [workers EXCEPT ![w].step = "queue_check", ![w].run = slots[s].run]
        /\ ~Locked(s) /\ UNCHANGED <<jobs, checks>>
    BY <1>2 DEF ClaimCheck, SlotOfWorker
  <2>2. slots[s].run \in BOOLEAN
    BY <2>0, JobIdsType DEF TypeInv, TypeOK, SlotOfWorker
  <2>3. /\ workers[w].allowed \in BOOLEAN
        /\ workers[w].failure \in {"none", "retryable", "final", "stale"}
    BY <2>0 DEF Worker
  <2>4. workers' = [workers EXCEPT ![w] =
          [workers[w] EXCEPT !.step = "queue_check", !.run = slots[s].run,
                             !.allowed = workers[w].allowed, !.failure = workers[w].failure]]
    BY <2>0, <2>1 DEF Worker
  <2>5. Moved(w) /\ workers'[w].step = "queue_check"
    BY <2>2, <2>3, <2>4, MoveWorker DEF TypeInv, Step
  <2>. QED
    BY <1>2, <2>1, <2>5 DEF TakeStep
<1>. QED
  BY <1>1, <1>2

\* The "queued" Check Run is written by the owner of the slot.
LEMMA QueueCheckEffect ==
  ASSUME TypeInv, LockHolderOwns, NEW w \in Workers, QueueCheck(w)
  PROVE  WriteStep(w)
<1>1. PICK outcome \in ApiOutcome, f \in ApiFailure :
        /\ WriteCheck(w, "queued", "none", outcome)
        /\ IF outcome # "ok" THEN FailWith(w, f)
           ELSE Goto(w, IF workers[w].run THEN "store_run" ELSE "set_run")
  BY DEF QueueCheck
<1>2. f \in {"none", "retryable", "final", "stale"}
  BY DEF ApiFailure
<1>3. Moved(w) /\ workers'[w].step \in {"fail", "store_run", "set_run"}
  BY <1>1, <1>2, FailMoves, GotoMoves DEF TypeInv, Step
<1>4. slots[SlotOfWorker(w)].owner = workers[w].job
  BY DEF LockHolderOwns, QueueCheck
<1>5. UNCHANGED <<jobs, slots>> /\ workers[w].step # "idle"
  BY DEF QueueCheck, stored
<1>6. \/ UNCHANGED checks
      \/ \E c \in Check : /\ c.by = workers[w].job
                          /\ checks' = [checks EXCEPT ![SlotOfWorker(w)] = c]
  BY <1>1, <1>5, WriteType
<1>. QED
  BY <1>3, <1>4, <1>5, <1>6 DEF WriteStep

\* set_check_run_id, or the slot is lost.
LEMMA SetRunEffect ==
  ASSUME TypeInv, NEW w \in Workers, SetRun(w)
  PROVE  LocalStep(w) \/ RunStep(w)
<1> DEFINE s == SlotOfWorker(w)
<1>1. CASE slots[s].owner # workers[w].job
  <2>1. CancelWith(w, "stale") /\ UNCHANGED <<jobs, slots, checks>>
    BY <1>1 DEF SetRun, SlotOfWorker
  <2>. QED
    BY <2>1, CancelMoves DEF TypeInv, LocalStep, Quiet
<1>2. CASE slots[s].owner = workers[w].job
  <2>0. workers[w] \in Worker
    BY DEF TypeInv, TypeOK
  <2>1. /\ slots' = [slots EXCEPT ![s].run = TRUE]
        /\ workers' = [workers EXCEPT ![w].step = "store_run", ![w].run = TRUE]
        /\ UNCHANGED <<jobs, checks>>
    BY <1>2 DEF SetRun, SlotOfWorker
  <2>2. /\ workers[w].allowed \in BOOLEAN
        /\ workers[w].failure \in {"none", "retryable", "final", "stale"}
    BY <2>0 DEF Worker
  <2>3. workers' = [workers EXCEPT ![w] =
          [workers[w] EXCEPT !.step = "store_run", !.run = TRUE,
                             !.allowed = workers[w].allowed, !.failure = workers[w].failure]]
    BY <2>0, <2>1 DEF Worker
  <2>4. Moved(w) /\ workers'[w].step = "store_run"
    BY <2>2, <2>3, MoveWorker DEF TypeInv, Step
  <2>. QED
    BY <2>1, <2>4 DEF RunStep, Quiet
<1>. QED
  BY <1>1, <1>2

\* update_job(check_run_id)
LEMMA StoreRunEffect ==
  ASSUME TypeInv, NEW w \in Workers, StoreRun(w)
  PROVE  RunStep(w)
<1>1. Moved(w) /\ workers'[w].step = "plan"
  BY GotoMoves DEF StoreRun, TypeInv, Step
<1>. QED
  BY <1>1 DEF StoreRun, RunStep, Quiet

\* The "in_progress" Check Run is written by the owner of the slot.
LEMMA PlanEffect ==
  ASSUME TypeInv, NEW w \in Workers, Plan(w)
  PROVE  LocalStep(w) \/ WriteStep(w)
<1>0. UNCHANGED <<jobs, slots>> /\ workers[w].step # "idle" /\ TypeOK
  BY DEF Plan, stored, TypeInv
<1>1. CASE \E f \in {"retryable", "final"} : FailWith(w, f) /\ UNCHANGED checks
  BY <1>0, <1>1, FailMoves DEF LocalStep, Quiet
<1>2. CASE LoseCheck(w) /\ CancelWith(w, "stale")
  BY <1>0, <1>2, CancelMoves DEF LocalStep, Quiet, LoseCheck
<1>3. ASSUME NEW outcome \in ApiOutcome, NEW f \in ApiFailure,
             Publish(w, "in_progress", "none", outcome),
             IF outcome = "ok" THEN Goto(w, "publish") ELSE FailWith(w, f)
      PROVE  WriteStep(w)
  <2>1. f \in {"none", "retryable", "final", "stale"}
    BY DEF ApiFailure
  <2>2. Moved(w) /\ workers'[w].step \in {"publish", "fail"}
    BY <1>0, <1>3, <2>1, GotoMoves, FailMoves DEF Step
  <2>3. slots[SlotOfWorker(w)].owner = workers[w].job
    BY <1>3 DEF Publish, Superseded, SlotOfWorker
  <2>4. \/ UNCHANGED checks
        \/ \E c \in Check : /\ c.by = workers[w].job
                            /\ checks' = [checks EXCEPT ![SlotOfWorker(w)] = c]
    BY <1>0, <1>3, WriteType DEF Publish
  <2>. QED
    BY <1>0, <2>2, <2>3, <2>4 DEF WriteStep
<1>. QED
  BY <1>1, <1>2, <1>3 DEF Plan

\* The result is written by the owner of the slot, and recorded only when GitHub
\* accepted it.
LEMMA PublishResultEffect ==
  ASSUME TypeInv, NEW w \in Workers, PublishResult(w)
  PROVE  LocalStep(w) \/ WriteStep(w)
<1>0. /\ UNCHANGED <<jobs, slots>> /\ workers[w].step # "idle" /\ TypeOK
      /\ workers[w] \in Worker
  BY DEF PublishResult, stored, TypeInv, TypeOK
<1>1. CASE LoseCheck(w) /\ CancelWith(w, "stale")
  BY <1>0, <1>1, CancelMoves DEF LocalStep, Quiet, LoseCheck
<1>2. ASSUME NEW allowed \in BOOLEAN, NEW outcome \in ApiOutcome, NEW f \in ApiFailure,
             Publish(w, "completed", IF allowed THEN "success" ELSE "failure", outcome),
             IF outcome = "ok"
               THEN workers' = [workers EXCEPT ![w].step = "record", ![w].allowed = allowed]
               ELSE FailWith(w, f)
      PROVE  WriteStep(w)
  <2>1. slots[SlotOfWorker(w)].owner = workers[w].job
    BY <1>2 DEF Publish, Superseded, SlotOfWorker
  <2>2. \/ outcome = "no_effect" /\ UNCHANGED checks
        \/ \E c \in Check : /\ c.by = workers[w].job
                            /\ c.status = "completed"
                            /\ c.conclusion = IF allowed THEN "success" ELSE "failure"
                            /\ checks' = [checks EXCEPT ![SlotOfWorker(w)] = c]
    BY <1>0, <1>2, WriteType DEF Publish
  <2>3. CASE outcome = "ok"
    <3>1. /\ workers[w].run \in BOOLEAN
          /\ workers[w].failure \in {"none", "retryable", "final", "stale"}
      BY <1>0 DEF Worker
    <3>2. workers' = [workers EXCEPT ![w] =
            [workers[w] EXCEPT !.step = "record", !.run = workers[w].run,
                               !.allowed = allowed, !.failure = workers[w].failure]]
      BY <1>0, <1>2, <2>3 DEF Worker
    <3>3. Moved(w) /\ workers'[w].step = "record" /\ workers'[w].allowed = allowed
      BY <1>0, <3>1, <3>2, MoveWorker DEF Step
    <3>. QED
      BY <1>0, <2>1, <2>2, <2>3, <3>3 DEF WriteStep
  <2>4. CASE outcome # "ok"
    <3>1. f \in {"none", "retryable", "final", "stale"}
      BY DEF ApiFailure
    <3>2. Moved(w) /\ workers'[w].step = "fail"
      BY <1>0, <1>2, <2>4, <3>1, FailMoves
    <3>. QED
      BY <1>0, <2>1, <2>2, <3>2 DEF WriteStep
  <2>. QED
    BY <2>3, <2>4
<1>. QED
  BY <1>1, <1>2 DEF PublishResult

\* The failing Check Run is written by the owner of the slot.
LEMMA PublishFailureEffect ==
  ASSUME TypeInv, NEW w \in Workers, PublishFailure(w)
  PROVE  LocalStep(w) \/ WriteStep(w)
<1>0. /\ UNCHANGED <<jobs, slots>> /\ workers[w].step # "idle" /\ Stopped(w)
      /\ workers'[w].step = "idle"
  BY StopStops DEF PublishFailure, stored, TypeInv, Stopped, Idle
<1>1. CASE UNCHANGED checks
  BY <1>0, <1>1 DEF LocalStep, Quiet
<1>2. ASSUME NEW outcome \in ApiOutcome, Publish(w, "completed", "failure", outcome)
      PROVE  WriteStep(w)
  <2>1. slots[SlotOfWorker(w)].owner = workers[w].job
    BY <1>2 DEF Publish, Superseded, SlotOfWorker
  <2>2. \/ UNCHANGED checks
        \/ \E c \in Check : /\ c.by = workers[w].job
                            /\ checks' = [checks EXCEPT ![SlotOfWorker(w)] = c]
    BY <1>0, <1>2, WriteType DEF Publish
  <2>. QED
    BY <1>0, <2>1, <2>2 DEF WriteStep
<1>. QED
  BY <1>1, <1>2 DEF PublishFailure, LoseCheck

\* The end of a job.
LEMMA EndEffect ==
  ASSUME TypeInv, NEW w \in Workers, RecordResult(w) \/ CancelJob(w) \/ FailJob(w)
  PROVE  EndStep(w)
<1> DEFINE j == workers[w].job
<1>0. /\ workers[w] \in Worker /\ j \in JobIds /\ TypeOK
      /\ workers[w].failure \in {"none", "retryable", "final", "stale"}
      /\ UNCHANGED <<slots, checks>>
  BY DEF TypeInv, TypeOK, RefsOK, RecordResult, CancelJob, FailJob, Worker
<1>1. CASE RecordResult(w)
  <2>1. Stopped(w) /\ workers'[w].step = "idle" /\ workers[w].step = "record"
    BY <1>0, <1>1, StopStops DEF RecordResult, Stopped, Idle
  <2>2. jobs' = [jobs EXCEPT ![j].state = IF workers[w].allowed THEN "passed" ELSE "failed",
                             ![j].lease = "none"]
    BY <1>1 DEF RecordResult
  <2> DEFINE st == IF workers[w].allowed THEN "passed" ELSE "failed"
  <2>3. st \in JobState
    BY DEF JobState, Completed
  <2>4. jobs' = [jobs EXCEPT ![j].state = st, ![j].lease = "none"]
    BY <2>2
  <2> HIDE DEF st
  <2>5. /\ jobs' \in Seq(Job) /\ Len(jobs') <= MaxJobs
        /\ JobIds' = JobIds
        /\ jobs'[j].state = st /\ jobs'[j].key = jobs[j].key
        /\ jobs'[j].attempts = jobs[j].attempts /\ jobs'[j].overrun = jobs[j].overrun
        /\ \A i \in JobIds : i # j => jobs'[i] = jobs[i]
    BY <1>0, <2>3, <2>4, CompleteJob
  <2>. QED
    BY <1>0, <2>1, <2>5 DEF EndStep, Quiet, st
<1>2. CASE CancelJob(w)
  <2>1. Stopped(w) /\ workers'[w].step = "idle"
    BY <1>0, <1>2, StopStops DEF CancelJob, Stopped, Idle
  <2>2. jobs' = [jobs EXCEPT ![j].state = "cancelled", ![j].failure = workers[w].failure,
                             ![j].lease = "none"]
    BY <1>2 DEF CancelJob
  <2>. QED
    BY <1>0, <2>1, <2>2, EndJob DEF EndStep, Quiet, JobState
<1>3. CASE FailJob(w)
  <2>1. Quiet(w)
    BY <1>0, <1>3, StopStops, GotoMoves DEF FailJob, Stopped, Idle, Quiet, Step
  <2>2. jobs' = [jobs EXCEPT ![j].state = "error", ![j].failure = workers[w].failure,
                             ![j].lease = "none"]
    BY <1>3 DEF FailJob
  <2>. QED
    BY <1>0, <2>1, <2>2, EndJob DEF EndStep, JobState
<1>. QED
  BY <1>1, <1>2, <1>3

\* An error of the store changes nothing others see.
LEMMA StoreErrorEffect ==
  ASSUME TypeInv, NEW w \in Workers, StoreError(w)
  PROVE  LocalStep(w)
<1>1. TypeOK /\ UNCHANGED <<jobs, slots, checks>>
  BY DEF TypeInv, StoreError, stored
<1>. QED
  BY <1>1, FailMoves, StopStops DEF StoreError, LocalStep, Quiet, Stopped, Idle

\* Every step of a worker has one of these effects, and is for a stored job.
LEMMA WorkerEffect ==
  ASSUME TypeInv, LockHolderOwns, NEW w \in Workers, WorkerStep(w)
  PROVE  /\ workers[w].step # "idle" /\ workers[w].job \in JobIds
         /\ LocalStep(w) \/ TakeStep(w) \/ RunStep(w) \/ WriteStep(w) \/ EndStep(w)
         /\ UNCHANGED <<queue, maint, rerun, group, access, crashes>>
<1>1. workers[w].step # "idle"
  BY DEF WorkerStep, CheckJob, ClaimCheck, QueueCheck, SetRun, StoreRun, Plan, PublishResult,
         RecordResult, CancelJob, FailJob, PublishFailure, StoreError
<1>2. UNCHANGED <<queue, maint, rerun, group, access, crashes>>
  BY DEF WorkerStep, CheckJob, ClaimCheck, QueueCheck, SetRun, StoreRun, Plan, PublishResult,
         RecordResult, CancelJob, FailJob, PublishFailure, StoreError
<1>3. LocalStep(w) \/ TakeStep(w) \/ RunStep(w) \/ WriteStep(w) \/ EndStep(w)
  BY CheckJobEffect, ClaimCheckEffect, QueueCheckEffect, SetRunEffect, StoreRunEffect,
     PlanEffect, PublishResultEffect, PublishFailureEffect, EndEffect, StoreErrorEffect
  DEF WorkerStep
<1>. QED
  BY <1>1, <1>2, <1>3 DEF TypeInv, RefsOK

-----------------------------------------------------------------------------
(* Steps of everyone else.                                                 *)

\* Stored jobs keep their scan and their attempts; active ones may be cancelled, and
\* a lease may expire, which is remembered when a thread outlives it.  New jobs are
\* queued.
EnvJobs ==
  /\ jobs' \in Seq(Job) /\ Len(jobs') <= MaxJobs
  /\ JobIds \subseteq JobIds'
  /\ \A j \in JobIds :
       /\ jobs'[j].key = jobs[j].key /\ jobs'[j].attempts = jobs[j].attempts
       /\ \/ jobs'[j].state = jobs[j].state
          \/ jobs[j].state \in Active /\ jobs'[j].state = "cancelled"
       /\ \/ jobs'[j].lease = jobs[j].lease
          \/ \A w \in Workers : ~AtWork(w, j)
          \/ jobs'[j].overrun
       /\ jobs[j].overrun => jobs'[j].overrun
  /\ \A j \in JobIds' \ JobIds : jobs'[j].state = "queued"

EnvStep ==
  /\ EnvJobs
  /\ queue' \subseteq 1..MaxJobs
  /\ maint' \in JobIds \cup {0}
  /\ rerun' \in JobIds \cup {0}
  /\ group' \in [Groups -> GroupState]
  /\ access' \in [installed: BOOLEAN, monitored: BOOLEAN]
  /\ crashes' \in 0..MaxCrashes
  /\ UNCHANGED <<slots, workers, checks>>

\* An unchanged store.
LEMMA SameJobs ==
  ASSUME TypeOK, UNCHANGED jobs
  PROVE  EnvJobs
<1>1. JobIds' = JobIds
  BY DEF JobIds
<1>. QED
  BY <1>1 DEF EnvJobs, TypeOK

\* A store with one new job.
LEMMA NewJob ==
  ASSUME TypeOK, NEW k \in ScanKeys, NEW t \in {"event", "rerun", "retry"}, InsertJob(k, t)
  PROVE  EnvJobs /\ queue' \subseteq 1..MaxJobs
BY InsertedJob DEF EnvJobs

\* A store in which active jobs were cancelled.
LEMMA CancelActive ==
  ASSUME TypeOK, NEW S, \A j \in JobIds : j \in S => jobs[j].state \in Active,
         jobs' = [j \in JobIds |-> IF j \in S THEN [jobs[j] EXCEPT !.state = "cancelled"]
                                   ELSE jobs[j]]
  PROVE  EnvJobs
BY CancelledJobs DEF EnvJobs

\* Every step but those of the workers, a claim or a crash is such a step.
LEMMA EnvEffect ==
  ASSUME TypeInv, [Next]_vars,
         ~(\E w \in Workers : WorkerStep(w)), ~Crash,
         ~(\E j \in JobIds, w \in Workers : Claim(w, j))
  PROVE  EnvStep
<1>0. TypeOK /\ RefsOK
  BY DEF TypeInv
<1>1. \A j \in JobIds : KeyOf(j) \in ScanKeys /\ j \in 1..MaxJobs
  BY <1>0, JobIdsType, ConstantsAssumption
<1> DEFINE Typed == /\ queue \subseteq 1..MaxJobs
                    /\ maint \in JobIds \cup {0} /\ rerun \in JobIds \cup {0}
                    /\ group \in [Groups -> GroupState]
                    /\ access \in [installed: BOOLEAN, monitored: BOOLEAN]
                    /\ crashes \in 0..MaxCrashes
<1>2. Typed
  BY <1>0 DEF TypeOK, RefsOK
<1>3. ASSUME NEW k \in ScanKeys, ScanEvent(k) PROVE EnvStep
  <2>1. EnvJobs /\ queue' \subseteq 1..MaxJobs
    BY <1>0, <1>3, NewJob DEF ScanEvent
  <2>. QED
    BY <1>2, <1>3, <2>1 DEF ScanEvent, EnvStep
<1>4. ASSUME NEW j \in JobIds, RequestRerun(j) PROVE EnvStep
  BY <1>0, <1>2, <1>4, SameJobs DEF RequestRerun, EnvStep, stored
<1>5. ASSUME NEW j \in JobIds, SelectRetry(j) PROVE EnvStep
  BY <1>0, <1>2, <1>5, SameJobs DEF SelectRetry, EnvStep, stored
<1>6. ASSUME NEW j \in JobIds, Recover(j) PROVE EnvStep
  BY <1>0, <1>1, <1>2, <1>6, SameJobs DEF Recover, EnvStep, stored
<1>7. ASSUME NEW j \in JobIds, ExpireLease(j) PROVE EnvStep
  <2>1. EnvJobs
    <3> DEFINE b == jobs[j].overrun \/ \E w \in Workers : AtWork(w, j)
    <3>1. /\ b \in BOOLEAN
          /\ jobs[j].overrun => b
          /\ b \/ \A w \in Workers : ~AtWork(w, j)
      BY <1>0, JobIdsType DEF Job
    <3>2. jobs' = [jobs EXCEPT ![j].lease = "expired", ![j].overrun = b]
      BY <1>7 DEF ExpireLease
    <3> HIDE DEF b
    <3>3. /\ jobs' \in Seq(Job) /\ Len(jobs') <= MaxJobs
          /\ JobIds' = JobIds
          /\ jobs'[j].state = jobs[j].state /\ jobs'[j].key = jobs[j].key
          /\ jobs'[j].attempts = jobs[j].attempts /\ jobs'[j].overrun = b
          /\ \A i \in JobIds : i # j => jobs'[i] = jobs[i]
      BY <1>0, <3>1, <3>2, ExpireJob
    <3>. QED
      BY <3>1, <3>3 DEF EnvJobs
  <2>. QED
    BY <1>2, <1>7, <2>1 DEF ExpireLease, EnvStep
<1>8. ASSUME NEW g \in Groups, EndGroup(g) PROVE EnvStep
  BY <1>0, <1>2, <1>8, SameJobs DEF EndGroup, EnvStep, stored, GroupState
<1>9. ASSUME NEW g \in Groups, GroupEnded(g) PROVE EnvStep
  <2> DEFINE S == {j \in JobIds : JobGroup(j) = g /\ jobs[j].state = "queued"}
  <2>1. jobs' = [j \in JobIds |-> IF j \in S THEN [jobs[j] EXCEPT !.state = "cancelled"]
                                  ELSE jobs[j]]
    BY <1>9 DEF GroupEnded
  <2>2. \A j \in JobIds : j \in S => jobs[j].state \in Active
    BY DEF Active
  <2> HIDE DEF S
  <2>3. EnvJobs
    BY <1>0, <2>1, <2>2, CancelActive
  <2>. QED
    BY <1>2, <1>9, <2>3 DEF GroupEnded, EnvStep, GroupState
<1>10. ASSUME NEW g \in Groups, PullRequestMerged(g) PROVE EnvStep
  BY <1>0, <1>2, <1>10, SameJobs DEF PullRequestMerged, EnvStep, stored, GroupState
<1>11. ASSUME NEW g \in Groups, Reopen(g) PROVE EnvStep
  <2>1. EnvJobs /\ queue' \subseteq 1..MaxJobs
    BY <1>0, <1>2, <1>11, NewJob, SameJobs DEF Reopen
  <2>. QED
    BY <1>2, <1>11, <2>1 DEF Reopen, EnvStep, GroupState
<1>12. CASE CreateRerun
  <2>1. rerun \in JobIds
    BY <1>0, <1>12 DEF CreateRerun, RefsOK
  <2>2. EnvJobs /\ queue' \subseteq 1..MaxJobs
    BY <1>0, <1>1, <1>2, <1>12, <2>1, NewJob, SameJobs DEF CreateRerun
  <2>. QED
    BY <1>2, <1>12, <2>2 DEF CreateRerun, EnvStep
<1>13. CASE CreateRetry
  <2>1. maint \in JobIds
    BY <1>0, <1>13 DEF CreateRetry, RefsOK
  <2>2. EnvJobs /\ queue' \subseteq 1..MaxJobs
    BY <1>0, <1>1, <1>2, <1>13, <2>1, NewJob, SameJobs DEF CreateRetry
  <2>. QED
    BY <1>2, <1>13, <2>2 DEF CreateRetry, EnvStep
<1>14. CASE RemoveAccess
  <2> DEFINE S == {j \in JobIds : jobs[j].state \in Active}
  <2>1. jobs' = [j \in JobIds |-> IF j \in S THEN [jobs[j] EXCEPT !.state = "cancelled"]
                                  ELSE jobs[j]]
    BY <1>14 DEF RemoveAccess
  <2>2. \A j \in JobIds : j \in S => jobs[j].state \in Active
    OBVIOUS
  <2> HIDE DEF S
  <2>3. EnvJobs
    BY <1>0, <2>1, <2>2, CancelActive
  <2>. QED
    BY <1>2, <1>14, <2>3 DEF RemoveAccess, EnvStep
<1>15. CASE RestoreAccess \/ SetMonitoring
  BY <1>0, <1>2, <1>15, SameJobs DEF RestoreAccess, SetMonitoring, EnvStep, stored
<1>16. CASE UNCHANGED vars
  BY <1>0, <1>2, <1>16, SameJobs DEF vars, EnvStep
<1>. QED
  BY <1>3, <1>4, <1>5, <1>6, <1>7, <1>8, <1>9, <1>10, <1>11, <1>12, <1>13, <1>14, <1>15, <1>16
  DEF Next, JobStep, GroupStep

\* A claim gives the job to the thread ...
ClaimStep(w, j) ==
  /\ workers[w].step = "idle" /\ Claimable(j)
  /\ workers' \in [Workers -> Worker]
  /\ \A v \in Workers : v # w => workers'[v] = workers[v]
  /\ workers'[w].step \in {"check", "exhausted"}
  /\ workers'[w].job = j /\ workers'[w].attempt = jobs'[j].attempts
  /\ jobs' \in Seq(Job) /\ Len(jobs') <= MaxJobs /\ JobIds' = JobIds
  /\ jobs'[j].key = jobs[j].key /\ jobs'[j].overrun = jobs[j].overrun
  /\ jobs'[j].state = "error" \/ (jobs'[j].state = "running" /\ jobs'[j].lease = "live")
  /\ \A i \in JobIds : i # j => jobs'[i] = jobs[i]
  /\ queue' \subseteq queue
  /\ UNCHANGED <<slots, maint, rerun, checks, group, access, crashes>>

\* ... unless the wake-up is dropped.
LEMMA ClaimEffect ==
  ASSUME TypeInv, NEW w \in Workers, NEW j \in JobIds, Claim(w, j)
  PROVE  EnvStep \/ ClaimStep(w, j)
<1>0. /\ TypeOK /\ RefsOK /\ workers[w].step = "idle" /\ queue' \subseteq queue
      /\ UNCHANGED <<slots, maint, rerun, checks, group, access, crashes>>
  BY DEF TypeInv, Claim
<1>1. /\ j \in 0..MaxJobs /\ jobs[j] \in Job
      /\ jobs[j].attempts \in 0..MaxAttempts /\ jobs[j].run \in BOOLEAN
  BY <1>0, JobIdsType, ConstantsAssumption DEF Job
<1>2. CASE UNCHANGED <<jobs, workers>>
  BY <1>0, <1>2, SameJobs DEF EnvStep, TypeOK, RefsOK
<1>3. CASE Claimable(j) /\ UsedUp(j) /\ Exhaust(w, j)
  <2> DEFINE r == [Idle EXCEPT !.step = "exhausted", !.job = j, !.attempt = jobs[j].attempts,
                               !.run = jobs[j].run]
  <2>1. r \in Worker /\ r.step = "exhausted" /\ r.job = j /\ r.attempt = jobs[j].attempts
    BY <1>1 DEF Idle, Worker, Step
  <2>2. workers' = [workers EXCEPT ![w] = r]
    BY <1>3 DEF Exhaust
  <2> HIDE DEF r
  <2>3. /\ workers' \in [Workers -> Worker]
        /\ \A v \in Workers : v # w => workers'[v] = workers[v]
        /\ workers'[w] = r
    BY <1>0, <2>1, <2>2 DEF TypeOK
  <2>4. /\ jobs' \in Seq(Job) /\ Len(jobs') <= MaxJobs
        /\ JobIds' = JobIds
        /\ jobs'[j].state = "error" /\ jobs'[j].key = jobs[j].key
        /\ jobs'[j].attempts = jobs[j].attempts /\ jobs'[j].overrun = jobs[j].overrun
        /\ \A i \in JobIds : i # j => jobs'[i] = jobs[i]
    <3>1. jobs' = [jobs EXCEPT ![j].state = "error", ![j].failure = "final", ![j].lease = "none"]
      BY <1>3 DEF Exhaust
    <3>. QED
      BY <1>0, <3>1, EndJob DEF JobState
  <2>. QED
    BY <1>0, <1>1, <1>3, <2>1, <2>3, <2>4 DEF ClaimStep
<1>4. CASE Claimable(j) /\ ~UsedUp(j) /\ Start(w, j)
  <2>1. /\ jobs' \in Seq(Job) /\ Len(jobs') <= MaxJobs
        /\ JobIds' = JobIds
        /\ jobs'[j].state = "running" /\ jobs'[j].lease = "live"
        /\ jobs'[j].key = jobs[j].key /\ jobs'[j].overrun = jobs[j].overrun
        /\ jobs[j].attempts \in Nat /\ jobs'[j].attempts = jobs[j].attempts + 1
        /\ jobs'[j].attempts \in 0..MaxAttempts
        /\ \A i \in JobIds : i # j => jobs'[i] = jobs[i]
    BY <1>0, <1>4, StartJob DEF Start
  <2> DEFINE r == [Idle EXCEPT !.step = "check", !.job = j, !.attempt = jobs[j].attempts + 1]
  <2>2. /\ r \in Worker /\ r.step = "check" /\ r.job = j
        /\ r.attempt = jobs[j].attempts + 1
    BY <1>1, <2>1 DEF Idle, Worker, Step
  <2>3. workers' = [workers EXCEPT ![w] = r]
    BY <1>4 DEF Start
  <2> HIDE DEF r
  <2>4. /\ workers' \in [Workers -> Worker]
        /\ \A v \in Workers : v # w => workers'[v] = workers[v]
        /\ workers'[w] = r
    BY <1>0, <2>2, <2>3 DEF TypeOK
  <2>. QED
    BY <1>0, <1>4, <2>1, <2>2, <2>4 DEF ClaimStep
<1>. QED
  BY <1>2, <1>3, <1>4 DEF Claim

-----------------------------------------------------------------------------
(* Types, and who owns a slot.                                             *)

\* Nobody newer than the owner of a slot has written its Check Run.
OwnerIsNewest == \A s \in Slots : checks[s].by <= slots[s].owner

Inv == TypeInv /\ LockHolderOwns /\ OwnerIsNewest

\* Jobs keep their slot when they keep their scan.
LEMMA SlotKept ==
  ASSUME JobIds \subseteq JobIds', NEW j \in JobIds, jobs'[j].key = jobs[j].key
  PROVE  JobSlot(j)' = JobSlot(j)
BY DEF JobSlot, KeyOf

\* What a worker does to the stored jobs: the others are left alone.
LEMMA WorkerJobs ==
  ASSUME TypeInv, NEW w \in Workers, workers[w].job \in JobIds,
         LocalStep(w) \/ TakeStep(w) \/ RunStep(w) \/ WriteStep(w) \/ EndStep(w)
  PROVE  /\ jobs' \in Seq(Job) /\ Len(jobs') <= MaxJobs /\ JobIds' = JobIds
         /\ \A j \in JobIds : /\ jobs'[j].key = jobs[j].key
                              /\ jobs'[j].attempts = jobs[j].attempts
                              /\ jobs'[j].overrun = jobs[j].overrun
                              /\ j # workers[w].job => jobs'[j] = jobs[j]
<1>0. TypeOK
  BY DEF TypeInv
<1>1. CASE UNCHANGED jobs
  <2>1. JobIds' = JobIds
    BY <1>1 DEF JobIds
  <2>. QED
    BY <1>0, <1>1, <2>1 DEF TypeOK
<1>2. CASE jobs' = [jobs EXCEPT ![workers[w].job].run = TRUE]
  <2> DEFINE j == workers[w].job
  <2>1. /\ jobs' \in Seq(Job) /\ Len(jobs') <= MaxJobs
        /\ JobIds' = JobIds
        /\ jobs'[j].key = jobs[j].key /\ jobs'[j].attempts = jobs[j].attempts
        /\ jobs'[j].overrun = jobs[j].overrun
        /\ \A i \in JobIds : i # j => jobs'[i] = jobs[i]
    BY <1>0, <1>2, TouchJob
  <2>. QED
    BY <2>1
<1>3. CASE EndStep(w)
  BY <1>3 DEF EndStep
<1>. QED
  BY <1>1, <1>2, <1>3 DEF LocalStep, TakeStep, RunStep, WriteStep

\* What a worker does to the slots and to the Check Runs.
LEMMA WorkerSlots ==
  ASSUME TypeInv, NEW w \in Workers, workers[w].job \in JobIds,
         LocalStep(w) \/ TakeStep(w) \/ RunStep(w) \/ WriteStep(w) \/ EndStep(w)
  PROVE  /\ slots' \in [Slots -> [owner: 0..MaxJobs, run: BOOLEAN]]
         /\ checks' \in [Slots -> Check]
         /\ \A s \in Slots :
              /\ \/ slots'[s].owner = slots[s].owner
                 \/ TakeStep(w) /\ s = SlotOfWorker(w) /\ slots'[s].owner = workers[w].job
              /\ \/ checks'[s] = checks[s]
                 \/ WriteStep(w) /\ s = SlotOfWorker(w) /\ checks'[s].by = workers[w].job
<1>0. /\ slots \in [Slots -> [owner: 0..MaxJobs, run: BOOLEAN]]
      /\ checks \in [Slots -> Check] /\ workers[w].job \in 0..MaxJobs
      /\ SlotOfWorker(w) \in Slots
  BY JobIdsType DEF TypeInv, TypeOK, Worker, SlotOfWorker
<1> DEFINE s == SlotOfWorker(w)
<1>1. CASE LocalStep(w) \/ EndStep(w)
  BY <1>0, <1>1 DEF LocalStep, EndStep
<1>2. CASE TakeStep(w)
  <2>1. UNCHANGED checks /\ slots' = [slots EXCEPT ![s] = [slots[s] EXCEPT !.owner = workers[w].job]]
    BY <1>2 DEF TakeStep
  <2>2. /\ [slots[s] EXCEPT !.owner = workers[w].job] \in [owner: 0..MaxJobs, run: BOOLEAN]
        /\ [slots[s] EXCEPT !.owner = workers[w].job].owner = workers[w].job
    BY <1>0
  <2>. QED
    BY <1>0, <1>2, <2>1, <2>2
<1>3. CASE RunStep(w)
  <2>1. UNCHANGED checks
    BY <1>3 DEF RunStep
  <2>2. UNCHANGED slots \/ slots' = [slots EXCEPT ![s] = [slots[s] EXCEPT !.run = TRUE]]
    BY <1>3 DEF RunStep
  <2>3. /\ [slots[s] EXCEPT !.run = TRUE] \in [owner: 0..MaxJobs, run: BOOLEAN]
        /\ [slots[s] EXCEPT !.run = TRUE].owner = slots[s].owner
    BY <1>0
  <2>. QED
    BY <1>0, <2>1, <2>2, <2>3
<1>4. CASE WriteStep(w)
  <2>1. UNCHANGED slots
    BY <1>4 DEF WriteStep
  <2>2. \/ UNCHANGED checks
        \/ \E c \in Check : c.by = workers[w].job /\ checks' = [checks EXCEPT ![s] = c]
    BY <1>4 DEF WriteStep
  <2>. QED
    BY <1>0, <1>4, <2>1, <2>2
<1>. QED
  BY <1>1, <1>2, <1>3, <1>4

\* A step of a worker keeps types, references and ownership.
LEMMA WorkerInv ==
  ASSUME Inv, NEW w \in Workers, WorkerStep(w)
  PROVE  Inv'
<1>0. TypeInv /\ TypeOK /\ RefsOK
  BY DEF Inv, TypeInv
<1>1. /\ workers[w].step # "idle" /\ workers[w].job \in JobIds
      /\ LocalStep(w) \/ TakeStep(w) \/ RunStep(w) \/ WriteStep(w) \/ EndStep(w)
      /\ UNCHANGED <<queue, maint, rerun, group, access, crashes>>
  BY WorkerEffect DEF Inv
<1>2. /\ jobs' \in Seq(Job) /\ Len(jobs') <= MaxJobs /\ JobIds' = JobIds
      /\ \A j \in JobIds : jobs'[j].key = jobs[j].key
  BY <1>0, <1>1, WorkerJobs
<1>3. /\ slots' \in [Slots -> [owner: 0..MaxJobs, run: BOOLEAN]]
      /\ checks' \in [Slots -> Check]
      /\ \A s \in Slots :
           /\ \/ slots'[s].owner = slots[s].owner
              \/ TakeStep(w) /\ s = SlotOfWorker(w) /\ slots'[s].owner = workers[w].job
           /\ \/ checks'[s] = checks[s]
              \/ WriteStep(w) /\ s = SlotOfWorker(w) /\ checks'[s].by = workers[w].job
  BY <1>0, <1>1, WorkerSlots
<1>4. Moved(w) \/ Stopped(w)
  BY <1>1 DEF LocalStep, TakeStep, RunStep, WriteStep, EndStep, Quiet
<1>5. /\ workers' \in [Workers -> Worker]
      /\ \A v \in Workers : v # w => workers'[v] = workers[v]
      /\ \/ workers'[w] = Idle
         \/ workers'[w].step # "idle" /\ workers'[w].job = workers[w].job
  BY <1>4 DEF Moved, Stopped
<1>6. TypeOK'
  BY <1>0, <1>1, <1>2, <1>3, <1>5 DEF TypeOK
<1>7. RefsOK'
  <2>1. Idle.step = "idle"
    BY DEF Idle
  <2>. QED
    BY <1>0, <1>1, <1>2, <1>5, <2>1 DEF RefsOK
<1>8. \A j \in JobIds : JobSlot(j)' = JobSlot(j) /\ JobSlot(j) \in Slots
  BY <1>0, <1>2, SlotKept, JobIdsType
<1>9. LockHolderOwns'
  <2> SUFFICES ASSUME NEW v \in Workers, workers'[v].step \in {"queue_check", "set_run"}
               PROVE  slots'[SlotOfWorker(v)'].owner = workers'[v].job
    BY DEF LockHolderOwns
  <2>1. CASE v = w
    <3>1. Moved(w) /\ (TakeStep(w) \/ WriteStep(w))
      BY <1>1, <1>4, <2>1 DEF LocalStep, RunStep, EndStep, Quiet, Stopped, Idle
    <3>2. workers'[v].job = workers[w].job /\ SlotOfWorker(v)' = SlotOfWorker(w)
      BY <1>1, <1>8, <2>1, <3>1 DEF Moved, SlotOfWorker, JobSlot, KeyOf
    <3>3. SlotOfWorker(w) \in Slots
      BY <1>1, <1>8 DEF SlotOfWorker
    <3>4. CASE TakeStep(w)
      BY <1>0, <3>2, <3>3, <3>4 DEF TakeStep, TypeOK
    <3>5. CASE WriteStep(w)
      BY <3>2, <3>5 DEF WriteStep
    <3>. QED
      BY <3>1, <3>4, <3>5
  <2>2. CASE v # w
    <3>1. /\ workers'[v] = workers[v] /\ workers[v].step \in {"queue_check", "set_run"}
          /\ workers[v].job \in JobIds
      BY <1>0, <1>5, <2>2 DEF RefsOK
    <3>2. SlotOfWorker(v)' = SlotOfWorker(v) /\ SlotOfWorker(v) \in Slots
      BY <1>8, <3>1 DEF SlotOfWorker, JobSlot, KeyOf
    <3>3. slots[SlotOfWorker(v)].owner = workers[v].job
      BY <3>1 DEF Inv, LockHolderOwns
    <3>4. Locked(SlotOfWorker(v))
      BY <3>1 DEF Locked, SlotOfWorker
    <3>5. ~(TakeStep(w) /\ SlotOfWorker(v) = SlotOfWorker(w))
      BY <3>4 DEF TakeStep
    <3>. QED
      BY <1>3, <3>1, <3>2, <3>3, <3>5
  <2>. QED
    BY <2>1, <2>2
<1>10. OwnerIsNewest'
  <2> SUFFICES ASSUME NEW s \in Slots PROVE checks'[s].by <= slots'[s].owner
    BY DEF OwnerIsNewest
  <2>1. /\ checks[s].by \in Nat /\ slots[s].owner \in Nat /\ workers[w].job \in Nat
        /\ checks[s].by <= slots[s].owner
    BY <1>0, ConstantsAssumption DEF TypeOK, Check, Worker, Inv, OwnerIsNewest
  <2>2. CASE checks'[s] = checks[s]
    BY <1>3, <2>1, <2>2 DEF TakeStep
  <2>3. CASE WriteStep(w) /\ s = SlotOfWorker(w) /\ checks'[s].by = workers[w].job
    BY <2>1, <2>3 DEF WriteStep
  <2>. QED
    BY <1>3, <2>2, <2>3
<1>. QED
  BY <1>6, <1>7, <1>9, <1>10 DEF Inv, TypeInv

\* Steps of others keep types, references and ownership.
LEMMA EnvInv ==
  ASSUME Inv, EnvStep
  PROVE  Inv'
<1>0. TypeOK /\ RefsOK
  BY DEF Inv, TypeInv
<1>1. JobIds \subseteq JobIds' /\ \A j \in JobIds : jobs'[j].key = jobs[j].key
  BY DEF EnvStep, EnvJobs
<1>2. TypeOK'
  <2>1. JobIds \subseteq 0..MaxJobs /\ 0 \in 0..MaxJobs
    BY <1>0, JobIdsType, ConstantsAssumption
  <2>. QED
    BY <1>0, <2>1 DEF EnvStep, EnvJobs, TypeOK
<1>3. RefsOK'
  BY <1>0, <1>1 DEF EnvStep, RefsOK
<1>4. LockHolderOwns'
  <2> SUFFICES ASSUME NEW v \in Workers, workers[v].step \in {"queue_check", "set_run"}
               PROVE  slots[SlotOfWorker(v)'].owner = workers[v].job
    BY DEF LockHolderOwns, EnvStep
  <2>1. workers[v].job \in JobIds /\ workers'[v] = workers[v]
    BY <1>0 DEF RefsOK, EnvStep
  <2>2. SlotOfWorker(v)' = SlotOfWorker(v)
    BY <1>1, <2>1 DEF SlotOfWorker, JobSlot, KeyOf
  <2>. QED
    BY <2>2 DEF Inv, LockHolderOwns
<1>5. OwnerIsNewest'
  BY DEF EnvStep, Inv, OwnerIsNewest
<1>. QED
  BY <1>2, <1>3, <1>4, <1>5 DEF Inv, TypeInv

\* A claim keeps types, references and ownership.
LEMMA ClaimInv ==
  ASSUME Inv, NEW w \in Workers, NEW j \in JobIds, ClaimStep(w, j)
  PROVE  Inv'
<1>0. TypeOK /\ RefsOK
  BY DEF Inv, TypeInv
<1>1. JobIds' = JobIds /\ \A i \in JobIds : jobs'[i].key = jobs[i].key
  BY DEF ClaimStep
<1>2. TypeOK'
  BY <1>0 DEF ClaimStep, TypeOK
<1>3. RefsOK'
  BY <1>0, <1>1 DEF ClaimStep, RefsOK
<1>4. LockHolderOwns'
  <2> SUFFICES ASSUME NEW v \in Workers, workers'[v].step \in {"queue_check", "set_run"}
               PROVE  slots[SlotOfWorker(v)'].owner = workers'[v].job
    BY DEF LockHolderOwns, ClaimStep
  <2>1. workers'[v] = workers[v]
    BY DEF ClaimStep
  <2>2. workers[v].job \in JobIds
    BY <1>0, <2>1 DEF RefsOK
  <2>3. SlotOfWorker(v)' = SlotOfWorker(v)
    BY <1>1, <2>1, <2>2 DEF SlotOfWorker, JobSlot, KeyOf
  <2>. QED
    BY <2>1, <2>3 DEF Inv, LockHolderOwns
<1>5. OwnerIsNewest'
  BY DEF ClaimStep, Inv, OwnerIsNewest
<1>. QED
  BY <1>2, <1>3, <1>4, <1>5 DEF Inv, TypeInv

\* So does a crash: every thread is idle afterwards.
LEMMA CrashInv ==
  ASSUME Inv, Crash
  PROVE  Inv'
<1>0. TypeOK /\ JobIds' = JobIds /\ Idle.step = "idle"
  BY DEF Inv, TypeInv, Crash, stored, JobIds, Idle
<1>1. TypeOK'
  BY <1>0, IdleType, ConstantsAssumption DEF Crash, stored, TypeOK
<1>2. RefsOK' /\ LockHolderOwns' /\ OwnerIsNewest'
  BY <1>0 DEF Crash, stored, RefsOK, LockHolderOwns, OwnerIsNewest, Inv
<1>. QED
  BY <1>1, <1>2 DEF Inv, TypeInv

\* Every step is one of a worker, a claim, a crash, or one of the others.
LEMMA StepCases ==
  ASSUME TypeInv, [Next]_vars
  PROVE  \/ \E w \in Workers : WorkerStep(w)
         \/ \E w \in Workers, j \in JobIds : ClaimStep(w, j)
         \/ Crash
         \/ EnvStep
BY EnvEffect, ClaimEffect

\* Every step keeps the invariant.
LEMMA InvStep ==
  ASSUME Inv, [Next]_vars
  PROVE  Inv'
BY StepCases, WorkerInv, ClaimInv, CrashInv, EnvInv DEF Inv

\* Nothing is stored initially.
LEMMA InvInit == Init => Inv
<1> SUFFICES ASSUME Init PROVE Inv
  OBVIOUS
<1>1. TypeOK
  BY EmptySeq, IdleType, ConstantsAssumption DEF Init, TypeOK, Check, GroupState
<1>2. RefsOK /\ LockHolderOwns /\ OwnerIsNewest
  BY DEF Init, RefsOK, LockHolderOwns, OwnerIsNewest, Idle
<1>. QED
  BY <1>1, <1>2 DEF Inv, TypeInv

\* The inductive invariant.
THEOREM Invariance == Spec => []Inv
BY InvInit, InvStep, PTL DEF Spec

\* Type correctness of the pipeline.
THEOREM TypeCorrect == Spec => []TypeOK
<1>1. Inv => TypeOK
  BY DEF Inv, TypeInv
<1>. QED
  BY <1>1, Invariance, PTL

\* The last writer of every Check Run is never older than the one before.
LEMMA WriterStep ==
  ASSUME Inv, [Next]_vars, NEW s \in Slots
  PROVE  checks'[s].by >= checks[s].by
<1>0. /\ TypeInv /\ checks[s].by \in Nat /\ slots[s].owner \in Nat
      /\ checks[s].by <= slots[s].owner
  BY ConstantsAssumption DEF Inv, TypeInv, TypeOK, Check, OwnerIsNewest
<1>1. ASSUME NEW w \in Workers, WorkerStep(w) PROVE checks'[s].by >= checks[s].by
  <2>1. /\ workers[w].job \in JobIds
        /\ LocalStep(w) \/ TakeStep(w) \/ RunStep(w) \/ WriteStep(w) \/ EndStep(w)
    BY <1>1, WorkerEffect DEF Inv
  <2>2. \/ checks'[s] = checks[s]
        \/ WriteStep(w) /\ s = SlotOfWorker(w) /\ checks'[s].by = workers[w].job
    BY <1>0, <2>1, WorkerSlots
  <2>3. WriteStep(w) /\ s = SlotOfWorker(w) => slots[s].owner = workers[w].job
    BY DEF WriteStep
  <2>. QED
    BY <1>0, <2>2, <2>3
<1>2. (\E w \in Workers, j \in JobIds : ClaimStep(w, j)) \/ Crash \/ EnvStep
        => UNCHANGED checks
  BY DEF ClaimStep, Crash, EnvStep
<1>. QED
  BY <1>0, <1>1, <1>2, StepCases

\* The result of an older scan never replaces the result of a newer one on GitHub,
\* whatever is retried, re-run, recovered or crashes, and even when a worker outlives
\* its lease (claim_check, _publish).
THEOREM NewerStands == Spec => NewerResultStands
<1>1. Inv /\ [Next]_vars => [\A s \in Slots : checks'[s].by >= checks[s].by]_vars
  BY WriterStep
<1>. QED
  BY <1>1, Invariance, PTL DEF Spec, NewerResultStands

-----------------------------------------------------------------------------
(* What leases add.  Of a job whose lease was outlived nothing is said; the *)
(* other jobs are not disturbed by it.                                     *)

\* A thread at work has the last attempt of its job, whose lease is live while it
\* runs, and whose result is not recorded yet; unless the lease was outlived.
HolderIsCurrent ==
  \A w \in Workers :
    (workers[w].step # "idle" /\ ~jobs[workers[w].job].overrun) =>
      LET j == workers[w].job
      IN /\ workers[w].attempt = jobs[j].attempts
         /\ jobs[j].state \in {"running", "cancelled", "error"}
         /\ jobs[j].state = "running" => jobs[j].lease = "live"

\* GitHub shows the result a thread is about to record, unless the slot was taken.
RecordedIsShown ==
  \A w \in Workers :
    (/\ workers[w].step = "record" /\ ~jobs[workers[w].job].overrun
     /\ slots[SlotOfWorker(w)].owner = workers[w].job) =>
      LET check == checks[SlotOfWorker(w)]
      IN /\ check.by = workers[w].job /\ check.status = "completed"
         /\ check.conclusion = IF workers[w].allowed THEN "success" ELSE "failure"

LeaseInv == HolderIsCurrent /\ OneHolder /\ RecordedIsShown /\ ResultMatchesCheck

\* A step of a worker keeps the part about threads and jobs ...
LEMMA WorkerHolds ==
  ASSUME Inv, LeaseInv, NEW w \in Workers, WorkerStep(w)
  PROVE  HolderIsCurrent' /\ OneHolder'
<1>0. TypeInv /\ RefsOK /\ 0 \notin JobIds
  BY JobIdsType DEF Inv, TypeInv
<1>1. /\ workers[w].step # "idle" /\ workers[w].job \in JobIds
      /\ LocalStep(w) \/ TakeStep(w) \/ RunStep(w) \/ WriteStep(w) \/ EndStep(w)
  BY WorkerEffect DEF Inv
<1>2. /\ JobIds' = JobIds
      /\ \A j \in JobIds : /\ jobs'[j].attempts = jobs[j].attempts
                           /\ jobs'[j].overrun = jobs[j].overrun
                           /\ j # workers[w].job => jobs'[j] = jobs[j]
  BY <1>0, <1>1, WorkerJobs
<1>3. Moved(w) \/ Stopped(w)
  BY <1>1 DEF LocalStep, TakeStep, RunStep, WriteStep, EndStep, Quiet
<1>4. \A v \in Workers :
        \/ /\ workers'[v].step # "idle" /\ workers[v].step # "idle"
           /\ workers'[v].job = workers[v].job /\ workers'[v].attempt = workers[v].attempt
           /\ workers[v].job \in JobIds
        \/ workers'[v].step = "idle" /\ workers'[v].job = 0
  BY <1>0, <1>1, <1>3 DEF Moved, Stopped, RefsOK, Idle
<1>5. OneHolder'
  BY <1>0, <1>2, <1>4 DEF LeaseInv, OneHolder
<1>6. workers'[w].step # "idle" =>
        LET j == workers[w].job
        IN \/ jobs'[j].state = jobs[j].state /\ jobs'[j].lease = jobs[j].lease
           \/ jobs'[j].state \in {"cancelled", "error"}
  <2>1. CASE UNCHANGED jobs
    BY <2>1
  <2>2. CASE jobs' = [jobs EXCEPT ![workers[w].job].run = TRUE]
    BY <1>0, <1>1, <2>2, TouchJob DEF TypeInv
  <2>3. CASE EndStep(w)
    BY <2>3 DEF EndStep, Stopped, Idle
  <2>. QED
    BY <1>1, <2>1, <2>2, <2>3 DEF LocalStep, TakeStep, RunStep, WriteStep
<1>7. HolderIsCurrent'
  <2> SUFFICES ASSUME NEW v \in Workers, workers'[v].step # "idle",
                      ~jobs'[workers'[v].job].overrun
               PROVE  LET j == workers'[v].job
                      IN /\ workers'[v].attempt = jobs'[j].attempts
                         /\ jobs'[j].state \in {"running", "cancelled", "error"}
                         /\ jobs'[j].state = "running" => jobs'[j].lease = "live"
    BY DEF HolderIsCurrent
  <2>1. /\ workers[v].step # "idle" /\ workers'[v].job = workers[v].job
        /\ workers'[v].attempt = workers[v].attempt /\ workers[v].job \in JobIds
        /\ ~jobs[workers[v].job].overrun
    BY <1>2, <1>4
  <2>2. /\ workers[v].attempt = jobs[workers[v].job].attempts
        /\ jobs[workers[v].job].state \in {"running", "cancelled", "error"}
        /\ jobs[workers[v].job].state = "running" => jobs[workers[v].job].lease = "live"
    BY <2>1 DEF LeaseInv, HolderIsCurrent
  <2>3. CASE v = w
    BY <1>2, <1>6, <2>1, <2>2, <2>3
  <2>4. CASE v # w
    <3>1. workers[v].job # workers[w].job
      BY <2>1, <2>4 DEF LeaseInv, OneHolder
    <3>. QED
      BY <1>2, <2>1, <2>2, <3>1
  <2>. QED
    BY <2>3, <2>4
<1>. QED
  BY <1>5, <1>7

\* ... and the part about Check Runs and results.
LEMMA WorkerShows ==
  ASSUME Inv, LeaseInv, NEW w \in Workers, WorkerStep(w)
  PROVE  RecordedIsShown' /\ ResultMatchesCheck'
<1>0. TypeInv /\ TypeOK /\ RefsOK
  BY DEF Inv, TypeInv
<1>1. /\ workers[w].step # "idle" /\ workers[w].job \in JobIds
      /\ LocalStep(w) \/ TakeStep(w) \/ RunStep(w) \/ WriteStep(w) \/ EndStep(w)
  BY WorkerEffect DEF Inv
<1>2. /\ JobIds' = JobIds
      /\ \A j \in JobIds : /\ jobs'[j].key = jobs[j].key
                           /\ jobs'[j].overrun = jobs[j].overrun
                           /\ j # workers[w].job => jobs'[j] = jobs[j]
  BY <1>0, <1>1, WorkerJobs
<1>3. \A s \in Slots :
        /\ \/ slots'[s].owner = slots[s].owner
           \/ slots'[s].owner = workers[w].job
        /\ \/ checks'[s] = checks[s]
           \/ WriteStep(w) /\ s = SlotOfWorker(w)
  BY <1>0, <1>1, WorkerSlots
<1>4. \A s \in Slots : slots'[s].owner # workers[w].job =>
        slots'[s].owner = slots[s].owner /\ checks'[s] = checks[s]
  BY <1>3 DEF WriteStep
<1>5. \A j \in JobIds : JobSlot(j)' = JobSlot(j) /\ JobSlot(j) \in Slots
  BY <1>0, <1>2, SlotKept, JobIdsType
<1>6. RecordedIsShown'
  <2> SUFFICES ASSUME NEW v \in Workers, workers'[v].step = "record",
                      ~jobs'[workers'[v].job].overrun,
                      slots'[SlotOfWorker(v)'].owner = workers'[v].job
               PROVE  LET check == checks'[SlotOfWorker(v)']
                      IN /\ check.by = workers'[v].job /\ check.status = "completed"
                         /\ check.conclusion = IF workers'[v].allowed THEN "success"
                                               ELSE "failure"
    BY DEF RecordedIsShown
  <2>1. CASE v = w
    <3>1. WriteStep(w) /\ Moved(w)
      BY <1>1, <2>1 DEF LocalStep, TakeStep, RunStep, WriteStep, EndStep, Quiet, Stopped, Idle
    <3>2. workers'[w].job = workers[w].job /\ SlotOfWorker(w)' = SlotOfWorker(w)
      BY <1>1, <1>5, <3>1 DEF Moved, SlotOfWorker, JobSlot, KeyOf
    <3>3. SlotOfWorker(w) \in Slots
      BY <1>1, <1>5 DEF SlotOfWorker
    <3>4. PICK c \in Check :
            /\ c.by = workers[w].job
            /\ checks' = [checks EXCEPT ![SlotOfWorker(w)] = c]
            /\ c.status = "completed"
            /\ c.conclusion = IF workers'[w].allowed THEN "success" ELSE "failure"
      BY <2>1, <3>1 DEF WriteStep
    <3>5. checks'[SlotOfWorker(w)] = c
      BY <1>0, <3>3, <3>4 DEF TypeOK
    <3>. QED
      BY <2>1, <3>2, <3>4, <3>5
  <2>2. CASE v # w
    <3>1. workers'[v] = workers[v]
      BY <1>1, <2>2
      DEF LocalStep, TakeStep, RunStep, WriteStep, EndStep, Quiet, Moved, Stopped
    <3>2. /\ workers[v].job \in JobIds /\ ~jobs[workers[v].job].overrun
          /\ workers[v].job # workers[w].job
      BY <1>0, <1>2, <2>2, <3>1 DEF RefsOK, LeaseInv, OneHolder
    <3>3. SlotOfWorker(v)' = SlotOfWorker(v) /\ SlotOfWorker(v) \in Slots
      BY <1>5, <3>1, <3>2 DEF SlotOfWorker, JobSlot, KeyOf
    <3>4. /\ slots[SlotOfWorker(v)].owner = workers[v].job
          /\ checks'[SlotOfWorker(v)] = checks[SlotOfWorker(v)]
      BY <1>4, <3>1, <3>2, <3>3
    <3>. QED
      BY <3>1, <3>2, <3>3, <3>4 DEF LeaseInv, RecordedIsShown
  <2>. QED
    BY <2>1, <2>2
<1>7. ResultMatchesCheck'
  <2> SUFFICES ASSUME NEW j \in JobIds, jobs'[j].state \in Completed,
                      ~jobs'[j].overrun, slots'[JobSlot(j)'].owner = j
               PROVE  LET check == checks'[JobSlot(j)']
                      IN /\ check.by = j /\ check.status = "completed"
                         /\ check.conclusion = IF jobs'[j].state = "passed" THEN "success"
                                               ELSE "failure"
    BY <1>2 DEF ResultMatchesCheck
  <2>1. CASE j = workers[w].job
    <3>0. ~jobs[j].overrun
      BY <1>2
    <3>1. jobs[j].state \notin Completed
      BY <1>1, <2>1, <3>0 DEF LeaseInv, HolderIsCurrent, Completed
    <3>2. jobs'[j].state # jobs[j].state
      BY <3>1
    <3>3. jobs' # [jobs EXCEPT ![j].run = TRUE] /\ ~UNCHANGED jobs
      BY <1>0, <3>2, TouchJob
    <3>4. EndStep(w)
      BY <1>1, <2>1, <3>3 DEF LocalStep, TakeStep, RunStep, WriteStep
    <3>5. /\ workers[w].step = "record" /\ UNCHANGED <<slots, checks>>
          /\ jobs'[j].state = IF workers[w].allowed THEN "passed" ELSE "failed"
      BY <2>1, <3>4 DEF EndStep, Completed
    <3>6. JobSlot(j)' = SlotOfWorker(w)
      BY <1>5, <2>1 DEF SlotOfWorker
    <3>. QED
      BY <2>1, <3>0, <3>5, <3>6 DEF LeaseInv, RecordedIsShown
  <2>2. CASE j # workers[w].job
    <3>1. jobs'[j] = jobs[j] /\ JobSlot(j)' = JobSlot(j) /\ JobSlot(j) \in Slots
      BY <1>2, <1>5, <2>2
    <3>2. slots[JobSlot(j)].owner = j /\ checks'[JobSlot(j)] = checks[JobSlot(j)]
      BY <1>4, <2>2, <3>1
    <3>. QED
      BY <3>1, <3>2 DEF LeaseInv, ResultMatchesCheck
  <2>. QED
    BY <2>1, <2>2
<1>. QED
  BY <1>6, <1>7

\* Nobody works on a job that may be claimed, unless its lease was outlived.
LEMMA ClaimableIsFree ==
  ASSUME LeaseInv, NEW j \in JobIds, Claimable(j), ~jobs[j].overrun,
         NEW v \in Workers, workers[v].step # "idle"
  PROVE  workers[v].job # j
BY DEF LeaseInv, HolderIsCurrent, Claimable

\* A claim keeps the invariant: the job was free, or its lease was outlived.
LEMMA ClaimLease ==
  ASSUME Inv, LeaseInv, NEW w \in Workers, NEW j \in JobIds, ClaimStep(w, j)
  PROVE  LeaseInv'
<1>0. TypeOK /\ RefsOK /\ JobIds \subseteq Nat \ {0}
  BY JobIdsType DEF Inv, TypeInv
<1>1. /\ JobIds' = JobIds
      /\ \A i \in JobIds : /\ jobs'[i].key = jobs[i].key
                           /\ jobs'[i].overrun = jobs[i].overrun
                           /\ i # j => jobs'[i] = jobs[i]
      /\ UNCHANGED <<slots, checks>>
  BY DEF ClaimStep
<1>2. \A v \in Workers : v # w =>
        /\ workers'[v] = workers[v]
        /\ workers[v].job # j \/ jobs[j].overrun
        /\ workers[v].step # "idle" => workers[v].job \in JobIds
  BY <1>0, ClaimableIsFree DEF ClaimStep, RefsOK, Idle
<1>3. OneHolder'
  BY <1>0, <1>1, <1>2 DEF ClaimStep, LeaseInv, OneHolder
<1>4. HolderIsCurrent'
  BY <1>1, <1>2 DEF ClaimStep, LeaseInv, HolderIsCurrent
<1>5. RecordedIsShown'
  <2> SUFFICES ASSUME NEW v \in Workers, workers'[v].step = "record",
                      ~jobs'[workers'[v].job].overrun,
                      slots'[SlotOfWorker(v)'].owner = workers'[v].job
               PROVE  LET check == checks'[SlotOfWorker(v)']
                      IN /\ check.by = workers'[v].job /\ check.status = "completed"
                         /\ check.conclusion = IF workers'[v].allowed THEN "success"
                                               ELSE "failure"
    BY DEF RecordedIsShown
  <2>1. workers'[v] = workers[v] /\ workers[v].job \in JobIds
    BY <1>2 DEF ClaimStep
  <2>2. SlotOfWorker(v)' = SlotOfWorker(v)
    BY <1>1, <2>1 DEF SlotOfWorker, JobSlot, KeyOf
  <2>. QED
    BY <1>1, <2>1, <2>2 DEF LeaseInv, RecordedIsShown
<1>6. ResultMatchesCheck'
  <2> SUFFICES ASSUME NEW i \in JobIds, jobs'[i].state \in Completed,
                      ~jobs'[i].overrun, slots'[JobSlot(i)'].owner = i
               PROVE  LET check == checks'[JobSlot(i)']
                      IN /\ check.by = i /\ check.status = "completed"
                         /\ check.conclusion = IF jobs'[i].state = "passed" THEN "success"
                                               ELSE "failure"
    BY <1>1 DEF ResultMatchesCheck
  <2>1. i # j
    BY DEF ClaimStep, Completed
  <2>2. jobs'[i] = jobs[i] /\ JobSlot(i)' = JobSlot(i)
    BY <1>1, <2>1 DEF JobSlot, KeyOf
  <2>. QED
    BY <1>1, <2>2 DEF LeaseInv, ResultMatchesCheck
<1>. QED
  BY <1>3, <1>4, <1>5, <1>6 DEF LeaseInv

\* Steps of others keep it: a lease that is outlived is remembered.
LEMMA EnvLease ==
  ASSUME Inv, LeaseInv, EnvStep
  PROVE  LeaseInv'
<1>0. TypeOK /\ RefsOK
  BY DEF Inv, TypeInv
<1>1. /\ JobIds \subseteq JobIds' /\ UNCHANGED <<slots, workers, checks>>
      /\ \A j \in JobIds :
           /\ jobs'[j].key = jobs[j].key /\ jobs'[j].attempts = jobs[j].attempts
           /\ \/ jobs'[j].state = jobs[j].state
              \/ jobs[j].state \in Active /\ jobs'[j].state = "cancelled"
           /\ \/ jobs'[j].lease = jobs[j].lease
              \/ \A w \in Workers : ~AtWork(w, j)
              \/ jobs'[j].overrun
           /\ jobs[j].overrun => jobs'[j].overrun
      /\ \A j \in JobIds' \ JobIds : jobs'[j].state = "queued"
  BY DEF EnvStep, EnvJobs
<1>2. \A w \in Workers : workers[w].step # "idle" => workers[w].job \in JobIds
  BY <1>0 DEF RefsOK
<1>3. OneHolder'
  BY <1>1, <1>2 DEF LeaseInv, OneHolder
<1>4. HolderIsCurrent'
  <2> SUFFICES ASSUME NEW v \in Workers, workers[v].step # "idle",
                      ~jobs'[workers[v].job].overrun
               PROVE  LET j == workers[v].job
                      IN /\ workers[v].attempt = jobs'[j].attempts
                         /\ jobs'[j].state \in {"running", "cancelled", "error"}
                         /\ jobs'[j].state = "running" => jobs'[j].lease = "live"
    BY <1>1 DEF HolderIsCurrent
  <2>0. workers[v].job \in JobIds /\ ~jobs[workers[v].job].overrun
    BY <1>1, <1>2
  <2>1. /\ workers[v].attempt = jobs[workers[v].job].attempts
        /\ jobs[workers[v].job].state \in {"running", "cancelled", "error"}
        /\ jobs[workers[v].job].state = "running" => jobs[workers[v].job].lease = "live"
    BY <2>0 DEF LeaseInv, HolderIsCurrent
  <2>2. AtWork(v, workers[v].job)
    BY <2>1 DEF AtWork
  <2>. QED
    BY <1>1, <2>0, <2>1, <2>2
<1>5. RecordedIsShown'
  <2> SUFFICES ASSUME NEW v \in Workers, workers[v].step = "record",
                      ~jobs'[workers[v].job].overrun,
                      slots[SlotOfWorker(v)'].owner = workers[v].job
               PROVE  LET check == checks[SlotOfWorker(v)']
                      IN /\ check.by = workers[v].job /\ check.status = "completed"
                         /\ check.conclusion = IF workers[v].allowed THEN "success"
                                               ELSE "failure"
    BY <1>1 DEF RecordedIsShown
  <2>1. SlotOfWorker(v)' = SlotOfWorker(v) /\ ~jobs[workers[v].job].overrun
    BY <1>1, <1>2 DEF SlotOfWorker, JobSlot, KeyOf
  <2>. QED
    BY <2>1 DEF LeaseInv, RecordedIsShown
<1>6. ResultMatchesCheck'
  <2> SUFFICES ASSUME NEW i \in JobIds', jobs'[i].state \in Completed,
                      ~jobs'[i].overrun, slots[JobSlot(i)'].owner = i
               PROVE  LET check == checks[JobSlot(i)']
                      IN /\ check.by = i /\ check.status = "completed"
                         /\ check.conclusion = IF jobs'[i].state = "passed" THEN "success"
                                               ELSE "failure"
    BY <1>1 DEF ResultMatchesCheck
  <2>1. i \in JobIds /\ jobs'[i].state = jobs[i].state /\ ~jobs[i].overrun
    BY <1>1 DEF Completed
  <2>2. JobSlot(i)' = JobSlot(i)
    BY <1>1, <2>1 DEF JobSlot, KeyOf
  <2>. QED
    BY <2>1, <2>2 DEF LeaseInv, ResultMatchesCheck
<1>. QED
  BY <1>3, <1>4, <1>5, <1>6 DEF LeaseInv

\* After a crash nobody works on any job.
LEMMA CrashLease ==
  ASSUME Inv, LeaseInv, Crash
  PROVE  LeaseInv'
<1>1. /\ UNCHANGED <<jobs, slots, checks>> /\ JobIds' = JobIds
      /\ \A w \in Workers : workers'[w].step = "idle"
  BY DEF Crash, stored, JobIds, Idle
<1>2. HolderIsCurrent' /\ OneHolder' /\ RecordedIsShown'
  BY <1>1 DEF HolderIsCurrent, OneHolder, RecordedIsShown
<1>3. ResultMatchesCheck'
  BY <1>1 DEF LeaseInv, ResultMatchesCheck, JobSlot, KeyOf
<1>. QED
  BY <1>2, <1>3 DEF LeaseInv

\* Every step keeps the invariant.
LEMMA LeaseStep ==
  ASSUME Inv, LeaseInv, [Next]_vars
  PROVE  LeaseInv'
<1>1. ASSUME NEW w \in Workers, WorkerStep(w) PROVE LeaseInv'
  BY <1>1, WorkerHolds, WorkerShows DEF LeaseInv
<1>. QED
  BY <1>1, StepCases, ClaimLease, EnvLease, CrashLease DEF Inv

\* Nobody works on any job initially.
LEMMA LeaseInit == Init => LeaseInv
BY DEF Init, LeaseInv, HolderIsCurrent, OneHolder, RecordedIsShown,
       ResultMatchesCheck, JobIds, Idle

\* The inductive invariant with leases.
THEOREM LeaseInvariance == Spec => [](Inv /\ LeaseInv)
BY InvInit, InvStep, LeaseInit, LeaseStep, PTL DEF Spec

\* A job is processed by one worker at a time, although wake-ups are repeated and
\* abandoned jobs are recovered (claim_job_outcome), unless a worker outlived the
\* lease of that job.
THEOREM OneHolderHolds == Spec => []OneHolder
<1>1. LeaseInv => OneHolder
  BY DEF LeaseInv
<1>. QED
  BY <1>1, LeaseInvariance, PTL

\* A recorded result is the result that GitHub shows, until a newer job takes the
\* slot, whatever failed or crashed before and whatever workers of other jobs that
\* outlived their lease still do (_publish, record_completed).
THEOREM ResultIsShown == Spec => []ResultMatchesCheck
<1>1. LeaseInv => ResultMatchesCheck
  BY DEF LeaseInv
<1>. QED
  BY <1>1, LeaseInvariance, PTL
=============================================================================
