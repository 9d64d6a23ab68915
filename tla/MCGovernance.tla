----------------------------- MODULE MCGovernance -----------------------------
(***************************************************************************)
(* The governance components on small instances, checked in one run: the   *)
(* variable "part" says which component, with which constants, a behaviour *)
(* is one of, and the variables of the others do not change.               *)
(***************************************************************************)
EXTENDS EffectivePolicy

CONSTANTS
  Loops, OneLoop,                  \* maintenance loops, and a set of one of them
  MaxRetries, MaxFailures,         \* bounds of the bulk operations
  Scheduled, LateScope,            \* repositories of the schedules, and those of the first scope
  PerTick, MaxSlots, MaxRevisions, MaxOutages,
  Ids, MaxOpen, Drafts             \* simulations, their limit, and the actions of drafts

ASSUME OperationsAssumption ==
  /\ OneLoop \subseteq Loops /\ \A k, l \in OneLoop : k = l
  /\ MaxRetries \in Nat /\ MaxFailures \in Nat
  /\ IsFiniteSet(Scheduled) /\ Scheduled \subseteq Int /\ LateScope \subseteq Scheduled
  /\ PerTick \in Nat /\ MaxSlots \in Nat /\ MaxRevisions \in Nat /\ MaxOutages \in Nat
  /\ IsFiniteSet(Ids) /\ Ids # {} /\ MaxOpen \in Nat /\ Drafts \subseteq 0..2

VARIABLES
  part,
  bulkOp, items, applied, loop, request, retries, failures,
  clock, schedule, runs, scope, pass, outages, considered, covered,
  policies, scans, simulations, audited, runner, deaths

effectiveVars == vars
bulkVars == <<bulkOp, items, applied, loop, request, retries, failures>>
scheduleVars == <<clock, schedule, runs, scope, pass, outages, considered, covered>>
simulationVars == <<policies, scans, simulations, audited, runner, deaths>>
allVars == <<part, effectiveVars, bulkVars, scheduleVars, simulationVars>>

-----------------------------------------------------------------------------
\* The module extended is the part "modes": modes, settings, rules, exceptions, and
\* crashes of the job.  The next two differ from it in what changes.
MCStages == <<{"r1"}, {"r1", "r2"}>>
MCScopeOf == [e \in {"group", "r1"} |-> e]

\* Publications, rollouts and new repositories
Rollouts == INSTANCE EffectivePolicy WITH
  Changes <- {"publish", "rollout", "repositories"}, MaxCrashes <- 0

\* A group, exceptions, and repositories that come and go
Grouped == INSTANCE EffectivePolicy WITH
  Changes <- {"group", "exception", "repositories"}, RepositoriesLeave <- TRUE, MaxCrashes <- 0

\* Two loops, the first of which may outlive its lease
BulkShared == INSTANCE BulkOperations WITH
  Budget <- 1, BatchSize <- 1, LeaseOutlived <- TRUE, MaxRetries <- 0

\* One loop, two batches in a pass, and failed items that are retried
BulkRetried == INSTANCE BulkOperations WITH
  Loops <- OneLoop, Budget <- 2, BatchSize <- 1, LeaseOutlived <- FALSE

\* Two loops, one of which may die
TwoLoops == INSTANCE Schedules WITH
  Repos <- Scheduled, InitScope <- Scheduled, ScopeShrinks <- FALSE, MaxRevisions <- 0

\* The schedule is edited
Edited == INSTANCE Schedules WITH
  Repos <- Scheduled, InitScope <- LateScope, Loops <- OneLoop, ScopeShrinks <- FALSE

\* Repositories leave the scope of the schedule
Shrinking == INSTANCE Schedules WITH
  Repos <- Scheduled, InitScope <- Scheduled, Loops <- OneLoop, ScopeShrinks <- TRUE,
  MaxRevisions <- 0, MaxOutages <- 0

\* Two runners, one of which may die, and a limit of one open simulation
Simulated == INSTANCE Simulations WITH
  Runners <- Loops, Repos <- {1}, Groups <- {"g"}, ScanLimit <- 5, LeaseOutlived <- FALSE,
  MaxRecorded <- 1, MaxVersions <- 1, MaxCrashes <- 1, crashes <- deaths

EffectiveParts == {"rollouts", "groups", "modes"}
BulkParts == {"bulk_shared", "bulk_retried"}
ScheduleParts == {"two_loops", "edited", "shrinking"}

-----------------------------------------------------------------------------
BulkInit ==
  \/ part # "bulk_retried" /\ BulkShared!Init
  \/ part = "bulk_retried" /\ BulkRetried!Init

ScheduleInit ==
  \/ part = "edited" /\ Edited!Init
  \/ part = "shrinking" /\ Shrinking!Init
  \/ part \notin {"edited", "shrinking"} /\ TwoLoops!Init

AllInit ==
  /\ part \in EffectiveParts \cup BulkParts \cup ScheduleParts \cup {"simulated"}
  /\ Init /\ BulkInit /\ ScheduleInit
  /\ Simulated!Init /\ (part # "simulated" => policies = <<1>>)

EffectiveOnly == UNCHANGED <<part, bulkVars, scheduleVars, simulationVars>>
RolloutsStep == part = "rollouts" /\ Rollouts!Next /\ EffectiveOnly
GroupsStep == part = "groups" /\ Grouped!Next /\ EffectiveOnly
ModesStep == part = "modes" /\ Next /\ EffectiveOnly

BulkOnly == UNCHANGED <<part, effectiveVars, scheduleVars, simulationVars>>
BulkSharedStep == part = "bulk_shared" /\ BulkShared!Next /\ BulkOnly
BulkRetriedStep == part = "bulk_retried" /\ BulkRetried!Next /\ BulkOnly

ScheduleOnly == UNCHANGED <<part, effectiveVars, bulkVars, simulationVars>>
TwoLoopsStep == part = "two_loops" /\ TwoLoops!Next /\ ScheduleOnly
EditedStep == part = "edited" /\ Edited!Next /\ ScheduleOnly
ShrinkingStep == part = "shrinking" /\ Shrinking!Next /\ ScheduleOnly

SimulatedOnly == UNCHANGED <<part, effectiveVars, bulkVars, scheduleVars>>
SimulatedStep == part = "simulated" /\ Simulated!Next /\ SimulatedOnly

AllNext ==
  \/ RolloutsStep \/ GroupsStep \/ ModesStep
  \/ BulkSharedStep \/ BulkRetriedStep
  \/ TwoLoopsStep \/ EditedStep \/ ShrinkingStep
  \/ SimulatedStep

\* The fairness of every component, while it is the one that runs.
Propagates ==
  /\ \/ part = "rollouts" /\ Rollouts!Propagate
     \/ part = "groups" /\ Grouped!Propagate
     \/ part = "modes" /\ Propagate
  /\ EffectiveOnly

LoopGoesOn(l) ==
  \/ part = "bulk_shared" /\ BulkShared!Pass(l) /\ BulkOnly
  \/ part = "bulk_retried" /\ l \in OneLoop /\ BulkRetried!Pass(l) /\ BulkOnly
  \/ part = "two_loops" /\ TwoLoops!GoOn(l) /\ ScheduleOnly
  \/ part = "edited" /\ l \in OneLoop /\ Edited!GoOn(l) /\ ScheduleOnly
  \/ part = "shrinking" /\ l \in OneLoop /\ Shrinking!GoOn(l) /\ ScheduleOnly
  \/ part = "simulated" /\ Simulated!Work(l) /\ SimulatedOnly

LeaseExpires ==
  \/ part = "bulk_shared" /\ BulkShared!LeaseExpires /\ BulkOnly
  \/ part = "bulk_retried" /\ BulkRetried!LeaseExpires /\ BulkOnly

SimulationLeaseExpires(id) ==
  part = "simulated" /\ Simulated!ExpireLease(id) /\ SimulatedOnly

AllSpec ==
  /\ AllInit /\ [][AllNext]_allVars
  /\ WF_allVars(Propagates)
  /\ \A l \in Loops : WF_allVars(LoopGoesOn(l))
  /\ WF_allVars(LeaseExpires)
  /\ \A id \in Ids : WF_allVars(SimulationLeaseExpires(id))

-----------------------------------------------------------------------------
\* Every variable of every component has its type.
Types ==
  /\ TypeOK
  /\ IF part = "bulk_retried" THEN BulkRetried!TypeOK ELSE BulkShared!TypeOK
  /\ CASE part = "edited" -> Edited!TypeOK
       [] part = "shrinking" -> Shrinking!TypeOK
       [] part \notin {"edited", "shrinking"} -> TwoLoops!TypeOK
  /\ Simulated!TypeOK

\* What is recorded as done was done: the status of a bulk operation is that of its
\* items, a schedule's run passed over no repository in silence, and a simulation is
\* completed and audited once (StatusMatchesItems, NoneSkippedSilently, SimulatedOnce).
RecordedAsDone ==
  /\ BulkShared!StatusMatchesItems
  /\ part = "two_loops" => TwoLoops!NoneSkippedSilently
  /\ part = "edited" => Edited!NoneSkippedSilently
  /\ Simulated!SimulatedOnce

\* Work that was begun ends: stale repositories are resolved, and bulk operations, the
\* runs of schedules and simulations end.
WorkEnds ==
  /\ part \in EffectiveParts => PropagationEnds
  /\ BulkShared!OperationsEnd
  /\ Edited!RunsEnd
  /\ Simulated!SimulationsEnd
=============================================================================
