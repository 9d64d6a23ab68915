------------------------------ MODULE Deliveries ------------------------------
(***************************************************************************)
(* Webhook event records (GitHubAppService._handle_verified, record_       *)
(* delivery, finish_delivery, fail_stuck_deliveries) and the handlers of   *)
(* the events whose effects take several transactions.  GitHub, or an      *)
(* operator, may deliver an event again, under the same delivery ID or     *)
(* under a new one; handlers run concurrently, fail, and die with the      *)
(* process between any two transactions.                                   *)
(*                                                                         *)
(* One pull request, one branch and one merge group suffice: events of     *)
(* different groups touch different rows.  The installation is active and  *)
(* monitoring is on.                                                       *)
(***************************************************************************)
EXTENDS Integers, FiniteSets

CONSTANTS
  Ids,         \* delivery IDs (X-GitHub-Delivery)
  Events,      \* the events GitHub sends, with their payloads
  Handlers,    \* request threads
  MaxCrashes   \* bound: process crashes

PullRequestEvents == {"opened", "closed", "merged"}
BranchEvents == {"pushed", "deleted"}
MergeGroupEvents == {"requested", "destroyed"}

ASSUME EventsAssumption ==
  /\ Events \subseteq PullRequestEvents \cup BranchEvents \cup MergeGroupEvents
  /\ MaxCrashes \in Nat

VARIABLES
  record,    \* table deliveries
  handler,   \* what every request thread is doing
  mergeGroup,\* table merge_groups: state, and whether job_id is set
  job,       \* the newest scan job of each group
  ended,     \* have the exposures of the group been ended?
  crashes

vars == <<record, handler, mergeGroup, job, ended, crashes>>

-----------------------------------------------------------------------------
Groups == {"pr", "branch", "mg"}

GroupOfEvent(e) == CASE e \in PullRequestEvents -> "pr"
                [] e \in BranchEvents -> "branch"
                [] e \in MergeGroupEvents -> "mg"

None == [event |-> "none", status |-> "none", stuck |-> FALSE]

Record == [event : Events \cup {"none"},
           status: {"none", "processing", "processed", "ignored", "failed"},
           stuck : BOOLEAN]   \* updated more than STUCK_DELIVERY_SECONDS ago

\* The step a handler does next.
Step == {"enqueue", "request", "link", "destroy", "cancel", "end", "finish", "duplicate"}

Handler == [step: Step, id: Ids, event: Events] \cup [step: {"idle"}]

TypeOK ==
  /\ record \in [Ids -> Record]
  /\ handler \in [Handlers -> Handler]
  /\ mergeGroup \in [state: {"none", "checks_requested", "destroyed"}, linked: BOOLEAN]
  /\ job \in [Groups -> {"none", "queued", "done", "cancelled"}]
  /\ ended \in [Groups -> BOOLEAN]
  /\ crashes \in 0..MaxCrashes

Init ==
  /\ record = [d \in Ids |-> None]
  /\ handler = [h \in Handlers |-> [step |-> "idle"]]
  /\ mergeGroup = [state |-> "none", linked |-> FALSE]
  /\ job = [g \in Groups |-> "none"]
  /\ ended = [g \in Groups |-> FALSE]
  /\ crashes = 0

Idle(h) == handler[h].step = "idle"
Busy(h) == ~Idle(h)
Goto(h, step) == handler' = [handler EXCEPT ![h].step = step]
Stop(h) == handler' = [handler EXCEPT ![h] = [step |-> "idle"]]
Handles(h, d) == Busy(h) /\ handler[h].id = d

-----------------------------------------------------------------------------
(* Event records.                                                          *)

\* _dispatch: where the handler of an event starts.
FirstStep(e) == CASE e \in {"opened", "pushed"} -> "enqueue"
                  [] e = "requested" -> "request"
                  [] e = "destroyed" -> "destroy"
                  [] e = "closed" -> "cancel"
                  [] e \in {"merged", "deleted"} -> "end"

\* Mutant: whatever was not processed successfully may be processed again.
MayProcessAgain(d, e) ==
  \/ record[d].status = "none"
  \/ record[d].event = e /\ record[d].status \in {"failed", "processing"}

\* record_delivery answers NEW, or RETRY for a failed or abandoned delivery with
\* the same payload; every other answer is a duplicate or a conflict.
MayProcess(d, e) ==
  \/ record[d].status = "none"
  \/ /\ record[d].event = e
     /\ record[d].status = "failed" \/ (record[d].status = "processing" /\ record[d].stuck)

\* record_delivery; a duplicate or a conflict is answered and changes nothing.
Receive(h, d, e) ==
  /\ Idle(h)
  /\ MayProcess(d, e)
  /\ record' = [record EXCEPT ![d] = [event |-> e, status |-> "processing", stuck |-> FALSE]]
  /\ handler' = [handler EXCEPT ![h] = [step |-> FirstStep(e), id |-> d, event |-> e]]
  /\ UNCHANGED <<mergeGroup, job, ended, crashes>>

SetStatus(d, status) ==
  record' = [record EXCEPT ![d].status = status, ![d].stuck = FALSE]

\* finish_delivery(PROCESSED), or IGNORED for the answer "duplicate"
Finish(h) ==
  /\ handler[h].step \in {"finish", "duplicate"}
  /\ SetStatus(handler[h].id, IF handler[h].step = "finish" THEN "processed" ELSE "ignored")
  /\ Stop(h)
  /\ UNCHANGED <<mergeGroup, job, ended, crashes>>

\* Mutant: an exception is logged, and the delivery counts as handled.
FailsQuietly(h) ==
  /\ Busy(h)
  /\ handler[h].step \notin {"finish", "duplicate"}
  /\ SetStatus(handler[h].id, "ignored")
  /\ Stop(h)
  /\ UNCHANGED <<mergeGroup, job, ended, crashes>>

\* An exception in _dispatch: finish_delivery(FAILED), then a 5xx answer.
HandlerFails(h) ==
  /\ Busy(h)
  /\ handler[h].step \notin {"finish", "duplicate"}
  /\ SetStatus(handler[h].id, "failed")
  /\ Stop(h)
  /\ UNCHANGED <<mergeGroup, job, ended, crashes>>

\* finish_delivery itself raises: the record stays "processing".
FinishFails(h) ==
  /\ Busy(h)
  /\ Stop(h)
  /\ UNCHANGED <<record, mergeGroup, job, ended, crashes>>

\* A request takes milliseconds: STUCK_DELIVERY_SECONDS pass only for a record
\* whose handler is gone.
Age(d) ==
  /\ record[d].status = "processing" /\ ~record[d].stuck
  /\ \A h \in Handlers : ~Handles(h, d)
  /\ record' = [record EXCEPT ![d].stuck = TRUE]
  /\ UNCHANGED <<handler, mergeGroup, job, ended, crashes>>

\* fail_stuck_deliveries, by the maintenance thread
FailStuck(d) ==
  /\ record[d].status = "processing" /\ record[d].stuck
  /\ SetStatus(d, "failed")
  /\ UNCHANGED <<handler, mergeGroup, job, ended, crashes>>

-----------------------------------------------------------------------------
(* Handlers.  Every action is one transaction.                             *)

Group(h) == GroupOfEvent(handler[h].event)

\* _enqueue and create_job: nothing while an equivalent job is active or completed.
Enqueue(h) ==
  LET known == job[Group(h)] \in {"queued", "done"}
  IN /\ handler[h].step = "enqueue"
     /\ job' = IF known THEN job ELSE [job EXCEPT ![Group(h)] = "queued"]
     /\ Goto(h, IF Group(h) = "mg" THEN "link" ELSE IF known THEN "duplicate" ELSE "finish")
     /\ UNCHANGED <<record, mergeGroup, ended, crashes>>

\* record_merge_group: only the first request is scanned.
Request(h) ==
  /\ handler[h].step = "request"
  /\ IF mergeGroup.state = "none"
       THEN mergeGroup' = [mergeGroup EXCEPT !.state = "checks_requested"] /\ Goto(h, "enqueue")
       ELSE UNCHANGED mergeGroup /\ Goto(h, "duplicate")
  /\ UNCHANGED <<record, job, ended, crashes>>

\* set_merge_group_job
LinkJob(h) ==
  /\ handler[h].step = "link"
  /\ mergeGroup' = [mergeGroup EXCEPT !.linked = TRUE]
  /\ Goto(h, "finish")
  /\ UNCHANGED <<record, job, ended, crashes>>

\* destroy_merge_group: only the first event ends the group.
Destroy(h) ==
  /\ handler[h].step = "destroy"
  /\ mergeGroup' = [mergeGroup EXCEPT !.state = "destroyed"]
  /\ Goto(h, IF mergeGroup.state = "destroyed" THEN "duplicate" ELSE "cancel")
  /\ UNCHANGED <<record, job, ended, crashes>>

\* cancel_queued_group
Cancel(h) ==
  /\ handler[h].step = "cancel"
  /\ job' = [job EXCEPT ![Group(h)] = IF @ = "queued" THEN "cancelled" ELSE @]
  /\ Goto(h, "end")
  /\ UNCHANGED <<record, mergeGroup, ended, crashes>>

\* pull_request_closed, branch_deleted (whose answer is "ignored"),
\* merge_group_destroyed
EndExposures(h) ==
  /\ handler[h].step = "end"
  /\ ended' = [ended EXCEPT ![Group(h)] = TRUE]
  /\ Goto(h, IF handler[h].event = "deleted" THEN "duplicate" ELSE "finish")
  /\ UNCHANGED <<record, mergeGroup, job, crashes>>

\* A worker completes the job (module ScanPipeline).
JobDone(g) ==
  /\ job[g] = "queued"
  /\ job' = [job EXCEPT ![g] = "done"]
  /\ UNCHANGED <<record, handler, mergeGroup, ended, crashes>>

\* The process dies.
Crash ==
  /\ crashes < MaxCrashes
  /\ crashes' = crashes + 1
  /\ handler' = [h \in Handlers |-> [step |-> "idle"]]
  /\ UNCHANGED <<record, mergeGroup, job, ended>>

-----------------------------------------------------------------------------
HandlerStep(h) ==
  \/ Enqueue(h) \/ Request(h) \/ LinkJob(h) \/ Destroy(h) \/ Cancel(h) \/ EndExposures(h)
  \/ Finish(h) \/ HandlerFails(h) \/ FinishFails(h)

Next ==
  \/ \E h \in Handlers : HandlerStep(h) \/ \E d \in Ids, e \in Events : Receive(h, d, e)
  \/ \E d \in Ids : Age(d) \/ FailStuck(d)
  \/ \E g \in Groups : JobDone(g)
  \/ Crash

Spec == Init /\ [][Next]_vars

\* Request threads finish, time passes, and the maintenance thread runs.
Fairness ==
  /\ \A h \in Handlers : WF_vars(HandlerStep(h))
  /\ \A d \in Ids : WF_vars(Age(d)) /\ WF_vars(FailStuck(d))

FairSpec == Spec /\ Fairness

-----------------------------------------------------------------------------
\* What an event was sent for has happened: its job is stored, or the exposures
\* of its group are ended.
Done(e) ==
  CASE e \in {"opened", "pushed", "requested"} -> job[GroupOfEvent(e)] # "none" \/ ended[GroupOfEvent(e)]
    [] e \in {"closed", "merged", "deleted", "destroyed"} -> ended[GroupOfEvent(e)]

Handled(d) == record[d].status \in {"processed", "ignored"} /\ \A h \in Handlers : Idle(h)

\* An outage while handling an event does not lose it: a pull request or branch
\* event that counts as handled, and is not processed again, has had its effect.
EventNotLost ==
  \A d \in Ids : Handled(d) /\ record[d].event \notin MergeGroupEvents => Done(record[d].event)

\* An outage does not lose the events of a merge group either.
MergeGroupNotLost ==
  \A d \in Ids : Handled(d) /\ record[d].event \in MergeGroupEvents => Done(record[d].event)

\* A delivery is handled by one request at a time, although it may be delivered
\* again at any moment.
OneHandlerPerDelivery ==
  \A g, h \in Handlers : g # h /\ Busy(g) /\ Busy(h) => handler[g].id # handler[h].id

\* Success is final: a delivery that was processed is never processed again.
ProcessedStays ==
  [][\A d \in Ids : record[d].status = "processed" => record'[d] = record[d]]_vars

Abandoned(d) == record[d].status = "processing" /\ \A h \in Handlers : ~Handles(h, d)

\* A delivery whose handler died is not a duplicate for ever: its record becomes
\* "failed", or a redelivery takes it up again (fail_stuck_deliveries).
AbandonedEnds == \A d \in Ids : Abandoned(d) ~> ~Abandoned(d)
=============================================================================
