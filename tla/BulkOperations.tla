---------------------------- MODULE BulkOperations ----------------------------
(***************************************************************************)
(* One bulk operation over the repositories of an organization             *)
(* (governance/bulk.py): the maintenance loops of several processes claim  *)
(* it with a lease and apply its items, in batches or, for operations that *)
(* call GitHub, one at a time, while administrators cancel and retry it.   *)
(***************************************************************************)
EXTENDS Integers, FiniteSets

CONSTANTS
  Repos,         \* the repositories of the operation
  Loops,         \* maintenance loops
  Budget,        \* ITEMS_PER_TICK (200)
  BatchSize,     \* BATCH_SIZE (100)
  LeaseOutlived, \* may a pass take longer than LEASE (5 minutes)?
  MaxRetries,    \* bound: retries by an administrator
  MaxFailures    \* bound: crashes and database errors

VARIABLES
  bulkOp,    \* a bulk_operations row: its status and lease
  items,     \* bulk_operation_items: their status
  applied,   \* the repositories the operation was applied to, once or more often
  loop,      \* what every maintenance loop is doing
  request,   \* a cancellation or retry between its check and its transaction
  retries,   \* bounds
  failures

vars == <<bulkOp, items, applied, loop, request, retries, failures>>

-----------------------------------------------------------------------------
NoRepo == "none"
Outcome == {"completed", "failed", "skipped"}
ItemStatus == Outcome \cup {"pending", "cancelled"}
Ended == {"completed", "partial", "failed", "cancelled"}
Status == {"none", "queued", "running"} \cup Ended
Idle == [step |-> "idle"]

\* ids: the items that are applied one by one; rest: those still to be applied in batches
Loop == {Idle, [step |-> "claimed"]}
  \cup [step: {"items"}, ids: SUBSET Repos, rest: SUBSET Repos]
  \cup [step: {"store"}, ids: SUBSET Repos, rest: SUBSET Repos, id: Repos, outcome: Outcome]
  \cup [step: {"finish"}, status: {"running", "completed", "partial", "failed"}]

TypeOK ==
  /\ bulkOp \in [status: Status, lease: {"none", "held", "expired"}]
  /\ items \in [Repos -> ItemStatus]
  /\ applied \subseteq Repos
  /\ loop \in [Loops -> Loop]
  /\ request \in {"none", "cancel", "retry"}
  /\ retries \in 0..MaxRetries /\ failures \in 0..MaxFailures

Init ==
  /\ bulkOp = [status |-> "none", lease |-> "none"]
  /\ items = [r \in Repos |-> "pending"]
  /\ applied = {}
  /\ loop = [l \in Loops |-> Idle]
  /\ request = "none"
  /\ retries = 0 /\ failures = 0

With(status) == {r \in Repos : items[r] = status}
Begin(l, s) == loop' = [loop EXCEPT ![l] = s]

-----------------------------------------------------------------------------
(* Requests.                                                               *)

\* create stores the operation and its items; the same request again finds it by its
\* idempotency key and stores nothing.
Create ==
  /\ bulkOp.status = "none"
  /\ bulkOp' = [status |-> "queued", lease |-> "none"]
  /\ UNCHANGED <<items, applied, loop, request, retries, failures>>

\* cancel and retry_failed look at the status before their transactions.
ReadRequest(what) ==
  /\ request = "none"
  /\ \/ what = "cancel" /\ bulkOp.status \in {"queued", "running"} /\ UNCHANGED retries
     \/ /\ what = "retry" /\ bulkOp.status \in {"partial", "failed"}
        /\ retries < MaxRetries /\ retries' = retries + 1
  /\ request' = what
  /\ UNCHANGED <<bulkOp, items, applied, loop, failures>>

\* Mutant: cancelling leaves the items of the operation pending.
CancelRowOnly ==
  /\ request = "cancel"
  /\ bulkOp' = [status |-> "cancelled", lease |-> "none"]
  /\ request' = "none"
  /\ UNCHANGED <<items, applied, loop, retries, failures>>

\* The transaction of cancel does not look at the status again.
Cancel ==
  /\ request = "cancel"
  /\ items' = [r \in Repos |-> IF items[r] = "pending" THEN "cancelled" ELSE items[r]]
  /\ bulkOp' = [status |-> "cancelled", lease |-> "none"]
  /\ request' = "none"
  /\ UNCHANGED <<applied, loop, retries, failures>>

\* The transaction of retry_failed
Retry ==
  /\ request = "retry"
  /\ items' = [r \in Repos |-> IF items[r] = "failed" THEN "pending" ELSE items[r]]
  /\ bulkOp' = IF With("failed") = {} THEN bulkOp ELSE [bulkOp EXCEPT !.status = "queued"]
  /\ request' = "none"
  /\ UNCHANGED <<applied, loop, retries, failures>>

-----------------------------------------------------------------------------
(* run_pending.                                                            *)

Claimable ==
  \/ bulkOp.status = "queued"
  \/ bulkOp.status = "running" /\ bulkOp.lease # "held"

Claim(l) ==
  /\ loop[l] = Idle /\ Claimable
  /\ bulkOp' = [status |-> "running", lease |-> "held"]
  /\ Begin(l, [step |-> "claimed"])
  /\ UNCHANGED <<items, applied, request, retries, failures>>

\* The pending items of this pass: applied one by one (schedule_scan) or in batches.
Load(l, pending, single) ==
  /\ loop[l].step = "claimed"
  /\ pending \subseteq With("pending")
  /\ \/ Cardinality(pending) = Budget
     \/ Cardinality(pending) < Budget /\ pending = With("pending")
  /\ Begin(l, [step |-> "items", ids |-> IF single THEN pending ELSE {},
               rest |-> IF single THEN {} ELSE pending])
  /\ UNCHANGED <<bulkOp, items, applied, request, retries, failures>>

\* The statuses of items that are still pending are replaced.
StoreItems(ids, outcome) ==
  items' = [r \in Repos |-> IF r \in ids /\ items[r] = "pending" THEN outcome[r] ELSE items[r]]

\* The next batch of the pass
NextBatch(l, batch) ==
  /\ loop[l].step = "items" /\ loop[l].ids = {}
  /\ batch # {} /\ batch \subseteq loop[l].rest
  /\ \/ Cardinality(batch) = BatchSize
     \/ Cardinality(batch) < BatchSize /\ batch = loop[l].rest

\* _process_batch: one transaction applies the batch and stores its outcomes.  An item
\* fails whose repository left the organization, or every one when the operation is
\* refused; of the valid ones some are changed, and the others are skipped.  (A group
\* or a mode that already is as asked is not changed; set_monitoring changes every one.)
ApplyBatch(l, batch) ==
  /\ NextBatch(l, batch)
  /\ \E valid \in SUBSET batch : \E changed \in SUBSET valid :
       /\ applied' = applied \cup changed
       /\ StoreItems(batch, [r \in batch |->
            IF r \notin valid THEN "failed" ELSE IF r \in changed THEN "completed" ELSE "skipped"])
  /\ Begin(l, [step |-> "items", ids |-> {}, rest |-> loop[l].rest \ batch])
  /\ UNCHANGED <<bulkOp, request, retries, failures>>

\* The transaction fails: the batch is applied item by item.
BatchFails(l, batch) ==
  /\ NextBatch(l, batch)
  /\ failures < MaxFailures /\ failures' = failures + 1
  /\ Begin(l, [step |-> "items", ids |-> batch, rest |-> loop[l].rest \ batch])
  /\ UNCHANGED <<bulkOp, items, applied, request, retries>>

\* _process_item applies an item in one transaction (again, if another loop did before)
\* and stores its outcome in another.
ApplyItem(l, r, outcome) ==
  LET s == loop[l]
  IN /\ s.step = "items" /\ r \in s.ids
     /\ applied' = IF outcome = "completed" THEN applied \cup {r} ELSE applied
     /\ Begin(l, [step |-> "store", ids |-> s.ids \ {r}, rest |-> s.rest,
                  id |-> r, outcome |-> outcome])
     /\ UNCHANGED <<bulkOp, items, request, retries, failures>>

StoreItem(l) ==
  LET s == loop[l]
  IN /\ s.step = "store"
     /\ StoreItems({s.id}, [r \in {s.id} |-> s.outcome])
     /\ Begin(l, [step |-> "items", ids |-> s.ids, rest |-> s.rest])
     /\ UNCHANGED <<bulkOp, applied, request, retries, failures>>

\* The status _finish_if_done computes from the items.
Summary ==
  IF With("pending") # {} THEN "running"
  ELSE IF With("failed") = {} THEN "completed"
  ELSE IF With("completed") \cup With("skipped") = {} THEN "failed" ELSE "partial"

\* _finish_if_done counts the items, and stores the result in a later transaction.
CountItems(l) ==
  /\ loop[l] = [step |-> "items", ids |-> {}, rest |-> {}]
  /\ Begin(l, [step |-> "finish", status |-> Summary])
  /\ UNCHANGED <<bulkOp, items, applied, request, retries, failures>>

Finish(l) ==
  /\ loop[l].step = "finish"
  /\ bulkOp' =
       IF loop[l].status = "running" THEN [bulkOp EXCEPT !.lease = "none"]
       ELSE IF bulkOp.status = "running" THEN [status |-> loop[l].status, lease |-> "none"]
       ELSE bulkOp
  /\ Begin(l, Idle)
  /\ UNCHANGED <<items, applied, request, retries, failures>>

Crash(l) ==
  /\ failures < MaxFailures /\ failures' = failures + 1
  /\ loop[l] # Idle
  /\ Begin(l, Idle)
  /\ UNCHANGED <<bulkOp, items, applied, request, retries>>

\* LEASE has passed since the operation was claimed.
LeaseExpires ==
  /\ bulkOp.lease = "held"
  /\ LeaseOutlived \/ \A l \in Loops : loop[l] = Idle
  /\ bulkOp' = [bulkOp EXCEPT !.lease = "expired"]
  /\ UNCHANGED <<items, applied, loop, request, retries, failures>>

-----------------------------------------------------------------------------
Pass(l) ==
  \/ Claim(l)
  \/ \E pending \in SUBSET Repos, single \in BOOLEAN : Load(l, pending, single)
  \/ \E batch \in SUBSET Repos : ApplyBatch(l, batch) \/ BatchFails(l, batch)
  \/ \E r \in Repos, outcome \in Outcome : ApplyItem(l, r, outcome)
  \/ StoreItem(l) \/ CountItems(l) \/ Finish(l)

Next ==
  \/ Create \/ Cancel \/ Retry \/ LeaseExpires
  \/ \E what \in {"cancel", "retry"} : ReadRequest(what)
  \/ \E l \in Loops : Pass(l) \/ Crash(l)

Spec == Init /\ [][Next]_vars

\* Maintenance loops go on, and time passes.
Fairness == (\A l \in Loops : WF_vars(Pass(l))) /\ WF_vars(LeaseExpires)

-----------------------------------------------------------------------------
\* An operation that is reported as ended has no item left to process, and its
\* status is what its items say, whatever other loops, a cancellation and crashes
\* did in between.
StatusMatchesItems ==
  /\ bulkOp.status \in Ended => With("pending") = {}
  /\ bulkOp.status \in {"completed", "partial", "failed"} => bulkOp.status = Summary

\* Every operation ends, also when the loop that claimed it dies.
OperationsEnd == bulkOp.status \in {"queued", "running"} ~> bulkOp.status \in Ended

\* "`cancel` stops pending items" (docs/repository-management.md): once an operation
\* is cancelled it is applied to no further repository.
CancelStopsItems == [][bulkOp.status = "cancelled" => applied' = applied]_vars
=============================================================================
