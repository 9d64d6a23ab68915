---------------------------- MODULE OperationsProofs ----------------------------
(***************************************************************************)
(* Proofs about what the maintenance loops work on: bulk operations and    *)
(* schedules, for any numbers of repositories, loops, slots, retries and   *)
(* crashes.                                                                *)
(***************************************************************************)
EXTENDS Integers, FiniteSets, FiniteSetTheorems, TLAPS

CONSTANTS
  Repos, Loops,
  Budget, BatchSize, LeaseOutlived, MaxRetries, MaxFailures,         \* of BulkOperations
  InitScope, PerTick, ScopeShrinks, MaxSlots, MaxRevisions, MaxOutages  \* of Schedules

VARIABLES
  bulkOp, items, applied, loop, request, retries, failures,
  clock, schedule, runs, scope, pass, outages, considered, covered

Bulk == INSTANCE BulkOperations
Scheduled == INSTANCE Schedules

-----------------------------------------------------------------------------
(* Bulk operations.                                                        *)

\* Administrators retry nothing, or one loop runs the operation: a retry while the pass of
\* another loop is ending may end the operation with pending items.
RetriesAreSerial == MaxRetries = 0 \/ \A k, l \in Loops : k = l

\* A pass that is about to store that the operation has ended has seen its items as they
\* still are: none is pending, and nothing but a retry changes the others.
FinishIsCurrent ==
  \A l \in Loops :
    loop[l].step = "finish" /\ loop[l].status # "running" =>
      Bulk!With("pending") = {} /\ loop[l].status = Bulk!Summary

\* With one loop, no pass runs while an operation may be retried.
RetryIsAlone ==
  /\ bulkOp.status \in {"none", "queued", "completed", "partial", "failed"} =>
       \A l \in Loops : loop[l] = Bulk!Idle
  /\ request = "retry" => bulkOp.status \in {"partial", "failed"}

BulkInv ==
  /\ Bulk!TypeOK
  /\ Bulk!StatusMatchesItems
  /\ FinishIsCurrent
  /\ MaxRetries = 0 => request # "retry"
  /\ (\A k, l \in Loops : k = l) => RetryIsAlone

\* What a loop may be doing, by the step it is at.
LEMMA LoopKinds ==
  ASSUME NEW s \in Bulk!Loop
  PROVE  /\ s.step \in {"idle", "claimed", "items", "store", "finish"}
         /\ s.step = "items" => s \in [step: {"items"}, ids: SUBSET Repos, rest: SUBSET Repos]
         /\ s.step = "store" =>
              s \in [step: {"store"}, ids: SUBSET Repos, rest: SUBSET Repos, id: Repos,
                     outcome: Bulk!Outcome]
         /\ s.step = "finish" =>
              s \in [step: {"finish"}, status: {"running", "completed", "partial", "failed"}]
         /\ s.step = "idle" => s = Bulk!Idle
BY DEF Bulk!Loop, Bulk!Idle

\* A step of a loop changes the step of no other.
LEMMA BeginOne ==
  ASSUME loop \in [Loops -> Bulk!Loop], NEW l \in Loops, NEW s \in Bulk!Loop, Bulk!Begin(l, s)
  PROVE  /\ loop' \in [Loops -> Bulk!Loop]
         /\ loop'[l] = s
         /\ \A k \in Loops \ {l} : loop'[k] = loop[k]
BY DEF Bulk!Begin

\* Outcomes replace what is pending, and nothing else.
LEMMA StoreOnlyPending ==
  ASSUME items \in [Repos -> Bulk!ItemStatus], NEW ids \in SUBSET Repos,
         NEW outcome \in [ids -> Bulk!Outcome], Bulk!StoreItems(ids, outcome)
  PROVE  /\ items' \in [Repos -> Bulk!ItemStatus]
         /\ \A r \in Repos : items[r] # "pending" => items'[r] = items[r]
BY DEF Bulk!StoreItems, Bulk!ItemStatus

\* When nothing is pending, what only replaces the pending items changes nothing.
LEMMA NothingPending ==
  ASSUME items \in [Repos -> Bulk!ItemStatus], items' \in [Repos -> Bulk!ItemStatus],
         \A r \in Repos : items[r] # "pending" => items'[r] = items[r],
         Bulk!With("pending") = {}
  PROVE  items' = items
BY DEF Bulk!With

LEMMA SummaryOf ==
  ASSUME items' = items
  PROVE  Bulk!Summary' = Bulk!Summary /\ \A s : Bulk!With(s)' = Bulk!With(s)
BY DEF Bulk!Summary, Bulk!With

BulkBounds == MaxRetries \in Nat /\ MaxFailures \in Nat

LEMMA BulkInit ==
  ASSUME BulkBounds, Bulk!Init
  PROVE  BulkInv
<1> USE DEF Bulk!Init, BulkBounds
<1>1. Bulk!TypeOK
  BY DEF Bulk!TypeOK, Bulk!Status, Bulk!ItemStatus, Bulk!Loop
<1>2. Bulk!StatusMatchesItems
  BY DEF Bulk!StatusMatchesItems, Bulk!Ended
<1>3. FinishIsCurrent
  BY DEF FinishIsCurrent, Bulk!Idle
<1>4. RetryIsAlone
  BY DEF RetryIsAlone
<1> QED BY <1>1, <1>2, <1>3, <1>4 DEF BulkInv

\* Types: every transaction and every step of a pass keeps them.
LEMMA BulkTypeStep ==
  ASSUME BulkBounds, Bulk!TypeOK, [Bulk!Next]_(Bulk!vars)
  PROVE  Bulk!TypeOK'
<1> USE DEF BulkBounds, Bulk!TypeOK, Bulk!Status, Bulk!Ended
<1>1. CASE Bulk!Create \/ Bulk!LeaseExpires
  BY <1>1 DEF Bulk!Create, Bulk!LeaseExpires
<1>2. CASE Bulk!Cancel
  BY <1>2 DEF Bulk!Cancel, Bulk!ItemStatus
<1>3. CASE Bulk!Retry
  BY <1>3 DEF Bulk!Retry, Bulk!ItemStatus
<1>4. ASSUME NEW what \in {"cancel", "retry"}, Bulk!ReadRequest(what) PROVE Bulk!TypeOK'
  BY <1>4 DEF Bulk!ReadRequest
<1>5. ASSUME NEW l \in Loops, Bulk!Claim(l) PROVE Bulk!TypeOK'
  <2>1. [step |-> "claimed"] \in Bulk!Loop
    BY DEF Bulk!Loop
  <2> QED BY <1>5, <2>1, BeginOne DEF Bulk!Claim
<1>6. ASSUME NEW l \in Loops, NEW pending \in SUBSET Repos, NEW single \in BOOLEAN,
             Bulk!Load(l, pending, single)
      PROVE  Bulk!TypeOK'
  <2> DEFINE ids == IF single THEN pending ELSE {}
             rest == IF single THEN {} ELSE pending
  <2>1. ids \in SUBSET Repos /\ rest \in SUBSET Repos
    OBVIOUS
  <2>2. [step |-> "items", ids |-> ids, rest |-> rest] \in Bulk!Loop
    <3> HIDE DEF ids, rest
    <3> QED BY <2>1 DEF Bulk!Loop
  <2> QED BY <1>6, <2>2, BeginOne DEF Bulk!Load
<1>7. ASSUME NEW l \in Loops, NEW batch \in SUBSET Repos, Bulk!ApplyBatch(l, batch)
      PROVE  Bulk!TypeOK'
  <2>1. PICK valid \in SUBSET batch, changed \in SUBSET batch :
          /\ applied' = applied \cup changed
          /\ Bulk!StoreItems(batch, [r \in batch |->
               IF r \notin valid THEN "failed" ELSE IF r \in changed THEN "completed" ELSE "skipped"])
    BY <1>7 DEF Bulk!ApplyBatch
  <2> DEFINE outcome == [r \in batch |->
               IF r \notin valid THEN "failed" ELSE IF r \in changed THEN "completed" ELSE "skipped"]
  <2>2. outcome \in [batch -> Bulk!Outcome]
    BY DEF Bulk!Outcome
  <2>3. items' \in [Repos -> Bulk!ItemStatus]
    <3>1. Bulk!StoreItems(batch, outcome)
      BY <2>1
    <3> HIDE DEF outcome
    <3> QED BY <2>2, <3>1, StoreOnlyPending
  <2>4. [step |-> "items", ids |-> {}, rest |-> loop[l].rest \ batch] \in Bulk!Loop
    BY <1>7, LoopKinds DEF Bulk!ApplyBatch, Bulk!NextBatch, Bulk!Loop
  <2>5. loop' \in [Loops -> Bulk!Loop]
    BY <1>7, <2>4, BeginOne DEF Bulk!ApplyBatch
  <2> QED BY <1>7, <2>1, <2>3, <2>5 DEF Bulk!ApplyBatch
<1>8. ASSUME NEW l \in Loops, NEW batch \in SUBSET Repos, Bulk!BatchFails(l, batch)
      PROVE  Bulk!TypeOK'
  <2>1. [step |-> "items", ids |-> batch, rest |-> loop[l].rest \ batch] \in Bulk!Loop
    BY <1>8, LoopKinds DEF Bulk!BatchFails, Bulk!NextBatch, Bulk!Loop
  <2> QED BY <1>8, <2>1, BeginOne DEF Bulk!BatchFails
<1>9. ASSUME NEW l \in Loops, NEW r \in Repos, NEW outcome \in Bulk!Outcome,
             Bulk!ApplyItem(l, r, outcome)
      PROVE  Bulk!TypeOK'
  <2>1. loop[l].ids \in SUBSET Repos /\ loop[l].rest \in SUBSET Repos
    BY <1>9, LoopKinds DEF Bulk!ApplyItem
  <2>2. [step |-> "store", ids |-> loop[l].ids \ {r}, rest |-> loop[l].rest,
         id |-> r, outcome |-> outcome] \in Bulk!Loop
    BY <2>1 DEF Bulk!Loop
  <2> QED BY <1>9, <2>2, BeginOne DEF Bulk!ApplyItem
<1>10. ASSUME NEW l \in Loops, Bulk!StoreItem(l) PROVE Bulk!TypeOK'
  <2> DEFINE s == loop[l]
             outcome == [r \in {s.id} |-> s.outcome]
  <2>1. /\ s.ids \in SUBSET Repos /\ s.rest \in SUBSET Repos
        /\ s.id \in Repos /\ s.outcome \in Bulk!Outcome
    BY <1>10, LoopKinds DEF Bulk!StoreItem
  <2>2. Bulk!StoreItems({s.id}, outcome) /\ outcome \in [{s.id} -> Bulk!Outcome]
    BY <1>10, <2>1 DEF Bulk!StoreItem
  <2>3. items' \in [Repos -> Bulk!ItemStatus]
    <3> HIDE DEF s, outcome
    <3> QED BY <2>1, <2>2, StoreOnlyPending
  <2>4. [step |-> "items", ids |-> s.ids, rest |-> s.rest] \in Bulk!Loop
    BY <2>1 DEF Bulk!Loop
  <2> QED BY <1>10, <2>3, <2>4, BeginOne DEF Bulk!StoreItem
<1>11. ASSUME NEW l \in Loops, Bulk!CountItems(l) PROVE Bulk!TypeOK'
  <2>1. Bulk!Summary \in {"running", "completed", "partial", "failed"}
    BY DEF Bulk!Summary
  <2>2. [step |-> "finish", status |-> Bulk!Summary] \in Bulk!Loop
    BY <2>1 DEF Bulk!Loop
  <2> QED BY <1>11, <2>2, BeginOne DEF Bulk!CountItems
<1>12. ASSUME NEW l \in Loops, Bulk!Finish(l) PROVE Bulk!TypeOK'
  <2>1. loop[l].status \in {"running", "completed", "partial", "failed"}
    BY <1>12, LoopKinds DEF Bulk!Finish
  <2>2. Bulk!Idle \in Bulk!Loop
    BY DEF Bulk!Loop
  <2>3. loop' \in [Loops -> Bulk!Loop]
    BY <1>12, <2>2, BeginOne DEF Bulk!Finish
  <2> QED BY <1>12, <2>1, <2>3 DEF Bulk!Finish
<1>13. ASSUME NEW l \in Loops, Bulk!Crash(l) PROVE Bulk!TypeOK'
  <2>1. Bulk!Idle \in Bulk!Loop
    BY DEF Bulk!Loop
  <2> QED BY <1>13, <2>1, BeginOne DEF Bulk!Crash
<1>14. CASE UNCHANGED Bulk!vars
  BY <1>14 DEF Bulk!vars
<1> QED
  BY <1>1, <1>2, <1>3, <1>4, <1>5, <1>6, <1>7, <1>8, <1>9, <1>10, <1>11, <1>12, <1>13, <1>14
  DEF Bulk!Next, Bulk!Pass

\* Only a retry changes an item that is not pending.
LEMMA OnlyPendingChange ==
  ASSUME BulkBounds, Bulk!TypeOK, [Bulk!Next]_(Bulk!vars), ~Bulk!Retry
  PROVE  /\ \A r \in Repos : items[r] # "pending" => items'[r] = items[r]
         /\ Bulk!With("pending") = {} => Bulk!With("pending")' = {} /\ Bulk!Summary' = Bulk!Summary
<1>1. \A r \in Repos : items[r] # "pending" => items'[r] = items[r]
  <2>1. CASE Bulk!Cancel
    BY <2>1 DEF Bulk!Cancel
  <2>2. ASSUME NEW ids, NEW outcome, Bulk!StoreItems(ids, outcome)
        PROVE  \A r \in Repos : items[r] # "pending" => items'[r] = items[r]
    BY <2>2 DEF Bulk!StoreItems
  <2>3. CASE items' = items
    BY <2>3
  <2> QED
    BY <2>1, <2>2, <2>3
    DEF Bulk!Next, Bulk!Pass, Bulk!vars, Bulk!Create, Bulk!LeaseExpires, Bulk!ReadRequest, Bulk!Claim,
        Bulk!Load, Bulk!ApplyBatch, Bulk!BatchFails, Bulk!ApplyItem, Bulk!StoreItem,
        Bulk!CountItems, Bulk!Finish, Bulk!Crash
<1>2. Bulk!With("pending") = {} => items' = items
  BY <1>1, BulkTypeStep, NothingPending DEF Bulk!TypeOK
<1> QED BY <1>1, <1>2, SummaryOf

\* What a step does to the status of the operation and to what the loops are about to store.
LEMMA StatusStep ==
  ASSUME Bulk!TypeOK, [Bulk!Next]_(Bulk!vars), ~Bulk!Retry, ~Bulk!Cancel
  PROVE  \/ bulkOp'.status = bulkOp.status
         \/ bulkOp'.status \notin Bulk!Ended
         \/ \E l \in Loops : Bulk!Finish(l) /\ loop[l].status # "running" /\ bulkOp'.status = loop[l].status
<1> USE DEF Bulk!TypeOK
<1>1. ASSUME NEW l \in Loops, Bulk!Finish(l)
      PROVE  \/ bulkOp'.status = bulkOp.status
             \/ loop[l].status # "running" /\ bulkOp'.status = loop[l].status
  <2>1. CASE loop[l].status = "running"
    BY <1>1, <2>1 DEF Bulk!Finish
  <2>2. CASE loop[l].status # "running" /\ bulkOp.status = "running"
    BY <1>1, <2>2 DEF Bulk!Finish
  <2>3. CASE loop[l].status # "running" /\ bulkOp.status # "running"
    BY <1>1, <2>3 DEF Bulk!Finish
  <2> QED BY <2>1, <2>2, <2>3
<1>2. ASSUME NEW l \in Loops, Bulk!Claim(l) PROVE bulkOp'.status \notin Bulk!Ended
  BY <1>2 DEF Bulk!Claim, Bulk!Ended
<1>3. CASE Bulk!Create \/ Bulk!LeaseExpires
  BY <1>3 DEF Bulk!Create, Bulk!LeaseExpires, Bulk!Ended
<1>4. CASE bulkOp' = bulkOp
  BY <1>4
<1> QED
  BY <1>1, <1>2, <1>3, <1>4
  DEF Bulk!Next, Bulk!Pass, Bulk!vars, Bulk!ReadRequest, Bulk!Load, Bulk!ApplyBatch,
      Bulk!BatchFails, Bulk!ApplyItem, Bulk!StoreItem, Bulk!CountItems, Bulk!Crash

LEMMA FinishStep ==
  ASSUME Bulk!TypeOK, [Bulk!Next]_(Bulk!vars), NEW k \in Loops, loop'[k].step = "finish"
  PROVE  \/ loop'[k] = loop[k]
         \/ loop'[k].status = Bulk!Summary /\ items' = items
<1> USE DEF Bulk!TypeOK, Bulk!Begin
<1>1. ASSUME NEW l \in Loops, Bulk!CountItems(l)
      PROVE  \/ loop'[k] = loop[k]
             \/ loop'[k].status = Bulk!Summary /\ items' = items
  BY <1>1 DEF Bulk!CountItems
<1>2. ASSUME NEW l \in Loops, Bulk!Claim(l) \/ Bulk!StoreItem(l) \/ Bulk!Finish(l) \/ Bulk!Crash(l)
      PROVE  loop'[k] = loop[k]
  BY <1>2 DEF Bulk!Claim, Bulk!StoreItem, Bulk!Finish, Bulk!Crash, Bulk!Idle
<1>3. ASSUME NEW l \in Loops, NEW pending \in SUBSET Repos, NEW single \in BOOLEAN,
             Bulk!Load(l, pending, single)
      PROVE  loop'[k] = loop[k]
  BY <1>3 DEF Bulk!Load
<1>4. ASSUME NEW l \in Loops, NEW batch \in SUBSET Repos, Bulk!ApplyBatch(l, batch)
      PROVE  loop'[k] = loop[k]
  BY <1>4 DEF Bulk!ApplyBatch
<1>5. ASSUME NEW l \in Loops, NEW batch \in SUBSET Repos, Bulk!BatchFails(l, batch)
      PROVE  loop'[k] = loop[k]
  BY <1>5 DEF Bulk!BatchFails
<1>6. ASSUME NEW l \in Loops, NEW r \in Repos, NEW outcome \in Bulk!Outcome,
             Bulk!ApplyItem(l, r, outcome)
      PROVE  loop'[k] = loop[k]
  BY <1>6 DEF Bulk!ApplyItem
<1>7. CASE loop' = loop
  BY <1>7
<1> QED
  BY <1>1, <1>2, <1>3, <1>4, <1>5, <1>6, <1>7
  DEF Bulk!Next, Bulk!Pass, Bulk!vars, Bulk!Create, Bulk!Cancel, Bulk!Retry, Bulk!LeaseExpires,
      Bulk!ReadRequest

\* With one loop, an operation that waits, or ended otherwise than by a cancellation, is
\* not worked on.
LEMMA AloneStep ==
  ASSUME Bulk!TypeOK, [Bulk!Next]_(Bulk!vars), \A k, l \in Loops : k = l, RetryIsAlone
  PROVE  RetryIsAlone'
<1> USE DEF Bulk!TypeOK, Bulk!Begin, RetryIsAlone
<1>1. CASE Bulk!Create \/ Bulk!LeaseExpires
  BY <1>1 DEF Bulk!Create, Bulk!LeaseExpires
<1>2. CASE Bulk!Cancel \/ Bulk!Retry
  BY <1>2 DEF Bulk!Cancel, Bulk!Retry
<1>3. ASSUME NEW what \in {"cancel", "retry"}, Bulk!ReadRequest(what) PROVE RetryIsAlone'
  BY <1>3 DEF Bulk!ReadRequest
<1>4. ASSUME NEW l \in Loops, Bulk!Claim(l) PROVE RetryIsAlone'
  BY <1>4 DEF Bulk!Claim, Bulk!Claimable
<1>5. ASSUME NEW l \in Loops, loop[l] # Bulk!Idle, bulkOp' = bulkOp, request' = request
      PROVE  RetryIsAlone'
  BY <1>5
<1>6. ASSUME NEW l \in Loops, Bulk!Finish(l) PROVE RetryIsAlone'
  BY <1>6 DEF Bulk!Finish
<1>7. CASE UNCHANGED Bulk!vars
  BY <1>7 DEF Bulk!vars
<1>8. ASSUME NEW l \in Loops, loop[l].step \in {"claimed", "items", "store"}
      PROVE  loop[l] # Bulk!Idle
  BY <1>8 DEF Bulk!Idle
<1>9. ASSUME NEW l \in Loops, Bulk!CountItems(l) PROVE RetryIsAlone'
  BY <1>5, <1>8, <1>9 DEF Bulk!CountItems
<1>10. ASSUME NEW l \in Loops, Bulk!Crash(l) PROVE RetryIsAlone'
  BY <1>5, <1>10 DEF Bulk!Crash
<1>11. ASSUME NEW l \in Loops, NEW pending \in SUBSET Repos, NEW single \in BOOLEAN,
              Bulk!Load(l, pending, single)
       PROVE  RetryIsAlone'
  BY <1>5, <1>8, <1>11 DEF Bulk!Load
<1>12. ASSUME NEW l \in Loops, NEW batch \in SUBSET Repos, Bulk!ApplyBatch(l, batch)
       PROVE  RetryIsAlone'
  BY <1>5, <1>8, <1>12 DEF Bulk!ApplyBatch, Bulk!NextBatch
<1>13. ASSUME NEW l \in Loops, NEW r \in Repos, NEW outcome \in Bulk!Outcome,
              Bulk!ApplyItem(l, r, outcome)
       PROVE  RetryIsAlone'
  BY <1>5, <1>8, <1>13 DEF Bulk!ApplyItem
<1>14. ASSUME NEW l \in Loops, Bulk!StoreItem(l) PROVE RetryIsAlone'
  BY <1>5, <1>8, <1>14 DEF Bulk!StoreItem
<1>15. ASSUME NEW l \in Loops, NEW batch \in SUBSET Repos, Bulk!BatchFails(l, batch)
       PROVE  RetryIsAlone'
  BY <1>5, <1>8, <1>15 DEF Bulk!BatchFails, Bulk!NextBatch
<1> HIDE DEF Bulk!TypeOK, Bulk!Begin, RetryIsAlone
<1> QED
  BY <1>1, <1>2, <1>3, <1>4, <1>6, <1>7, <1>9, <1>10, <1>11, <1>12, <1>13, <1>14, <1>15
  DEF Bulk!Next, Bulk!Pass

LEMMA BulkStep ==
  ASSUME BulkBounds, RetriesAreSerial, BulkInv, [Bulk!Next]_(Bulk!vars)
  PROVE  BulkInv'
<1> USE DEF BulkInv
<1>1. Bulk!TypeOK'
  BY BulkTypeStep
<1>2. MaxRetries = 0 => request' # "retry"
  <2>1. ASSUME NEW what \in {"cancel", "retry"}, Bulk!ReadRequest(what), MaxRetries = 0
        PROVE  request' # "retry"
    BY <2>1 DEF Bulk!ReadRequest, Bulk!TypeOK
  <2>2. request' \in {request, "none"} \/ \E what \in {"cancel", "retry"} : Bulk!ReadRequest(what)
    BY DEF Bulk!Next, Bulk!Pass, Bulk!vars, Bulk!Create, Bulk!Cancel, Bulk!Retry, Bulk!LeaseExpires,
           Bulk!Claim, Bulk!Load, Bulk!ApplyBatch, Bulk!BatchFails, Bulk!ApplyItem,
           Bulk!StoreItem, Bulk!CountItems, Bulk!Finish, Bulk!Crash
  <2> QED BY <2>1, <2>2
<1>3. (\A k, l \in Loops : k = l) => RetryIsAlone'
  BY AloneStep
<1>4. CASE Bulk!Retry
  <2>1. /\ request = "retry" /\ \A k, l \in Loops : k = l
        /\ bulkOp.status \in {"partial", "failed"} /\ \A l \in Loops : loop[l] = Bulk!Idle
    BY <1>4 DEF Bulk!Retry, RetriesAreSerial, RetryIsAlone
  <2>2. FinishIsCurrent'
    BY <1>4, <2>1 DEF Bulk!Retry, FinishIsCurrent, Bulk!Idle
  <2>3. CASE Bulk!With("failed") = {}
    <3>1. items' = items /\ bulkOp' = bulkOp
      BY <1>4, <2>3 DEF Bulk!Retry, Bulk!With, Bulk!TypeOK
    <3>2. Bulk!StatusMatchesItems'
      BY <3>1, SummaryOf DEF Bulk!StatusMatchesItems
    <3> QED BY <1>1, <1>2, <1>3, <2>2, <3>2
  <2>4. CASE Bulk!With("failed") # {}
    <3>1. bulkOp'.status = "queued"
      BY <1>4, <2>4 DEF Bulk!Retry, Bulk!TypeOK
    <3>2. Bulk!StatusMatchesItems'
      BY <3>1 DEF Bulk!StatusMatchesItems, Bulk!Ended
    <3> QED BY <1>1, <1>2, <1>3, <2>2, <3>2
  <2> QED BY <2>3, <2>4
<1>5. CASE ~Bulk!Retry
  <2>1. Bulk!With("pending") = {} => Bulk!With("pending")' = {} /\ Bulk!Summary' = Bulk!Summary
    BY <1>5, OnlyPendingChange
  <2>2. FinishIsCurrent'
    <3> SUFFICES ASSUME NEW k \in Loops, loop'[k].step = "finish", loop'[k].status # "running"
                 PROVE  Bulk!With("pending")' = {} /\ loop'[k].status = Bulk!Summary'
      BY DEF FinishIsCurrent
    <3>1. CASE loop'[k] = loop[k]
      BY <2>1, <3>1 DEF FinishIsCurrent
    <3>2. CASE loop'[k].status = Bulk!Summary /\ items' = items
      <4>1. Bulk!With("pending") = {}
        BY <3>2 DEF Bulk!Summary
      <4> QED BY <2>1, <3>2, <4>1
    <3> QED BY <3>1, <3>2, FinishStep
  <2>3. CASE Bulk!Cancel
    <3>1. bulkOp'.status = "cancelled" /\ Bulk!With("pending")' = {}
      BY <2>3 DEF Bulk!Cancel, Bulk!With
    <3>2. Bulk!StatusMatchesItems'
      BY <3>1 DEF Bulk!StatusMatchesItems
    <3> QED BY <1>1, <1>2, <1>3, <2>2, <3>2
  <2>4. CASE ~Bulk!Cancel
    <3>1. CASE bulkOp'.status \notin Bulk!Ended
      <4>1. Bulk!StatusMatchesItems'
        BY <3>1 DEF Bulk!StatusMatchesItems, Bulk!Ended
      <4> QED BY <1>1, <1>2, <1>3, <2>2, <4>1
    <3>2. CASE bulkOp'.status = bulkOp.status /\ bulkOp'.status \in Bulk!Ended
      <4>1. Bulk!StatusMatchesItems'
        BY <2>1, <3>2 DEF Bulk!StatusMatchesItems
      <4> QED BY <1>1, <1>2, <1>3, <2>2, <4>1
    <3>3. ASSUME NEW l \in Loops, Bulk!Finish(l), loop[l].status # "running",
                 bulkOp'.status = loop[l].status
          PROVE  Bulk!StatusMatchesItems'
      <4>1. Bulk!With("pending") = {} /\ loop[l].status = Bulk!Summary
        BY <3>3 DEF FinishIsCurrent, Bulk!Finish
      <4> QED BY <2>1, <3>3, <4>1 DEF Bulk!StatusMatchesItems
    <3> QED BY <1>1, <1>2, <1>3, <1>5, <2>2, <2>4, <3>1, <3>2, <3>3, StatusStep
  <2> QED BY <2>3, <2>4
<1> QED BY <1>4, <1>5

\* An operation that is reported as ended has no item left to process, and its status is
\* what its items say, for any repositories, loops, lease times, crashes and cancellations
\* (governance/bulk.py, _finish_if_done).
THEOREM OperationsEndAsRecorded ==
  ASSUME BulkBounds, RetriesAreSerial
  PROVE  Bulk!Spec => []Bulk!StatusMatchesItems
<1>1. BulkInv /\ [Bulk!Next]_(Bulk!vars) => BulkInv'
  BY BulkStep
<1>2. Bulk!Init => BulkInv
  BY BulkInit
<1>3. BulkInv => Bulk!StatusMatchesItems
  BY DEF BulkInv
<1> QED BY <1>1, <1>2, <1>3, PTL DEF Bulk!Spec

-----------------------------------------------------------------------------
(* Schedules.                                                              *)

ScheduleBounds ==
  /\ IsFiniteSet(Repos) /\ Repos \subseteq Int /\ InitScope \subseteq Repos
  /\ PerTick \in Nat /\ MaxSlots \in Nat /\ MaxRevisions \in Nat /\ MaxOutages \in Nat

\* The repositories of the slot s that a list S has before its place n
Passed(S, n, s) == \A r \in covered[s] : Scheduled!Place(S, r) < n => r \in considered[s]

\* A run is resumed at a place, not at a repository: whatever the list was then, the
\* repositories it covers that now have an earlier place were considered.  It holds since
\* places only grow while no repository leaves the scope.
CursorIsCurrent ==
  \A s \in Scheduled!Slots :
    /\ covered[s] \subseteq scope
    /\ Passed(scope, runs[s].cursor, s)

\* The same of a pass and the list it computed, which is not newer than the scope.
PassIsCurrent ==
  \A l \in Loops : pass[l].step = "queue" =>
    /\ covered[pass[l].slot] \subseteq pass[l].list /\ pass[l].list \subseteq scope
    /\ Passed(pass[l].list, pass[l].position, pass[l].slot)

\* What was not started covers nothing and is not worked on.
NotStarted ==
  \A s \in Scheduled!Slots : runs[s].state = "none" =>
    /\ runs[s].cursor = 0
    /\ \A l \in Loops : pass[l].step = "queue" => pass[l].slot # s

ScheduleInv ==
  /\ Scheduled!TypeOK
  /\ Scheduled!NoneSkippedSilently
  /\ CursorIsCurrent
  /\ PassIsCurrent
  /\ NotStarted

LEMMA SameCardinality == \A S : Scheduled!Cardinality(S) = Cardinality(S)
<1>1. ASSUME NEW S PROVE Scheduled!Cardinality(S) = Cardinality(S)
  BY DEF Scheduled!Cardinality, Cardinality
<1> QED BY <1>1

\* Places of a list: numbers below its length, that grow with the list, and in which no
\* two repositories are equal.
LEMMA Places ==
  ASSUME ScheduleBounds, NEW S \in SUBSET Repos
  PROVE  /\ Scheduled!Cardinality(S) \in Nat
         /\ Scheduled!Cardinality(S) <= Scheduled!Cardinality(Repos)
         /\ \A r : Scheduled!Place(S, r) \in Nat
         /\ \A r \in S : Scheduled!Place(S, r) < Scheduled!Cardinality(S)
         /\ \A T \in SUBSET Repos : S \subseteq T =>
              \A r : Scheduled!Place(S, r) <= Scheduled!Place(T, r)
         /\ \A q, r \in S : Scheduled!Place(S, q) = Scheduled!Place(S, r) => q = r
<1> DEFINE Before(T, r) == {x \in T : x < r}
<1>1. \A T \in SUBSET Repos : IsFiniteSet(T) /\ Cardinality(T) \in Nat
                              /\ Cardinality(T) <= Cardinality(Repos)
  BY FS_Subset, FS_CardinalityType DEF ScheduleBounds
<1>2. \A T, r : Scheduled!Place(T, r) = Cardinality(Before(T, r))
  BY SameCardinality DEF Scheduled!Place
<1>3. \A r : Scheduled!Place(S, r) \in Nat
  <2> SUFFICES ASSUME NEW r PROVE Cardinality(Before(S, r)) \in Nat
    BY <1>2
  <2>1. Before(S, r) \in SUBSET Repos
    OBVIOUS
  <2> QED BY <1>1, <2>1
<1>4. ASSUME NEW A \in SUBSET Repos, NEW B \in SUBSET A
      PROVE  Cardinality(B) <= Cardinality(A) /\ (B # A => Cardinality(B) < Cardinality(A))
  <2>1. IsFiniteSet(A) /\ Cardinality(A) \in Nat /\ Cardinality(B) \in Nat
    BY <1>1
  <2>2. Cardinality(B) <= Cardinality(A) /\ (Cardinality(A) = Cardinality(B) => A = B)
    BY <2>1, FS_Subset
  <2> QED BY <2>1, <2>2
<1>5. ASSUME NEW r \in S PROVE Cardinality(Before(S, r)) < Cardinality(S)
  <2>1. r \notin Before(S, r) /\ Before(S, r) \in SUBSET S
    BY DEF ScheduleBounds
  <2>2. Before(S, r) # S
    BY <2>1
  <2> QED BY <1>4, <2>1, <2>2
<1>6. ASSUME NEW T \in SUBSET Repos, S \subseteq T, NEW r
      PROVE  Cardinality(Before(S, r)) <= Cardinality(Before(T, r))
  <2>1. Before(S, r) \in SUBSET Before(T, r) /\ Before(T, r) \in SUBSET Repos
    BY <1>6
  <2> QED BY <1>4, <2>1
<1>7. ASSUME NEW q \in S, NEW r \in S, q < r
      PROVE  Cardinality(Before(S, q)) < Cardinality(Before(S, r))
  <2>1. q \in Before(S, r) /\ q \notin Before(S, q)
    BY <1>7 DEF ScheduleBounds
  <2>2. Before(S, q) \in SUBSET Before(S, r)
    <3> SUFFICES ASSUME NEW x \in S, x < q PROVE x < r
      OBVIOUS
    <3>1. x \in Int /\ q \in Int /\ r \in Int
      BY DEF ScheduleBounds
    <3> QED BY <1>7, <3>1
  <2>3. Before(S, r) \in SUBSET Repos /\ Before(S, q) # Before(S, r)
    BY <2>1
  <2> QED BY <1>4, <2>2, <2>3
<1>8. ASSUME NEW q \in S, NEW r \in S, Scheduled!Place(S, q) = Scheduled!Place(S, r)
      PROVE  q = r
  <2>1. q \in Int /\ r \in Int
    BY DEF ScheduleBounds
  <2>2. q < r \/ r < q \/ q = r
    BY <2>1
  <2>3. Cardinality(Before(S, q)) = Cardinality(Before(S, r)) /\ Cardinality(Before(S, q)) \in Nat
    BY <1>2, <1>3, <1>8
  <2>4. ~(q < r)
    BY <1>7, <2>3
  <2>5. ~(r < q)
    BY <1>7, <2>3
  <2> QED BY <2>2, <2>4, <2>5
<1>9. \A r \in S : Scheduled!Place(S, r) < Scheduled!Cardinality(S)
  BY <1>2, <1>5, SameCardinality
<1>10. \A T \in SUBSET Repos : S \subseteq T => \A r : Scheduled!Place(S, r) <= Scheduled!Place(T, r)
  BY <1>2, <1>6
<1>11. Scheduled!Cardinality(S) \in Nat /\ Scheduled!Cardinality(S) <= Scheduled!Cardinality(Repos)
  BY <1>1, SameCardinality
<1> HIDE DEF Before
<1> QED BY <1>3, <1>8, <1>9, <1>10, <1>11

LEMMA PlaceIsNat ==
  ASSUME ScheduleBounds, NEW S \in SUBSET Repos, NEW r
  PROVE  Scheduled!Place(S, r) \in Nat
BY Places

\* What a pass holds, by the step it is at.
LEMMA PassKinds ==
  ASSUME NEW p \in Scheduled!Pass
  PROVE  /\ p.step \in {"idle", "start", "queue"}
         /\ p.step = "start" =>
              p \in [step: {"start"}, slot: Scheduled!Slots, following: 1..(MaxSlots + 1)]
         /\ p.step = "queue" =>
              p \in [step: {"queue"}, slot: Scheduled!Slots, list: SUBSET Repos,
                     position: 0..Scheduled!Cardinality(Repos), left: 0..PerTick,
                     ok: BOOLEAN, failed: BOOLEAN]
BY DEF Scheduled!Pass, Scheduled!Idle

\* A step of a loop changes the pass of no other.
LEMMA BeginPass ==
  ASSUME pass \in [Loops -> Scheduled!Pass], NEW l \in Loops, NEW p \in Scheduled!Pass,
         Scheduled!Begin(l, p)
  PROVE  /\ pass' \in [Loops -> Scheduled!Pass]
         /\ pass'[l] = p
         /\ \A k \in Loops \ {l} : pass'[k] = pass[k]
BY DEF Scheduled!Begin

LEMMA IdlePass == Scheduled!Idle \in Scheduled!Pass /\ Scheduled!Idle.step = "idle"
BY DEF Scheduled!Pass, Scheduled!Idle

LEMMA ScheduleInit ==
  ASSUME ScheduleBounds, Scheduled!Init
  PROVE  ScheduleInv
<1> USE DEF Scheduled!Init
<1>1. Scheduled!Cardinality(Repos) \in Nat
  BY Places
<1>2. Scheduled!NoRun \in Scheduled!Run /\ Scheduled!NoRun.state = "none" /\ Scheduled!NoRun.cursor = 0
  BY <1>1 DEF Scheduled!NoRun, Scheduled!Run
<1>3. \A s \in Scheduled!Slots : runs[s] = Scheduled!NoRun /\ covered[s] = {}
  OBVIOUS
<1>4. \A l \in Loops : pass[l].step = "idle"
  BY IdlePass
<1>5. Scheduled!TypeOK
  <2>1. runs \in [Scheduled!Slots -> Scheduled!Run] /\ pass \in [Loops -> Scheduled!Pass]
    BY <1>2, IdlePass
  <2>2. schedule \in [enabled: BOOLEAN, next: 1..(MaxSlots + 1), revision: 0..MaxRevisions]
    BY DEF ScheduleBounds
  <2>3. clock \in 0..MaxSlots /\ scope \subseteq Repos /\ outages \in 0..MaxOutages
    BY DEF ScheduleBounds
  <2>4. considered \in [Scheduled!Slots -> SUBSET Repos] /\ covered \in [Scheduled!Slots -> SUBSET Repos]
    OBVIOUS
  <2> QED BY <2>1, <2>2, <2>3, <2>4 DEF Scheduled!TypeOK
<1>6. Scheduled!NoneSkippedSilently
  BY <1>3 DEF Scheduled!NoneSkippedSilently
<1>7. CursorIsCurrent /\ PassIsCurrent /\ NotStarted
  BY <1>2, <1>3, <1>4 DEF CursorIsCurrent, PassIsCurrent, NotStarted, Passed
<1> QED BY <1>5, <1>6, <1>7 DEF ScheduleInv

\* Types: every transaction and every step of a pass keeps them, also where repositories
\* leave the scope.
LEMMA ScheduleTypeStep ==
  ASSUME ScheduleBounds, Scheduled!TypeOK, [Scheduled!Next]_(Scheduled!vars)
  PROVE  Scheduled!TypeOK'
<1>1. /\ clock \in 0..MaxSlots /\ scope \in SUBSET Repos /\ outages \in 0..MaxOutages
      /\ schedule \in [enabled: BOOLEAN, next: 1..(MaxSlots + 1), revision: 0..MaxRevisions]
      /\ runs \in [Scheduled!Slots -> Scheduled!Run] /\ pass \in [Loops -> Scheduled!Pass]
      /\ considered \in [Scheduled!Slots -> SUBSET Repos]
      /\ covered \in [Scheduled!Slots -> SUBSET Repos]
  BY DEF Scheduled!TypeOK
<1>2. CASE UNCHANGED Scheduled!vars
  BY <1>1, <1>2 DEF Scheduled!vars, Scheduled!TypeOK
<1>3. CASE Scheduled!Tick
  BY <1>1, <1>3 DEF Scheduled!Tick, Scheduled!TypeOK, ScheduleBounds
<1>4. ASSUME NEW r \in Repos, Scheduled!Join(r) \/ Scheduled!Leave(r)
      PROVE  Scheduled!TypeOK'
  <2>1. scope' \in SUBSET Repos /\ covered' \in [Scheduled!Slots -> SUBSET Repos]
    BY <1>1, <1>4 DEF Scheduled!Join, Scheduled!Leave
  <2> QED BY <1>1, <1>4, <2>1 DEF Scheduled!Join, Scheduled!Leave, Scheduled!TypeOK
<1>5. ASSUME NEW enabled \in BOOLEAN, Scheduled!Update(enabled)
      PROVE  Scheduled!TypeOK'
  BY <1>1, <1>5 DEF Scheduled!Update, Scheduled!TypeOK, ScheduleBounds
<1>6. ASSUME NEW l \in Loops, NEW p \in Scheduled!Pass, Scheduled!Begin(l, p),
             schedule' \in [enabled: BOOLEAN, next: 1..(MaxSlots + 1), revision: 0..MaxRevisions],
             runs' \in [Scheduled!Slots -> Scheduled!Run], outages' \in 0..MaxOutages,
             considered' \in [Scheduled!Slots -> SUBSET Repos],
             covered' \in [Scheduled!Slots -> SUBSET Repos],
             UNCHANGED <<clock, scope>>
      PROVE  Scheduled!TypeOK'
  <2>1. pass' \in [Loops -> Scheduled!Pass]
    BY <1>1, <1>6, BeginPass
  <2> QED BY <1>1, <1>6, <2>1 DEF Scheduled!TypeOK
<1>7. ASSUME NEW l \in Loops, Scheduled!ReadDue(l) PROVE Scheduled!TypeOK'
  <2> DEFINE p == [step |-> "start", slot |-> schedule.next, following |-> clock + 1]
  <2>1. p \in Scheduled!Pass
    BY <1>1, <1>7 DEF Scheduled!ReadDue, Scheduled!Pass, Scheduled!Slots, ScheduleBounds
  <2> QED BY <1>1, <1>6, <1>7, <2>1 DEF Scheduled!ReadDue
<1>8. ASSUME NEW l \in Loops, Scheduled!StartRun(l) PROVE Scheduled!TypeOK'
  <2> DEFINE p == pass[l]
  <2>1. p \in [step: {"start"}, slot: Scheduled!Slots, following: 1..(MaxSlots + 1)]
    BY <1>1, <1>8, PassKinds DEF Scheduled!StartRun
  <2>2. schedule' \in [enabled: BOOLEAN, next: 1..(MaxSlots + 1), revision: 0..MaxRevisions]
    BY <1>1, <1>8, <2>1 DEF Scheduled!StartRun
  <2>3. [runs[p.slot] EXCEPT !.state = "running"] \in Scheduled!Run
    BY <1>1, <2>1 DEF Scheduled!Run
  <2>4. runs' \in [Scheduled!Slots -> Scheduled!Run]
    BY <1>1, <1>8, <2>1, <2>3 DEF Scheduled!StartRun
  <2>5. covered' \in [Scheduled!Slots -> SUBSET Repos]
    BY <1>1, <1>8, <2>1 DEF Scheduled!StartRun
  <2> QED BY <1>1, <1>6, <1>8, <2>2, <2>4, <2>5, IdlePass DEF Scheduled!StartRun
<1>9. ASSUME NEW l \in Loops, NEW s \in Scheduled!Slots, NEW budget \in {0, PerTick},
             Scheduled!Resume(l, s, budget)
      PROVE  Scheduled!TypeOK'
  <2> DEFINE p == [step |-> "queue", slot |-> s, list |-> scope, position |-> runs[s].cursor,
                   left |-> budget, ok |-> runs[s].ok, failed |-> runs[s].failed]
  <2>1. runs[s] \in Scheduled!Run
    BY <1>1
  <2>2. p \in Scheduled!Pass
    BY <1>1, <2>1 DEF Scheduled!Run, Scheduled!Pass, ScheduleBounds
  <2>3. outages' \in 0..MaxOutages
    BY <1>1, <1>9 DEF Scheduled!Resume, ScheduleBounds
  <2> QED BY <1>1, <1>6, <1>9, <2>2, <2>3 DEF Scheduled!Resume
<1>10. ASSUME NEW l \in Loops, NEW r \in Repos, NEW outcome \in {"queued", "skipped", "failed"},
              Scheduled!Queue(l, r, outcome)
       PROVE  Scheduled!TypeOK'
  <2> DEFINE p == pass[l]
             next == [p EXCEPT !.position = @ + 1, !.left = @ - 1, !.ok = @ \/ outcome # "failed",
                               !.failed = @ \/ outcome = "failed"]
  <2>1. p \in [step: {"queue"}, slot: Scheduled!Slots, list: SUBSET Repos,
               position: 0..Scheduled!Cardinality(Repos), left: 0..PerTick,
               ok: BOOLEAN, failed: BOOLEAN]
    BY <1>1, <1>10, PassKinds DEF Scheduled!Queue
  <2>2. /\ r \in p.list /\ Scheduled!Place(p.list, r) = p.position /\ p.left > 0
        /\ considered' = [considered EXCEPT ![p.slot] = @ \cup {r}]
        /\ Scheduled!Begin(l, next)
    BY <1>10 DEF Scheduled!Queue
  <2>3. p.position < Scheduled!Cardinality(p.list)
    BY <2>1, <2>2, Places
  <2>4. /\ Scheduled!Cardinality(p.list) \in Nat
        /\ Scheduled!Cardinality(p.list) <= Scheduled!Cardinality(Repos)
    BY <2>1, Places
  <2>5. Scheduled!Cardinality(Repos) \in Nat /\ p.position \in Nat
    BY <2>1, Places
  <2>6. p.position + 1 <= Scheduled!Cardinality(Repos)
    BY <2>3, <2>4, <2>5
  <2>7. /\ p.position + 1 \in 0..Scheduled!Cardinality(Repos) /\ p.left - 1 \in 0..PerTick
        /\ (p.ok \/ outcome # "failed") \in BOOLEAN /\ (p.failed \/ outcome = "failed") \in BOOLEAN
    BY <2>1, <2>2, <2>5, <2>6 DEF ScheduleBounds
  <2>8. next \in [step: {"queue"}, slot: Scheduled!Slots, list: SUBSET Repos,
                  position: 0..Scheduled!Cardinality(Repos), left: 0..PerTick,
                  ok: BOOLEAN, failed: BOOLEAN]
    BY <2>1, <2>7
  <2> HIDE DEF next
  <2>9. next \in Scheduled!Pass
    BY <2>8 DEF Scheduled!Pass
  <2>10. considered' \in [Scheduled!Slots -> SUBSET Repos]
    BY <1>1, <2>1, <2>2
  <2> QED BY <1>1, <1>6, <1>10, <2>2, <2>9, <2>10 DEF Scheduled!Queue
<1>11. ASSUME NEW l \in Loops, Scheduled!StoreRun(l) PROVE Scheduled!TypeOK'
  <2> DEFINE p == pass[l]
             state == IF ~Scheduled!Finished(p) THEN "running"
                      ELSE IF ~p.failed THEN "completed" ELSE IF p.ok THEN "partial" ELSE "failed"
             stored == [state |-> state, cursor |-> p.position, ok |-> p.ok, failed |-> p.failed]
  <2>1. p \in [step: {"queue"}, slot: Scheduled!Slots, list: SUBSET Repos,
               position: 0..Scheduled!Cardinality(Repos), left: 0..PerTick,
               ok: BOOLEAN, failed: BOOLEAN]
    BY <1>1, <1>11, PassKinds DEF Scheduled!StoreRun
  <2>2. runs' = [runs EXCEPT ![p.slot] = stored]
    BY <1>11 DEF Scheduled!StoreRun
  <2>3. state \in {"running", "completed", "partial", "failed"}
    OBVIOUS
  <2> HIDE DEF state
  <2>4. stored \in Scheduled!Run
    BY <2>1, <2>3 DEF Scheduled!Run
  <2>5. runs' \in [Scheduled!Slots -> Scheduled!Run]
    BY <1>1, <2>1, <2>2, <2>4
  <2> QED BY <1>1, <1>6, <1>11, <2>5, IdlePass DEF Scheduled!StoreRun
<1>12. ASSUME NEW l \in Loops, Scheduled!Crash(l) PROVE Scheduled!TypeOK'
  <2>1. outages' \in 0..MaxOutages
    BY <1>1, <1>12 DEF Scheduled!Crash, ScheduleBounds
  <2> QED BY <1>1, <1>6, <1>12, <2>1, IdlePass DEF Scheduled!Crash
<1> QED BY <1>2, <1>3, <1>4, <1>5, <1>7, <1>8, <1>9, <1>10, <1>11, <1>12
        DEF Scheduled!Next, Scheduled!GoOn

\* The scope may grow under a stored place and under a pass.
LEMMA JoinStep ==
  ASSUME ScheduleBounds, ScheduleInv, NEW r \in Repos, Scheduled!Join(r)
  PROVE  ScheduleInv'
<1> USE DEF Scheduled!Join
<1>1. scope \in SUBSET Repos /\ scope' \in SUBSET Repos /\ scope \subseteq scope'
  BY DEF ScheduleInv, Scheduled!TypeOK
<1>2. Scheduled!TypeOK' /\ Scheduled!NoneSkippedSilently' /\ NotStarted'
  BY <1>1 DEF ScheduleInv, Scheduled!TypeOK, Scheduled!NoneSkippedSilently, Scheduled!Ended, NotStarted
<1>3. \A q : /\ Scheduled!Place(scope, q) <= Scheduled!Place(scope', q)
             /\ Scheduled!Place(scope, q) \in Nat /\ Scheduled!Place(scope', q) \in Nat
  BY <1>1, Places
<1>4. CursorIsCurrent'
  <2> SUFFICES ASSUME NEW s \in Scheduled!Slots
               PROVE  covered[s] \subseteq scope' /\ Passed(scope, runs[s].cursor, s)'
    BY DEF CursorIsCurrent
  <2>1. covered[s] \subseteq scope /\ Passed(scope, runs[s].cursor, s)
    BY DEF ScheduleInv, CursorIsCurrent
  <2>2. runs[s].cursor \in Nat
    BY Places DEF ScheduleInv, Scheduled!TypeOK, Scheduled!Run
  <2> QED BY <1>1, <1>3, <2>1, <2>2 DEF Passed
<1>5. PassIsCurrent'
  BY <1>1 DEF ScheduleInv, PassIsCurrent, Passed
<1> QED BY <1>2, <1>4, <1>5 DEF ScheduleInv

\* A pass that goes on with a run works on the scope of that moment.
LEMMA ResumeStep ==
  ASSUME ScheduleBounds, ScheduleInv, NEW l \in Loops, NEW s \in Scheduled!Slots,
         NEW budget \in {0, PerTick}, Scheduled!Resume(l, s, budget)
  PROVE  ScheduleInv'
<1> DEFINE p == [step |-> "queue", slot |-> s, list |-> scope, position |-> runs[s].cursor,
                 left |-> budget, ok |-> runs[s].ok, failed |-> runs[s].failed]
<1> USE DEF Scheduled!Resume
<1>1. runs[s] \in Scheduled!Run /\ scope \in SUBSET Repos
  BY DEF ScheduleInv, Scheduled!TypeOK
<1>2. p \in Scheduled!Pass
  BY <1>1 DEF Scheduled!Run, Scheduled!Pass, ScheduleBounds
<1>3. /\ pass' \in [Loops -> Scheduled!Pass] /\ pass'[l] = p
      /\ \A k \in Loops \ {l} : pass'[k] = pass[k]
  BY <1>2, BeginPass DEF ScheduleInv, Scheduled!TypeOK
<1>4. Scheduled!TypeOK'
  <2>1. outages' \in 0..MaxOutages
    BY DEF ScheduleInv, Scheduled!TypeOK, ScheduleBounds
  <2> QED BY <1>3, <2>1 DEF ScheduleInv, Scheduled!TypeOK
<1>5. Scheduled!NoneSkippedSilently' /\ CursorIsCurrent'
  BY DEF ScheduleInv, Scheduled!NoneSkippedSilently, Scheduled!Ended, CursorIsCurrent, Passed
<1>6. covered[s] \subseteq scope /\ Passed(scope, runs[s].cursor, s)
  BY DEF ScheduleInv, CursorIsCurrent
<1>7. PassIsCurrent'
  <2> SUFFICES ASSUME NEW k \in Loops, pass'[k].step = "queue"
               PROVE  /\ covered[pass'[k].slot] \subseteq pass'[k].list /\ pass'[k].list \subseteq scope
                      /\ Passed(pass[k].list, pass[k].position, pass[k].slot)'
    BY DEF PassIsCurrent
  <2>1. CASE k = l
    BY <1>3, <1>6, <2>1 DEF Passed
  <2>2. CASE k # l
    BY <1>3, <2>2 DEF ScheduleInv, PassIsCurrent, Passed
  <2> QED BY <2>1, <2>2
<1>8. NotStarted'
  BY <1>3 DEF ScheduleInv, NotStarted
<1> QED BY <1>4, <1>5, <1>7, <1>8 DEF ScheduleInv

\* A new run covers the scope, and starts at its first place.
LEMMA StartStep ==
  ASSUME ScheduleBounds, ScheduleInv, NEW l \in Loops, Scheduled!StartRun(l)
  PROVE  ScheduleInv'
<1> DEFINE p == pass[l]
           new == runs[p.slot].state = "none"
<1> USE DEF Scheduled!StartRun
<1>1. p \in [step: {"start"}, slot: Scheduled!Slots, following: 1..(MaxSlots + 1)]
  BY PassKinds DEF ScheduleInv, Scheduled!TypeOK
<1>2. /\ pass' \in [Loops -> Scheduled!Pass] /\ pass'[l] = Scheduled!Idle
      /\ \A k \in Loops \ {l} : pass'[k] = pass[k]
  BY BeginPass, IdlePass DEF ScheduleInv, Scheduled!TypeOK
<1>3. \A k \in Loops : pass'[k].step = "queue" => pass'[k] = pass[k] /\ pass[k].step = "queue"
  BY <1>2, IdlePass
<1>4. runs \in [Scheduled!Slots -> Scheduled!Run] /\ scope \in SUBSET Repos
      /\ covered \in [Scheduled!Slots -> SUBSET Repos]
  BY DEF ScheduleInv, Scheduled!TypeOK
<1>5. /\ runs' \in [Scheduled!Slots -> Scheduled!Run]
      /\ \A s \in Scheduled!Slots : runs'[s].cursor = runs[s].cursor
      /\ \A s \in Scheduled!Slots :
           runs'[s].state = IF new /\ s = p.slot THEN "running" ELSE runs[s].state
  <2>1. CASE new
    <3>1. runs' = [runs EXCEPT ![p.slot].state = "running"]
      BY <2>1
    <3>2. [runs[p.slot] EXCEPT !.state = "running"] \in Scheduled!Run
      BY <1>1, <1>4 DEF Scheduled!Run
    <3> QED BY <1>1, <1>4, <2>1, <3>1, <3>2 DEF Scheduled!Run
  <2>2. CASE ~new
    BY <1>4, <2>2
  <2> QED BY <2>1, <2>2
<1>6. /\ covered' \in [Scheduled!Slots -> SUBSET Repos]
      /\ \A s \in Scheduled!Slots : covered'[s] = IF new /\ s = p.slot THEN scope ELSE covered[s]
  BY <1>1, <1>4
<1>7. Scheduled!TypeOK'
  <2>1. schedule' \in [enabled: BOOLEAN, next: 1..(MaxSlots + 1), revision: 0..MaxRevisions]
    BY <1>1 DEF ScheduleInv, Scheduled!TypeOK
  <2> QED BY <1>2, <1>5, <1>6, <2>1 DEF ScheduleInv, Scheduled!TypeOK
<1>8. Scheduled!NoneSkippedSilently'
  <2> SUFFICES ASSUME NEW s \in Scheduled!Slots, runs'[s].state \notin {"none", "running"}
               PROVE  covered'[s] \subseteq considered[s]
    BY DEF Scheduled!NoneSkippedSilently, Scheduled!Ended
  <2>1. ~(new /\ s = p.slot) /\ runs'[s].state = runs[s].state
    BY <1>5
  <2>2. covered'[s] = covered[s]
    BY <1>6, <2>1
  <2> QED BY <2>1, <2>2 DEF ScheduleInv, Scheduled!NoneSkippedSilently, Scheduled!Ended
<1>9. CursorIsCurrent'
  <2> SUFFICES ASSUME NEW s \in Scheduled!Slots
               PROVE  covered'[s] \subseteq scope /\ Passed(scope, runs[s].cursor, s)'
    BY DEF CursorIsCurrent
  <2>1. CASE new /\ s = p.slot
    <3>1. runs'[s].cursor = 0 /\ covered'[s] = scope
      BY <1>5, <1>6, <2>1 DEF ScheduleInv, NotStarted
    <3> DEFINE place(q) == Scheduled!Place(scope, q)
    <3>3. \A q : place(q) \in Nat
      BY <1>4, Places
    <3> HIDE DEF place
    <3>4. \A q : ~(place(q) < 0)
      BY <3>3
    <3>2. \A q : ~(Scheduled!Place(scope, q) < 0)
      BY <3>4 DEF place
    <3> QED BY <3>1, <3>2 DEF Passed
  <2>2. CASE ~(new /\ s = p.slot)
    <3>1. covered'[s] = covered[s] /\ runs'[s].cursor = runs[s].cursor
      BY <1>5, <1>6, <2>2
    <3> QED BY <3>1 DEF ScheduleInv, CursorIsCurrent, Passed
  <2> QED BY <2>1, <2>2
<1>10. PassIsCurrent'
  <2> SUFFICES ASSUME NEW k \in Loops, pass'[k].step = "queue"
               PROVE  /\ covered'[pass'[k].slot] \subseteq pass'[k].list /\ pass'[k].list \subseteq scope
                      /\ Passed(pass[k].list, pass[k].position, pass[k].slot)'
    BY DEF PassIsCurrent
  <2>1. pass'[k] = pass[k] /\ pass[k].step = "queue" /\ pass[k].slot \in Scheduled!Slots
    BY <1>3, PassKinds DEF ScheduleInv, Scheduled!TypeOK
  <2>2. ~(new /\ pass[k].slot = p.slot)
    BY <1>1, <2>1 DEF ScheduleInv, NotStarted
  <2>3. covered'[pass[k].slot] = covered[pass[k].slot]
    BY <1>6, <2>1, <2>2
  <2> QED BY <2>1, <2>3 DEF ScheduleInv, PassIsCurrent, Passed
<1>11. NotStarted'
  <2> SUFFICES ASSUME NEW s \in Scheduled!Slots, runs'[s].state = "none"
               PROVE  /\ runs'[s].cursor = 0
                      /\ \A k \in Loops : pass'[k].step = "queue" => pass'[k].slot # s
    BY DEF NotStarted
  <2>1. runs[s].state = "none" /\ runs'[s].cursor = runs[s].cursor
    BY <1>5
  <2> QED BY <1>3, <2>1 DEF ScheduleInv, NotStarted
<1> QED BY <1>7, <1>8, <1>9, <1>10, <1>11 DEF ScheduleInv

\* The next repository is queued, skipped or failed: no other has its place.
LEMMA QueueStep ==
  ASSUME ScheduleBounds, ScheduleInv, NEW l \in Loops, NEW r \in Repos,
         NEW outcome \in {"queued", "skipped", "failed"}, Scheduled!Queue(l, r, outcome)
  PROVE  ScheduleInv'
<1> DEFINE p == pass[l]
           next == [p EXCEPT !.position = @ + 1, !.left = @ - 1, !.ok = @ \/ outcome # "failed",
                             !.failed = @ \/ outcome = "failed"]
<1> USE DEF Scheduled!Queue
<1>1. p \in [step: {"queue"}, slot: Scheduled!Slots, list: SUBSET Repos,
             position: 0..Scheduled!Cardinality(Repos), left: 0..PerTick, ok: BOOLEAN, failed: BOOLEAN]
  BY PassKinds DEF ScheduleInv, Scheduled!TypeOK
<1>2. /\ r \in p.list /\ Scheduled!Place(p.list, r) = p.position /\ p.left > 0
      /\ considered' = [considered EXCEPT ![p.slot] = @ \cup {r}]
      /\ Scheduled!Begin(l, next)
  OBVIOUS
<1>3. Scheduled!Cardinality(Repos) \in Nat /\ p.position + 1 <= Scheduled!Cardinality(Repos)
  <2>1. p.position < Scheduled!Cardinality(p.list)
    BY <1>1, <1>2, Places
  <2>2. /\ Scheduled!Cardinality(p.list) \in Nat
        /\ Scheduled!Cardinality(p.list) <= Scheduled!Cardinality(Repos)
    BY <1>1, Places
  <2>3. Scheduled!Cardinality(Repos) \in Nat /\ p.position \in Nat
    BY <1>1, Places
  <2> QED BY <2>1, <2>2, <2>3
<1>4. /\ next \in Scheduled!Pass
      /\ next.step = "queue" /\ next.slot = p.slot /\ next.list = p.list
      /\ next.position = p.position + 1
  <2>1. /\ p.position + 1 \in 0..Scheduled!Cardinality(Repos) /\ p.left - 1 \in 0..PerTick
        /\ (p.ok \/ outcome # "failed") \in BOOLEAN /\ (p.failed \/ outcome = "failed") \in BOOLEAN
    BY <1>1, <1>2, <1>3 DEF ScheduleBounds
  <2>2. next \in [step: {"queue"}, slot: Scheduled!Slots, list: SUBSET Repos,
                  position: 0..Scheduled!Cardinality(Repos), left: 0..PerTick,
                  ok: BOOLEAN, failed: BOOLEAN]
    BY <1>1, <2>1
  <2>3. /\ next.step = "queue" /\ next.slot = p.slot /\ next.list = p.list
        /\ next.position = p.position + 1
    BY <1>1
  <2> HIDE DEF next
  <2> QED BY <2>2, <2>3 DEF Scheduled!Pass
<1>5. /\ pass' \in [Loops -> Scheduled!Pass] /\ pass'[l] = next
      /\ \A k \in Loops \ {l} : pass'[k] = pass[k]
  BY <1>2, <1>4, BeginPass DEF ScheduleInv, Scheduled!TypeOK
<1> HIDE DEF next
<1>6. /\ considered' \in [Scheduled!Slots -> SUBSET Repos]
      /\ \A s \in Scheduled!Slots : considered[s] \subseteq considered'[s]
      /\ r \in considered'[p.slot]
  BY <1>1, <1>2 DEF ScheduleInv, Scheduled!TypeOK
<1>7. Scheduled!TypeOK'
  BY <1>5, <1>6 DEF ScheduleInv, Scheduled!TypeOK
<1>8. Scheduled!NoneSkippedSilently' /\ CursorIsCurrent'
  BY <1>6 DEF ScheduleInv, Scheduled!NoneSkippedSilently, Scheduled!Ended, CursorIsCurrent, Passed
<1>9. /\ covered[p.slot] \subseteq p.list /\ p.list \subseteq scope
      /\ \A q \in covered[p.slot] : Scheduled!Place(p.list, q) < p.position => q \in considered[p.slot]
  BY DEF ScheduleInv, PassIsCurrent, Passed
<1>10. PassIsCurrent'
  <2> SUFFICES ASSUME NEW k \in Loops, pass'[k].step = "queue"
               PROVE  /\ covered[pass'[k].slot] \subseteq pass'[k].list /\ pass'[k].list \subseteq scope
                      /\ Passed(pass[k].list, pass[k].position, pass[k].slot)'
    BY DEF PassIsCurrent
  <2>1. CASE k = l
    <3> SUFFICES ASSUME NEW q \in covered[p.slot], Scheduled!Place(p.list, q) < p.position + 1
                 PROVE  q \in considered'[p.slot]
      BY <1>4, <1>5, <1>9, <2>1 DEF Passed
    <3>1. Scheduled!Place(p.list, q) \in Nat /\ p.position \in Nat /\ q \in p.list
      BY <1>1, <1>9, PlaceIsNat
    <3>2. CASE Scheduled!Place(p.list, q) < p.position
      BY <1>1, <1>6, <1>9, <3>2
    <3>3. CASE Scheduled!Place(p.list, q) = p.position
      <4>1. q = r
        BY <1>1, <1>2, <3>1, <3>3, Places
      <4> QED BY <1>6, <4>1
    <3> QED BY <3>1, <3>2, <3>3
  <2>2. CASE k # l
    <3>1. pass'[k] = pass[k] /\ pass[k].slot \in Scheduled!Slots
      BY <1>5, <2>2, PassKinds DEF ScheduleInv, Scheduled!TypeOK
    <3> QED BY <1>6, <3>1 DEF ScheduleInv, PassIsCurrent, Passed
  <2> QED BY <2>1, <2>2
<1>11. NotStarted'
  <2>1. \A k \in Loops : pass'[k].step = "queue" =>
          pass[k].step = "queue" /\ pass'[k].slot = pass[k].slot
    BY <1>4, <1>5
  <2> QED BY <2>1 DEF ScheduleInv, NotStarted
<1> QED BY <1>7, <1>8, <1>10, <1>11 DEF ScheduleInv

\* A pass stores its place, which is one of the scope as well; at the end of its list every
\* repository has been considered.
LEMMA StoreStep ==
  ASSUME ScheduleBounds, ScheduleInv, NEW l \in Loops, Scheduled!StoreRun(l)
  PROVE  ScheduleInv'
<1> DEFINE p == pass[l]
           state == IF ~Scheduled!Finished(p) THEN "running"
                    ELSE IF ~p.failed THEN "completed" ELSE IF p.ok THEN "partial" ELSE "failed"
           stored == [state |-> state, cursor |-> p.position, ok |-> p.ok, failed |-> p.failed]
<1> USE DEF Scheduled!StoreRun
<1>1. p \in [step: {"queue"}, slot: Scheduled!Slots, list: SUBSET Repos,
             position: 0..Scheduled!Cardinality(Repos), left: 0..PerTick, ok: BOOLEAN, failed: BOOLEAN]
  BY PassKinds DEF ScheduleInv, Scheduled!TypeOK
<1>2. runs' = [runs EXCEPT ![p.slot] = stored]
  OBVIOUS
<1>3. state \in {"running", "completed", "partial", "failed"}
  OBVIOUS
<1>4. ~Scheduled!Finished(p) => state = "running"
  OBVIOUS
<1> HIDE DEF state
<1>5. stored \in Scheduled!Run
  BY <1>1, <1>3 DEF Scheduled!Run
<1>6. /\ pass' \in [Loops -> Scheduled!Pass] /\ pass'[l] = Scheduled!Idle
      /\ \A k \in Loops \ {l} : pass'[k] = pass[k]
  BY BeginPass, IdlePass DEF ScheduleInv, Scheduled!TypeOK
<1>7. \A k \in Loops : pass'[k].step = "queue" => pass'[k] = pass[k] /\ pass[k].step = "queue"
  BY <1>6, IdlePass
<1>8. Scheduled!TypeOK'
  BY <1>1, <1>2, <1>5, <1>6 DEF ScheduleInv, Scheduled!TypeOK
<1>9. \A s \in Scheduled!Slots : runs'[s] = IF s = p.slot THEN stored ELSE runs[s]
  BY <1>1, <1>2 DEF ScheduleInv, Scheduled!TypeOK
<1>10. /\ covered[p.slot] \subseteq p.list /\ p.list \subseteq scope
       /\ \A q \in covered[p.slot] : Scheduled!Place(p.list, q) < p.position => q \in considered[p.slot]
  BY DEF ScheduleInv, PassIsCurrent, Passed
<1>11. scope \in SUBSET Repos
  BY DEF ScheduleInv, Scheduled!TypeOK
<1>12. Scheduled!NoneSkippedSilently'
  <2> SUFFICES ASSUME NEW s \in Scheduled!Slots, runs'[s].state \notin {"none", "running"}
               PROVE  covered[s] \subseteq considered[s]
    BY DEF Scheduled!NoneSkippedSilently, Scheduled!Ended
  <2>1. CASE s = p.slot
    <3>1. Scheduled!Finished(p)
      BY <1>4, <1>9, <2>1
    <3>2. p.position >= Scheduled!Cardinality(p.list)
      BY <3>1 DEF Scheduled!Finished
    <3>3. ASSUME NEW q \in covered[s] PROVE q \in considered[s]
      <4>1. q \in p.list
        BY <1>10, <2>1, <3>3
      <4>2. Scheduled!Place(p.list, q) < Scheduled!Cardinality(p.list)
        BY <1>1, <4>1, Places
      <4>3. /\ Scheduled!Place(p.list, q) \in Nat /\ Scheduled!Cardinality(p.list) \in Nat
            /\ p.position \in Nat
        BY <1>1, Places
      <4>4. Scheduled!Place(p.list, q) < p.position
        BY <3>2, <4>2, <4>3
      <4> QED BY <1>10, <2>1, <3>3, <4>4
    <3> QED BY <3>3
  <2>2. CASE s # p.slot
    BY <1>9, <2>2 DEF ScheduleInv, Scheduled!NoneSkippedSilently, Scheduled!Ended
  <2> QED BY <2>1, <2>2
<1>13. CursorIsCurrent'
  <2> SUFFICES ASSUME NEW s \in Scheduled!Slots
               PROVE  covered[s] \subseteq scope /\ Passed(scope, runs[s].cursor, s)'
    BY DEF CursorIsCurrent
  <2>1. CASE s = p.slot
    <3> SUFFICES ASSUME NEW q \in covered[s], Scheduled!Place(scope, q) < p.position
                 PROVE  q \in considered[s]
      BY <1>9, <1>10, <2>1 DEF Passed
    <3>1. Scheduled!Place(p.list, q) <= Scheduled!Place(scope, q)
      BY <1>1, <1>10, <1>11, Places
    <3>2. /\ Scheduled!Place(p.list, q) \in Nat /\ Scheduled!Place(scope, q) \in Nat
          /\ p.position \in Nat
      BY <1>1, <1>11, PlaceIsNat
    <3>3. Scheduled!Place(p.list, q) < p.position
      BY <3>1, <3>2
    <3> QED BY <1>10, <2>1, <3>3
  <2>2. CASE s # p.slot
    BY <1>9, <2>2 DEF ScheduleInv, CursorIsCurrent, Passed
  <2> QED BY <2>1, <2>2
<1>14. PassIsCurrent'
  BY <1>7 DEF ScheduleInv, PassIsCurrent, Passed
<1>15. NotStarted'
  <2>1. \A s \in Scheduled!Slots : runs'[s].state = "none" => runs'[s] = runs[s]
    BY <1>3, <1>9
  <2> QED BY <1>7, <2>1 DEF ScheduleInv, NotStarted
<1> QED BY <1>8, <1>12, <1>13, <1>14, <1>15 DEF ScheduleInv

\* What touches neither runs nor the scope, and begins no pass on a run.
LEMMA QuietScheduleStep ==
  ASSUME ScheduleInv, Scheduled!TypeOK', UNCHANGED <<runs, scope, considered, covered>>,
         \A l \in Loops : pass'[l].step = "queue" => pass'[l] = pass[l]
  PROVE  ScheduleInv'
<1>1. Scheduled!NoneSkippedSilently' /\ CursorIsCurrent'
  BY DEF ScheduleInv, Scheduled!NoneSkippedSilently, Scheduled!Ended, CursorIsCurrent, Passed
<1>2. PassIsCurrent'
  BY DEF ScheduleInv, PassIsCurrent, Passed
<1>3. NotStarted'
  BY DEF ScheduleInv, NotStarted
<1> QED BY <1>1, <1>2, <1>3 DEF ScheduleInv

LEMMA ScheduleStep ==
  ASSUME ScheduleBounds, ~ScopeShrinks, ScheduleInv, [Scheduled!Next]_(Scheduled!vars)
  PROVE  ScheduleInv'
<1>1. Scheduled!TypeOK /\ pass \in [Loops -> Scheduled!Pass]
  BY DEF ScheduleInv, Scheduled!TypeOK
<1>2. CASE UNCHANGED Scheduled!vars
  <2>1. Scheduled!TypeOK'
    BY <1>1, <1>2 DEF Scheduled!vars, Scheduled!TypeOK
  <2>2. UNCHANGED <<runs, scope, considered, covered, pass>>
    BY <1>2 DEF Scheduled!vars
  <2> QED BY <2>1, <2>2, QuietScheduleStep
<1>3. CASE Scheduled!Tick
  <2>1. Scheduled!TypeOK'
    BY <1>1, <1>3 DEF Scheduled!Tick, Scheduled!TypeOK, ScheduleBounds
  <2>2. UNCHANGED <<runs, scope, considered, covered, pass>>
    BY <1>3 DEF Scheduled!Tick
  <2> QED BY <2>1, <2>2, QuietScheduleStep
<1>4. ASSUME NEW enabled \in BOOLEAN, Scheduled!Update(enabled) PROVE ScheduleInv'
  <2>1. Scheduled!TypeOK'
    BY <1>1, <1>4 DEF Scheduled!Update, Scheduled!TypeOK, ScheduleBounds
  <2>2. UNCHANGED <<runs, scope, considered, covered, pass>>
    BY <1>4 DEF Scheduled!Update
  <2> QED BY <2>1, <2>2, QuietScheduleStep
<1>5. ASSUME NEW l \in Loops, Scheduled!ReadDue(l) PROVE ScheduleInv'
  <2> DEFINE p == [step |-> "start", slot |-> schedule.next, following |-> clock + 1]
  <2>1. p \in Scheduled!Pass
    BY <1>1, <1>5 DEF Scheduled!ReadDue, Scheduled!TypeOK, Scheduled!Pass, Scheduled!Slots, ScheduleBounds
  <2>2. Scheduled!Begin(l, p) /\ UNCHANGED <<clock, schedule, runs, scope, outages, considered, covered>>
    BY <1>5 DEF Scheduled!ReadDue
  <2>3. /\ pass' \in [Loops -> Scheduled!Pass] /\ pass'[l] = p
        /\ \A k \in Loops \ {l} : pass'[k] = pass[k]
    BY <1>1, <2>1, <2>2, BeginPass
  <2>4. Scheduled!TypeOK'
    BY <1>1, <2>2, <2>3 DEF Scheduled!TypeOK
  <2> QED BY <2>2, <2>3, <2>4, QuietScheduleStep
<1>6. ASSUME NEW l \in Loops, Scheduled!Crash(l) PROVE ScheduleInv'
  <2>1. /\ pass' \in [Loops -> Scheduled!Pass] /\ pass'[l] = Scheduled!Idle
        /\ \A k \in Loops \ {l} : pass'[k] = pass[k]
    BY <1>1, <1>6, IdlePass, BeginPass DEF Scheduled!Crash
  <2>2. outages' \in 0..MaxOutages /\ UNCHANGED <<clock, schedule, runs, scope, considered, covered>>
    BY <1>1, <1>6 DEF Scheduled!Crash, Scheduled!TypeOK, ScheduleBounds
  <2>3. Scheduled!TypeOK'
    BY <1>1, <2>1, <2>2 DEF Scheduled!TypeOK
  <2> QED BY <2>1, <2>2, <2>3, IdlePass, QuietScheduleStep
<1>7. ASSUME NEW r \in Repos, Scheduled!Leave(r) PROVE ScheduleInv'
  BY <1>7 DEF Scheduled!Leave
<1>8. ASSUME NEW l \in Loops, Scheduled!GoOn(l) PROVE ScheduleInv'
  BY <1>5, <1>8, StartStep, StoreStep, ResumeStep, QueueStep DEF Scheduled!GoOn
<1> QED BY <1>2, <1>3, <1>4, <1>6, <1>7, <1>8, JoinStep DEF Scheduled!Next

\* "Skipped with a reason, never silently": whatever repositories, loops, slots, edits,
\* backlogs and crashes there are, and although several loops process one run and store
\* its place without looking at the row, an ended run has considered every repository that
\* it covered, if no repository leaves the scope of the schedule (governance/schedules.py,
\* _process_runs).
THEOREM NothingIsSkipped ==
  ASSUME ScheduleBounds, ~ScopeShrinks
  PROVE  Scheduled!Spec => []Scheduled!NoneSkippedSilently
<1>1. ScheduleInv /\ [Scheduled!Next]_(Scheduled!vars) => ScheduleInv'
  BY ScheduleStep
<1>2. Scheduled!Init => ScheduleInv
  BY ScheduleInit
<1>3. ScheduleInv => Scheduled!NoneSkippedSilently
  BY DEF ScheduleInv
<1> QED BY <1>1, <1>2, <1>3, PTL DEF Scheduled!Spec
=============================================================================
