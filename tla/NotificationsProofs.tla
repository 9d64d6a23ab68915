-------------------------- MODULE NotificationsProofs --------------------------
(***************************************************************************)
(* Proofs about the records of MCRecords: Notifications, for any number of *)
(* events, destinations, processes, attempts and losses, as long as no     *)
(* attempt outlives its lease, and the types of InstallationAccess and     *)
(* Sessions.                                                               *)
(***************************************************************************)
EXTENDS MCRecords, TLAPS

Busy(p) == ~Idle(p)
Row(p) == deliveries[process[p].key][process[p].dest]

\* The attempt a process makes is leased to it.  Its record is pending, unless
\* the endpoint was removed: then it is cancelled, or deleted since.
SenderOwns ==
  \A p \in Processes : Busy(p) =>
    \/ Row(p).status = "none" /\ process[p].dest \in removed
    \/ /\ Row(p).lease = "live"
       /\ Row(p).status = "pending" \/ (Row(p).status = "cancelled"
                                        /\ process[p].dest \in removed)

\* A pending delivery, and one that is attempted, has an attempt left.
AttemptsLeft ==
  /\ \A k \in Keys, d \in Destinations :
       deliveries[k][d].status = "pending" => deliveries[k][d].attempts < MaxAttempts
  /\ \A p \in Processes :
       /\ Busy(p) => Row(p).attempts < MaxAttempts
       /\ process[p].step \in {"send", "store"} => process[p].attempts < MaxAttempts

Inv == TypeOK /\ SenderOwns /\ AttemptsLeft /\ OneSender

-----------------------------------------------------------------------------
\* What a process that is not idle works on.
LEMMA BusyType ==
  ASSUME TypeOK, NEW p \in Processes, Busy(p)
  PROVE  /\ process[p].key \in Keys
         /\ process[p].dest \in Destinations
         /\ process[p].step \in {"attempt", "send", "store"}
         /\ process[p].step \in {"send", "store"} => process[p].attempts \in 0..MaxAttempts
         /\ process[p].step = "store" => process[p].outcome \in Outcome
<1>1. process[p] \in Process
  BY DEF TypeOK
<1>. QED
  BY <1>1 DEF Process, Busy, Idle

\* The record of a delivery.
LEMMA RowType ==
  ASSUME TypeOK, NEW k \in Keys, NEW d \in Destinations
  PROVE  deliveries[k][d] \in Delivery
BY DEF TypeOK

\* Changing the records of one event keeps the types.
LEMMA RowsType ==
  ASSUME TypeOK, NEW k \in Keys, NEW f \in [Destinations -> Delivery],
         deliveries' = [deliveries EXCEPT ![k] = f]
  PROVE  deliveries' \in [Keys -> [Destinations -> Delivery]]
BY DEF TypeOK

\* Changing one record keeps the types.
LEMMA SetRowType ==
  ASSUME TypeOK, NEW k \in Keys, NEW d \in Destinations, NEW r \in Delivery,
         deliveries' = [deliveries EXCEPT ![k][d] = r]
  PROVE  /\ deliveries' \in [Keys -> [Destinations -> Delivery]]
         /\ deliveries'[k][d] = r
         /\ \A j \in Keys, e \in Destinations :
              <<j, e>> # <<k, d>> => deliveries'[j][e] = deliveries[j][e]
BY DEF TypeOK

\* Ending an attempt keeps the types, and leaves the other processes alone.
LEMMA StopType ==
  ASSUME TypeOK, NEW p \in Processes, Stop(p)
  PROVE  /\ process' \in [Processes -> Process]
         /\ process'[p].step = "idle"
         /\ \A q \in Processes : q # p => process'[q] = process[q]
BY DEF TypeOK, Stop, Process

\* So does a process that moves to another step.
LEMMA MoveType ==
  ASSUME TypeOK, NEW p \in Processes, NEW x \in Process,
         process' = [process EXCEPT ![p] = x]
  PROVE  /\ process' \in [Processes -> Process]
         /\ process'[p] = x
         /\ \A q \in Processes : q # p => process'[q] = process[q]
BY DEF TypeOK

-----------------------------------------------------------------------------
\* A step that changes no record, process or endpoint keeps the invariant.
LEMMA Frame ==
  ASSUME Inv, UNCHANGED <<deliveries, process, removed>>
  PROVE  (SenderOwns /\ AttemptsLeft /\ OneSender)'
BY DEF Inv, SenderOwns, AttemptsLeft, OneSender, Busy, Idle, Row

\* emit
LEMMA EmitStep ==
  ASSUME Inv, NEW k \in Keys, Emit(k) \/ GrowOld(k)
  PROVE  Inv'
<1>1. (SenderOwns /\ AttemptsLeft /\ OneSender)'
  BY Frame DEF Emit, GrowOld
<1>2. TypeOK'
  BY DEF Inv, TypeOK, Emit, GrowOld, Event, NoEvent
<1>. QED
  BY <1>1, <1>2 DEF Inv

\* update_organization
LEMMA SettingsStep ==
  ASSUME Inv, NEW d \in Destinations, SetEnabled(d)
  PROVE  Inv'
<1>1. (SenderOwns /\ AttemptsLeft /\ OneSender)'
  BY Frame DEF SetEnabled
<1>2. TypeOK'
  BY DEF Inv, TypeOK, SetEnabled
<1>. QED
  BY <1>1, <1>2 DEF Inv

\* _dispatch adds records only for endpoints that were not removed.
LEMMA DispatchStep ==
  ASSUME Inv, NEW k \in Keys, Dispatch(k)
  PROVE  Inv'
<1>. DEFINE f == [d \in Destinations |->
       IF d \in Targets /\ deliveries[k][d].status = "none"
         THEN NewDelivery ELSE deliveries[k][d]]
<1>1. /\ deliveries' = [deliveries EXCEPT ![k] = f]
      /\ events' = [events EXCEPT ![k].dispatched = TRUE]
      /\ UNCHANGED <<enabled, removed, process, sends, losses>>
  BY DEF Dispatch, Inv, TypeOK
<1>2. f \in [Destinations -> Delivery]
  <2>1. NewDelivery \in Delivery
    BY NotificationsAssumption DEF NewDelivery, NoDelivery, Delivery
  <2>. QED
    BY <2>1, RowType DEF Inv
<1>3. TypeOK'
  <2>1. deliveries' \in [Keys -> [Destinations -> Delivery]]
    BY <1>1, <1>2, RowsType DEF Inv
  <2>. QED
    BY <1>1, <2>1 DEF Inv, TypeOK, Event
<1>4. \A j \in Keys, d \in Destinations :
        \/ deliveries'[j][d] = deliveries[j][d]
        \/ deliveries[j][d].status = "none" /\ d \notin removed /\ deliveries'[j][d] = NewDelivery
  BY <1>1 DEF Inv, TypeOK, Targets
<1>5. ASSUME NEW p \in Processes, Busy(p) PROVE Row(p)' = Row(p)
  <2>1. process[p].key \in Keys /\ process[p].dest \in Destinations
    BY <1>5, BusyType DEF Inv
  <2>2. Row(p).status = "none" => process[p].dest \in removed
    BY <1>5 DEF Inv, SenderOwns
  <2>. QED
    BY <1>1, <1>4, <2>1, <2>2 DEF Row
<1>6. SenderOwns'
  BY <1>1, <1>5 DEF Inv, SenderOwns, Busy, Idle
<1>7. AttemptsLeft'
  <2>1. \A j \in Keys, d \in Destinations :
          deliveries'[j][d].status = "pending" => deliveries'[j][d].attempts < MaxAttempts
    BY <1>4, NotificationsAssumption DEF Inv, AttemptsLeft, NewDelivery, NoDelivery
  <2>. QED
    BY <1>1, <1>5, <2>1 DEF Inv, AttemptsLeft, Busy, Idle
<1>8. OneSender'
  BY <1>1 DEF Inv, OneSender, Idle
<1>. QED
  BY <1>3, <1>6, <1>7, <1>8 DEF Inv

\* purge_expired deletes an attempted delivery only if it was cancelled.
LEMMA PurgeStep ==
  ASSUME Inv, NEW k \in Keys, Purge(k)
  PROVE  Inv'
<1>. DEFINE f == [d \in Destinations |-> NoDelivery]
<1>1. /\ deliveries' = [deliveries EXCEPT ![k] = f]
      /\ events' = [events EXCEPT ![k] = NoEvent]
      /\ sends' = [sends EXCEPT ![k] = [d \in Destinations |-> 0]]
      /\ UNCHANGED <<enabled, removed, process, losses>>
      /\ \A d \in Destinations : deliveries[k][d].status # "pending"
  BY DEF Purge, Purgeable
<1>2. NoDelivery \in Delivery /\ NoDelivery.status = "none" /\ NoDelivery.attempts = 0
  BY NotificationsAssumption DEF NoDelivery, Delivery
<1>3. TypeOK'
  <2>0. f \in [Destinations -> Delivery]
    BY <1>2
  <2>1. deliveries' \in [Keys -> [Destinations -> Delivery]]
    BY <1>1, <2>0, RowsType DEF Inv
  <2>2. sends' \in [Keys -> [Destinations -> 0..(SendLimit + 1)]]
    BY <1>1, NotificationsAssumption DEF Inv, TypeOK, SendLimit
  <2>. QED
    BY <1>1, <2>1, <2>2 DEF Inv, TypeOK, Event, NoEvent
<1>4. \A j \in Keys, d \in Destinations :
        \/ deliveries'[j][d] = deliveries[j][d]
        \/ deliveries[j][d].status # "pending" /\ deliveries'[j][d] = NoDelivery
  BY <1>1 DEF Inv, TypeOK
<1>5. ASSUME NEW p \in Processes, Busy(p)
      PROVE  \/ Row(p)' = Row(p)
             \/ process[p].dest \in removed /\ Row(p)' = NoDelivery
  <2>1. process[p].key \in Keys /\ process[p].dest \in Destinations
    BY <1>5, BusyType DEF Inv
  <2>2. Row(p).status = "pending" \/ process[p].dest \in removed
    BY <1>5 DEF Inv, SenderOwns
  <2>. QED
    BY <1>1, <1>4, <2>1, <2>2 DEF Row
<1>6. SenderOwns'
  BY <1>1, <1>2, <1>5 DEF Inv, SenderOwns, Busy, Idle
<1>7. AttemptsLeft'
  <2>1. \A j \in Keys, d \in Destinations :
          deliveries'[j][d].status = "pending" => deliveries'[j][d].attempts < MaxAttempts
    BY <1>2, <1>4 DEF Inv, AttemptsLeft
  <2>2. ASSUME NEW p \in Processes, Busy(p) PROVE Row(p)'.attempts < MaxAttempts
    BY <1>2, <1>5, <2>2, NotificationsAssumption DEF Inv, AttemptsLeft
  <2>. QED
    BY <1>1, <2>1, <2>2 DEF Inv, AttemptsLeft, Busy, Idle
<1>8. OneSender'
  BY <1>1 DEF Inv, OneSender, Idle
<1>. QED
  BY <1>3, <1>6, <1>7, <1>8 DEF Inv

\* remove_webhook cancels also what is being attempted.
LEMMA RemoveStep ==
  ASSUME Inv, NEW d \in Destinations, RemoveWebhook(d)
  PROVE  Inv'
<1>1. /\ d \in Endpoints
      /\ removed' = removed \cup {d}
      /\ UNCHANGED <<events, enabled, process, sends, losses>>
  BY DEF RemoveWebhook
<1>2. \A k \in Keys, e \in Destinations :
        \/ deliveries'[k][e] = deliveries[k][e] /\ (e # d \/ deliveries[k][e].status # "pending")
        \/ /\ e = d /\ deliveries[k][e].status = "pending"
           /\ deliveries'[k][e] = [deliveries[k][e] EXCEPT !.status = "cancelled"]
  BY DEF RemoveWebhook, Inv, TypeOK
<1>3. ASSUME NEW k \in Keys, NEW e \in Destinations
      PROVE  /\ deliveries'[k][e] \in Delivery
             /\ deliveries'[k][e].attempts = deliveries[k][e].attempts
             /\ deliveries'[k][e].lease = deliveries[k][e].lease
             /\ \/ deliveries'[k][e].status = deliveries[k][e].status
                \/ /\ e = d /\ deliveries[k][e].status = "pending"
                   /\ deliveries'[k][e].status = "cancelled"
  <2>1. deliveries[k][e] \in Delivery
    BY RowType DEF Inv
  <2>2. CASE deliveries'[k][e] = deliveries[k][e]
    BY <2>1, <2>2
  <2>3. CASE /\ e = d /\ deliveries[k][e].status = "pending"
             /\ deliveries'[k][e] = [deliveries[k][e] EXCEPT !.status = "cancelled"]
    BY <2>1, <2>3 DEF Delivery
  <2>. QED
    BY <1>2, <2>2, <2>3
<1>4. TypeOK'
  <2>1. deliveries' = [k \in Keys |-> [e \in Destinations |-> deliveries'[k][e]]]
    BY DEF RemoveWebhook, Inv, TypeOK
  <2>2. deliveries' \in [Keys -> [Destinations -> Delivery]]
    BY <1>3, <2>1
  <2>. QED
    BY <1>1, <2>2 DEF Inv, TypeOK
<1>5. \A p \in Processes : Busy(p) => process[p].key \in Keys /\ process[p].dest \in Destinations
  BY BusyType DEF Inv
<1>6. SenderOwns'
  <2>1. ASSUME NEW p \in Processes, Busy(p)
        PROVE  /\ Row(p)'.lease = Row(p).lease
               /\ \/ Row(p)'.status = Row(p).status
                  \/ /\ process[p].dest = d /\ Row(p).status = "pending"
                     /\ Row(p)'.status = "cancelled"
    BY <1>1, <1>3, <1>5, <2>1 DEF Row
  <2>. QED
    BY <1>1, <2>1 DEF Inv, SenderOwns, Busy, Idle
<1>7. AttemptsLeft'
  <2>1. \A k \in Keys, e \in Destinations :
          deliveries'[k][e].status = "pending" => deliveries'[k][e].attempts < MaxAttempts
    BY <1>3 DEF Inv, AttemptsLeft
  <2>. QED
    BY <1>1, <1>3, <1>5, <2>1 DEF Inv, AttemptsLeft, Busy, Idle, Row
<1>8. OneSender'
  BY <1>1 DEF Inv, OneSender, Idle
<1>. QED
  BY <1>4, <1>6, <1>7, <1>8 DEF Inv

-----------------------------------------------------------------------------
\* A step that changes one record, attempted by no process, and no process.
LEMMA RecordFrame ==
  ASSUME Inv, NEW k \in Keys, NEW d \in Destinations, NEW r \in Delivery,
         deliveries' = [deliveries EXCEPT ![k][d] = r],
         r.status = deliveries[k][d].status, r.attempts = deliveries[k][d].attempts,
         r.lease = deliveries[k][d].lease \/ \A p \in Processes : ~Attempts(p, k, d),
         UNCHANGED <<events, enabled, removed, process, sends, losses>>
  PROVE  Inv'
<1>1. /\ deliveries' \in [Keys -> [Destinations -> Delivery]]
      /\ deliveries'[k][d] = r
      /\ \A j \in Keys, e \in Destinations :
           <<j, e>> # <<k, d>> => deliveries'[j][e] = deliveries[j][e]
  BY SetRowType DEF Inv
<1>2. TypeOK'
  BY <1>1 DEF Inv, TypeOK
<1>3. ASSUME NEW p \in Processes, Busy(p)
      PROVE  /\ Row(p)'.status = Row(p).status
             /\ Row(p)'.attempts = Row(p).attempts
             /\ Row(p)'.lease = Row(p).lease
  <2>1. process[p].key \in Keys /\ process[p].dest \in Destinations
    BY <1>3, BusyType DEF Inv
  <2>2. CASE process[p].key = k /\ process[p].dest = d
    BY <1>1, <1>3, <2>2 DEF Row, Attempts, Busy
  <2>3. CASE ~(process[p].key = k /\ process[p].dest = d)
    BY <1>1, <2>1, <2>3 DEF Row
  <2>. QED
    BY <2>2, <2>3
<1>4. SenderOwns'
  BY <1>3 DEF Inv, SenderOwns, Busy, Idle
<1>5. AttemptsLeft'
  <2>1. \A j \in Keys, e \in Destinations :
          deliveries'[j][e].status = "pending" => deliveries'[j][e].attempts < MaxAttempts
    BY <1>1 DEF Inv, AttemptsLeft
  <2>. QED
    BY <1>3, <2>1 DEF Inv, AttemptsLeft, Busy, Idle
<1>6. OneSender'
  BY DEF Inv, OneSender, Idle
<1>. QED
  BY <1>2, <1>4, <1>5, <1>6 DEF Inv

\* Time passes: leases of running attempts stay live.
LEMMA TimeStep ==
  ASSUME Inv, NEW k \in Keys, NEW d \in Destinations,
         RetryDue(k, d) \/ ExpireLease(k, d), ~LeaseOutlived
  PROVE  Inv'
<1>0. deliveries[k][d] \in Delivery
  BY RowType DEF Inv
<1>1. CASE RetryDue(k, d)
  <2>. DEFINE r == [deliveries[k][d] EXCEPT !.due = TRUE]
  <2>1. r \in Delivery /\ r.status = deliveries[k][d].status
        /\ r.attempts = deliveries[k][d].attempts /\ r.lease = deliveries[k][d].lease
    BY <1>0 DEF Delivery
  <2>2. deliveries' = [deliveries EXCEPT ![k][d] = r]
    BY <1>1 DEF RetryDue, Inv, TypeOK
  <2>. QED
    BY <1>1, <2>1, <2>2, RecordFrame DEF RetryDue
<1>2. CASE ExpireLease(k, d)
  <2>. DEFINE r == [deliveries[k][d] EXCEPT !.lease = "expired"]
  <2>1. r \in Delivery /\ r.status = deliveries[k][d].status
        /\ r.attempts = deliveries[k][d].attempts
    BY <1>0 DEF Delivery
  <2>2. deliveries' = [deliveries EXCEPT ![k][d] = r]
    BY <1>2 DEF ExpireLease, Inv, TypeOK
  <2>. QED
    BY <1>2, <2>1, <2>2, RecordFrame DEF ExpireLease
<1>. QED
  BY <1>1, <1>2

-----------------------------------------------------------------------------
\* _claim: only a delivery that no process attempts is leased.
LEMMA ClaimStep ==
  ASSUME Inv, NEW p \in Processes, NEW k \in Keys, NEW d \in Destinations, Claim(p, k, d)
  PROVE  Inv'
<1>. DEFINE r == [deliveries[k][d] EXCEPT !.lease = "live"]
            x == [step |-> "attempt", key |-> k, dest |-> d]
<1>1. /\ Idle(p) /\ deliveries[k][d].status = "pending" /\ deliveries[k][d].lease # "live"
      /\ deliveries' = [deliveries EXCEPT ![k][d] = r]
      /\ process' = [process EXCEPT ![p] = x]
      /\ UNCHANGED <<events, enabled, removed, sends, losses>>
  BY DEF Claim, Claimable, Inv, TypeOK
<1>2. /\ r \in Delivery /\ r.status = "pending" /\ r.lease = "live"
      /\ r.attempts = deliveries[k][d].attempts
  <2>1. deliveries[k][d] \in Delivery
    BY RowType DEF Inv
  <2>. QED
    BY <1>1, <2>1 DEF Delivery
<1>3. x \in Process
  BY DEF Process
<1>4. /\ deliveries' \in [Keys -> [Destinations -> Delivery]]
      /\ deliveries'[k][d] = r
      /\ \A j \in Keys, e \in Destinations :
           <<j, e>> # <<k, d>> => deliveries'[j][e] = deliveries[j][e]
  BY <1>1, <1>2, SetRowType DEF Inv
<1>5. /\ process' \in [Processes -> Process]
      /\ process'[p] = x
      /\ \A q \in Processes : q # p => process'[q] = process[q]
  BY <1>1, <1>3, MoveType DEF Inv
<1>6. TypeOK'
  BY <1>1, <1>4, <1>5 DEF Inv, TypeOK
<1>7. ASSUME NEW q \in Processes, Busy(q)
      PROVE  /\ process[q].key \in Keys /\ process[q].dest \in Destinations
             /\ <<process[q].key, process[q].dest>> # <<k, d>>
             /\ q # p
  BY <1>1, <1>7, BusyType DEF Inv, SenderOwns, Row, Busy
<1>8. ASSUME NEW q \in Processes, q # p, Busy(q)' PROVE Busy(q) /\ Row(q)' = Row(q)
  BY <1>4, <1>5, <1>7, <1>8 DEF Busy, Idle, Row
<1>9. Row(p)' = r /\ process'[p].step = "attempt"
  BY <1>4, <1>5 DEF Row
<1>10. SenderOwns'
  BY <1>1, <1>2, <1>5, <1>8, <1>9 DEF Inv, SenderOwns
<1>11. AttemptsLeft'
  <2>1. \A j \in Keys, e \in Destinations :
          deliveries'[j][e].status = "pending" => deliveries'[j][e].attempts < MaxAttempts
    BY <1>1, <1>2, <1>4 DEF Inv, AttemptsLeft
  <2>2. r.attempts < MaxAttempts
    BY <1>1, <1>2 DEF Inv, AttemptsLeft
  <2>. QED
    BY <1>5, <1>8, <1>9, <2>1, <2>2 DEF Inv, AttemptsLeft
<1>12. OneSender'
  BY <1>5, <1>7, <1>8 DEF Inv, OneSender, Busy, Idle
<1>. QED
  BY <1>6, <1>10, <1>11, <1>12 DEF Inv

\* A step of one process that stays at its delivery or becomes idle, and changes
\* no record: _attempt, _send, a lost attempt.
LEMMA ProcessFrame ==
  ASSUME Inv, NEW p \in Processes, Busy(p),
         process' \in [Processes -> Process],
         \A q \in Processes : q # p => process'[q] = process[q],
         \/ process'[p].step = "idle"
         \/ /\ process'[p].key = process[p].key /\ process'[p].dest = process[p].dest
            /\ process'[p].step \in {"send", "store"} /\ process'[p].attempts < MaxAttempts,
         UNCHANGED <<deliveries, removed>>
  PROVE  (SenderOwns /\ AttemptsLeft /\ OneSender)'
<1>1. ASSUME NEW q \in Processes, Busy(q)'
      PROVE  /\ Busy(q) /\ Row(q)' = Row(q)
             /\ process'[q].key = process[q].key /\ process'[q].dest = process[q].dest
  BY <1>1 DEF Busy, Idle, Row
<1>2. SenderOwns'
  BY <1>1 DEF Inv, SenderOwns
<1>3. AttemptsLeft'
  BY <1>1 DEF Inv, AttemptsLeft
<1>4. OneSender'
  BY <1>1 DEF Inv, OneSender, Busy
<1>. QED
  BY <1>2, <1>3, <1>4

\* _attempt reads a record with an attempt left.
LEMMA ReadStep ==
  ASSUME Inv, NEW p \in Processes, ReadDelivery(p)
  PROVE  Inv'
<1>. DEFINE k == process[p].key
            d == process[p].dest
            x == [step |-> "send", key |-> k, dest |-> d,
                  attempts |-> deliveries[k][d].attempts, gone |-> d \in removed]
<1>1. Busy(p) /\ UNCHANGED <<events, deliveries, enabled, removed, sends, losses>>
  BY DEF ReadDelivery, Busy, Idle
<1>2. /\ k \in Keys /\ d \in Destinations
      /\ deliveries[k][d] \in Delivery /\ deliveries[k][d].attempts < MaxAttempts
  BY <1>1, BusyType, RowType DEF Inv, AttemptsLeft, Row
<1>3. CASE Stop(p)
  <2>1. (SenderOwns /\ AttemptsLeft /\ OneSender)'
    BY <1>1, <1>3, StopType, ProcessFrame DEF Inv
  <2>2. TypeOK'
    BY <1>1, <1>3, StopType DEF Inv, TypeOK
  <2>. QED
    BY <2>1, <2>2 DEF Inv
<1>4. CASE process' = [process EXCEPT ![p] = x]
  <2>1. x \in Process
    BY <1>2 DEF Process, Delivery
  <2>2. /\ process' \in [Processes -> Process] /\ process'[p] = x
        /\ \A q \in Processes : q # p => process'[q] = process[q]
    BY <1>4, <2>1, MoveType DEF Inv
  <2>3. (SenderOwns /\ AttemptsLeft /\ OneSender)'
    BY <1>1, <1>2, <2>2, ProcessFrame
  <2>4. TypeOK'
    BY <1>1, <2>2 DEF Inv, TypeOK
  <2>. QED
    BY <2>3, <2>4 DEF Inv
<1>. QED
  BY <1>3, <1>4 DEF ReadDelivery

\* _send
LEMMA SendStep ==
  ASSUME Inv, NEW p \in Processes, Send(p)
  PROVE  Inv'
<1>. DEFINE k == process[p].key
            d == process[p].dest
            x(outcome) == [step |-> "store", key |-> k, dest |-> d,
                           attempts |-> process[p].attempts, outcome |-> outcome]
<1>1. /\ process[p].step = "send" /\ Busy(p)
      /\ UNCHANGED <<events, deliveries, enabled, removed, losses>>
  BY DEF Send, Busy, Idle
<1>2. /\ k \in Keys /\ d \in Destinations
      /\ process[p].attempts \in 0..MaxAttempts /\ process[p].attempts < MaxAttempts
  BY <1>1, BusyType DEF Inv, AttemptsLeft
<1>3. PICK outcome \in Outcome : process' = [process EXCEPT ![p] = x(outcome)]
  BY DEF Send, Outcome
<1>4. x(outcome) \in Process
  BY <1>2 DEF Process
<1>5. /\ process' \in [Processes -> Process] /\ process'[p] = x(outcome)
      /\ \A q \in Processes : q # p => process'[q] = process[q]
  BY <1>3, <1>4, MoveType DEF Inv
<1>6. (SenderOwns /\ AttemptsLeft /\ OneSender)'
  BY <1>1, <1>2, <1>5, ProcessFrame
<1>7. sends' \in [Keys -> [Destinations -> 0..(SendLimit + 1)]]
  <2>1. sends[k][d] \in 0..(SendLimit + 1) /\ sends \in [Keys -> [Destinations -> 0..(SendLimit + 1)]]
    BY <1>2 DEF Inv, TypeOK
  <2>2. Sent(sends[k][d]) \in 0..(SendLimit + 1)
    BY <2>1, NotificationsAssumption DEF Sent, SendLimit
  <2>3. \/ sends' = sends
        \/ sends' = [sends EXCEPT ![k][d] = Sent(sends[k][d])]
    BY <2>1, <1>2 DEF Send
  <2>. QED
    BY <1>2, <2>1, <2>2, <2>3
<1>8. TypeOK'
  BY <1>1, <1>5, <1>7 DEF Inv, TypeOK
<1>. QED
  BY <1>6, <1>8 DEF Inv

\* A process or its transaction dies.
LEMMA LossStep ==
  ASSUME Inv, NEW p \in Processes, LoseAttempt(p)
  PROVE  Inv'
<1>1. /\ Busy(p) /\ Stop(p) /\ losses < MaxLosses /\ losses' = losses + 1
      /\ UNCHANGED <<events, deliveries, enabled, removed, sends>>
  BY DEF LoseAttempt, Busy
<1>2. (SenderOwns /\ AttemptsLeft /\ OneSender)'
  BY <1>1, StopType, ProcessFrame DEF Inv
<1>3. TypeOK'
  BY <1>1, StopType, NotificationsAssumption DEF Inv, TypeOK
<1>. QED
  BY <1>2, <1>3 DEF Inv

\* _sent and _failed: the record that is written was leased to this process, so
\* its result is counted once and it has an attempt left if it stays pending.
LEMMA ResultOf ==
  ASSUME Inv, NEW p \in Processes, StoreResult(p)
  PROVE  LET k == process[p].key
             d == process[p].dest
         IN /\ Busy(p) /\ k \in Keys /\ d \in Destinations
            /\ Stop(p) /\ UNCHANGED <<events, enabled, removed, sends, losses>>
            /\ deliveries[k][d].status \in {"none", "pending", "cancelled"}
            /\ \E r \in Delivery :
                 /\ deliveries' = [deliveries EXCEPT ![k][d] = r]
                 /\ r.status = "none" <=> deliveries[k][d].status = "none"
                 /\ r.status = "pending" => r.attempts < MaxAttempts
<1>. DEFINE k == process[p].key
            d == process[p].dest
            counted == 1 + IF process[p].outcome = "delivered" THEN deliveries[k][d].attempts
                           ELSE process[p].attempts
            status == NextStatus(process[p].outcome, counted)
            new == [status |-> status, attempts |-> counted, due |-> FALSE, lease |-> "none"]
            r == IF deliveries[k][d].status = "none" THEN deliveries[k][d] ELSE new
<1>1. /\ process[p].step = "store" /\ Busy(p) /\ Stop(p)
      /\ UNCHANGED <<events, enabled, removed, sends, losses>>
  BY DEF StoreResult, Busy, Idle
<1>2. /\ k \in Keys /\ d \in Destinations /\ process[p].outcome \in Outcome
      /\ process[p].attempts \in 0..MaxAttempts /\ process[p].attempts < MaxAttempts
      /\ deliveries[k][d] \in Delivery /\ deliveries[k][d].attempts < MaxAttempts
  BY <1>1, BusyType, RowType DEF Inv, AttemptsLeft, Row
<1>3. counted \in 1..MaxAttempts
  <2>1. deliveries[k][d].attempts \in 0..MaxAttempts
    BY <1>2 DEF Delivery
  <2>. QED
    BY <1>2, <2>1, NotificationsAssumption
<1>4. /\ status \in {"sent", "cancelled", "failed", "pending"}
      /\ status = "pending" => counted < MaxAttempts
  BY <1>2, <1>3, NotificationsAssumption DEF NextStatus, Outcome
<1>5. new \in Delivery
  BY <1>3, <1>4, NotificationsAssumption DEF Delivery
<1>6. /\ r \in Delivery
      /\ r.status = "none" <=> deliveries[k][d].status = "none"
      /\ r.status = "pending" => r.attempts < MaxAttempts
  BY <1>2, <1>4, <1>5
<1>7. deliveries' = [deliveries EXCEPT ![k][d] = r]
  BY <1>2 DEF StoreResult, Inv, TypeOK
<1>8. deliveries[k][d].status \in {"none", "pending", "cancelled"}
  BY <1>1 DEF Inv, SenderOwns, Row
<1>. QED
  BY <1>1, <1>2, <1>6, <1>7, <1>8

\* _sent and _failed keep the invariant: no other process attempts this delivery.
LEMMA ResultStep ==
  ASSUME Inv, NEW p \in Processes, StoreResult(p)
  PROVE  Inv'
<1>. DEFINE k == process[p].key
            d == process[p].dest
<1>1. /\ Busy(p) /\ k \in Keys /\ d \in Destinations
      /\ Stop(p) /\ UNCHANGED <<events, enabled, removed, sends, losses>>
  BY ResultOf
<1>2. PICK r \in Delivery : /\ deliveries' = [deliveries EXCEPT ![k][d] = r]
                            /\ r.status = "pending" => r.attempts < MaxAttempts
  BY ResultOf
<1>3. /\ deliveries' \in [Keys -> [Destinations -> Delivery]]
      /\ deliveries'[k][d] = r
      /\ \A j \in Keys, e \in Destinations :
           <<j, e>> # <<k, d>> => deliveries'[j][e] = deliveries[j][e]
  BY <1>1, <1>2, SetRowType DEF Inv
<1>4. /\ process' \in [Processes -> Process] /\ process'[p].step = "idle"
      /\ \A q \in Processes : q # p => process'[q] = process[q]
  BY <1>1, StopType DEF Inv
<1>5. TypeOK'
  BY <1>1, <1>3, <1>4 DEF Inv, TypeOK
<1>6. ASSUME NEW q \in Processes, Busy(q)'
      PROVE  Busy(q) /\ process'[q] = process[q] /\ Row(q)' = Row(q)
  <2>1. q # p /\ process'[q] = process[q] /\ Busy(q)
    BY <1>4, <1>6 DEF Busy, Idle
  <2>2. <<process[q].key, process[q].dest>> # <<k, d>>
    BY <1>1, <2>1 DEF Inv, OneSender, Busy
  <2>3. process[q].key \in Keys /\ process[q].dest \in Destinations
    BY <2>1, BusyType DEF Inv
  <2>. QED
    BY <1>3, <2>1, <2>2, <2>3 DEF Row
<1>7. SenderOwns'
  BY <1>1, <1>6 DEF Inv, SenderOwns
<1>8. AttemptsLeft'
  <2>1. \A j \in Keys, e \in Destinations :
          deliveries'[j][e].status = "pending" => deliveries'[j][e].attempts < MaxAttempts
    BY <1>2, <1>3 DEF Inv, AttemptsLeft
  <2>2. ASSUME NEW q \in Processes PROVE
          /\ Busy(q)' => Row(q)'.attempts < MaxAttempts
          /\ process'[q].step \in {"send", "store"} => process'[q].attempts < MaxAttempts
    BY <1>6, <1>4 DEF Inv, AttemptsLeft
  <2>. QED
    BY <2>1, <2>2 DEF AttemptsLeft
<1>9. OneSender'
  BY <1>6 DEF Inv, OneSender, Busy
<1>. QED
  BY <1>5, <1>7, <1>8, <1>9 DEF Inv

-----------------------------------------------------------------------------
\* The invariant is inductive.
LEMMA InvStep ==
  ASSUME Inv, [Next]_vars, ~LeaseOutlived
  PROVE  Inv'
<1>1. ASSUME NEW k \in Keys, Emit(k) \/ Dispatch(k) \/ Purge(k) \/ GrowOld(k) PROVE Inv'
  BY <1>1, EmitStep, DispatchStep, PurgeStep
<1>2. ASSUME NEW d \in Destinations, SetEnabled(d) \/ RemoveWebhook(d) PROVE Inv'
  BY <1>2, SettingsStep, RemoveStep
<1>3. ASSUME NEW k \in Keys, NEW d \in Destinations, DeliveryStep(k, d) PROVE Inv'
  BY <1>3, TimeStep, ClaimStep DEF DeliveryStep
<1>4. ASSUME NEW p \in Processes, ProcessStep(p) \/ LoseAttempt(p) PROVE Inv'
  BY <1>4, ReadStep, SendStep, ResultStep, LossStep DEF ProcessStep
<1>5. CASE UNCHANGED vars
  <2>1. (SenderOwns /\ AttemptsLeft /\ OneSender)'
    BY <1>5, Frame DEF vars
  <2>2. TypeOK'
    BY <1>5 DEF Inv, TypeOK, vars
  <2>. QED
    BY <2>1, <2>2 DEF Inv
<1>. QED
  BY <1>1, <1>2, <1>3, <1>4, <1>5 DEF Next

\* Nothing is stored, sent or attempted at first.
LEMMA InitInv ==
  ASSUME Init
  PROVE  Inv
<1>1. TypeOK
  BY NotificationsAssumption
  DEF Init, TypeOK, Event, NoEvent, Delivery, NoDelivery, Process, SendLimit
<1>2. \A p \in Processes : ~Busy(p) /\ process[p].step = "idle"
  BY DEF Init, Busy, Idle
<1>3. \A k \in Keys, d \in Destinations : deliveries[k][d].status # "pending"
  BY DEF Init, NoDelivery
<1>. QED
  BY <1>1, <1>2, <1>3 DEF Inv, SenderOwns, AttemptsLeft, OneSender, Busy

\* The leases of attempts, their counters and the types, in every state.
THEOREM Invariance ==
  ASSUME ~LeaseOutlived
  PROVE  Spec => []Inv
<1>1. Init => Inv
  BY InitInv
<1>2. Inv /\ [Next]_vars => Inv'
  BY InvStep
<1>. QED
  BY <1>1, <1>2, PTL DEF Spec

\* Types, and the bound of the attempt counter (retry_delay): MAX_ATTEMPTS.
THEOREM TypeCorrect ==
  ASSUME ~LeaseOutlived
  PROVE  Spec => []TypeOK
<1>1. Inv => TypeOK
  BY DEF Inv
<1>. QED
  BY <1>1, Invariance, PTL

\* Two workers or processes never send a delivery at the same time (_claim).
THEOREM OneSenderHolds ==
  ASSUME ~LeaseOutlived
  PROVE  Spec => []OneSender
<1>1. Inv => OneSender
  BY DEF Inv
<1>. QED
  BY <1>1, Invariance, PTL

\* Nothing but the process that was leased a delivery changes what became of it.
LEMMA StatusStep ==
  ASSUME Inv, [Next]_vars, NEW k \in Keys, NEW d \in Destinations
  PROVE  /\ deliveries[k][d].status = "sent" => deliveries'[k][d].status \in {"sent", "none"}
         /\ deliveries[k][d].status = "pending" => deliveries'[k][d].status # "none"
         /\ events[k].dispatched /\ deliveries[k][d].status = "none"
              => deliveries'[k][d].status = "none"
<1>0. TypeOK /\ deliveries[k][d] \in Delivery
  BY RowType DEF Inv
<1>. DEFINE Goal ==
       /\ deliveries[k][d].status = "sent" => deliveries'[k][d].status \in {"sent", "none"}
       /\ deliveries[k][d].status = "pending" => deliveries'[k][d].status # "none"
       /\ events[k].dispatched /\ deliveries[k][d].status = "none"
            => deliveries'[k][d].status = "none"
<1>1. CASE UNCHANGED deliveries
  BY <1>1
<1>2. ASSUME NEW j \in Keys, Dispatch(j) PROVE Goal
  BY <1>0, <1>2 DEF Dispatch, Undispatched, TypeOK
<1>3. ASSUME NEW j \in Keys, Purge(j) PROVE Goal
  BY <1>0, <1>3 DEF Purge, Purgeable, NoDelivery, TypeOK
<1>4. ASSUME NEW e \in Destinations, RemoveWebhook(e) PROVE Goal
  BY <1>0, <1>4 DEF RemoveWebhook, TypeOK, Delivery
<1>5. ASSUME NEW j \in Keys, NEW e \in Destinations, DeliveryStep(j, e)
      PROVE  deliveries'[k][d].status = deliveries[k][d].status
  <2>1. ASSUME NEW r \in Delivery, r.status = deliveries[j][e].status,
               deliveries' = [deliveries EXCEPT ![j][e] = r]
        PROVE  deliveries'[k][d].status = deliveries[k][d].status
    <3>1. CASE k = j /\ d = e
      <4>1. deliveries'[k][d] = r
        BY <1>0, <2>1, <3>1, SetRowType
      <4>. QED
        BY <2>1, <3>1, <4>1
    <3>2. CASE ~(k = j /\ d = e)
      <4>1. <<k, d>> # <<j, e>>
        BY <3>2
      <4>. QED
        BY <1>0, <2>1, <4>1, SetRowType
    <3>. QED
      BY <3>1, <3>2
  <2>2. deliveries[j][e] \in Delivery
    BY <1>0, RowType
  <2>3. CASE RetryDue(j, e)
    <3>. DEFINE r == [deliveries[j][e] EXCEPT !.due = TRUE]
    <3>1. r \in Delivery /\ r.status = deliveries[j][e].status
      BY <2>2 DEF Delivery
    <3>2. deliveries' = [deliveries EXCEPT ![j][e] = r]
      BY <2>3 DEF RetryDue
    <3>. QED
      BY <2>1, <3>1, <3>2
  <2>4. CASE ExpireLease(j, e)
    <3>. DEFINE r == [deliveries[j][e] EXCEPT !.lease = "expired"]
    <3>1. r \in Delivery /\ r.status = deliveries[j][e].status
      BY <2>2 DEF Delivery
    <3>2. deliveries' = [deliveries EXCEPT ![j][e] = r]
      BY <2>4 DEF ExpireLease
    <3>. QED
      BY <2>1, <3>1, <3>2
  <2>5. ASSUME NEW p \in Processes, Claim(p, j, e)
        PROVE  deliveries'[k][d].status = deliveries[k][d].status
    <3>. DEFINE r == [deliveries[j][e] EXCEPT !.lease = "live"]
    <3>1. r \in Delivery /\ r.status = deliveries[j][e].status
      BY <2>2 DEF Delivery
    <3>2. deliveries' = [deliveries EXCEPT ![j][e] = r]
      BY <2>5 DEF Claim
    <3>. QED
      BY <2>1, <3>1, <3>2
  <2>. QED
    BY <1>5, <2>3, <2>4, <2>5 DEF DeliveryStep
<1>6. ASSUME NEW p \in Processes, StoreResult(p) PROVE Goal
  <2>1. PICK j \in Keys, e \in Destinations, r \in Delivery :
          /\ deliveries' = [deliveries EXCEPT ![j][e] = r]
          /\ r.status = "none" <=> deliveries[j][e].status = "none"
          /\ deliveries[j][e].status \in {"none", "pending", "cancelled"}
    BY <1>6, ResultOf
  <2>2. CASE k = j /\ d = e
    <3>1. deliveries'[k][d] = r
      BY <1>0, <2>1, <2>2, SetRowType
    <3>. QED
      BY <2>1, <2>2, <3>1
  <2>3. CASE ~(k = j /\ d = e)
    <3>1. <<k, d>> # <<j, e>>
      BY <2>3
    <3>2. deliveries'[k][d] = deliveries[k][d]
      BY <1>0, <2>1, <3>1, SetRowType
    <3>. QED
      BY <3>2
  <2>. QED
    BY <2>2, <2>3
<1>7. CASE \/ \E j \in Keys : Emit(j) \/ GrowOld(j)
           \/ \E e \in Destinations : SetEnabled(e)
           \/ \E p \in Processes : ReadDelivery(p) \/ Send(p) \/ LoseAttempt(p)
           \/ UNCHANGED vars
  BY <1>1, <1>7 DEF Emit, GrowOld, SetEnabled, ReadDelivery, Send, LoseAttempt, vars
<1>. QED
  BY <1>2, <1>3, <1>4, <1>5, <1>6, <1>7 DEF Next, ProcessStep

\* A message that was sent stays sent, until retention deletes its record.
THEOREM SentStays ==
  ASSUME ~LeaseOutlived
  PROVE  Spec => SentIsFinal
<1>1. Inv /\ [Next]_vars =>
        [\A k \in Keys, d \in Destinations :
           deliveries[k][d].status = "sent"
             => deliveries'[k][d].status \in {"sent", "none"}]_vars
  BY StatusStep
<1>. QED
  BY <1>1, Invariance, PTL DEF Spec, SentIsFinal

\* An event that was dispatched gets no further delivery (_dispatch, emit).
THEOREM OneFanOut ==
  ASSUME ~LeaseOutlived
  PROVE  Spec => FansOutOnce
<1>1. Inv /\ [Next]_vars =>
        [\A k \in Keys, d \in Destinations :
           events[k].dispatched /\ deliveries[k][d].status = "none"
             => deliveries'[k][d].status = "none"]_vars
  BY StatusStep
<1>. QED
  BY <1>1, Invariance, PTL DEF Spec, FansOutOnce

\* Retention never deletes a message that is still to be sent (purge_expired).
THEOREM PendingStays ==
  ASSUME ~LeaseOutlived
  PROVE  Spec => PendingIsKept
<1>1. Inv /\ [Next]_vars =>
        [\A k \in Keys, d \in Destinations :
           deliveries[k][d].status = "pending" => deliveries'[k][d].status # "none"]_vars
  BY StatusStep
<1>. QED
  BY <1>1, Invariance, PTL DEF Spec, PendingIsKept

-----------------------------------------------------------------------------
(* Sends are counted.                                                      *)

\* What an attempt read of the record stays true while it runs.
ReadIsCurrent ==
  \A p \in Processes : process[p].step \in {"send", "store"} =>
    Row(p).status = "none" \/ process[p].attempts = Row(p).attempts

\* The attempt handed the message over, and its result is still to be stored.
HandedOver(p, k, d) ==
  process[p].step = "store" /\ process[p].outcome # "cancel" /\ Attempts(p, k, d)

\* The messages of a delivery are its counted attempts, those lost, and the one whose
\* result is still to be stored.  Of a delivery without a record nothing was sent, but by
\* an attempt that was running when retention deleted the record of a removed endpoint.
RowCounted(k, d) ==
  IF deliveries[k][d].status # "none"
    THEN \/ sends[k][d] <= deliveries[k][d].attempts + losses
         \/ /\ sends[k][d] <= deliveries[k][d].attempts + losses + 1
            /\ \E p \in Processes : HandedOver(p, k, d)
    ELSE \/ sends[k][d] = 0
         \/ /\ sends[k][d] = 1 /\ d \in removed
            /\ \A p \in Processes : process[p].step = "send" => ~Attempts(p, k, d)

SendsCounted == \A k \in Keys, d \in Destinations : RowCounted(k, d)

Counted == Inv /\ ReadIsCurrent /\ SendsCounted

\* The numbers are numbers.
LEMMA CountTypes ==
  ASSUME TypeOK, NEW k \in Keys, NEW d \in Destinations
  PROVE  /\ deliveries[k][d].attempts \in 0..MaxAttempts /\ sends[k][d] \in Nat
         /\ losses \in Nat /\ MaxAttempts \in Nat
BY NotificationsAssumption, RowType DEF TypeOK, Delivery, SendLimit

\* A step that hands nothing over and stores no result.
LEMMA CountFrame ==
  ASSUME Counted, UNCHANGED <<sends, losses>>, removed \subseteq removed',
         \A k \in Keys, d \in Destinations :
           /\ deliveries'[k][d].attempts = deliveries[k][d].attempts
           /\ deliveries'[k][d].status = "none" <=> deliveries[k][d].status = "none",
         \A p \in Processes :
           process'[p] = process[p] \/ (Idle(p) /\ process'[p].step = "attempt")
  PROVE  (ReadIsCurrent /\ SendsCounted)'
<1>1. ASSUME NEW p \in Processes, process'[p].step \in {"send", "store"}
      PROVE  Row(p)'.status = "none" \/ process'[p].attempts = Row(p)'.attempts
  <2>1. process'[p] = process[p] /\ Busy(p)
    BY <1>1 DEF Busy, Idle
  <2>2. process[p].key \in Keys /\ process[p].dest \in Destinations
    BY <2>1, BusyType DEF Counted, Inv
  <2>. QED
    BY <1>1, <2>1, <2>2 DEF Counted, ReadIsCurrent, Row
<1>2. ASSUME NEW k \in Keys, NEW d \in Destinations PROVE RowCounted(k, d)'
  <2>1. RowCounted(k, d)
    BY DEF Counted, SendsCounted
  <2>2. \A p \in Processes : HandedOver(p, k, d) => HandedOver(p, k, d)'
    BY DEF HandedOver, Attempts, Idle
  <2>3. \A p \in Processes : process'[p].step = "send" /\ Attempts(p, k, d)'
                               => process[p].step = "send" /\ Attempts(p, k, d)
    BY DEF Attempts, Idle
  <2>. QED
    BY <2>1, <2>2, <2>3 DEF RowCounted
<1>3. ReadIsCurrent'
  BY <1>1 DEF ReadIsCurrent
<1>. QED
  BY <1>2, <1>3 DEF SendsCounted

\* emit, settings and the passing of time
LEMMA CountQuiet ==
  ASSUME Counted, UNCHANGED <<deliveries, removed, process, sends, losses>>
  PROVE  (ReadIsCurrent /\ SendsCounted)'
BY CountFrame

\* remove_webhook: a cancelled record keeps its counter.
LEMMA CountRemove ==
  ASSUME Counted, NEW d \in Destinations, RemoveWebhook(d)
  PROVE  (ReadIsCurrent /\ SendsCounted)'
<1>1. ASSUME NEW k \in Keys, NEW e \in Destinations
      PROVE  /\ deliveries'[k][e].attempts = deliveries[k][e].attempts
             /\ deliveries'[k][e].status = "none" <=> deliveries[k][e].status = "none"
  <2>1. deliveries[k][e] \in Delivery
    BY RowType DEF Counted, Inv
  <2>. QED
    BY <2>1 DEF RemoveWebhook, Counted, Inv, TypeOK, Delivery
<1>2. UNCHANGED <<process, sends, losses>> /\ removed \subseteq removed'
  BY DEF RemoveWebhook
<1>. QED
  BY <1>1, <1>2, CountFrame

\* _claim, leases and retries leave the counter.
LEMMA CountRecord ==
  ASSUME Counted, NEW k \in Keys, NEW d \in Destinations, DeliveryStep(k, d)
  PROVE  (ReadIsCurrent /\ SendsCounted)'
<1>1. deliveries[k][d] \in Delivery
  BY RowType DEF Counted, Inv
<1>2. \E r \in Delivery : /\ deliveries' = [deliveries EXCEPT ![k][d] = r]
                          /\ r.status = deliveries[k][d].status
                          /\ r.attempts = deliveries[k][d].attempts
  <2>1. /\ [deliveries[k][d] EXCEPT !.due = TRUE] \in Delivery
        /\ [deliveries[k][d] EXCEPT !.lease = "expired"] \in Delivery
        /\ [deliveries[k][d] EXCEPT !.lease = "live"] \in Delivery
    BY <1>1 DEF Delivery
  <2>2. CASE RetryDue(k, d)
    BY <1>1, <2>1, <2>2 DEF RetryDue, Delivery
  <2>3. CASE ExpireLease(k, d)
    BY <1>1, <2>1, <2>3 DEF ExpireLease, Delivery
  <2>4. ASSUME NEW p \in Processes, Claim(p, k, d)
        PROVE  deliveries' = [deliveries EXCEPT ![k][d] = [deliveries[k][d] EXCEPT !.lease = "live"]]
    BY <2>4 DEF Claim
  <2>5. CASE \E p \in Processes : Claim(p, k, d)
    BY <1>1, <2>1, <2>4, <2>5 DEF Delivery
  <2>. QED
    BY <2>2, <2>3, <2>5 DEF DeliveryStep
<1>3. \A j \in Keys, e \in Destinations :
        /\ deliveries'[j][e].attempts = deliveries[j][e].attempts
        /\ deliveries'[j][e].status = "none" <=> deliveries[j][e].status = "none"
  <2>1. PICK r \in Delivery : /\ deliveries' = [deliveries EXCEPT ![k][d] = r]
                              /\ r.status = deliveries[k][d].status
                              /\ r.attempts = deliveries[k][d].attempts
    BY <1>2
  <2>. QED
    BY <2>1, SetRowType DEF Counted, Inv
<1>4. /\ UNCHANGED <<removed, sends, losses>>
      /\ \A p \in Processes :
           process'[p] = process[p] \/ (Idle(p) /\ process'[p].step = "attempt")
  BY DEF DeliveryStep, RetryDue, ExpireLease, Claim, Counted, Inv, TypeOK
<1>. QED
  BY <1>3, <1>4, CountFrame

\* What an attempt read of the record does not depend on the processes' other records.
LEMMA ReadKept ==
  ASSUME Counted, UNCHANGED process,
         \A k \in Keys, d \in Destinations :
           (\E p \in Processes : Attempts(p, k, d)) =>
             deliveries'[k][d] = deliveries[k][d] \/ deliveries'[k][d].status = "none"
  PROVE  ReadIsCurrent'
<1>. SUFFICES ASSUME NEW p \in Processes, process[p].step \in {"send", "store"}
              PROVE  Row(p)'.status = "none" \/ process[p].attempts = Row(p)'.attempts
  BY DEF ReadIsCurrent
<1>1. /\ Busy(p) /\ process[p].key \in Keys /\ process[p].dest \in Destinations
  BY BusyType DEF Counted, Inv, Busy, Idle
<1>2. Attempts(p, process[p].key, process[p].dest)
  BY <1>1 DEF Attempts, Busy
<1>. QED
  BY <1>1, <1>2 DEF Counted, ReadIsCurrent, Row

\* _dispatch: nothing was sent of a delivery that is new.
LEMMA CountDispatch ==
  ASSUME Counted, NEW k \in Keys, Dispatch(k)
  PROVE  (ReadIsCurrent /\ SendsCounted)'
<1>1. /\ UNCHANGED <<enabled, removed, process, sends, losses>>
      /\ \A j \in Keys, d \in Destinations :
           \/ deliveries'[j][d] = deliveries[j][d]
           \/ /\ deliveries[j][d].status = "none" /\ d \notin removed
              /\ deliveries'[j][d] = NewDelivery
  BY DEF Dispatch, Counted, Inv, TypeOK, Targets
<1>2. \A j \in Keys, d \in Destinations, p \in Processes :
        Attempts(p, j, d) /\ deliveries[j][d].status = "none" => d \in removed
  BY DEF Attempts, Counted, Inv, SenderOwns, Row, Busy
<1>3. ReadIsCurrent'
  BY <1>1, <1>2, ReadKept
<1>4. ASSUME NEW j \in Keys, NEW d \in Destinations PROVE RowCounted(j, d)'
  <2>1. RowCounted(j, d) /\ losses \in Nat
    BY CountTypes DEF Counted, Inv, SendsCounted
  <2>2. CASE deliveries'[j][d] = deliveries[j][d]
    BY <1>1, <2>1, <2>2 DEF RowCounted, HandedOver, Attempts, Idle
  <2>3. CASE /\ deliveries[j][d].status = "none" /\ d \notin removed
             /\ deliveries'[j][d] = NewDelivery
    <3>1. sends'[j][d] = 0
      BY <1>1, <2>1, <2>3 DEF RowCounted
    <3>. QED
      BY <1>1, <2>1, <2>3, <3>1 DEF RowCounted, NewDelivery
  <2>. QED
    BY <1>1, <2>2, <2>3
<1>. QED
  BY <1>3, <1>4 DEF SendsCounted

\* purge_expired deletes the count with the record.
LEMMA CountPurge ==
  ASSUME Counted, NEW k \in Keys, Purge(k)
  PROVE  (ReadIsCurrent /\ SendsCounted)'
<1>1. /\ UNCHANGED <<enabled, removed, process, losses>>
      /\ \A j \in Keys, d \in Destinations :
           \/ deliveries'[j][d] = deliveries[j][d] /\ sends'[j][d] = sends[j][d]
           \/ deliveries'[j][d] = NoDelivery /\ sends'[j][d] = 0
  BY DEF Purge, Counted, Inv, TypeOK
<1>2. ReadIsCurrent'
  BY <1>1, ReadKept DEF NoDelivery
<1>3. ASSUME NEW j \in Keys, NEW d \in Destinations PROVE RowCounted(j, d)'
  <2>1. RowCounted(j, d)
    BY DEF Counted, SendsCounted
  <2>2. CASE deliveries'[j][d] = deliveries[j][d] /\ sends'[j][d] = sends[j][d]
    BY <1>1, <2>1, <2>2 DEF RowCounted, HandedOver, Attempts, Idle
  <2>3. CASE deliveries'[j][d] = NoDelivery /\ sends'[j][d] = 0
    BY <2>3 DEF RowCounted, NoDelivery
  <2>. QED
    BY <1>1, <2>2, <2>3
<1>. QED
  BY <1>2, <1>3 DEF SendsCounted

\* Steps of one process that is at a delivery leave the counts of all others.
LEMMA CountOthers ==
  ASSUME Counted, NEW p \in Processes, Busy(p),
         \A q \in Processes : q # p => process'[q] = process[q],
         \/ process'[p].step = "idle"
         \/ process'[p].key = process[p].key /\ process'[p].dest = process[p].dest,
         losses' \in {losses, losses + 1}, UNCHANGED removed,
         NEW k \in Keys, NEW d \in Destinations, <<process[p].key, process[p].dest>> # <<k, d>>,
         deliveries'[k][d] = deliveries[k][d], sends'[k][d] = sends[k][d]
  PROVE  RowCounted(k, d)'
<1>1. RowCounted(k, d) /\ losses \in Nat /\ sends[k][d] \in Nat
      /\ deliveries[k][d].attempts \in Nat
  BY CountTypes DEF Counted, Inv, SendsCounted
<1>2. \A q \in Processes : Attempts(q, k, d)' <=> Attempts(q, k, d)
  BY DEF Attempts, Idle
<1>3. \A q \in Processes : Attempts(q, k, d) => q # p
  BY DEF Attempts
<1>4. \A q \in Processes : HandedOver(q, k, d)' <=> HandedOver(q, k, d)
  BY <1>2, <1>3 DEF HandedOver
<1>. QED
  BY <1>1, <1>2, <1>3, <1>4 DEF RowCounted

\* Nobody else is at the delivery of a process.
LEMMA Alone ==
  ASSUME Counted, NEW p \in Processes, Busy(p), NEW q \in Processes, q # p
  PROVE  ~Attempts(q, process[p].key, process[p].dest)
BY DEF Attempts, Counted, Inv, OneSender, Busy

\* A process that goes on with what it read of the record, or ends its attempt, while the
\* records stay.
LEMMA ReadByProcess ==
  ASSUME Counted, NEW p \in Processes, Busy(p),
         \A q \in Processes : q # p => process'[q] = process[q],
         \/ process'[p].step = "idle"
         \/ /\ process'[p].key = process[p].key /\ process'[p].dest = process[p].dest
            /\ Row(p).status = "none" \/ process'[p].attempts = Row(p).attempts,
         UNCHANGED deliveries
  PROVE  ReadIsCurrent'
BY DEF Counted, ReadIsCurrent, Row

\* _attempt reads the counter.
LEMMA CountRead ==
  ASSUME Counted, NEW p \in Processes, ReadDelivery(p)
  PROVE  (ReadIsCurrent /\ SendsCounted)'
<1>. DEFINE k == process[p].key
            d == process[p].dest
            x == [step |-> "send", key |-> k, dest |-> d,
                  attempts |-> deliveries[k][d].attempts, gone |-> d \in removed]
<1>1. /\ process[p].step = "attempt" /\ Busy(p)
      /\ UNCHANGED <<events, deliveries, enabled, removed, sends, losses>>
  BY DEF ReadDelivery, Busy, Idle
<1>2. k \in Keys /\ d \in Destinations
  BY <1>1, BusyType DEF Counted, Inv
<1>3. /\ \A q \in Processes : q # p => process'[q] = process[q]
      /\ \/ process'[p].step = "idle"
         \/ process'[p] = x /\ deliveries[k][d].status # "none"
  BY DEF ReadDelivery, Stop, Counted, Inv, TypeOK
<1>4. ReadIsCurrent'
  BY <1>1, <1>3, ReadByProcess DEF Row
<1>5. ASSUME NEW j \in Keys, NEW e \in Destinations PROVE RowCounted(j, e)'
  <2>1. CASE <<k, d>> # <<j, e>>
    BY <1>1, <1>3, <2>1, CountOthers
  <2>2. CASE <<k, d>> = <<j, e>>
    <3>1. RowCounted(j, e)
      BY DEF Counted, SendsCounted
    <3>2. \A q \in Processes : HandedOver(q, j, e) => HandedOver(q, j, e)'
      BY <1>1, <1>3 DEF HandedOver, Attempts, Idle
    <3>3. deliveries[j][e].status = "none" =>
            \A q \in Processes : process'[q].step = "send" => ~Attempts(q, j, e)'
      BY <1>1, <1>3, <2>2, Alone DEF Attempts, Idle
    <3>. QED
      BY <1>1, <3>1, <3>2, <3>3 DEF RowCounted
  <2>. QED
    BY <2>1, <2>2
<1>. QED
  BY <1>4, <1>5 DEF SendsCounted

\* _send: one more message, whose result is still to be stored.
LEMMA CountSend ==
  ASSUME Counted, NEW p \in Processes, Send(p)
  PROVE  (ReadIsCurrent /\ SendsCounted)'
<1>. DEFINE k == process[p].key
            d == process[p].dest
            x(outcome) == [step |-> "store", key |-> k, dest |-> d,
                           attempts |-> process[p].attempts, outcome |-> outcome]
<1>1. /\ process[p].step = "send" /\ Busy(p)
      /\ UNCHANGED <<events, deliveries, enabled, removed, losses>>
  BY DEF Send, Busy, Idle
<1>2. /\ k \in Keys /\ d \in Destinations
      /\ deliveries[k][d].attempts \in Nat /\ sends[k][d] \in Nat /\ losses \in Nat
      /\ SendLimit \in Nat
  BY <1>1, BusyType, CountTypes, NotificationsAssumption DEF Counted, Inv, SendLimit
<1>3. PICK outcome \in Outcome :
        /\ process' = [process EXCEPT ![p] = x(outcome)]
        /\ sends' = IF outcome = "cancel" THEN sends ELSE [sends EXCEPT ![k][d] = Sent(@)]
  BY DEF Send, Outcome
<1>4. /\ \A q \in Processes : q # p => process'[q] = process[q]
      /\ process'[p] = x(outcome)
      /\ \A j \in Keys, e \in Destinations :
           <<k, d>> # <<j, e>> => sends'[j][e] = sends[j][e]
      /\ sends'[k][d] = IF outcome = "cancel" THEN sends[k][d] ELSE Sent(sends[k][d])
  BY <1>2, <1>3 DEF Counted, Inv, TypeOK
<1>5. ReadIsCurrent'
  <2>1. Row(p).status = "none" \/ process'[p].attempts = Row(p).attempts
    BY <1>1, <1>4 DEF Counted, ReadIsCurrent
  <2>. QED
    BY <1>1, <1>4, <2>1, ReadByProcess
<1>6. ASSUME NEW j \in Keys, NEW e \in Destinations, j = k, e = d
      PROVE  RowCounted(j, e)'
  <2>1. RowCounted(j, e)
    BY <1>2 DEF Counted, SendsCounted
  <2>2. /\ Attempts(p, j, e) /\ Attempts(p, j, e)'
        /\ \A q \in Processes : q # p => ~Attempts(q, j, e) /\ ~Attempts(q, j, e)'
    BY <1>6, <1>1, <1>4, Alone DEF Attempts, Busy, Idle
  <2>3. \A q \in Processes : ~HandedOver(q, j, e)
    BY <1>1, <2>2 DEF HandedOver
  <2>4. \A q \in Processes : process'[q].step = "send" => ~Attempts(q, j, e)'
    BY <1>4, <2>2
  <2>5. HandedOver(p, j, e)' \/ outcome = "cancel"
    BY <1>4, <2>2 DEF HandedOver
  <2>6. Sent(sends[j][e]) <= sends[j][e] + 1 /\ Sent(0) = 1
    BY <1>6, <1>2 DEF Sent
  <2>7. CASE deliveries[j][e].status # "none"
    <3>1. sends[j][e] <= deliveries[j][e].attempts + losses
      BY <2>1, <2>3, <2>7 DEF RowCounted
    <3>2. CASE outcome = "cancel"
      BY <1>1, <1>4, <2>7, <3>1, <3>2 DEF RowCounted
    <3>3. CASE outcome # "cancel"
      <4>1. sends'[j][e] <= deliveries[j][e].attempts + losses + 1
        BY <1>6, <1>2, <1>4, <2>6, <3>1, <3>3 DEF Sent
      <4>. QED
        BY <1>1, <2>5, <2>7, <3>3, <4>1 DEF RowCounted
    <3>. QED
      BY <3>2, <3>3
  <2>8. CASE deliveries[j][e].status = "none"
    <3>1. sends[j][e] = 0
      BY <1>1, <2>1, <2>2, <2>8 DEF RowCounted
    <3>2. d \in removed
      BY <1>6, <1>1, <2>8 DEF Counted, Inv, SenderOwns, Row
    <3>3. sends'[j][e] \in {0, 1}
      BY <1>4, <2>6, <3>1
    <3>. QED
      BY <1>6, <1>1, <2>4, <2>8, <3>2, <3>3 DEF RowCounted
  <2>. QED
    BY <2>7, <2>8
<1>7. ASSUME NEW j \in Keys, NEW e \in Destinations PROVE RowCounted(j, e)'
  <2>1. CASE <<k, d>> # <<j, e>>
    BY <1>1, <1>4, <2>1, CountOthers
  <2>2. CASE <<k, d>> = <<j, e>>
    BY <1>6, <2>2
  <2>. QED
    BY <2>1, <2>2
<1>. QED
  BY <1>5, <1>7 DEF SendsCounted

\* _sent and _failed: the counter grows by the message that was handed over.
LEMMA CountResult ==
  ASSUME Counted, NEW p \in Processes, StoreResult(p)
  PROVE  (ReadIsCurrent /\ SendsCounted)'
<1>. DEFINE k == process[p].key
            d == process[p].dest
            counted == 1 + IF process[p].outcome = "delivered" THEN deliveries[k][d].attempts
                           ELSE process[p].attempts
            new == [status |-> NextStatus(process[p].outcome, counted),
                    attempts |-> counted, due |-> FALSE, lease |-> "none"]
            r == IF deliveries[k][d].status = "none" THEN deliveries[k][d] ELSE new
<1>1. /\ process[p].step = "store" /\ Busy(p) /\ Stop(p)
      /\ UNCHANGED <<events, enabled, removed, sends, losses>>
  BY DEF StoreResult, Busy, Idle
<1>2. /\ k \in Keys /\ d \in Destinations
      /\ deliveries[k][d].attempts \in Nat /\ sends[k][d] \in Nat /\ losses \in Nat
      /\ process[p].outcome \in Outcome
  BY <1>1, BusyType, CountTypes DEF Counted, Inv
<1>3. deliveries' = [deliveries EXCEPT ![k][d] = r]
  BY <1>2 DEF StoreResult, Counted, Inv, TypeOK
<1>4. /\ deliveries'[k][d] = r
      /\ \A j \in Keys, e \in Destinations :
           <<k, d>> # <<j, e>> => deliveries'[j][e] = deliveries[j][e]
  BY <1>2, <1>3 DEF Counted, Inv, TypeOK
<1>5. /\ process'[p].step = "idle" /\ \A q \in Processes : q # p => process'[q] = process[q]
  BY <1>1, StopType DEF Counted, Inv
<1>6. ReadIsCurrent'
  <2>. SUFFICES ASSUME NEW q \in Processes, process'[q].step \in {"send", "store"}
                PROVE  Row(q)'.status = "none" \/ process'[q].attempts = Row(q)'.attempts
    BY DEF ReadIsCurrent
  <2>1. q # p /\ process'[q] = process[q] /\ Busy(q)
    BY <1>5 DEF Busy, Idle
  <2>2. /\ process[q].key \in Keys /\ process[q].dest \in Destinations
        /\ <<k, d>> # <<process[q].key, process[q].dest>>
    BY <1>1, <2>1, BusyType, Alone DEF Counted, Inv, Attempts, Busy
  <2>. QED
    BY <1>4, <2>1, <2>2 DEF Counted, ReadIsCurrent, Row
<1>7. ASSUME NEW j \in Keys, NEW e \in Destinations, j = k, e = d
      PROVE  RowCounted(j, e)'
  <2>1. RowCounted(j, e)
    BY <1>2 DEF Counted, SendsCounted
  <2>2. CASE deliveries[j][e].status # "none"
    <3>1. counted = 1 + deliveries[j][e].attempts
      BY <1>7, <1>1, <2>2 DEF Counted, ReadIsCurrent, Row
    <3>2. sends[j][e] <= counted + losses
      BY <1>7, <1>2, <2>1, <2>2, <3>1 DEF RowCounted
    <3>3. NextStatus(process[p].outcome, counted) # "none"
      BY <1>2 DEF NextStatus, Outcome
    <3>4. deliveries'[j][e].status # "none" /\ deliveries'[j][e].attempts = counted
      BY <1>7, <1>4, <2>2, <3>3
    <3>. QED
      BY <1>1, <3>2, <3>4 DEF RowCounted
  <2>3. CASE deliveries[j][e].status = "none"
    <3>1. \A q \in Processes : ~Attempts(q, j, e)'
      BY <1>7, <1>1, <1>5, Alone DEF Attempts, Idle
    <3>. QED
      BY <1>1, <1>4, <2>1, <2>3, <3>1 DEF RowCounted
  <2>. QED
    BY <2>2, <2>3
<1>8. ASSUME NEW j \in Keys, NEW e \in Destinations PROVE RowCounted(j, e)'
  <2>1. CASE <<k, d>> # <<j, e>>
    BY <1>1, <1>4, <1>5, <2>1, CountOthers
  <2>2. CASE <<k, d>> = <<j, e>>
    BY <1>7, <2>2
  <2>. QED
    BY <2>1, <2>2
<1>. QED
  BY <1>6, <1>8 DEF SendsCounted

\* A lost attempt counts for the message it may have handed over.
LEMMA CountLoss ==
  ASSUME Counted, NEW p \in Processes, LoseAttempt(p)
  PROVE  (ReadIsCurrent /\ SendsCounted)'
<1>. DEFINE k == process[p].key
            d == process[p].dest
<1>1. /\ Busy(p) /\ Stop(p) /\ losses' = losses + 1
      /\ UNCHANGED <<events, deliveries, enabled, removed, sends>>
  BY DEF LoseAttempt, Busy
<1>2. /\ k \in Keys /\ d \in Destinations
      /\ deliveries[k][d].attempts \in Nat /\ sends[k][d] \in Nat /\ losses \in Nat
  BY <1>1, BusyType, CountTypes DEF Counted, Inv
<1>3. /\ process'[p].step = "idle" /\ \A q \in Processes : q # p => process'[q] = process[q]
  BY <1>1, StopType DEF Counted, Inv
<1>4. ReadIsCurrent'
  BY <1>1, <1>3, ReadByProcess
<1>5. ASSUME NEW j \in Keys, NEW e \in Destinations, j = k, e = d
      PROVE  RowCounted(j, e)'
  <2>1. RowCounted(j, e)
    BY <1>2 DEF Counted, SendsCounted
  <2>2. \A q \in Processes : ~Attempts(q, j, e)'
    BY <1>5, <1>1, <1>3, Alone DEF Attempts, Idle
  <2>. QED
    BY <1>5, <1>1, <1>2, <2>1, <2>2 DEF RowCounted
<1>6. ASSUME NEW j \in Keys, NEW e \in Destinations PROVE RowCounted(j, e)'
  <2>1. CASE <<k, d>> # <<j, e>>
    BY <1>1, <1>3, <2>1, CountOthers
  <2>2. CASE <<k, d>> = <<j, e>>
    BY <1>5, <2>2
  <2>. QED
    BY <2>1, <2>2
<1>. QED
  BY <1>4, <1>6 DEF SendsCounted

\* At most MAX_ATTEMPTS messages are sent, and one more for every attempt that was lost
\* with its process or transaction (_sent, _failed).
THEOREM SendsAreBounded ==
  ASSUME ~LeaseOutlived
  PROVE  Spec => []SendsBounded
<1>1. Init => Counted
  <2>. SUFFICES ASSUME Init PROVE Counted
    OBVIOUS
  <2>1. Inv
    BY InitInv
  <2>2. ReadIsCurrent /\ SendsCounted
    BY DEF Init, ReadIsCurrent, SendsCounted, RowCounted, NoDelivery
  <2>. QED
    BY <2>1, <2>2 DEF Counted
<1>2. Counted /\ [Next]_vars => Counted'
  <2>. SUFFICES ASSUME Counted, [Next]_vars PROVE (ReadIsCurrent /\ SendsCounted)'
    BY InvStep DEF Counted
  <2>1. ASSUME NEW k \in Keys, Emit(k) \/ Dispatch(k) \/ Purge(k) \/ GrowOld(k)
        PROVE  (ReadIsCurrent /\ SendsCounted)'
    <3>1. CASE Emit(k) \/ GrowOld(k)
      BY <3>1, CountQuiet DEF Emit, GrowOld
    <3>. QED
      BY <2>1, <3>1, CountDispatch, CountPurge
  <2>2. ASSUME NEW d \in Destinations, SetEnabled(d) \/ RemoveWebhook(d)
        PROVE  (ReadIsCurrent /\ SendsCounted)'
    BY <2>2, CountQuiet, CountRemove DEF SetEnabled
  <2>3. ASSUME NEW k \in Keys, NEW d \in Destinations, DeliveryStep(k, d)
        PROVE  (ReadIsCurrent /\ SendsCounted)'
    BY <2>3, CountRecord
  <2>4. ASSUME NEW p \in Processes, ProcessStep(p) \/ LoseAttempt(p)
        PROVE  (ReadIsCurrent /\ SendsCounted)'
    BY <2>4, CountRead, CountSend, CountResult, CountLoss DEF ProcessStep
  <2>5. CASE UNCHANGED vars
    BY <2>5, CountQuiet DEF vars
  <2>. QED
    BY <2>1, <2>2, <2>3, <2>4, <2>5 DEF Next
<1>3. Counted => SendsBounded
  <2>. SUFFICES ASSUME Counted, NEW k \in Keys, NEW d \in Destinations
                PROVE  sends[k][d] <= MaxAttempts + losses
    BY DEF SendsBounded
  <2>1. /\ RowCounted(k, d) /\ MaxAttempts \in Nat \ {0}
        /\ deliveries[k][d].attempts \in 0..MaxAttempts /\ sends[k][d] \in Nat /\ losses \in Nat
    BY CountTypes, NotificationsAssumption DEF Counted, Inv, SendsCounted
  <2>2. ASSUME NEW p \in Processes, HandedOver(p, k, d)
        PROVE  deliveries[k][d].attempts < MaxAttempts
    BY <2>2 DEF HandedOver, Attempts, Counted, Inv, AttemptsLeft, Row, Busy
  <2>. QED
    BY <2>1, <2>2 DEF RowCounted
<1>. QED
  BY <1>1, <1>2, <1>3, PTL DEF Spec

-----------------------------------------------------------------------------
(* The access of an installation: the types.                               *)

\* A handler that is at an event, and one that goes on with it.
AtEvent ==
  [pc: {"apply", "tokens", "mirrors"}, event: Access!Event, before: Access!State \cup {"none"}]

LEMMA HandlerKinds ==
  ASSUME Access!TypeOK, NEW h \in Handlers, handler[h].pc \in {"apply", "tokens", "mirrors"}
  PROVE  handler[h] \in AtEvent
<1>1. handler[h] \in Access!Handler
  BY DEF Access!TypeOK
<1>. QED
  BY <1>1 DEF Access!Handler, Access!Idle, AtEvent

LEMMA GotoType ==
  ASSUME Access!TypeOK, NEW h \in Handlers, handler[h].pc \in {"apply", "tokens", "mirrors"},
         NEW pc \in {"apply", "tokens", "mirrors"},
         Access!Goto(h, pc) \/ Access!Done(h)
  PROVE  handler' \in [Handlers -> Access!Handler]
<1>1. CASE Access!Goto(h, pc)
  <2>1. [handler[h] EXCEPT !.pc = pc] \in Access!Handler
    BY HandlerKinds DEF AtEvent, Access!Handler
  <2>. QED
    BY <1>1, <2>1 DEF Access!Goto, Access!TypeOK
<1>2. CASE Access!Done(h)
  BY <1>2 DEF Access!Done, Access!TypeOK, Access!Handler
<1>. QED
  BY <1>1, <1>2

\* What invalidate leaves in the cache, and removed directories of the mirrors.
LEMMA InvalidatedType ==
  ASSUME Access!TypeOK, NEW keys
  PROVE  Access!Invalidated(keys) \in [Access!Key -> {"none", "usable", "expired"}]
BY DEF Access!TypeOK, Access!Invalidated

LEMMA MirrorsType ==
  ASSUME Access!TypeOK, NEW gone
  PROVE  [r \in Repos |-> IF r \in gone THEN "none" ELSE mirrors[r]]
           \in [Repos -> {"none", "made", "used"}]
BY DEF Access!TypeOK

\* GitHub changes its mind.
LEMMA ChangesTyped ==
  ASSUME Access!TypeOK, Access!GitHubChanges
  PROVE  Access!TypeOK'
<1>1. PICK to, event :
        /\ Access!Change(to, event) /\ event \in Access!Event
        /\ to \in [state: Access!State \cup {"none"}, repos: SUBSET Repos]
  <2>. DEFINE Known(to, event) ==
                /\ Access!Change(to, event) /\ event \in Access!Event
                /\ to \in [state: Access!State \cup {"none"}, repos: SUBSET Repos]
  <2>0. github \in [state: Access!State \cup {"none"}, repos: SUBSET Repos]
    BY DEF Access!TypeOK
  <2>1. CASE \E S \in SUBSET Repos :
               Access!Change([state |-> "active", repos |-> S], [action |-> "created", repos |-> S])
    BY <2>1 DEF Access!Event, Access!State
  <2>2. CASE Access!Change([state |-> "deleted", repos |-> {}],
                           [action |-> "deleted", repos |-> {}])
    BY <2>2 DEF Access!Event, Access!State
  <2>3. CASE Access!Change([github EXCEPT !.state = "suspended"],
                           [action |-> "suspend", repos |-> {}])
    BY <2>0, <2>3 DEF Access!Event, Access!State
  <2>4. CASE Access!Change(github, [action |-> "new_permissions_accepted", repos |-> {}])
    BY <2>0, <2>4 DEF Access!Event
  <2>5. CASE \E r \in Repos \ github.repos :
               Access!Change([github EXCEPT !.repos = @ \cup {r}],
                             [action |-> "added", repos |-> {r}])
    BY <2>0, <2>5 DEF Access!Event
  <2>6. CASE \E r \in github.repos :
               Access!Change([github EXCEPT !.repos = @ \ {r}],
                             [action |-> "removed", repos |-> {r}])
    BY <2>0, <2>6 DEF Access!Event
  <2>7. CASE Access!Change([github EXCEPT !.state = "active"],
                           [action |-> "unsuspend", repos |-> {}])
    BY <2>0, <2>7 DEF Access!Event, Access!State
  <2>. QED
    BY <2>1, <2>2, <2>3, <2>4, <2>5, <2>6, <2>7 DEF Access!GitHubChanges
<1>2. ghChanges' \in 0..MaxChanges
  BY <1>1, RecordLimits DEF Access!Change, Access!TypeOK
<1>. QED
  BY <1>1, <1>2 DEF Access!Change, Access!TypeOK, Access!stored, Access!threads

\* A handler reads the record, and stops there when the event is late.
LEMMA ReceiveTyped ==
  ASSUME Access!TypeOK, NEW h \in Handlers, NEW event \in arrivals, Access!Receive(h, event)
  PROVE  Access!TypeOK'
<1>1. handler' \in [Handlers -> Access!Handler]
  BY DEF Access!Receive, Access!TypeOK, Access!Handler
<1>2. handled' \in 0..MaxHandled
  BY RecordLimits DEF Access!Receive, Access!TypeOK
<1>. QED
  BY <1>1, <1>2 DEF Access!Receive, Access!TypeOK, Access!stored

\* A step of a handler.
LEMMA HandleTyped ==
  ASSUME Access!TypeOK, NEW h \in Handlers, Access!Handle(h)
  PROVE  Access!TypeOK'
<1>1. CASE Access!Apply(h)
  <2>1. handler[h] \in AtEvent
    BY <1>1, HandlerKinds DEF Access!Apply
  <2>2. handler' \in [Handlers -> Access!Handler]
    BY <1>1, GotoType DEF Access!Apply
  <2>3. record' \in Access!State \cup {"none"}
    BY <1>1, <2>1 DEF Access!Apply, Access!StateAfter, Access!State, Access!TypeOK, AtEvent
  <2>4. listed' \subseteq Repos
    <3>1. handler[h].event.repos \subseteq Repos /\ listed \subseteq Repos
      BY <2>1 DEF AtEvent, Access!Event, Access!TypeOK
    <3>. QED
      BY <1>1, <3>1 DEF Access!Apply, Access!ListAfter
  <2>. QED
    BY <1>1, <2>2, <2>3, <2>4 DEF Access!Apply, Access!TypeOK, Access!bounds
<1>2. CASE Access!ForgetTokens(h)
  <2>1. handler' \in [Handlers -> Access!Handler]
    BY <1>2, GotoType DEF Access!ForgetTokens
  <2>2. cache' \in [Access!Key -> {"none", "usable", "expired"}]
    BY <1>2, InvalidatedType DEF Access!ForgetTokens
  <2>. QED
    BY <1>2, <2>1, <2>2 DEF Access!ForgetTokens, Access!TypeOK, Access!bounds, Access!stored
<1>3. CASE Access!RemoveMirrors(h)
  <2>1. handler' \in [Handlers -> Access!Handler]
    BY <1>3, GotoType DEF Access!RemoveMirrors
  <2>2. mirrors' \in [Repos -> {"none", "made", "used"}]
    BY <1>3, MirrorsType DEF Access!RemoveMirrors
  <2>3. old' \subseteq Repos
    BY <1>3 DEF Access!RemoveMirrors, Access!TypeOK
  <2>. QED
    BY <1>3, <2>1, <2>2, <2>3
    DEF Access!RemoveMirrors, Access!TypeOK, Access!bounds, Access!stored
<1>. QED
  BY <1>1, <1>2, <1>3 DEF Access!Handle

-----------------------------------------------------------------------------
\* A job knows its repository, and what it fetched.
LEMMA JobKinds ==
  ASSUME Access!TypeOK, NEW w \in Jobs, job[w] # Access!Idle
  PROVE  /\ job[w].repo \in Repos
         /\ job[w].pc = "store_record" => job[w].state \in Access!State
<1>1. job[w] \in Access!Job
  BY DEF Access!TypeOK
<1>. QED
  BY <1>1 DEF Access!Job, Access!Idle

LEMMA JobType ==
  ASSUME Access!TypeOK, NEW w \in Jobs, NEW r \in Repos,
         NEW pc \in {"fetch_record", "token", "mint", "cache", "lookup", "list", "init",
                     "prepare", "read"},
         \/ Access!JobIs(w, [pc |-> pc, repo |-> r])
         \/ \E state \in Access!State :
              Access!JobIs(w, [pc |-> "store_record", repo |-> r, state |-> state])
         \/ Access!JobIs(w, Access!Idle)
  PROVE  job' \in [Jobs -> Access!Job]
BY DEF Access!TypeOK, Access!JobIs, Access!Job

\* The job goes on with its repository, or ends.
LEMMA JobGotoType ==
  ASSUME Access!TypeOK, NEW w \in Jobs, job[w] # Access!Idle,
         NEW pc \in {"fetch_record", "token", "mint", "cache", "lookup", "list", "init",
                     "prepare", "read"},
         Access!JobGoto(w, pc) \/ Access!JobIs(w, Access!Idle)
  PROVE  job' \in [Jobs -> Access!Job]
BY JobKinds, JobType DEF Access!JobGoto

\* What a step of a job may change.
LEMMA JobTyped ==
  ASSUME Access!TypeOK, Access!JobOnly, job' \in [Jobs -> Access!Job],
         record' \in Access!State \cup {"none"}, listed' \subseteq Repos,
         cache' \in [Access!Key -> {"none", "usable", "expired"}],
         mirrors' \in [Repos -> {"none", "made", "used"}], old' \subseteq Repos
  PROVE  Access!TypeOK'
BY DEF Access!TypeOK, Access!JobOnly, Access!bounds

LEMMA StartJobTyped ==
  ASSUME Access!TypeOK, NEW w \in Jobs, NEW r \in Repos, Access!StartJob(w, r)
  PROVE  Access!TypeOK'
<1>1. job' \in [Jobs -> Access!Job]
  BY JobType DEF Access!StartJob
<1>. QED
  BY <1>1, JobTyped DEF Access!StartJob, Access!TypeOK

\* A step of a worker.
LEMMA WorkerTyped ==
  ASSUME Access!TypeOK, NEW w \in Jobs, Access!WorkerStep(w)
  PROVE  Access!TypeOK'
<1>0. /\ record \in Access!State \cup {"none"} /\ listed \subseteq Repos /\ old \subseteq Repos
      /\ cache \in [Access!Key -> {"none", "usable", "expired"}]
      /\ mirrors \in [Repos -> {"none", "made", "used"}]
  BY DEF Access!TypeOK
<1>1. job[w] # Access!Idle /\ Access!JobOnly
  BY DEF Access!WorkerStep, Access!FetchRecord, Access!StoreRecord, Access!Token, Access!Mint,
       Access!CacheToken, Access!LookUp, Access!ListRepository, Access!InitMirror, Access!Fetch,
       Access!EndJob, Access!Idle
<1>2. job[w].repo \in Repos
  BY <1>1, JobKinds
<1>3. CASE Access!FetchRecord(w)
  <2>1. job' \in [Jobs -> Access!Job]
    <3>1. CASE Access!JobGoto(w, "token")
      BY <1>1, <3>1, JobGotoType
    <3>2. CASE \E state \in Access!State :
                 Access!JobIs(w, [pc |-> "store_record", repo |-> job[w].repo, state |-> state])
      BY <1>2, <3>2, JobType
    <3>. QED
      BY <1>3, <3>1, <3>2 DEF Access!FetchRecord, Access!State
  <2>. QED
    BY <1>0, <1>1, <1>3, <2>1, JobTyped DEF Access!FetchRecord
<1>4. CASE Access!StoreRecord(w)
  <2>1. job' \in [Jobs -> Access!Job] /\ record' \in Access!State
    BY <1>1, <1>4, JobGotoType, JobKinds DEF Access!StoreRecord
  <2>. QED
    BY <1>0, <1>1, <1>4, <2>1, JobTyped DEF Access!StoreRecord
<1>5. CASE Access!Token(w) \/ Access!Mint(w)
  <2>1. job' \in [Jobs -> Access!Job]
    BY <1>1, <1>5, JobGotoType DEF Access!Token, Access!Mint
  <2>2. UNCHANGED <<record, listed, cache, mirrors, old>>
    BY <1>5 DEF Access!Token, Access!Mint
  <2>. QED
    BY <1>0, <1>1, <2>1, <2>2, JobTyped
<1>6. CASE Access!CacheToken(w)
  <2>1. job' \in [Jobs -> Access!Job]
    BY <1>1, <1>6, JobGotoType DEF Access!CacheToken
  <2>2. cache' \in [Access!Key -> {"none", "usable", "expired"}]
    BY <1>0, <1>6 DEF Access!CacheToken
  <2>. QED
    BY <1>0, <1>1, <1>6, <2>1, <2>2, JobTyped DEF Access!CacheToken
<1>7. CASE Access!LookUp(w)
  <2>1. job' \in [Jobs -> Access!Job]
    BY <1>1, <1>7, JobGotoType DEF Access!LookUp
  <2>2. cache' \in [Access!Key -> {"none", "usable", "expired"}]
    BY <1>0, <1>7, InvalidatedType DEF Access!LookUp
  <2>. QED
    BY <1>0, <1>1, <1>7, <2>1, <2>2, JobTyped DEF Access!LookUp
<1>8. CASE Access!ListRepository(w)
  <2>1. job' \in [Jobs -> Access!Job] /\ listed' \subseteq Repos
    BY <1>0, <1>1, <1>2, <1>8, JobGotoType DEF Access!ListRepository
  <2>. QED
    BY <1>0, <1>1, <1>8, <2>1, JobTyped DEF Access!ListRepository
<1>9. CASE Access!InitMirror(w)
  <2>1. job' \in [Jobs -> Access!Job]
    BY <1>1, <1>9, JobGotoType DEF Access!InitMirror
  <2>2. mirrors' \in [Repos -> {"none", "made", "used"}]
    BY <1>0, <1>9 DEF Access!InitMirror
  <2>. QED
    BY <1>0, <1>1, <1>9, <2>1, <2>2, JobTyped DEF Access!InitMirror
<1>10. CASE Access!Fetch(w)
  <2>1. job' \in [Jobs -> Access!Job]
    BY <1>1, <1>10, JobGotoType DEF Access!Fetch
  <2>2. mirrors' \in [Repos -> {"none", "made", "used"}] /\ old' \subseteq Repos
    BY <1>0, <1>10 DEF Access!Fetch
  <2>. QED
    BY <1>0, <1>1, <1>10, <2>1, <2>2, JobTyped DEF Access!Fetch
<1>11. CASE Access!EndJob(w)
  <2>1. job' \in [Jobs -> Access!Job]
    BY <1>1, <1>11, JobGotoType DEF Access!EndJob
  <2>. QED
    BY <1>0, <1>1, <1>11, <2>1, JobTyped DEF Access!EndJob
<1>. QED
  BY <1>3, <1>4, <1>5, <1>6, <1>7, <1>8, <1>9, <1>10, <1>11 DEF Access!WorkerStep

-----------------------------------------------------------------------------
\* What a synchronisation knows, by its place.
LEMMA SyncKinds ==
  ASSUME Access!TypeOK, NEW s \in Syncs
  PROVE  /\ sync[s].pc = "record" => sync[s].state \in Access!State
         /\ sync[s].pc \in {"token", "list"}
              => sync[s] \in [pc: {"token", "list"}, before: SUBSET Repos]
         /\ sync[s].pc = "replace"
              => sync[s].before \subseteq Repos /\ sync[s].repos \subseteq Repos
<1>1. sync[s] \in Access!Sync
  BY DEF Access!TypeOK
<1>. QED
  BY <1>1 DEF Access!Sync, Access!Idle

\* What a step of a synchronisation may change.
LEMMA SyncTyped ==
  ASSUME Access!TypeOK, NEW s \in Syncs, NEW next \in Access!Sync, Access!SyncIs(s, next),
         Access!SyncOnly,
         record' \in Access!State \cup {"none"}, listed' \subseteq Repos,
         syncStatus' \in {"none", "syncing", "healthy", "failed"},
         cache' \in [Access!Key -> {"none", "usable", "expired"}],
         mirrors' \in [Repos -> {"none", "made", "used"}], old' \subseteq Repos
  PROVE  Access!TypeOK'
<1>1. sync' \in [Syncs -> Access!Sync]
  BY DEF Access!TypeOK, Access!SyncIs
<1>. QED
  BY <1>1 DEF Access!TypeOK, Access!SyncOnly, Access!bounds

\* A step of a synchronisation.
LEMMA SyncStepTyped ==
  ASSUME Access!TypeOK, NEW s \in Syncs, Access!StartSync(s) \/ Access!SyncStep(s)
  PROVE  Access!TypeOK'
<1>0. /\ record \in Access!State \cup {"none"} /\ listed \subseteq Repos /\ old \subseteq Repos
      /\ cache \in [Access!Key -> {"none", "usable", "expired"}]
      /\ mirrors \in [Repos -> {"none", "made", "used"}]
      /\ syncStatus \in {"none", "syncing", "healthy", "failed"}
      /\ github \in [state: Access!State \cup {"none"}, repos: SUBSET Repos]
      /\ Access!SyncOnly
  BY DEF Access!TypeOK, Access!SyncStep, Access!StartSync, Access!SyncInfo, Access!SyncRecord,
       Access!SyncToken, Access!SyncList, Access!SyncReplace, Access!SyncMirrors,
       Access!SyncFails, Access!EndSync
<1>1. CASE Access!StartSync(s)
  <2>1. [pc |-> "info"] \in Access!Sync
    BY DEF Access!Sync
  <2>. QED
    BY <1>0, <1>1, <2>1, SyncTyped DEF Access!StartSync
<1>2. CASE Access!SyncInfo(s)
  <2>1. [pc |-> "record", state |-> github.state] \in Access!Sync
    BY <1>2 DEF Access!Sync, Access!SyncInfo, Access!State
  <2>. QED
    BY <1>0, <1>2, <2>1, SyncTyped DEF Access!SyncInfo, Access!stored
<1>3. CASE Access!SyncRecord(s)
  <2>1. sync[s].state \in Access!State
    BY <1>3, SyncKinds DEF Access!SyncRecord
  <2>2. [pc |-> "failed"] \in Access!Sync /\ [pc |-> "token", before |-> listed] \in Access!Sync
    BY <1>0 DEF Access!Sync
  <2>. QED
    BY <1>0, <1>3, <2>1, <2>2, SyncTyped, InvalidatedType DEF Access!SyncRecord
<1>4. CASE Access!SyncToken(s)
  <2>1. [sync[s] EXCEPT !.pc = "list"] \in Access!Sync
    BY <1>4, SyncKinds DEF Access!Sync, Access!SyncToken
  <2>2. cache' \in [Access!Key -> {"none", "usable", "expired"}]
    BY <1>0, <1>4 DEF Access!SyncToken
  <2>. QED
    BY <1>0, <1>4, <2>1, <2>2, SyncTyped DEF Access!SyncToken, Access!stored
<1>5. CASE Access!SyncList(s)
  <2>1. sync[s].before \subseteq Repos /\ github.repos \subseteq Repos
    BY <1>0, <1>5, SyncKinds DEF Access!SyncList
  <2>2. /\ [pc |-> "replace", before |-> sync[s].before, repos |-> github.repos] \in Access!Sync
        /\ [pc |-> "failed"] \in Access!Sync
    BY <2>1 DEF Access!Sync
  <2>. QED
    BY <1>0, <1>5, <2>2, SyncTyped, InvalidatedType DEF Access!SyncList, Access!stored
<1>6. CASE Access!SyncReplace(s)
  <2>1. sync[s].before \subseteq Repos /\ sync[s].repos \subseteq Repos
    BY <1>6, SyncKinds DEF Access!SyncReplace
  <2>2. [pc |-> "mirrors", removed |-> sync[s].before \ sync[s].repos] \in Access!Sync
    BY <2>1 DEF Access!Sync
  <2>. QED
    BY <1>0, <1>6, <2>1, <2>2, SyncTyped DEF Access!SyncReplace
<1>7. CASE Access!SyncMirrors(s)
  <2>1. [pc |-> "healthy"] \in Access!Sync
    BY DEF Access!Sync
  <2>2. /\ cache' \in [Access!Key -> {"none", "usable", "expired"}]
        /\ mirrors' \in [Repos -> {"none", "made", "used"}] /\ old' \subseteq Repos
    BY <1>0, <1>7, InvalidatedType, MirrorsType DEF Access!SyncMirrors
  <2>. QED
    BY <1>0, <1>7, <2>1, <2>2, SyncTyped DEF Access!SyncMirrors, Access!stored
<1>8. CASE Access!SyncFails(s)
  <2>1. [pc |-> "failed"] \in Access!Sync
    BY DEF Access!Sync
  <2>. QED
    BY <1>0, <1>8, <2>1, SyncTyped DEF Access!SyncFails, Access!stored
<1>9. CASE Access!EndSync(s)
  <2>1. Access!Idle \in Access!Sync /\ sync[s].pc \in {"healthy", "failed"}
    BY <1>9 DEF Access!Sync, Access!EndSync
  <2>. QED
    BY <1>0, <1>9, <2>1, SyncTyped DEF Access!EndSync
<1>. QED
  BY <1>1, <1>2, <1>3, <1>4, <1>5, <1>6, <1>7, <1>8, <1>9 DEF Access!SyncStep

-----------------------------------------------------------------------------
\* Time, retention and crashes.
LEMMA RetentionTyped ==
  ASSUME Access!TypeOK,
         \/ \E k \in Access!Key : Access!ExpireToken(k)
         \/ \E r \in Repos : Access!Age(r) \/ Access!CheckUnused(r) \/ Access!RemoveUnused(r)
         \/ Access!Crash
  PROVE  Access!TypeOK'
<1>1. ASSUME NEW k \in Access!Key, Access!ExpireToken(k) PROVE Access!TypeOK'
  <2>1. cache' \in [Access!Key -> {"none", "usable", "expired"}]
    BY <1>1 DEF Access!ExpireToken, Access!TypeOK
  <2>. QED
    BY <1>1, <2>1
    DEF Access!ExpireToken, Access!TypeOK, Access!stored, Access!threads, Access!bounds
<1>2. ASSUME NEW r \in Repos, Access!Age(r) PROVE Access!TypeOK'
  BY <1>2 DEF Access!Age, Access!TypeOK, Access!stored, Access!threads, Access!bounds
<1>3. ASSUME NEW r \in Repos, Access!CheckUnused(r) PROVE Access!TypeOK'
  BY <1>3 DEF Access!CheckUnused, Access!TypeOK, Access!stored, Access!bounds
<1>4. ASSUME NEW r \in Repos, Access!RemoveUnused(r) PROVE Access!TypeOK'
  <2>1. mirrors' \in [Repos -> {"none", "made", "used"}]
    BY <1>4 DEF Access!RemoveUnused, Access!TypeOK
  <2>. QED
    BY <1>4, <2>1 DEF Access!RemoveUnused, Access!TypeOK, Access!stored, Access!bounds
<1>5. CASE Access!Crash
  <2>1. crashes' \in 0..MaxCrashes
    BY <1>5, RecordLimits DEF Access!Crash, Access!TypeOK
  <2>2. /\ cache' \in [Access!Key -> {"none", "usable", "expired"}]
        /\ handler' \in [Handlers -> Access!Handler] /\ job' \in [Jobs -> Access!Job]
        /\ sync' \in [Syncs -> Access!Sync]
    BY <1>5 DEF Access!Crash, Access!Handler, Access!Job, Access!Sync
  <2>. QED
    BY <1>5, <2>1, <2>2 DEF Access!Crash, Access!TypeOK, Access!stored
<1>. QED
  BY <1>1, <1>2, <1>3, <1>4, <1>5

LEMMA AccessTyped ==
  ASSUME Access!TypeOK, [Access!Next]_accessVars
  PROVE  Access!TypeOK'
<1>1. CASE Access!Next
  BY <1>1, ChangesTyped, ReceiveTyped, HandleTyped, StartJobTyped, WorkerTyped, SyncStepTyped,
     RetentionTyped DEF Access!Next
<1>2. CASE UNCHANGED accessVars
  BY <1>2 DEF accessVars, Access!TypeOK
<1>. QED
  BY <1>1, <1>2

LEMMA AccessBegins ==
  ASSUME Access!Init
  PROVE  Access!TypeOK
BY RecordLimits DEF Access!Init, Access!TypeOK, Access!State, Access!Handler, Access!Job,
   Access!Sync

-----------------------------------------------------------------------------
(* Sessions: the types.                                                    *)

SignInRow == [status: {"new", "gone"}] \cup [status: {"pending"}, age: 0..StateLimit]
SessionRow == [status: {"new", "ended"}] \cup SignedIn!Live
Checking == [step: {"expire", "touch", "roles"}, id: SessionIds, age: 0..Lifetime]
Acting == [step: {"act"}, id: SessionIds, user: Users, role: SignedIn!Role]
ThreadState == {SignedIn!Idle} \cup Checking \cup Acting \cup SignedIn!SigningIn

\* The types, with names for the kinds of rows.
LEMMA SessionTypes ==
  SignedIn!TypeOK <=>
    /\ role \in [Users -> SignedIn!Role] /\ signIn \in [SignIns -> SignInRow]
    /\ session \in [SessionIds -> SessionRow] /\ thread \in [Threads -> ThreadState]
    /\ changes \in 0..0
BY DEF SignedIn!TypeOK, SignInRow, SessionRow, ThreadState, SignedIn!Request, Checking, Acting

LEMMA SessionTypesNext ==
  ASSUME role' \in [Users -> SignedIn!Role], signIn' \in [SignIns -> SignInRow],
         session' \in [SessionIds -> SessionRow], thread' \in [Threads -> ThreadState],
         changes' \in 0..0
  PROVE  SignedIn!TypeOK'
BY DEF SignedIn!TypeOK, SignInRow, SessionRow, ThreadState, SignedIn!Request, Checking, Acting

\* What a thread holds, by what it is doing.
LEMMA ThreadKinds ==
  ASSUME NEW r \in ThreadState
  PROVE  /\ r.step = "exchange" => r \in SignedIn!SigningIn
         /\ r.step \in {"expire", "touch", "roles"} => r \in Checking
         /\ r.step = "act" => r \in Acting
BY DEF ThreadState, SignedIn!Idle, Checking, Acting, SignedIn!SigningIn

\* A live session has all its columns.
LEMMA LiveRow ==
  ASSUME NEW s \in SessionRow, s.status = "live"
  PROVE  s \in SignedIn!Live
BY DEF SessionRow

\* A thread that goes on, and rows that are deleted.
LEMMA ThreadTyped ==
  ASSUME SignedIn!TypeOK, NEW t \in Threads, NEW r \in ThreadState, SignedIn!Begin(t, r)
  PROVE  thread' \in [Threads -> ThreadState]
BY SessionTypes DEF SignedIn!Begin

LEMMA EndingTyped ==
  ASSUME SignedIn!TypeOK, NEW S, SignedIn!EndSessions(S)
  PROVE  session' \in [SessionIds -> SessionRow]
BY SessionTypes DEF SignedIn!EndSessions, SessionRow

LEMMA OverdueTyped ==
  ASSUME SignedIn!TypeOK
  PROVE  SignedIn!WithoutOverdue \in [SignIns -> SignInRow]
BY SessionTypes DEF SignedIn!WithoutOverdue, SignInRow

\* An age that grows up to its limit stays an age.
LEMMA AgeGrows ==
  ASSUME NEW limit \in Nat, NEW age \in 0..limit
  PROVE  (IF age < limit THEN age + 1 ELSE age) \in 0..limit
OBVIOUS

LEMMA OlderRows ==
  /\ \A r \in [status: {"pending"}, age: 0..StateLimit] :
       SignedIn!Older(r, StateLimit) \in [status: {"pending"}, age: 0..StateLimit]
  /\ \A r \in Checking : SignedIn!Older(r, Lifetime) \in Checking
  /\ \A r \in SignedIn!SigningIn : SignedIn!Older(r, Lifetime) \in SignedIn!SigningIn
<1>1. ASSUME NEW r \in [status: {"pending"}, age: 0..StateLimit]
      PROVE  SignedIn!Older(r, StateLimit) \in [status: {"pending"}, age: 0..StateLimit]
  BY AgeGrows, RecordLimits DEF SignedIn!Older
<1>2. ASSUME NEW r, r \in Checking \/ r \in SignedIn!SigningIn
      PROVE  (IF r.age < Lifetime THEN r.age + 1 ELSE r.age) \in 0..Lifetime
  BY <1>2, AgeGrows, RecordLimits DEF Checking, SignedIn!SigningIn
<1>3. ASSUME NEW r \in Checking PROVE SignedIn!Older(r, Lifetime) \in Checking
  BY <1>2 DEF SignedIn!Older, Checking
<1>4. ASSUME NEW r \in SignedIn!SigningIn
      PROVE  SignedIn!Older(r, Lifetime) \in SignedIn!SigningIn
  BY <1>2 DEF SignedIn!Older, SignedIn!SigningIn
<1>. QED
  BY <1>1, <1>3, <1>4

LEMMA OlderLive ==
  ASSUME NEW r \in SignedIn!Live
  PROVE  [SignedIn!Older(r, Lifetime) EXCEPT !.idle = IF @ < Lifetime THEN @ + 1 ELSE @]
           \in SignedIn!Live
<1>1. /\ (IF r.age < Lifetime THEN r.age + 1 ELSE r.age) \in 0..Lifetime
      /\ (IF r.idle < Lifetime THEN r.idle + 1 ELSE r.idle) \in 0..Lifetime
  BY AgeGrows, RecordLimits DEF SignedIn!Live
<1>2. SignedIn!Older(r, Lifetime) \in SignedIn!Live /\ SignedIn!Older(r, Lifetime).idle = r.idle
  BY <1>1 DEF SignedIn!Older, SignedIn!Live
<1>. QED
  BY <1>1, <1>2 DEF SignedIn!Live

\* Everything gets older.
LEMMA TickTyped ==
  ASSUME SignedIn!TypeOK, SignedIn!Tick
  PROVE  SignedIn!TypeOK'
<1>1. ASSUME NEW s \in SignIns PROVE signIn'[s] \in SignInRow
  <2>1. CASE signIn[s].status = "pending"
    BY <2>1, SessionTypes, OlderRows DEF SignedIn!Tick, SignInRow
  <2>2. CASE signIn[s].status # "pending"
    BY <2>2, SessionTypes DEF SignedIn!Tick
  <2>. QED
    BY <2>1, <2>2
<1>2. ASSUME NEW i \in SessionIds PROVE session'[i] \in SessionRow
  <2>1. CASE session[i].status = "live"
    <3>1. session[i] \in SignedIn!Live
      BY <2>1, SessionTypes, LiveRow
    <3>2. session'[i] = [SignedIn!Older(session[i], Lifetime)
            EXCEPT !.idle = IF @ < Lifetime THEN @ + 1 ELSE @]
      BY <2>1 DEF SignedIn!Tick
    <3>. QED
      BY <3>1, <3>2, OlderLive DEF SessionRow
  <2>2. CASE session[i].status # "live"
    BY <2>2, SessionTypes DEF SignedIn!Tick
  <2>. QED
    BY <2>1, <2>2
<1>3. ASSUME NEW t \in Threads PROVE thread'[t] \in ThreadState
  <2>1. thread[t] \in ThreadState
    BY SessionTypes
  <2>2. CASE thread[t].step \in {"exchange", "expire", "touch", "roles"}
    <3>1. thread[t] \in Checking \/ thread[t] \in SignedIn!SigningIn
      BY <2>1, <2>2, ThreadKinds
    <3>2. thread'[t] = SignedIn!Older(thread[t], Lifetime)
      BY <2>2 DEF SignedIn!Tick
    <3>. QED
      BY <3>1, <3>2, OlderRows DEF ThreadState
  <2>3. CASE thread[t].step \notin {"exchange", "expire", "touch", "roles"}
    BY <2>1, <2>3 DEF SignedIn!Tick
  <2>. QED
    BY <2>2, <2>3
<1>4. /\ signIn' \in [SignIns -> SignInRow] /\ session' \in [SessionIds -> SessionRow]
      /\ thread' \in [Threads -> ThreadState] /\ UNCHANGED <<role, changes>>
  BY <1>1, <1>2, <1>3 DEF SignedIn!Tick
<1>. QED
  BY <1>4, SessionTypes, SessionTypesNext

\* Sign-in.
LEMMA SigningInTyped ==
  ASSUME SignedIn!TypeOK,
         \/ SignedIn!Purge
         \/ \E s \in SignIns : SignedIn!BeginSignIn(s)
         \/ \E t \in Threads, s \in SignIns : SignedIn!ConsumeState(t, s)
         \/ \E t \in Threads, i \in SessionIds, u \in Users, access \in BOOLEAN :
              SignedIn!StoreSession(t, i, u, access)
  PROVE  SignedIn!TypeOK'
<1>0. /\ role \in [Users -> SignedIn!Role] /\ signIn \in [SignIns -> SignInRow]
      /\ session \in [SessionIds -> SessionRow] /\ thread \in [Threads -> ThreadState]
      /\ changes \in 0..0 /\ 0 \in 0..StateLimit /\ 0 \in 0..Lifetime
  BY SessionTypes, RecordLimits
<1>1. CASE SignedIn!Purge
  <2>1. session' \in [SessionIds -> SessionRow]
    BY <1>1, EndingTyped DEF SignedIn!Purge
  <2>. QED
    BY <1>0, <1>1, <2>1, OverdueTyped, SessionTypesNext DEF SignedIn!Purge
<1>2. ASSUME NEW s \in SignIns, SignedIn!BeginSignIn(s) PROVE SignedIn!TypeOK'
  <2>1. [status |-> "pending", age |-> 0] \in SignInRow
    BY <1>0 DEF SignInRow
  <2>2. signIn' \in [SignIns -> SignInRow]
    BY <1>2, <2>1, OverdueTyped DEF SignedIn!BeginSignIn
  <2>. QED
    BY <1>0, <1>2, <2>2, SessionTypesNext DEF SignedIn!BeginSignIn
<1>3. ASSUME NEW t \in Threads, NEW s \in SignIns, SignedIn!ConsumeState(t, s)
      PROVE  SignedIn!TypeOK'
  <2>1. /\ [status |-> "gone"] \in SignInRow
        /\ [step |-> "exchange", signIn |-> s, age |-> 0] \in ThreadState
    BY <1>0 DEF SignInRow, ThreadState, SignedIn!SigningIn
  <2>2. signIn' \in [SignIns -> SignInRow] /\ thread' \in [Threads -> ThreadState]
    BY <1>0, <1>3, <2>1, ThreadTyped DEF SignedIn!ConsumeState
  <2>. QED
    BY <1>0, <1>3, <2>2, SessionTypesNext DEF SignedIn!ConsumeState
<1>4. ASSUME NEW t \in Threads, NEW i \in SessionIds, NEW u \in Users, NEW access \in BOOLEAN,
             SignedIn!StoreSession(t, i, u, access)
      PROVE  SignedIn!TypeOK'
  <2>1. thread[t] \in SignedIn!SigningIn
    BY <1>0, <1>4, ThreadKinds DEF SignedIn!StoreSession
  <2>2. [status |-> "live", user |-> u, signIn |-> thread[t].signIn, access |-> access,
         age |-> thread[t].age, idle |-> thread[t].age] \in SessionRow
    BY <2>1 DEF SessionRow, SignedIn!Live, SignedIn!SigningIn
  <2>3. SignedIn!Idle \in ThreadState
    BY DEF ThreadState
  <2>4. session' \in [SessionIds -> SessionRow] /\ thread' \in [Threads -> ThreadState]
    BY <1>0, <1>4, <2>2, <2>3, ThreadTyped DEF SignedIn!StoreSession, SignedIn!End
  <2>. QED
    BY <1>0, <1>4, <2>4, SessionTypesNext DEF SignedIn!StoreSession
<1>. QED
  BY <1>1, <1>2, <1>3, <1>4

\* The checks of a request.
LEMMA RequestTyped ==
  ASSUME SignedIn!TypeOK, NEW t \in Threads,
         \/ \E i \in SessionIds : SignedIn!Authenticate(t, i)
         \/ SignedIn!Touch(t) \/ SignedIn!ReadRoles(t)
  PROVE  SignedIn!TypeOK'
<1>0. /\ role \in [Users -> SignedIn!Role] /\ signIn \in [SignIns -> SignInRow]
      /\ session \in [SessionIds -> SessionRow] /\ thread \in [Threads -> ThreadState]
      /\ changes \in 0..0 /\ 0 \in 0..Lifetime
  BY SessionTypes, RecordLimits
<1>1. ASSUME NEW i \in SessionIds, SignedIn!Authenticate(t, i) PROVE SignedIn!TypeOK'
  <2>1. \A step \in {"expire", "touch", "roles"} :
          [step |-> step, id |-> i, age |-> 0] \in ThreadState
    BY <1>0 DEF ThreadState, Checking
  <2>2. thread' \in [Threads -> ThreadState]
    BY <1>1, <2>1, ThreadTyped DEF SignedIn!Authenticate
  <2>. QED
    BY <1>0, <1>1, <2>2, SessionTypesNext DEF SignedIn!Authenticate
<1>2. CASE SignedIn!Touch(t)
  <2>1. thread[t] \in Checking
    BY <1>0, <1>2, ThreadKinds DEF SignedIn!Touch
  <2>2. [thread[t] EXCEPT !.step = "roles"] \in ThreadState
    BY <2>1 DEF ThreadState, Checking
  <2>3. thread' \in [Threads -> ThreadState]
    BY <1>2, <2>2, ThreadTyped DEF SignedIn!Touch
  <2>4. thread[t].id \in SessionIds /\ thread[t].age \in 0..Lifetime
    BY <2>1 DEF Checking
  <2>5. session[thread[t].id].status = "live" =>
          SignedIn!Touched(session[thread[t].id], thread[t].age) \in SessionRow
    BY <1>0, <2>4, LiveRow DEF SignedIn!Touched, SignedIn!Live, SessionRow
  <2>6. session' \in [SessionIds -> SessionRow]
    <3>1. CASE session[thread[t].id].status = "live"
      <4>1. session' = [session EXCEPT ![thread[t].id] =
                          SignedIn!Touched(session[thread[t].id], thread[t].age)]
        BY <1>2, <3>1 DEF SignedIn!Touch
      <4>. QED
        BY <1>0, <2>5, <3>1, <4>1
    <3>2. CASE session[thread[t].id].status # "live"
      BY <1>0, <1>2, <2>4, <3>2 DEF SignedIn!Touch
    <3>. QED
      BY <3>1, <3>2
  <2>. QED
    BY <1>0, <1>2, <2>3, <2>6, SessionTypesNext DEF SignedIn!Touch
<1>3. CASE SignedIn!ReadRoles(t)
  <2>. DEFINE s == session[thread[t].id]
  <2>1. thread[t].id \in SessionIds
    BY <1>0, <1>3, ThreadKinds DEF SignedIn!ReadRoles, Checking
  <2>2. CASE s.status = "live"
    <3>1. s.user \in Users /\ s.access \in BOOLEAN
      BY <1>0, <2>1, <2>2, LiveRow DEF SignedIn!Live
    <3>2. [step |-> "act", id |-> thread[t].id, user |-> s.user,
           role |-> IF s.access THEN role[s.user] ELSE "none"] \in ThreadState
      BY <1>0, <2>1, <3>1 DEF ThreadState, Acting, SignedIn!Role
    <3>3. thread' \in [Threads -> ThreadState]
      BY <1>3, <2>2, <3>2, ThreadTyped DEF SignedIn!ReadRoles
    <3>. QED
      BY <1>0, <1>3, <3>3, SessionTypesNext DEF SignedIn!ReadRoles
  <2>3. CASE s.status # "live"
    <3>1. SignedIn!Idle \in ThreadState
      BY DEF ThreadState
    <3>2. thread' \in [Threads -> ThreadState]
      BY <1>3, <2>3, <3>1, ThreadTyped DEF SignedIn!ReadRoles, SignedIn!End
    <3>. QED
      BY <1>0, <1>3, <3>2, SessionTypesNext DEF SignedIn!ReadRoles
  <2>. QED
    BY <2>2, <2>3
<1>. QED
  BY <1>1, <1>2, <1>3

\* A request or a command that ends, with what it did to roles and sessions.
LEMMA EndTyped ==
  ASSUME SignedIn!TypeOK, UNCHANGED signIn,
         UNCHANGED thread \/ \E t \in Threads : SignedIn!End(t),
         UNCHANGED session \/ \E S : SignedIn!EndSessions(S),
         role' \in [Users -> SignedIn!Role], changes' \in 0..0
  PROVE  SignedIn!TypeOK'
<1>1. session' \in [SessionIds -> SessionRow]
  BY EndingTyped, SessionTypes
<1>2. SignedIn!Idle \in ThreadState
  BY DEF ThreadState
<1>3. thread' \in [Threads -> ThreadState]
  BY <1>2, ThreadTyped, SessionTypes DEF SignedIn!End
<1>. QED
  BY <1>1, <1>3, SessionTypes, SessionTypesNext

\* The transactions of grant and remove.
LEMMA RolesTyped ==
  ASSUME SignedIn!TypeOK, NEW u \in Users,
         (\E new \in SignedIn!Role : SignedIn!GrantRole(u, new)) \/ SignedIn!RemoveRole(u)
  PROVE  role' \in [Users -> SignedIn!Role] /\ changes' \in 0..0
BY SessionTypes DEF SignedIn!GrantRole, SignedIn!RemoveRole, SignedIn!Role

LEMMA SessionsTyped ==
  ASSUME SignedIn!TypeOK, [SignedIn!Next]_sessionVars
  PROVE  SignedIn!TypeOK'
<1>0. role \in [Users -> SignedIn!Role] /\ changes \in 0..0
  BY SessionTypes
<1>1. ASSUME NEW t \in Threads,
             \/ SignedIn!SignInFails(t) \/ SignedIn!Serve(t)
             \/ SignedIn!Expire(t) \/ SignedIn!SignOut(t)
             \/ \E i \in SessionIds : SignedIn!RevokeSession(t, i)
      PROVE  SignedIn!TypeOK'
  <2>1. SignedIn!End(t) /\ UNCHANGED <<role, signIn, changes>>
    BY <1>1 DEF SignedIn!SignInFails, SignedIn!Serve, SignedIn!Expire, SignedIn!SignOut,
       SignedIn!RevokeSession
  <2>2. UNCHANGED session \/ \E S : SignedIn!EndSessions(S)
    BY <1>1 DEF SignedIn!SignInFails, SignedIn!Serve, SignedIn!Expire, SignedIn!SignOut,
       SignedIn!RevokeSession
  <2>. QED
    BY <1>0, <2>1, <2>2, EndTyped
<1>2. ASSUME NEW t \in Threads, NEW u \in Users,
             \/ \E new \in SignedIn!Role \ {"none"} : SignedIn!PutMember(t, u, new)
             \/ SignedIn!DeleteMember(t, u)
      PROVE  SignedIn!TypeOK'
  <2>1. role' \in [Users -> SignedIn!Role] /\ changes' \in 0..0
    BY <1>2, RolesTyped DEF SignedIn!PutMember, SignedIn!DeleteMember
  <2>2. SignedIn!End(t) /\ UNCHANGED signIn
    BY <1>2 DEF SignedIn!PutMember, SignedIn!DeleteMember
  <2>3. UNCHANGED session \/ \E S : SignedIn!EndSessions(S)
    BY <1>2 DEF SignedIn!PutMember, SignedIn!DeleteMember, SignedIn!RemoveRole
  <2>. QED
    BY <2>1, <2>2, <2>3, EndTyped
<1>3. ASSUME NEW u \in Users,
             \/ \E new \in SignedIn!Role \ {"none"} : SignedIn!OperatorGrants(u, new)
             \/ SignedIn!OperatorRevokes(u)
      PROVE  SignedIn!TypeOK'
  <2>1. role' \in [Users -> SignedIn!Role] /\ changes' \in 0..0
    BY <1>3, RolesTyped DEF SignedIn!OperatorGrants, SignedIn!OperatorRevokes
  <2>2. UNCHANGED <<signIn, thread>>
    BY <1>3 DEF SignedIn!OperatorGrants, SignedIn!OperatorRevokes
  <2>3. UNCHANGED session \/ \E S : SignedIn!EndSessions(S)
    BY <1>3 DEF SignedIn!OperatorGrants, SignedIn!OperatorRevokes, SignedIn!RemoveRole
  <2>. QED
    BY <2>1, <2>2, <2>3, EndTyped
<1>4. CASE UNCHANGED sessionVars
  BY <1>4, SessionTypes DEF sessionVars, SignedIn!TypeOK
<1>. QED
  BY <1>1, <1>2, <1>3, <1>4, TickTyped, SigningInTyped, RequestTyped DEF SignedIn!Next

LEMMA SessionsBegin ==
  ASSUME SignedIn!Init
  PROVE  SignedIn!TypeOK
BY DEF SignedIn!Init, SignedIn!TypeOK, SignedIn!Role

-----------------------------------------------------------------------------
(* All records together.                                                   *)

\* What happens to the other records is nothing to the outbox.
LEMMA OutboxSpec == AllSpec => Spec
<1>1. AllInit => Init
  BY DEF AllInit
<1>2. [AllNext]_allVars => [Next]_vars
  BY DEF AllNext, allVars, OutboxStep, EventsStep, SyncedStep, SessionsStep, AccessOnly,
     SessionsOnly, outboxVars
<1>. QED
  BY <1>1, <1>2, PTL DEF AllSpec, Spec

\* Every record has its type: the outbox, whose counters stay in their range because nobody
\* attempts a delivery that has no attempt left, what is stored and cached of an
\* installation, whose list and mirrors are of its repositories whatever order its events
\* come in, and sessions, which do not get older than their lifetime.
THEOREM RecordsTyped ==
  ASSUME ~LeaseOutlived
  PROVE  AllSpec => []Types
<1>1. AllInit => Access!TypeOK /\ SignedIn!TypeOK
  BY AccessBegins, SessionsBegin DEF AllInit
<1>2. ASSUME Access!TypeOK /\ SignedIn!TypeOK, [AllNext]_allVars
      PROVE  Access!TypeOK' /\ SignedIn!TypeOK'
  <2>1. [Access!Next]_accessVars
    BY <1>2 DEF AllNext, allVars, OutboxStep, EventsStep, SyncedStep, SessionsStep, OutboxOnly,
       SessionsOnly
  <2>2. [SignedIn!Next]_sessionVars
    BY <1>2 DEF AllNext, allVars, OutboxStep, EventsStep, SyncedStep, SessionsStep, OutboxOnly,
       AccessOnly
  <2>. QED
    BY <1>2, <2>1, <2>2, AccessTyped, SessionsTyped
<1>3. TypeOK /\ Access!TypeOK /\ SignedIn!TypeOK => Types
  BY DEF Types
<1>. QED
  BY <1>1, <1>2, <1>3, OutboxSpec, TypeCorrect, PTL DEF AllSpec

\* Two processes never send a delivery at the same time, and an event is fanned out once,
\* beside everything else that is recorded.
COROLLARY RecordsSent ==
  ASSUME ~LeaseOutlived
  PROVE  AllSpec => []OneSender /\ FansOutOnce
BY OutboxSpec, OneSenderHolds, OneFanOut, PTL
=============================================================================
