----------------------------- MODULE Notifications -----------------------------
(***************************************************************************)
(* The notification outbox (notifications/outbox.py), its dispatcher       *)
(* (dispatcher.py) and the delivery workers (retry.py) of one              *)
(* organization, in several service processes that share the database.    *)
(*                                                                         *)
(* An event is its storage key, a delivery is an event and a destination:  *)
(* an e-mail address or a webhook endpoint.  Time is abstracted to what it *)
(* decides: a retry that is due, a lease that is live or expired, an event *)
(* that is older than the retention period.                                *)
(***************************************************************************)
EXTENDS Integers

CONSTANTS
  Keys,           \* storage keys of notification events
  Addresses,      \* e-mail recipients
  Endpoints,      \* webhook endpoints (endpoint_id)
  Processes,      \* the notification thread of every service process
  MaxAttempts,    \* MAX_ATTEMPTS
  MaxLosses,      \* bound: attempts whose process or transaction dies
  LeaseOutlived   \* may an attempt take longer than LEASE_SECONDS?

Destinations == Addresses \cup Endpoints

ASSUME NotificationsAssumption ==
  /\ Addresses \cap Endpoints = {}
  /\ MaxAttempts \in Nat \ {0}
  /\ MaxLosses \in Nat
  /\ LeaseOutlived \in BOOLEAN

VARIABLES
  events,      \* table notification_events
  deliveries,  \* table notification_deliveries
  enabled,     \* the destinations of the organization's settings
  removed,     \* endpoints with removed_at set
  process,     \* the attempt every process is making
  sends,       \* how often the provider was handed the message, up to SendLimit + 1
  losses

vars == <<events, deliveries, enabled, removed, process, sends, losses>>

-----------------------------------------------------------------------------
Event == [stored: BOOLEAN, dispatched: BOOLEAN, old: BOOLEAN]
NoEvent == [stored |-> FALSE, dispatched |-> FALSE, old |-> FALSE]

Delivery == [status  : {"none", "pending", "sent", "failed", "cancelled"},
             attempts: 0..MaxAttempts,
             due     : BOOLEAN,                          \* next_retry_at has passed
             lease   : {"none", "live", "expired"}]
NoDelivery == [status |-> "none", attempts |-> 0, due |-> FALSE, lease |-> "none"]
NewDelivery == [status |-> "pending", attempts |-> 0, due |-> TRUE, lease |-> "none"]

\* What the provider made of a message; "cancel" if it was not handed over
\* (_Cancelled: the endpoint was removed, or the channel is not configured).
Outcome == {"delivered", "retryable", "permanent", "cancel"}

Process == [step: {"idle"}]
           \cup [step: {"attempt"}, key: Keys, dest: Destinations]
           \cup [step: {"send"}, key: Keys, dest: Destinations,
                 attempts: 0..MaxAttempts, gone: BOOLEAN]
           \cup [step: {"store"}, key: Keys, dest: Destinations,
                 attempts: 0..MaxAttempts, outcome: Outcome]

\* An attempt is counted with its result, so one that is lost is not counted.
SendLimit == MaxAttempts + MaxLosses

TypeOK ==
  /\ events \in [Keys -> Event]
  /\ deliveries \in [Keys -> [Destinations -> Delivery]]
  /\ enabled \subseteq Destinations
  /\ removed \subseteq Endpoints
  /\ process \in [Processes -> Process]
  /\ sends \in [Keys -> [Destinations -> 0..(SendLimit + 1)]]
  /\ losses \in 0..MaxLosses

Init ==
  /\ events = [k \in Keys |-> NoEvent]
  /\ deliveries = [k \in Keys |-> [d \in Destinations |-> NoDelivery]]
  /\ enabled = Destinations
  /\ removed = {}
  /\ process = [p \in Processes |-> [step |-> "idle"]]
  /\ sends = [k \in Keys |-> [d \in Destinations |-> 0]]
  /\ losses = 0

Idle(p) == process[p].step = "idle"
Stop(p) == process' = [process EXCEPT ![p] = [step |-> "idle"]]
Attempts(p, k, d) == ~Idle(p) /\ process[p].key = k /\ process[p].dest = d

-----------------------------------------------------------------------------
(* Events.                                                                 *)

\* emit, in the transaction of the domain change: a repeat of a stored event
\* only makes it recent again.
Emit(k) ==
  /\ events' = [events EXCEPT ![k] = IF @.stored THEN [@ EXCEPT !.old = FALSE]
                                     ELSE [NoEvent EXCEPT !.stored = TRUE]]
  /\ UNCHANGED <<deliveries, enabled, removed, process, sends, losses>>

\* Mutant: the conditional update does not ask whether the event was dispatched.
Dispatchable(k) == events[k].stored

\* The event is stored and dispatched_at is NULL.
Undispatched(k) == events[k].stored /\ ~events[k].dispatched

\* Mutant: removed endpoints are not left out.
TargetsAll == enabled

\* Where the organization wants the event delivered (nowhere, if it is aggregated
\* into a digest); removed endpoints are left out.
Targets == enabled \ removed

\* NotificationDispatcher._dispatch: the claim and the delivery records in one
\* transaction; a record that exists is kept (INSERT OR IGNORE).
Dispatch(k) ==
  /\ Undispatched(k)
  /\ events' = [events EXCEPT ![k].dispatched = TRUE]
  /\ deliveries' = [deliveries EXCEPT ![k] = [d \in Destinations |->
       IF d \in Targets /\ @[d].status = "none" THEN NewDelivery ELSE @[d]]]
  /\ UNCHANGED <<enabled, removed, process, sends, losses>>

\* purge_expired keeps events that are not dispatched or still to be delivered.
Purgeable(k) ==
  /\ events[k].stored /\ events[k].old /\ events[k].dispatched
  /\ \A d \in Destinations : deliveries[k][d].status # "pending"

Purge(k) ==
  /\ Purgeable(k)
  /\ events' = [events EXCEPT ![k] = NoEvent]
  /\ deliveries' = [deliveries EXCEPT ![k] = [d \in Destinations |-> NoDelivery]]
  /\ sends' = [sends EXCEPT ![k] = [d \in Destinations |-> 0]]
  /\ UNCHANGED <<enabled, removed, process, losses>>

-----------------------------------------------------------------------------
(* Settings.                                                               *)

\* update_organization turns a destination on or off for later events.
SetEnabled(d) ==
  /\ enabled' = IF d \in enabled THEN enabled \ {d} ELSE enabled \cup {d}
  /\ UNCHANGED <<events, deliveries, removed, process, sends, losses>>

\* remove_webhook cancels what is pending for the endpoint, leases or not.
RemoveWebhook(d) ==
  /\ d \in Endpoints \ removed
  /\ removed' = removed \cup {d}
  /\ deliveries' = [k \in Keys |-> [deliveries[k] EXCEPT ![d] =
       IF @.status = "pending" THEN [@ EXCEPT !.status = "cancelled"] ELSE @]]
  /\ UNCHANGED <<events, enabled, process, sends, losses>>

-----------------------------------------------------------------------------
(* DeliveryWorker.                                                         *)

\* Mutant: another worker's lease is not respected.
ClaimableLeased(k, d) == deliveries[k][d].status = "pending" /\ deliveries[k][d].due

\* Mutant: a delivery whose worker died is not taken over.
ClaimableUnleased(k, d) ==
  deliveries[k][d].status = "pending" /\ deliveries[k][d].due /\ deliveries[k][d].lease = "none"

\* Pending, due, and not leased to another worker.
Claimable(k, d) ==
  /\ deliveries[k][d].status = "pending"
  /\ deliveries[k][d].due
  /\ deliveries[k][d].lease # "live"

\* _claim
Claim(p, k, d) ==
  /\ Idle(p)
  /\ Claimable(k, d)
  /\ deliveries' = [deliveries EXCEPT ![k][d].lease = "live"]
  /\ process' = [process EXCEPT ![p] = [step |-> "attempt", key |-> k, dest |-> d]]
  /\ UNCHANGED <<events, enabled, removed, sends, losses>>

\* _attempt reads the record and whether the endpoint was removed; a record that
\* retention deleted is passed over.
ReadDelivery(p) ==
  LET k == process[p].key
      d == process[p].dest
  IN /\ process[p].step = "attempt"
     /\ IF deliveries[k][d].status = "none" THEN Stop(p)
        ELSE process' = [process EXCEPT ![p] =
               [step |-> "send", key |-> k, dest |-> d,
                attempts |-> deliveries[k][d].attempts, gone |-> d \in removed]]
     /\ UNCHANGED <<events, deliveries, enabled, removed, sends, losses>>

Sent(n) == IF n > SendLimit THEN n ELSE n + 1

\* _send: a provider may accept the message although the caller sees an error.
Send(p) ==
  LET k == process[p].key
      d == process[p].dest
  IN /\ process[p].step = "send"
     /\ \E outcome \in IF process[p].gone THEN {"cancel"} ELSE Outcome :
          /\ process' = [process EXCEPT ![p] =
               [step |-> "store", key |-> k, dest |-> d,
                attempts |-> process[p].attempts, outcome |-> outcome]]
          /\ sends' = IF outcome = "cancel" THEN sends ELSE [sends EXCEPT ![k][d] = Sent(@)]
     /\ UNCHANGED <<events, deliveries, enabled, removed, losses>>

\* Mutant: the last retry is not counted as the last one.
NextStatusLate(outcome, attempts) ==
  CASE outcome = "delivered" -> "sent"
    [] outcome = "cancel" -> "cancelled"
    [] outcome = "permanent" -> "failed"
    [] outcome = "retryable" -> "pending"

\* retry_delay: no attempt is left after MAX_ATTEMPTS.
NextStatus(outcome, attempts) ==
  CASE outcome = "delivered" -> "sent"
    [] outcome = "cancel" -> "cancelled"
    [] outcome = "permanent" -> "failed"
    [] outcome = "retryable" -> IF attempts >= MaxAttempts THEN "failed" ELSE "pending"

\* _sent and _failed: an unconditional update of the record, if it still exists;
\* _sent counts from the record, _failed from what the attempt read.
StoreResult(p) ==
  LET k == process[p].key
      d == process[p].dest
      counted == 1 + IF process[p].outcome = "delivered" THEN deliveries[k][d].attempts
                     ELSE process[p].attempts
  IN /\ process[p].step = "store"
     /\ deliveries' = [deliveries EXCEPT ![k][d] =
          IF @.status = "none" THEN @
          ELSE [status |-> NextStatus(process[p].outcome, counted),
                attempts |-> counted, due |-> FALSE, lease |-> "none"]]
     /\ Stop(p)
     /\ UNCHANGED <<events, enabled, removed, sends, losses>>

-----------------------------------------------------------------------------
(* The environment.                                                        *)

\* BACKOFF_SECONDS pass.
RetryDue(k, d) ==
  /\ deliveries[k][d].status = "pending" /\ ~deliveries[k][d].due
  /\ deliveries' = [deliveries EXCEPT ![k][d].due = TRUE]
  /\ UNCHANGED <<events, enabled, removed, process, sends, losses>>

\* LEASE_SECONDS pass.
ExpireLease(k, d) ==
  /\ deliveries[k][d].lease = "live"
  /\ LeaseOutlived \/ \A p \in Processes : ~Attempts(p, k, d)
  /\ deliveries' = [deliveries EXCEPT ![k][d].lease = "expired"]
  /\ UNCHANGED <<events, enabled, removed, process, sends, losses>>

\* The retention period passes since the last occurrence.
GrowOld(k) ==
  /\ events[k].stored /\ ~events[k].old
  /\ events' = [events EXCEPT ![k].old = TRUE]
  /\ UNCHANGED <<deliveries, enabled, removed, process, sends, losses>>

\* The process dies during an attempt, or its transaction fails: the attempt
\* leaves no trace but its lease.
LoseAttempt(p) ==
  /\ ~Idle(p)
  /\ losses < MaxLosses
  /\ losses' = losses + 1
  /\ Stop(p)
  /\ UNCHANGED <<events, deliveries, enabled, removed, sends>>

-----------------------------------------------------------------------------
ProcessStep(p) == ReadDelivery(p) \/ Send(p) \/ StoreResult(p)

DeliveryStep(k, d) ==
  RetryDue(k, d) \/ ExpireLease(k, d) \/ \E p \in Processes : Claim(p, k, d)

Next ==
  \/ \E k \in Keys : Emit(k) \/ Dispatch(k) \/ Purge(k) \/ GrowOld(k)
  \/ \E d \in Destinations : SetEnabled(d) \/ RemoveWebhook(d)
  \/ \E k \in Keys, d \in Destinations : DeliveryStep(k, d)
  \/ \E p \in Processes : ProcessStep(p) \/ LoseAttempt(p)

Spec == Init /\ [][Next]_vars

(* run_once runs every RUN_INTERVAL_SECONDS: events are dispatched and due   *)
(* deliveries claimed oldest first, so none is passed over for ever; time    *)
(* passes, and attempts end (sockets have timeouts).                         *)
Fairness ==
  /\ \A k \in Keys : WF_vars(Dispatch(k))
  /\ \A p \in Processes : WF_vars(ProcessStep(p))
  /\ \A k \in Keys, d \in Destinations :
       /\ WF_vars(RetryDue(k, d)) /\ WF_vars(ExpireLease(k, d))
       /\ SF_vars(\E p \in Processes : Claim(p, k, d))

FairSpec == Spec /\ Fairness

-----------------------------------------------------------------------------
(* Safety.                                                                 *)

\* Two workers or processes never send a delivery at the same time (_claim and
\* its lease), although endpoints are removed and events are deleted meanwhile.
OneSender ==
  \A p, q \in Processes : p # q /\ ~Idle(p) /\ ~Idle(q) =>
    <<process[p].key, process[p].dest>> # <<process[q].key, process[q].dest>>

\* A message that was sent stays sent: no late answer, failure or removed
\* endpoint turns the record back, so it is never sent again.
SentIsFinal ==
  [][\A k \in Keys, d \in Destinations :
       deliveries[k][d].status = "sent" => deliveries'[k][d].status \in {"sent", "none"}]_vars

\* Once an event is dispatched it gets no further delivery, whatever changes in
\* the settings and however often it is emitted again.
FansOutOnce ==
  [][\A k \in Keys, d \in Destinations :
       events[k].dispatched /\ deliveries[k][d].status = "none"
         => deliveries'[k][d].status = "none"]_vars

\* Retention never deletes a message that is still to be sent.
PendingIsKept ==
  [][\A k \in Keys, d \in Destinations :
       deliveries[k][d].status = "pending" => deliveries'[k][d].status # "none"]_vars

\* At most MAX_ATTEMPTS messages are sent, and one more for every attempt that was
\* lost with its process or transaction, for it is not counted (_sent, _failed).
SendsBounded ==
  \A k \in Keys, d \in Destinations : sends[k][d] <= MaxAttempts + losses

-----------------------------------------------------------------------------
(* Liveness.                                                               *)

\* A crash never leaves a domain change without its notification: every stored
\* event is dispatched.
EventsDispatched ==
  \A k \in Keys : (events[k].stored /\ ~events[k].dispatched) ~> events[k].dispatched

Pending(k, d) == deliveries[k][d].status = "pending"

\* Every delivery ends, sent or not: there is no infinite loop.
DeliveriesEnd == \A k \in Keys, d \in Destinations : Pending(k, d) ~> ~Pending(k, d)

\* An endpoint that was removed is left alone in the end, although an attempt
\* that was running may make its cancelled delivery pending once more.
RemovedIsQuiet ==
  \A k \in Keys, d \in Endpoints : (d \in removed) ~> []~Pending(k, d)
=============================================================================
