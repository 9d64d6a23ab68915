------------------------------ MODULE MCRecords ------------------------------
(***************************************************************************)
(* The records that outlive a request on small instances, checked in one   *)
(* run: notification events and their deliveries, the access of an         *)
(* installation, and sessions.  The variable "part" says which component a *)
(* behaviour is one of; the variables of the others do not change.         *)
(***************************************************************************)
EXTENDS Notifications

CONSTANTS
  Repos, Handlers, Jobs, Syncs,       \* of an installation, and what its threads are about
  MaxChanges, MaxHandled, MaxCrashes  \* bounds

CONSTANTS
  Users, Elsewhere,                   \* who signs in, and who of them is a member elsewhere
  SignIns, SessionIds, Threads,       \* OAuth states, session tokens and request threads
  StateLimit, IdleLimit, Lifetime     \* of a state and of a session

ASSUME RecordLimits ==
  /\ MaxChanges \in Nat /\ MaxHandled \in Nat /\ MaxCrashes \in Nat
  /\ StateLimit \in Nat /\ Lifetime \in Nat

VARIABLES
  part,
  github, arrivals, record, listed, syncStatus, cache, mirrors, old, handler, job, sync, purge,
  ghChanges, handled, crashes,
  role, signIn, session, thread, changes

outboxVars == vars
accessVars == <<github, arrivals, record, listed, syncStatus, cache, mirrors, old, handler, job,
                sync, purge, ghChanges, handled, crashes>>
sessionVars == <<role, signIn, session, thread, changes>>
allVars == <<part, outboxVars, accessVars, sessionVars>>

-----------------------------------------------------------------------------
\* One event for an administrator's address and a webhook endpoint, and two processes
\* (deliveries share nothing but the settings, so the races are about one delivery).
MCKeys == {"policy"}
MCAddresses == {"admin"}
MCEndpoints == {"hook"}
MCProcesses == {"p1", "p2"}

\* An installation, its events and its synchronisations
Access == INSTANCE InstallationAccess WITH events <- arrivals, changes <- ghChanges

\* A session ends when it was not used, or when its lifetime is over
SignedIn == INSTANCE Sessions WITH MaxChanges <- 0

-----------------------------------------------------------------------------
AllInit ==
  /\ part \in {"outbox", "events", "synced", "sessions"}
  /\ Init
  /\ Access!Init
  /\ SignedIn!Init

OutboxOnly == UNCHANGED <<part, accessVars, sessionVars>>
AccessOnly == UNCHANGED <<part, outboxVars, sessionVars>>
SessionsOnly == UNCHANGED <<part, outboxVars, accessVars>>

OutboxStep == part = "outbox" /\ Next /\ OutboxOnly

\* Events without a synchronisation, and a synchronisation without events
EventsStep == part = "events" /\ Access!Next /\ UNCHANGED sync /\ AccessOnly
SyncedStep == part = "synced" /\ Access!Next /\ UNCHANGED <<handler, handled>> /\ AccessOnly
SessionsStep == part = "sessions" /\ SignedIn!Next /\ SessionsOnly

AllNext == OutboxStep \/ EventsStep \/ SyncedStep \/ SessionsStep

\* The fairness of every component, while it is the one that runs.
Dispatches(k) == part = "outbox" /\ Dispatch(k) /\ OutboxOnly
ProcessGoesOn(p) == part = "outbox" /\ ProcessStep(p) /\ OutboxOnly
BecomesDue(k, d) == part = "outbox" /\ RetryDue(k, d) /\ OutboxOnly
LeaseEnds(k, d) == part = "outbox" /\ ExpireLease(k, d) /\ OutboxOnly
Claimed(k, d) == part = "outbox" /\ (\E p \in Processes : Claim(p, k, d)) /\ OutboxOnly

AccessRuns == part \in {"events", "synced"} /\ AccessOnly
JobGoesOn(w) == Access!WorkerStep(w) /\ AccessRuns
MirrorAges(r) == Access!Age(r) /\ AccessRuns
UnusedIsFound(r) == Access!CheckUnused(r) /\ AccessRuns
UnusedIsRemoved(r) == Access!RemoveUnused(r) /\ AccessRuns

TimePasses == part = "sessions" /\ SignedIn!Tick /\ SessionsOnly
SessionsArePurged == part = "sessions" /\ SignedIn!Purge /\ SessionsOnly

AllSpec ==
  /\ AllInit /\ [][AllNext]_allVars
  /\ \A k \in Keys : WF_allVars(Dispatches(k))
  /\ \A p \in Processes : WF_allVars(ProcessGoesOn(p))
  /\ \A k \in Keys, d \in Destinations :
       WF_allVars(BecomesDue(k, d)) /\ WF_allVars(LeaseEnds(k, d)) /\ SF_allVars(Claimed(k, d))
  /\ \A w \in Jobs : WF_allVars(JobGoesOn(w))
  /\ \A r \in Repos :
       WF_allVars(MirrorAges(r)) /\ WF_allVars(UnusedIsFound(r)) /\ WF_allVars(UnusedIsRemoved(r))
  /\ WF_allVars(TimePasses) /\ WF_allVars(SessionsArePurged)

-----------------------------------------------------------------------------
\* Every variable of every component has its type.
Types == TypeOK /\ Access!TypeOK /\ SignedIn!TypeOK

\* What was begun ends: stored events are dispatched and their deliveries sent or given
\* up (Notifications), and sessions end, also one that is used all the time (Sessions).
WorkEnds == EventsDispatched /\ DeliveriesEnd /\ SignedIn!SessionsEnd

\* The mirror of a repository that GitHub took away is gone one day (InstallationAccess).
RemovedIsDiscarded == Access!RemovedIsDiscarded
=============================================================================
