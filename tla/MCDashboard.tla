----------------------------- MODULE MCDashboard -----------------------------
(***************************************************************************)
(* The dashboard on small instances, checked in one run: the workflow of   *)
(* policies, simulations, sessions, the requests of the API, its lists,    *)
(* the notification center, and the calls to GitHub.  The variable "part"  *)
(* says which component, with which constants, a behaviour is one of; the  *)
(* variables of the others do not change.                                  *)
(***************************************************************************)
EXTENDS PolicyWorkflow

CONSTANTS
  Members, Elsewhere,               \* who signs in, and who of them is a member elsewhere
  SignIns, SessionIds, Requests,    \* OAuth states, session tokens and request threads
  StateLimit, IdleLimit, Lifetime,  \* of a state and of a session
  MaxRoleChanges                    \* bound

CONSTANTS
  Simulations, Runners,             \* simulations and the maintenance loops that run them
  ScannedRepos, Branches,           \* what they read: repositories, and branches of each
  ScanLimit, MaxOpen, MaxRecorded   \* limits of scans and of open simulations, and a bound

CONSTANTS
  Callers, Colleagues,              \* users of the API, and those of the part with several
  ApiOrganizations, ApiSessions, OneSession, OneRequest,
  RequestLimit, HigherLimit, Tracked,  \* requests per minute, and keys that are tracked
  MaxSent, MaxMinutes               \* bounds

CONSTANTS
  PanelTypes, PanelMandatory, Administrators, MaxSaves,    \* settings that are edited
  EventTypes, MandatoryTypes, InboxMembers, MaxOccurrences \* events, and who has an inbox

CONSTANTS
  RowIds, RowRanks, PageRows,       \* rows of a list, and how many are on a page
  MaxListed, MaxMoments             \* bounds

CONSTANTS
  Operations, Granted,              \* calls of GitHub, and repositories it may grant
  PerPage, MaxPages, MaxAttempts, MaxRateLimitWait, Waits,
  MaxCalls                          \* bound

ASSUME PageSize == PerPage \in Nat \ {0}

ASSUME ListedRows ==
  /\ RowIds \subseteq Nat \ {0} /\ RowRanks \subseteq Nat /\ PageRows \in Nat \ {0}
  /\ MaxListed \in Nat /\ MaxMoments \in Nat \ {0}

ASSUME RequestLimits ==
  /\ \A S \in {Callers, Colleagues, Requests, OneRequest} : IsFiniteSet(S) /\ S # {}
  /\ \A n \in {RequestLimit, HigherLimit, Tracked, MaxSent, MaxMinutes} : n \in Nat
  /\ "none" \notin ApiSessions \cup OneSession

ASSUME SimulationLimits ==
  /\ IsFiniteSet(Simulations) /\ Simulations # {} /\ IsFiniteSet(ScannedRepos)
  /\ MaxOpen \in Nat /\ MaxRecorded \in Nat /\ MaxVersions \in Nat \ {0}

ASSUME SessionLimits == StateLimit \in Nat /\ Lifetime \in Nat /\ MaxRoleChanges \in Nat

ASSUME NotificationLimits ==
  /\ PanelMandatory \subseteq PanelTypes /\ MandatoryTypes \subseteq EventTypes
  /\ MaxSaves \in Nat

ASSUME CallLimits == MaxPages \in Nat \ {0} /\ MaxAttempts \in Nat \ {0} /\ MaxCalls \in Nat

VARIABLES
  part,
  policies, scans, simulations, audited, runner, crashes,
  membership, signIn, session, tab, roleChanges,
  role, cookie, request, minute, counted, accepted, held, arrived,
  list, rows, time, reader, inserted, steady,
  settings, panel, save, readerRole, muted, event, inbox, marked, listing, changes,
  granted, applied, call, kept, calls

workflowVars == vars
simulationVars == <<policies, scans, simulations, audited, runner, crashes>>
sessionVars == <<membership, signIn, session, tab, roleChanges>>
requestVars == <<role, cookie, request, minute, counted, accepted, held, arrived>>
listVars == <<list, rows, time, reader, inserted, steady>>
centerVars == <<settings, panel, save, readerRole, muted, event, inbox, marked, listing, changes>>
callVars == <<granted, applied, call, kept, calls>>
allVars ==
  <<part, workflowVars, simulationVars, sessionVars, requestVars, listVars, centerVars, callVars>>

-----------------------------------------------------------------------------
\* Two pull requests or branches in each of two repositories, and a publication meanwhile
Simulated == INSTANCE Simulations WITH
  Ids <- Simulations, Repos <- ScannedRepos, Groups <- Branches, Drafts <- {2},
  LeaseOutlived <- FALSE, MaxCrashes <- 0

\* Members, who may be owners, and their sign-ins
SignedIn == INSTANCE Sessions WITH
  Users <- Members, Threads <- Requests, MaxChanges <- MaxRoleChanges,
  role <- membership, thread <- tab, changes <- roleChanges

\* The requests of some users, in the constants of a part
Judged(c) == INSTANCE DashboardRequests WITH
  Users <- c.users, Organizations <- ApiOrganizations, RouteNames <- c.names,
  Threads <- c.threads, SessionIds <- c.sessions, Limit <- c.limit, MaxTracked <- Tracked,
  MaxRequests <- c.requests, MaxMinutes <- c.minutes, session <- cookie

\* The requests of a minute and of the next one.  Bound: the session does not expire, and
\* its user is a viewer; neither counts for the limit.
Limited ==
  [users |-> Callers, sessions |-> OneSession, names |-> {"sessions"}, threads |-> Requests,
   limit |-> RequestLimit, requests |-> MaxSent, minutes |-> MaxMinutes]

\* One request to any route
AllNames ==
  {route.name : route \in Judged(Limited)!DashboardTable \cup Judged(Limited)!GovernanceTable}
Routed ==
  [users |-> Callers, sessions |-> OneSession, names |-> AllNames,
   threads |-> OneRequest, limit |-> RequestLimit, requests |-> 1, minutes |-> 0]

\* A request while another user takes the role of its user away.  Bound: both requests
\* have a session and its token, and are about an organization there is; sessions end with
\* the membership of their user, and do not expire (the parts "routed" and "ended" have that).
Demoted ==
  [users |-> Colleagues, sessions |-> ApiSessions, names |-> {"put_member", "delete_member"},
   threads |-> Requests, limit |-> HigherLimit, requests |-> 2, minutes |-> 0]

\* Sessions that last: none expires.
Lasting == \A s \in DOMAIN cookie' : cookie'[s].state # "expired"

WellMeant(r) ==
  r.step # "idle" =>
    r.cookie # "none" /\ r.token = r.cookie /\ r.organization \in ApiOrganizations

\* A request while another one ends its session
Ended ==
  [users |-> Callers, sessions |-> OneSession, names |-> {"logout", "revoke_session", "callback"},
   threads |-> Requests, limit |-> HigherLimit, requests |-> 2, minutes |-> 0]

\* Rows that are equal in the column the list is sorted by, and rows that are not
RankedLists == {"violations severity", "violations repository"}
Paged == INSTANCE Listings WITH
  Ids <- RowIds, Ranks <- RowRanks, Limit <- PageRows, MaxRows <- MaxListed, MaxTime <- MaxMoments,
  Lists <- RankedLists \cup
    {"scans newest", "scans oldest", "violations newest", "violations oldest",
     "audit newest", "audit oldest", "notifications", "deliveries", "versions"}

\* Two administrators with the settings open
Saved == INSTANCE NotificationCenter WITH
  Types <- PanelTypes, Mandatory <- PanelMandatory, Defaults <- PanelTypes \X {"in_app", "email"},
  Admins <- Administrators, Members <- {}, Events <- {},
  TypeOf <- [e \in {} |-> e], Audience <- [t \in PanelTypes |-> {"admin"}],
  MaxVersions <- MaxSaves, MaxChanges <- 0, request <- save, role <- readerRole

\* Inboxes: an event of each type, of which the mandatory ones are for administrators
Delivered == INSTANCE NotificationCenter WITH
  Types <- EventTypes, Mandatory <- MandatoryTypes,
  Defaults <- (EventTypes \X {"in_app"}) \cup ((EventTypes \ MandatoryTypes) \X {"email"}),
  Admins <- {}, Members <- InboxMembers, Events <- EventTypes,
  TypeOf <- [e \in EventTypes |-> e],
  Audience <- [t \in EventTypes |->
                 IF t \in MandatoryTypes THEN {"admin"} ELSE {"admin", "viewer"}],
  MaxVersions <- 0, MaxChanges <- MaxOccurrences, request <- save, role <- readerRole

\* Lists in pages, and calls that are repeated
Called == INSTANCE GitHubCalls WITH
  Repos <- Granted, Revokes <- FALSE, steady <- kept

Parts == {"workflow", "simulated", "signed_in", "limited", "routed", "demoted", "ended",
          "dated", "ranked", "saved", "delivered", "called"}

-----------------------------------------------------------------------------
RequestInit ==
  CASE part = "routed" -> Judged(Routed)!Init
    [] part = "demoted" ->
         /\ Judged(Demoted)!Init
         /\ \A r, s \in ApiSessions : cookie[r].user = cookie[s].user => r = s
    [] part = "ended" -> Judged(Ended)!Init
    [] OTHER ->
         /\ Judged(Limited)!Init
         /\ \A u \in Callers, o \in ApiOrganizations :
              role[u][o] = IF part = "limited" THEN "viewer" ELSE "none"
         /\ part # "limited" => \A s \in OneSession : cookie[s].state = "unused"

AllInit ==
  /\ part \in Parts
  /\ Init
  /\ Simulated!Init /\ (part # "simulated" => policies = <<0>>)
  /\ SignedIn!Init
  /\ RequestInit
  /\ Paged!Init
  /\ CASE part = "ranked" -> list \in RankedLists
       [] part = "dated" -> list \notin RankedLists
       [] OTHER -> list = "versions"
  /\ IF part = "delivered" THEN Delivered!Init ELSE Saved!Init
  /\ Called!Init

WorkflowStep ==
  /\ part = "workflow" /\ Next
  /\ UNCHANGED <<part, simulationVars, sessionVars, requestVars, listVars, centerVars, callVars>>

SimulatedStep ==
  /\ part = "simulated" /\ Simulated!Next
  /\ UNCHANGED <<part, workflowVars, sessionVars, requestVars, listVars, centerVars, callVars>>

SignedInStep ==
  /\ part = "signed_in" /\ SignedIn!Next
  /\ UNCHANGED <<part, workflowVars, simulationVars, requestVars, listVars, centerVars, callVars>>

RequestsOnly ==
  UNCHANGED <<part, workflowVars, simulationVars, sessionVars, listVars, centerVars, callVars>>
LimitedStep == part = "limited" /\ Judged(Limited)!Next /\ RequestsOnly /\ Lasting
RoutedStep == part = "routed" /\ Judged(Routed)!Next /\ RequestsOnly
DemotedStep ==
  /\ part = "demoted" /\ Judged(Demoted)!Next /\ RequestsOnly /\ Lasting
  /\ \A t \in Requests : WellMeant(request'[t])
EndedStep == part = "ended" /\ Judged(Ended)!Next /\ RequestsOnly

ListsOnly ==
  UNCHANGED <<part, workflowVars, simulationVars, sessionVars, requestVars, centerVars, callVars>>
DatedStep ==
  part = "dated" /\ Paged!Next /\ ListsOnly /\ \A id \in DOMAIN rows' : rows'[id].rank = 1
RankedStep == part = "ranked" /\ Paged!Next /\ ListsOnly

CenterOnly ==
  UNCHANGED <<part, workflowVars, simulationVars, sessionVars, requestVars, listVars, callVars>>
SavedStep == part = "saved" /\ Saved!Next /\ CenterOnly
DeliveredStep == part = "delivered" /\ Delivered!Next /\ CenterOnly

CalledStep ==
  /\ part = "called" /\ Called!Next
  /\ UNCHANGED <<part, workflowVars, simulationVars, sessionVars, requestVars, listVars, centerVars>>

AllNext ==
  \/ WorkflowStep \/ SimulatedStep \/ SignedInStep
  \/ LimitedStep \/ RoutedStep \/ DemotedStep \/ EndedStep
  \/ DatedStep \/ RankedStep \/ SavedStep \/ DeliveredStep \/ CalledStep

AllSpec == AllInit /\ [][AllNext]_allVars

-----------------------------------------------------------------------------
\* The variables of the component that runs have their types.
Types ==
  CASE part = "workflow" -> TypeOK
    [] part = "simulated" -> Simulated!TypeOK
    [] part = "signed_in" -> SignedIn!TypeOK
    [] part = "limited" -> Judged(Limited)!TypeOK
    [] part = "routed" -> Judged(Routed)!TypeOK
    [] part = "demoted" -> Judged(Demoted)!TypeOK
    [] part = "ended" -> Judged(Ended)!TypeOK
    [] part \in {"dated", "ranked"} -> Paged!TypeOK
    [] part = "saved" -> Saved!TypeOK
    [] part = "delivered" -> Delivered!TypeOK
    [] part = "called" -> Called!TypeOK

\* A simulation's result is about one policy of each repository (Simulations).
ResultsAreSound == part = "simulated" => Simulated!ResultsAreSound

\* An organization keeps an owner once it has one, and a sign-in gives one session
\* (Sessions).
OwnerKept == SignedIn!OwnerKept
SignInOnce == part = "signed_in" => SignedIn!SignInOnce

\* A request of any route is carried out only for someone who was signed in and had the
\* documented permission (of a bulk operation that schedules scans: the one it is created
\* with, see Required), turned away as signed out only when its session is over, and
\* refused as one too many only when the limit was used up (AnswersAreAllowed and
\* LimitsHold of DashboardRequests).
RequestsAreJudged ==
  /\ part = "limited" => Judged(Limited)!AnswersAreAllowed /\ Judged(Limited)!LimitsHold
  /\ part = "routed" => Judged(Routed)!AnswersAreAllowed /\ Judged(Routed)!LimitsHold
  /\ part = "demoted" => Judged(Demoted)!AnswersAreAllowed /\ Judged(Demoted)!LimitsHold
  /\ part = "ended" => Judged(Ended)!AnswersAreAllowed /\ Judged(Ended)!LimitsHold

\* What was in a list at its first page is on one page (Listings).
PagesStable == part \in {"dated", "ranked"} => Paged!PagesStable

\* A save of the settings changes what its administrator asked for, and mandatory events
\* reach who may read them (NotificationCenter).
SettingsAreRespected ==
  Saved!SavesOnlyWhatWasAsked /\ [](part = "delivered" => Delivered!MandatoryReaches)

\* What must not happen twice at GitHub happens once, and lists are whole (CarriedOutOnce
\* and ListsAreWhole of GitHubCalls).
CarriedOutOnce == part = "called" => Called!CarriedOutOnce /\ Called!ListsAreWhole
=============================================================================
