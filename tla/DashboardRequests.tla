------------------------- MODULE DashboardRequests --------------------------
(***************************************************************************)
(* The way of a request through the dashboard API (api/app.py,             *)
(* api/governance.py, api/http.py): it is matched to a route, its session  *)
(* is looked up, it is counted by the rate limiter, checked against        *)
(* cross-site requests, and handed to the route's handler, which checks    *)
(* the permission of the resource.  Every request has a thread of its own, *)
(* so roles change, sessions end and minutes pass between these steps.     *)
(*                                                                         *)
(* A route has two permissions: the one the dispatcher asks for in any of  *)
(* the user's organizations, and the one its handler or service asks for   *)
(* in the organization of the resource.  A request without one of them,    *)
(* for a resource the user cannot see, and for one that does not exist,    *)
(* are the cases of "organization".  What the handlers of other components *)
(* do to their state is in the modules of those components; the handlers   *)
(* that change roles and sessions are here, because the way of the other   *)
(* requests depends on them.                                               *)
(***************************************************************************)
EXTENDS Integers, FiniteSets, TLC

CONSTANTS
  Users,
  Organizations,
  RouteNames,   \* the routes requests are sent to
  Threads,      \* requests in progress at the same time
  SessionIds,   \* session tokens
  Limit,        \* requests per minute, per key
  MaxTracked,   \* MAX_TRACKED
  MaxRequests,  \* bound: requests
  MaxMinutes    \* bound: minutes

VARIABLES
  role,      \* memberships
  session,   \* sessions
  request,   \* what every thread knows of its request
  minute,    \* the clock // 60
  counted,   \* RequestRateLimiter._windows, by category
  accepted,  \* history: requests let through, by category, key and minute
  held,      \* history: roles the user of a request had while it was in progress
  arrived    \* number of requests

vars == <<role, session, request, minute, counted, accepted, held, arrived>>

-----------------------------------------------------------------------------
(* Roles *)

Viewer ==
  {"repositories:read", "scans:read", "violations:read", "policies:read", "rules:read",
   "notifications:read", "organization:read", "exceptions:read", "security:read"}
SecurityManager ==
  Viewer \cup {"violations:manage", "scans:trigger", "audit:read", "exceptions:create"}
Admin ==
  SecurityManager \cup
  {"policies:write", "policies:rollback", "policies:publish", "policies:approve",
   "notifications:manage", "repositories:manage", "github:manage", "members:read",
   "organization:manage", "rules:manage", "exceptions:approve", "exceptions:revoke",
   "security:manage"}
Owner == Admin \cup {"members:manage", "policies:emergency"}

Role == {"none", "viewer", "security_manager", "admin", "owner"}

Grants(r) == CASE r = "none" -> {}
               [] r = "viewer" -> Viewer
               [] r = "security_manager" -> SecurityManager
               [] r = "admin" -> Admin
               [] r = "owner" -> Owner

-----------------------------------------------------------------------------
(* Routes.  "session" stands for no permission: being signed in is enough. *)

Rows(method, dispatcher, handler, rate, names) ==
  {[name |-> n, method |-> method, dispatcher |-> dispatcher, handler |-> handler,
    rate |-> rate] : n \in names}

SignInRoutes ==
  Rows("GET", "public", "public", "auth", {"login", "callback"})
    \cup Rows("GET", "session", "session", "read", {"session", "sessions", "organizations"})
    \cup Rows("POST", "session", "session", "write", {"logout", "revoke_session"})

MemberRoutes ==
  Rows("GET", "session", "members:read", "read", {"list_members"})
    \cup Rows("PUT", "session", "members:manage", "write", {"put_member", "delete_member"})

RepositoryRoutes ==
  Rows("GET", "repositories:read", "repositories:read", "read",
       {"overview", "list_repositories", "get_repository", "repository_merge_queue"})
    \cup Rows("PUT", "repositories:read", "repositories:manage", "write", {"put_monitoring"})
    \cup Rows("POST", "repositories:read", "repositories:manage", "github",
              {"refresh_enforcement"})

ScanRoutes ==
  Rows("GET", "scans:read", "scans:read", "read",
       {"list_scans", "get_scan", "compare_scan", "scan_executions"})
    \cup Rows("POST", "scans:read", "scans:trigger", "github", {"rescan"})

ViolationRoutes ==
  Rows("GET", "violations:read", "violations:read", "read", {"list_violations", "get_violation"})
    \cup Rows("PUT", "violations:read", "violations:manage", "write",
              {"acknowledge", "unacknowledge"})

PolicyRoutes ==
  Rows("GET", "session", "policies:read", "read",
       {"list_policies", "get_policy", "policy_versions", "policy_version", "policy_diff"})
    \cup Rows("POST", "session", "policies:read", "read", {"preview_policy"})
    \cup Rows("PUT", "session", "policies:write", "write", {"put_policy"})
    \cup Rows("POST", "session", "policies:rollback", "sensitive", {"rollback_policy"})

RuleAndAuditRoutes ==
  Rows("GET", "rules:read", "rules:read", "read", {"list_rules", "get_rule"})
    \cup Rows("GET", "audit:read", "audit:read", "read", {"list_audit", "get_audit_event"})

GitHubRoutes ==
  Rows("GET", "repositories:read", "repositories:read", "read",
       {"list_installations", "get_installation", "installation_repositories"})
    \cup Rows("POST", "repositories:read", "github:manage", "github", {"sync_installation"})

InboxRoutes ==
  Rows("GET", "session", "session", "read",
       {"list_notifications", "notification_counts", "get_notification"})
    \cup Rows("POST", "session", "session", "write",
              {"read_notification", "unread_notification", "archive_notification",
               "read_all_notifications"})

NotificationSettingRoutes ==
  Rows("GET", "session", "notifications:read", "read",
       {"notification_preferences", "notification_settings"})
    \cup Rows("PATCH", "session", "notifications:read", "write",
              {"patch_notification_preferences"})
    \cup Rows("GET", "session", "notifications:manage", "read", {"notification_deliveries"})
    \cup Rows("PUT", "session", "notifications:manage", "sensitive",
              {"put_notification_settings", "add_notification_webhook",
               "delete_notification_webhook"})

OrganizationRoutes ==
  Rows("GET", "session", "organization:read", "read", {"organization", "get_settings"})
    \cup Rows("PUT", "session", "organization:manage", "sensitive", {"put_settings"})
    \cup Rows("GET", "session", "security:read", "read",
              {"security_overview", "security_repositories", "security_trends",
               "security_events"})
    \cup Rows("GET", "session", "exceptions:read", "read", {"security_exceptions"})
    \cup Rows("GET", "session", "policies:read", "read",
              {"security_policies", "effective_policy", "propagation"})
    \cup Rows("POST", "session", "violations:manage", "write", {"acknowledge_event"})
    \cup Rows("GET", "session", "security:read", "search", {"report"})
    \cup Rows("GET", "session", "organization:read", "search", {"search"})
    \cup Rows("POST", "session", "repositories:manage", "write", {"onboard"})
    \cup Rows("POST", "session", "repositories:manage", "sensitive", {"set_mode"})

GroupRoutes ==
  Rows("GET", "session", "repositories:read", "read", {"list_groups", "get_group"})
    \cup Rows("POST", "session", "repositories:manage", "write",
              {"create_group", "patch_group", "add_group_members", "remove_group_members"})
    \cup Rows("DELETE", "session", "repositories:manage", "sensitive", {"archive_group"})

DraftRoutes ==
  Rows("GET", "session", "policies:read", "read",
       {"list_policy_targets", "policy_target_versions", "list_drafts", "get_draft",
        "list_simulations", "get_simulation"})
    \cup Rows("POST", "session", "policies:rollback", "sensitive", {"policy_target_rollback"})
    \cup Rows("POST", "session", "policies:write", "write",
              {"create_draft", "patch_draft", "submit_draft", "cancel_draft", "simulate_draft"})
    \cup Rows("POST", "session", "policies:approve", "sensitive", {"approve_draft"})
    \cup Rows("POST", "session", "policies:approve", "write", {"reject_draft"})
    \cup Rows("POST", "session", "policies:publish", "sensitive", {"publish_draft"})
    \cup Rows("POST", "session", "policies:emergency", "sensitive", {"emergency_publish_draft"})

RolloutRoutes ==
  Rows("GET", "session", "policies:read", "read", {"list_rollouts", "get_rollout"})
    \cup Rows("POST", "session", "policies:publish", "sensitive",
              {"advance_rollout", "resume_rollout"})
    \cup Rows("POST", "session", "policies:publish", "write", {"pause_rollout"})
    \cup Rows("POST", "session", "policies:rollback", "sensitive", {"rollback_rollout"})

\* cancel_exception is asked for by the requester, or by someone who may revoke.
ExceptionRoutes ==
  Rows("GET", "session", "exceptions:read", "read", {"list_exceptions", "get_exception"})
    \cup Rows("POST", "session", "exceptions:create", "sensitive", {"create_exception"})
    \cup Rows("POST", "session", "exceptions:approve", "sensitive", {"approve_exception"})
    \cup Rows("POST", "session", "exceptions:approve", "write", {"reject_exception"})
    \cup Rows("POST", "session", "exceptions:revoke", "sensitive", {"revoke_exception"})
    \cup Rows("POST", "session", "exceptions:read", "write", {"cancel_own_exception"})
    \cup Rows("POST", "session", "exceptions:revoke", "write", {"cancel_exception"})

\* A bulk operation that schedules scans needs another permission than the others.
OperationRoutes ==
  Rows("GET", "session", "rules:read", "read", {"get_rules", "rules_history"})
    \cup Rows("PUT", "session", "rules:manage", "sensitive", {"put_rules"})
    \cup Rows("GET", "session", "repositories:read", "read", {"list_bulk", "get_bulk"})
    \cup Rows("POST", "session", "repositories:manage", "sensitive", {"create_bulk"})
    \cup Rows("POST", "session", "scans:trigger", "sensitive", {"create_bulk_scan"})
    \cup Rows("POST", "session", "repositories:manage", "write", {"cancel_bulk", "retry_bulk"})
    \cup Rows("POST", "session", "scans:trigger", "write", {"cancel_bulk_scan", "retry_bulk_scan"})
    \cup Rows("GET", "session", "security:read", "read", {"list_schedules", "get_schedule"})
    \cup Rows("POST", "session", "security:manage", "write",
              {"create_schedule", "patch_schedule", "disable_schedule"})

DashboardTable ==
  SignInRoutes \cup MemberRoutes \cup RepositoryRoutes \cup ScanRoutes \cup ViolationRoutes
    \cup PolicyRoutes \cup RuleAndAuditRoutes \cup GitHubRoutes \cup InboxRoutes
    \cup NotificationSettingRoutes

GovernanceTable ==
  OrganizationRoutes \cup GroupRoutes \cup DraftRoutes \cup RolloutRoutes \cup ExceptionRoutes
    \cup OperationRoutes

Routes == {r \in DashboardTable \cup GovernanceTable : r.name \in RouteNames}

-----------------------------------------------------------------------------
(* Requests *)

Categories == {"auth", "read", "search", "write", "github", "sensitive"}
Keys == Users \cup {"address"}
Minutes == 0..MaxMinutes
Untracked == [minute |-> -1, count |-> 0]
SignedOut == {"unauthenticated", "session_expired"}
Refusals ==
  SignedOut \cup {"limited", "csrf_failed", "forbidden", "not_found", "invalid", "conflict"}
Unsafe(route) == route.method # "GET"
Idle == [step |-> "idle"]
Places == Organizations \cup {"missing"}
Nobody == [o \in Places |-> "none"]
InProgress(t) == request[t].step \notin {"idle", "answered"}
LiveSession(s) == s \in SessionIds /\ session[s].state = "live"

\* An expired session keeps its row until somebody finds it; one that ended has none.
HasExpired(s) == s \in SessionIds /\ session[s].state = "expired"

\* The missing resource belongs to no organization.
RoleIn(u, o) == IF o = "missing" THEN "none" ELSE role[u][o]

\* The roles of the user of every request in progress are recorded as they change.
Recorded(u, o, r) ==
  held' = [t \in Threads |->
             IF /\ InProgress(t)
                /\ request[t].organization = o
                /\ request[t].cookie \in SessionIds
                /\ session[request[t].cookie].user = u
             THEN held[t] \cup {r} ELSE held[t]]

Init ==
  /\ role \in [Users -> [Organizations -> Role]]
  /\ session \in [SessionIds -> [user : Users, state : {"live", "unused"}]]
  /\ request = [t \in Threads |-> Idle]
  /\ minute = 0
  /\ counted = [c \in Categories |-> [k \in Keys |-> Untracked]]
  /\ accepted = [c \in Categories |-> [k \in Keys |-> [m \in Minutes |-> 0]]]
  /\ held = [t \in Threads |-> {}]
  /\ arrived = 0

\* The request is parsed and matched to its route; a route that is not public is still
\* without a key for the limiter.  "token" is the session its CSRF token was made for, or
\* "none" without one or when its origin is not trusted.
Arrive(t) ==
  /\ ~InProgress(t)
  /\ arrived < MaxRequests
  /\ arrived' = arrived + 1
  /\ \E route \in Routes, o \in Places,
        cookie \in {s \in SessionIds : session[s].state # "unused"} \cup {"none"} :
       \E token \in IF Unsafe(route) THEN SessionIds \cup {"none"} ELSE {"none"},
          search \in IF route.rate = "read" THEN BOOLEAN ELSE {FALSE} :
         /\ request' = [request EXCEPT ![t] =
              [step |-> IF route.dispatcher = "public" THEN "identified" ELSE "arrived",
               route |-> route, organization |-> o, cookie |-> cookie, token |-> token,
               live |-> LiveSession(cookie), key |-> "address",
               category |-> IF search THEN "search" ELSE route.rate, principal |-> Nobody, minute |-> 0, status |-> "none"]]
         /\ held' = [held EXCEPT ![t] =
                       IF LiveSession(cookie) THEN {RoleIn(session[cookie].user, o)} ELSE {}]
  /\ UNCHANGED <<role, session, minute, counted, accepted>>

Answered(t, status) ==
  request' = [request EXCEPT ![t].step = "answered", ![t].status = status]

-----------------------------------------------------------------------------
(* Steps *)

\* The principal of a request: the user of its session, with the roles as they are now.
PrincipalOf(s) == [user |-> session[s].user,
                   role |-> [o \in Places |-> RoleIn(session[s].user, o)]]

\* Mutant: a session is not looked up again.
AcceptsEnded(s) == s \in SessionIds

Accepts(s) == LiveSession(s)

\* The row of an expired session is deleted as its first request is told so; later ones,
\* and those of a session that was ended, are without a session.  (docs/dashboard.md:154
\* says that a revoked session answers SESSION_EXPIRED, too.)
Authenticate(t) ==
  /\ request[t].step = "arrived"
  /\ IF Accepts(request[t].cookie)
     THEN LET p == PrincipalOf(request[t].cookie)
          IN  request' = [request EXCEPT ![t].step = "identified", ![t].key = p.user,
                                         ![t].principal = p.role]
     ELSE Answered(t, IF HasExpired(request[t].cookie) THEN "session_expired"
                                                       ELSE "unauthenticated")
  /\ session' = IF HasExpired(request[t].cookie)
                THEN [session EXCEPT ![request[t].cookie].state = "ended"] ELSE session
  /\ UNCHANGED <<role, minute, counted, accepted, held, arrived>>

\* The window is computed before the limiter's lock is taken.
ReadClock(t) ==
  /\ request[t].step = "identified"
  /\ request' = [request EXCEPT ![t].step = "timed", ![t].minute = minute]
  /\ UNCHANGED <<role, session, minute, counted, accepted, held, arrived>>

Kept(entries) ==
  IF Cardinality({k \in Keys : entries[k] # Untracked}) > MaxTracked
  THEN [k \in Keys |-> Untracked] ELSE entries

Counted(entry, m) ==
  IF entry.minute # m THEN [minute |-> m, count |-> 1]
                      ELSE [entry EXCEPT !.count = @ + 1]

Allow(t) ==
  /\ request[t].step = "timed"
  /\ LET c == request[t].category
         k == request[t].key
         entries == Kept(counted[c])
         entry == Counted(entries[k], request[t].minute)
     IN  /\ counted' = [counted EXCEPT ![c] = [entries EXCEPT ![k] = entry]]
         /\ IF entry.count <= Limit
            THEN /\ accepted' = [accepted EXCEPT ![c][k][request[t].minute] = @ + 1]
                 /\ request' = [request EXCEPT ![t].step = "counted"]
            ELSE /\ Answered(t, "limited")
                 /\ UNCHANGED accepted
  /\ UNCHANGED <<role, session, minute, held, arrived>>

\* What the dispatcher and the handler find, in their order; a handler refuses a body it
\* cannot use before it checks the permission or after it.
Can(t, permission, o) == permission \in Grants(request[t].principal[o])

CsrfFails(t) ==
  Unsafe(request[t].route) /\ request[t].token # request[t].cookie

\* Any argument or body may be one the handler cannot use.
Unusable == {"invalid"}

Verdicts(t) ==
  LET d == request[t].route.dispatcher
      h == request[t].route.handler
      o == request[t].organization
  IN  CASE d = "public" -> {"allowed"}
        [] d # "public" /\ CsrfFails(t) -> {"csrf_failed"}
        [] OTHER ->
             IF d # "session" /\ \A x \in Organizations : ~Can(t, d, x) THEN {"forbidden"}
             ELSE IF \/ d # "session" /\ ~Can(t, d, o)
                     \/ h # "session" /\ request[t].principal[o] = "none"
             THEN {"not_found"} \cup Unusable
             ELSE IF h # "session" /\ ~Can(t, h, o) THEN {"forbidden"} \cup Unusable
             ELSE {"allowed"} \cup Unusable

Refuse(t) ==
  /\ request[t].step = "counted"
  /\ \E v \in Verdicts(t) \ {"allowed"} : Answered(t, v)
  /\ UNCHANGED <<role, session, minute, counted, accepted, held, arrived>>

Allowed(t, names) ==
  /\ request[t].step = "counted"
  /\ "allowed" \in Verdicts(t)
  /\ request[t].route.name \in names

\* The sessions of a user end that are stored.
EndSessionsOf(u) ==
  session' = [s \in SessionIds |->
                IF session[s].user = u /\ (LiveSession(s) \/ HasExpired(s))
                THEN [session[s] EXCEPT !.state = "ended"] ELSE session[s]]

\* MembershipService.grant and remove: nobody changes his own role, and the last owner
\* stays.  The sessions of a user end who is in no organization any more.
ChangeMember(t) ==
  /\ Allowed(t, {"put_member", "delete_member"})
  /\ \E u \in Users :
       LET o == request[t].organization IN
       \E r \in IF request[t].route.name = "put_member" THEN Role \ {"none"} ELSE {"none"} :
         IF u = request[t].key
         THEN /\ Answered(t, "forbidden")
              /\ UNCHANGED <<role, held, session>>
         ELSE IF r = "none" /\ role[u][o] = "none"
         THEN /\ Answered(t, "not_found")
              /\ UNCHANGED <<role, held, session>>
         ELSE IF r # "owner" /\ {x \in Users : role[x][o] = "owner"} = {u}
         THEN /\ Answered(t, "conflict")
              /\ UNCHANGED <<role, held, session>>
         ELSE /\ Answered(t, "ok")
              /\ role' = [role EXCEPT ![u][o] = r]
              /\ Recorded(u, o, r)
              /\ IF \A p \in Organizations : role'[u][p] = "none"
                 THEN EndSessionsOf(u) ELSE UNCHANGED session
  /\ UNCHANGED <<minute, counted, accepted, arrived>>

\* logout ends the session of the request, revoke_session one of the same user.
EndSession(t) ==
  /\ Allowed(t, {"logout", "revoke_session"})
  /\ LET mine == {s \in SessionIds : /\ LiveSession(s) \/ HasExpired(s)
                                     /\ session[s].user = request[t].key}
         meant == IF request[t].route.name = "logout" THEN {request[t].cookie} ELSE mine
     IN  \/ \E s \in meant :
              /\ session' = [session EXCEPT ![s].state = "ended"]
              /\ Answered(t, "ok")
         \/ /\ request[t].route.name = "revoke_session"
            /\ Answered(t, "not_found")
            /\ UNCHANGED session
  /\ UNCHANGED <<role, minute, counted, accepted, held, arrived>>

\* A completed sign-in stores a session.
SignIn(t) ==
  /\ Allowed(t, {"callback"})
  /\ \/ /\ \E s \in SessionIds :
             /\ session[s].state = "unused"
             /\ session' = [session EXCEPT ![s].state = "live"]
        /\ Answered(t, "ok")
     \/ /\ Answered(t, "invalid")
        /\ UNCHANGED session
  /\ UNCHANGED <<role, minute, counted, accepted, held, arrived>>

Serve(t) ==
  /\ Allowed(t, RouteNames \ {"put_member", "delete_member", "logout", "revoke_session",
                              "callback"})
  /\ \/ Answered(t, "ok")
     \/ /\ Unsafe(request[t].route)
        /\ Answered(t, "conflict")
  /\ UNCHANGED <<role, session, minute, counted, accepted, held, arrived>>

\* A session is over after its lifetime, or idle for too long.
Expire(s) ==
  /\ LiveSession(s)
  /\ session' = [session EXCEPT ![s].state = "expired"]
  /\ UNCHANGED <<role, request, minute, counted, accepted, held, arrived>>

\* Maintenance deletes expired sessions.
PurgeExpired ==
  /\ \E s \in SessionIds : HasExpired(s)
  /\ session' = [s \in SessionIds |->
                   IF HasExpired(s) THEN [session[s] EXCEPT !.state = "ended"] ELSE session[s]]
  /\ UNCHANGED <<role, request, minute, counted, accepted, held, arrived>>

Tick ==
  /\ minute < MaxMinutes
  /\ minute' = minute + 1
  /\ UNCHANGED <<role, session, request, counted, accepted, held, arrived>>

Next ==
  \/ Tick \/ PurgeExpired
  \/ \E s \in SessionIds : Expire(s)
  \/ \E t \in Threads : \/ Arrive(t) \/ Authenticate(t) \/ ReadClock(t) \/ Allow(t)
                        \/ Refuse(t) \/ ChangeMember(t) \/ EndSession(t) \/ SignIn(t)
                        \/ Serve(t)

Spec == Init /\ [][Next]_vars

-----------------------------------------------------------------------------
(* What is promised *)

\* The routes and permissions of docs/dashboard.md ("this table and the view models are
\* the contract").
Documented ==
  [p \in Owner |->
     CASE p = "members:read" -> {"list_members"}
       [] p = "members:manage" -> {"put_member", "delete_member"}
       [] p = "repositories:read" ->
            {"overview", "list_repositories", "get_repository", "repository_merge_queue",
             "list_installations", "get_installation", "installation_repositories",
             "list_groups", "get_group", "list_bulk", "get_bulk"}
       [] p = "repositories:manage" ->
            {"put_monitoring", "refresh_enforcement", "onboard", "set_mode", "create_group",
             "patch_group", "archive_group", "add_group_members", "remove_group_members",
             "create_bulk", "cancel_bulk", "retry_bulk", "cancel_bulk_scan", "retry_bulk_scan"}
       [] p = "scans:read" -> {"list_scans", "get_scan", "compare_scan", "scan_executions"}
       [] p = "scans:trigger" -> {"rescan", "create_bulk_scan"}
       [] p = "violations:read" -> {"list_violations", "get_violation"}
       [] p = "violations:manage" -> {"acknowledge", "unacknowledge", "acknowledge_event"}
       [] p = "policies:read" ->
            {"list_policies", "get_policy", "preview_policy", "policy_versions",
             "policy_version", "policy_diff", "security_policies", "effective_policy",
             "list_policy_targets", "policy_target_versions", "list_drafts", "get_draft",
             "list_simulations", "get_simulation", "list_rollouts", "get_rollout", "propagation"}
       [] p = "policies:write" ->
            {"put_policy", "create_draft", "patch_draft", "submit_draft", "cancel_draft",
             "simulate_draft"}
       [] p = "policies:rollback" ->
            {"rollback_policy", "policy_target_rollback", "rollback_rollout"}
       [] p = "policies:approve" -> {"approve_draft", "reject_draft"}
       [] p = "policies:publish" ->
            {"publish_draft", "advance_rollout", "pause_rollout", "resume_rollout"}
       [] p = "policies:emergency" -> {"emergency_publish_draft"}
       [] p = "rules:read" -> {"list_rules", "get_rule", "get_rules", "rules_history"}
       [] p = "rules:manage" -> {"put_rules"}
       [] p = "audit:read" -> {"list_audit", "get_audit_event"}
       [] p = "github:manage" -> {"sync_installation"}
       [] p = "notifications:read" ->
            {"notification_preferences", "patch_notification_preferences",
             "notification_settings"}
       [] p = "notifications:manage" ->
            {"put_notification_settings", "add_notification_webhook",
             "delete_notification_webhook", "notification_deliveries"}
       [] p = "organization:read" -> {"organization", "get_settings", "search"}
       [] p = "organization:manage" -> {"put_settings"}
       [] p = "security:read" ->
            {"security_overview", "security_repositories", "security_trends", "security_events",
             "report", "list_schedules", "get_schedule"}
       [] p = "security:manage" -> {"create_schedule", "patch_schedule", "disable_schedule"}
       [] p = "exceptions:read" -> {"security_exceptions", "list_exceptions", "get_exception"}
       [] p = "exceptions:create" -> {"create_exception"}
       [] p = "exceptions:approve" -> {"approve_exception", "reject_exception"}
       [] p = "exceptions:revoke" -> {"revoke_exception", "cancel_exception"}]

TypeOK ==
  /\ role \in [Users -> [Organizations -> Role]]
  /\ \A s \in SessionIds : session[s].state \in {"unused", "live", "expired", "ended"}
  /\ \A t \in Threads :
       request[t] # Idle =>
         /\ request[t].step \in {"arrived", "identified", "timed", "counted", "answered"}
         /\ request[t].status \in Refusals \cup {"none", "ok"}
         /\ request[t].status # "none" <=> request[t].step = "answered"
         /\ request[t].principal \in [Places -> Role]
  /\ \A c \in Categories, k \in Keys : counted[c][k].count \in Nat

\* What has to be allowed where p is documented.  The code asks for less to cancel or retry
\* a bulk operation that schedules scans: BulkService._manageable (governance/bulk.py:402)
\* wants the permission such an operation is created with, docs/dashboard.md:646 says
\* "repositories:manage" of every operation.
Required(name, p) == IF name \in {"cancel_bulk_scan", "retry_bulk_scan"} THEN "scans:trigger" ELSE p

\* A request is carried out only for someone who was signed in when it arrived, and who had
\* the documented permission at some moment between its arrival and its answer: a role that
\* was taken away, or a session that ended, before the request arrived is of no use any
\* more ("changes to CommitGuard roles take effect on the next request").  A request that
\* changes something came from a trusted origin, with the token of its own session.  And a
\* request is turned away as signed out only when its session is over for good.
AnswersAreAllowed ==
  \A t \in Threads :
    LET r == request[t] IN
    r # Idle =>
      /\ r.status = "ok" /\ r.route.dispatcher # "public" =>
           /\ r.live
           /\ \A p \in DOMAIN Documented :
                r.route.name \in Documented[p] =>
                  \E x \in held[t] : Required(r.route.name, p) \in Grants(x)
           /\ Unsafe(r.route) => r.token = r.cookie
      /\ r.status \in SignedOut /\ r.cookie \in SessionIds => session[r.cookie].state = "ended"

\* RequestRateLimiter: a request is refused only after the limit was used up in its minute.
\* With requests in progress while the minute changes (the window is computed before the lock
\* is taken, and a late request starts a new count), what is let through is the limit for each
\* of them, and one more for each that was still on its way when the minute ended; as long as
\* the keys fit in the windows that are tracked.
LimitsHold ==
  /\ \A t \in Threads :
       request[t] # Idle /\ request[t].status = "limited" =>
         accepted[request[t].category][request[t].key][request[t].minute] >= Limit
  /\ Cardinality(Keys) <= MaxTracked =>
       \A c \in Categories, k \in Keys, m \in Minutes :
         accepted[c][k][m] <= (Limit + 1) * Cardinality(Threads)

=============================================================================
