----------------------------- MODULE DashboardViews -----------------------------
(***************************************************************************)
(* What the dashboard shows (controlplane/queries.py) of the history that  *)
(* scans write and retention deletes (github/storage.py purge_expired).    *)
(* Every number and every link is a query of its own over tables that are  *)
(* purged by different rules; the pages should agree with each other       *)
(* whatever has been deleted.                                              *)
(*                                                                         *)
(* One installation; one pull request per repository, whose head commit    *)
(* may be scanned several times; a violation is a repository and a rule.   *)
(* Pages are read to the end (Listings has the cursors).                   *)
(***************************************************************************)
EXTENDS Integers, FiniteSets, Functions

CONSTANTS
  Repos, Rules, Heads,
  Critical,        \* the rules whose severity is critical
  Kinds,           \* failure_kind of scans that fail, of {"configuration", "other"}
  Retention,       \* COMMITGUARD_APP_RETENTION_DAYS
  SessionLifetime, \* SESSION_LIFETIME
  Reopens,         \* whether a closed pull request may be opened again
  MaxScans, MaxTime, MaxChanges  \* bounds

VARIABLES
  now,
  installation, \* its state, and when it changed last
  repos,        \* known_repositories, installation_repositories, repository_settings
  evidence,     \* enforcement_status: branch_protection
  jobs,         \* scan_jobs
  findings,     \* findings
  violations,   \* violations and violation_exposures
  session,      \* session_repositories, and when the session ends
  sequence,     \* the last scan's number
  changes       \* administrators' and GitHub's changes so far

vars == <<now, installation, repos, evidence, jobs, findings, violations, session, sequence, changes>>

-----------------------------------------------------------------------------
Times == 0..MaxTime
Never == -1
Ids == Repos \X Rules
Actions == {"block", "warn"}

Job == [seq: 1..MaxScans, repo: Repos, head: Heads, state: {"queued", "passed", "failed", "error", "cancelled"},
        warn: BOOLEAN, kind: {"none", "stale", "configuration", "other"}, created: Times, updated: Times]
Finding == [seq: 1..MaxScans, violation: Ids, at: Times]
Violation == [status: {"open", "resolved"}, ack: BOOLEAN, action: Actions, updated: Times, last: 1..MaxScans,
              closed: BOOLEAN]

TypeOK ==
  /\ now \in Times
  /\ installation \in [state: {"active", "suspended", "deleted", "gone"}, updated: Times]
  /\ repos \in [Repos -> [known: BOOLEAN, listed: BOOLEAN, removed: Times \cup {Never}, paused: BOOLEAN]]
  /\ evidence \in [Repos -> {"unknown", "required", "not_required"}]
  /\ jobs \subseteq Job /\ findings \subseteq Finding
  /\ DOMAIN violations \subseteq Ids /\ violations \in [DOMAIN violations -> Violation]
  /\ session \in [repos: SUBSET Repos, until: Times \cup (MaxTime..MaxTime + SessionLifetime)]

-----------------------------------------------------------------------------
(* What is visible: SCOPE_JOBS, SCOPE_VIOLATIONS, SCOPE_REPOSITORIES.      *)

Visible == IF now < session.until /\ installation.state # "gone" THEN session.repos ELSE {}
Count(S) == Cardinality(S)

VisibleJobs == {j \in jobs : j.repo \in Visible}
VisibleViolations == {v \in DOMAIN violations : v[1] \in Visible}

\* The result a scan is shown with (scan_result_label).
Label(j) ==
  CASE j.state = "cancelled" /\ j.kind = "stale" -> "stale"
    [] j.state = "passed" -> IF j.warn THEN "warning" ELSE "pass"
    [] j.state = "failed" -> "blocked"
    [] OTHER -> j.state

\* The condition of a filter on the result (_RESULT_CLAUSES).
Clause(result, j) ==
  \/ result = "pass" /\ j.state = "passed" /\ ~j.warn
  \/ result = "warning" /\ j.state = "passed" /\ j.warn
  \/ result = "blocked" /\ j.state = "failed"
  \/ result = "stale" /\ j.state = "cancelled" /\ j.kind = "stale"
  \/ result = "cancelled" /\ j.state = "cancelled" /\ j.kind # "stale"
  \/ result \in {"queued", "error"} /\ j.state = result
Results == {"queued", "pass", "warning", "blocked", "error", "cancelled", "stale"}

\* list_scans with a filter on the result, the repository or the start of the period
ScanList(result, r, start) ==
  {j \in VisibleJobs : /\ result = "any" \/ Clause(result, j)
                       /\ r = "any" \/ j.repo = r
                       /\ j.created >= start}

\* list_violations with a filter on the displayed status, the action or the repository
ViolationList(status, action, r) ==
  {v \in VisibleViolations :
     /\ CASE status = "resolved" -> violations[v].status = "resolved"
          [] status = "acknowledged" -> violations[v].status = "open" /\ violations[v].ack
          [] status = "open" -> violations[v].status = "open" /\ ~violations[v].ack
     /\ action = "any" \/ violations[v].action = action
     /\ r = "any" \/ v[1] = r}

-----------------------------------------------------------------------------
(* Details.                                                                *)

Newest(S) == CHOOSE j \in S : \A k \in S : k.seq <= j.seq

\* scan_executions: the scans of one commit; the first of them is the current one
Executions(j) == {k \in jobs : k.repo = j.repo /\ k.head = j.head}
Current(j) == Newest(Executions(j))

\* rescan_eligibility for a user whose role may trigger scans
CanRescan(j) ==
  /\ j.state # "queued"
  /\ \A k \in jobs : k.repo = j.repo => k.seq <= j.seq
  /\ installation.state = "active" /\ repos[j.repo].listed /\ ~repos[j.repo].paused

\* get_scan: the findings of a scan
FindingsOf(j) == {f \in findings : f.seq = j.seq}

\* get_violation: the evidence is its latest finding's; a detection is a finding with its scan
Evidence(v) == {f \in findings : f.violation = v}
Detections(v) == {f \in Evidence(v) : \E j \in jobs : j.seq = f.seq}
LastScan(v) == {j \in jobs : j.seq = violations[v].last}

-----------------------------------------------------------------------------
(* Repositories and the overview.                                          *)

OpenIn(r, action) == {v \in DOMAIN violations : v[1] = r /\ violations[v].status = "open" /\ violations[v].action = action}

CriticalIn(r) == {v \in DOMAIN violations : v[1] = r /\ violations[v].status = "open" /\ v[2] \in Critical}

Connection(r) ==
  IF installation.state = "suspended" THEN "suspended"
  ELSE IF installation.state # "active" \/ ~repos[r].listed THEN "disconnected" ELSE "connected"

Finished(r) == {j \in jobs : j.repo = r /\ j.state \in {"passed", "failed", "error"}}

\* protection_for
Protection(r) ==
  IF Connection(r) # "connected" THEN "at_risk"
  ELSE IF repos[r].paused THEN "unprotected"
  ELSE IF Finished(r) # {} /\ Newest(Finished(r)).kind = "configuration" THEN "configuration_error"
  ELSE IF evidence[r] = "required" THEN "protected"
  ELSE IF evidence[r] = "not_required" THEN "unprotected" ELSE "unknown"

\* _repository_rows, _repository_summary
Listed == {r \in Visible : repos[r].known}
Row(r) ==
  [app |-> Connection(r), protection |-> Protection(r),
   violations |-> Count(OpenIn(r, "block")), warnings |-> Count(OpenIn(r, "warn")),
   critical |-> Count(CriticalIn(r))]
Monitored == {r \in Listed : Connection(r) = "connected"}
RepositoryList(protection) == {r \in Listed : Protection(r) = protection}

\* get_repository: the open violations it lists, and the scan whose policy and result it shows
Detail(r) ==
  [open |-> {v \in DOMAIN violations : v[1] = r /\ violations[v].status = "open"},
   latest |-> LET done == {j \in jobs : j.repo = r /\ j.state \in {"passed", "failed"}}
              IN IF done = {} THEN {} ELSE {Newest(done)},
   app |-> Connection(r)]

\* list_installations, installation_repositories: the installation with its repositories
Installations == IF session.repos # {} /\ now < session.until /\ installation.state # "gone" THEN {installation.state} ELSE {}
ConnectedRepositories == {r \in Visible : repos[r].known /\ repos[r].listed}

\* _integration, of an installation that misses no permission
Integration ==
  IF Installations = {"active"} THEN "connected"
  ELSE IF Installations = {"suspended"} THEN "action_required" ELSE "disconnected"

\* overview: the summary, with the scans since the start of the period
Overview(start) ==
  [monitored |-> Count(Monitored),
   protected |-> Count({r \in Monitored : Protection(r) = "protected"}),
   unprotected |-> Count({r \in Monitored : Protection(r) = "unprotected"}),
   unknown |-> Count({r \in Monitored : Protection(r) = "unknown"}),
   configuration |-> Count({r \in Monitored : Protection(r) = "configuration_error"}),
   atRisk |-> Count({r \in Listed : Protection(r) = "at_risk"}),
   scans |-> Count({j \in VisibleJobs : j.created >= start}),
   errors |-> Count({j \in VisibleJobs : j.created >= start /\ j.state = "error"}),
   violations |-> Count({v \in VisibleViolations : violations[v].status = "open" /\ violations[v].action = "block"}),
   warnings |-> Count({v \in VisibleViolations : violations[v].status = "open" /\ violations[v].action = "warn"}),
   critical |-> Count({v \in VisibleViolations : violations[v].status = "open" /\ v[2] \in Critical})]

\* _health_checks: "ok", "attention" or "unknown"
Health(o) ==
  [integration |-> IF Integration = "connected" THEN "ok" ELSE "attention",
   merge_protection |-> IF o.monitored = 0 THEN "unknown"
                        ELSE IF o.atRisk + o.unprotected + o.configuration > 0 THEN "attention"
                        ELSE IF o.unknown > 0 THEN "unknown" ELSE "ok",
   critical |-> IF o.critical = 0 THEN "ok" ELSE "attention",
   violations |-> IF o.violations = 0 THEN "ok" ELSE "attention",
   scans |-> IF o.errors = 0 THEN "ok" ELSE "attention"]

-----------------------------------------------------------------------------
(* Scans.                                                                  *)

Cancelled(j, kind, at) == [j EXCEPT !.state = "cancelled", !.kind = kind, !.updated = at]
Unfinished(r) == {j \in jobs : j.repo = r /\ j.state = "queued"}

Keep == UNCHANGED <<now, session>>
KeepHistory == UNCHANGED <<jobs, findings, violations, sequence>>

\* A scan is accepted; an unfinished one of the same pull request is stale.
Accept(r, head) ==
  /\ installation.state = "active" /\ repos[r].listed /\ ~repos[r].paused
  /\ sequence < MaxScans /\ sequence' = sequence + 1
  /\ jobs' = (jobs \ Unfinished(r)) \cup {Cancelled(j, "stale", now) : j \in Unfinished(r)}
             \cup {[seq |-> sequence + 1, repo |-> r, head |-> head, state |-> "queued", warn |-> FALSE,
                    kind |-> "none", created |-> now, updated |-> now]}
  /\ UNCHANGED <<installation, repos, evidence, findings, violations, changes>> /\ Keep

\* record_completed: the findings of a scan, the violations that it detects and those it ends.
Detected(j, v, action) ==
  [status |-> "open", action |-> action, updated |-> now, last |-> j.seq, closed |-> FALSE,
   ack |-> v \in DOMAIN violations /\ violations[v].status = "open" /\ violations[v].ack]
Ended(v, closed) == [violations[v] EXCEPT !.status = "resolved", !.updated = now, !.closed = closed]

Complete(j, found, action) ==
  LET ids == {j.repo} \X found
  IN /\ j.state = "queued"
     /\ jobs' = (jobs \ {j}) \cup
                {[j EXCEPT !.state = IF found # {} /\ action = "block" THEN "failed" ELSE "passed",
                           !.warn = found # {} /\ action = "warn", !.updated = now]}
     /\ findings' = findings \cup {[seq |-> j.seq, violation |-> v, at |-> now] : v \in ids}
     /\ violations' = [v \in DOMAIN violations \cup ids |->
                         IF v \in ids THEN Detected(j, v, action)
                         ELSE IF v[1] = j.repo /\ violations[v].status = "open" THEN Ended(v, FALSE)
                         ELSE violations[v]]
     /\ UNCHANGED <<installation, repos, evidence, sequence, changes>> /\ Keep

Fail(j, kind) ==
  /\ j.state = "queued"
  /\ jobs' = (jobs \ {j}) \cup {[j EXCEPT !.state = "error", !.kind = kind, !.updated = now]}
  /\ UNCHANGED <<installation, repos, evidence, findings, violations, sequence, changes>> /\ Keep

-----------------------------------------------------------------------------
(* What GitHub reports and administrators do.                              *)

Change == changes < MaxChanges /\ changes' = changes + 1

\* pull_request_closed without a merge: the exposures of the pull request end.
ClosePullRequest(r) ==
  /\ Change
  /\ \E v \in DOMAIN violations : v[1] = r /\ violations[v].status = "open"
  /\ violations' = [v \in DOMAIN violations |->
                      IF v[1] = r /\ violations[v].status = "open" THEN Ended(v, TRUE) ELSE violations[v]]
  /\ UNCHANGED <<installation, repos, evidence, jobs, findings, sequence>> /\ Keep

\* pull_request_reopened: the exposures that closing it ended are active again.
ReopenPullRequest(r) ==
  /\ Reopens /\ Change
  /\ \E v \in DOMAIN violations : v[1] = r /\ violations[v].closed
  /\ violations' = [v \in DOMAIN violations |->
                      IF v[1] = r /\ violations[v].closed
                        THEN [violations[v] EXCEPT !.status = "open", !.ack = FALSE, !.updated = now, !.closed = FALSE]
                        ELSE violations[v]]
  /\ UNCHANGED <<installation, repos, evidence, jobs, findings, sequence>> /\ Keep

Acknowledge(v) ==
  /\ Change /\ v \in VisibleViolations /\ violations[v].status = "open" /\ ~violations[v].ack
  /\ violations' = [violations EXCEPT ![v].ack = TRUE, ![v].updated = now]
  /\ UNCHANGED <<installation, repos, evidence, jobs, findings, sequence>> /\ Keep

\* remove_repositories (which leaves updated_at of the cancelled scans), add_repositories
RemoveRepository(r) ==
  /\ Change /\ repos[r].listed
  /\ repos' = [repos EXCEPT ![r].listed = FALSE, ![r].removed = now]
  /\ jobs' = (jobs \ Unfinished(r)) \cup {Cancelled(j, "none", j.updated) : j \in Unfinished(r)}
  /\ UNCHANGED <<installation, evidence, findings, violations, sequence>> /\ Keep

AddRepository(r) ==
  /\ Change /\ ~repos[r].listed /\ installation.state \in {"active", "suspended"}
  /\ repos' = [repos EXCEPT ![r].known = TRUE, ![r].listed = TRUE, ![r].removed = Never]
  /\ UNCHANGED <<installation, evidence>> /\ KeepHistory /\ Keep

\* set_installation_state: a deleted installation has no repositories and no scan to run.
SetInstallation(state) ==
  /\ Change /\ installation.state \in {"active", "suspended"} /\ state # installation.state
  /\ installation' = [state |-> state, updated |-> now]
  /\ IF state = "deleted"
       THEN LET open == UNION {Unfinished(r) : r \in Repos}
            IN /\ repos' = [r \in Repos |-> [repos[r] EXCEPT !.listed = FALSE,
                                               !.removed = IF @ = Never THEN now ELSE @]]
               /\ jobs' = (jobs \ open) \cup {Cancelled(j, "none", now) : j \in open}
       ELSE UNCHANGED <<repos, jobs>>
  /\ UNCHANGED <<evidence, findings, violations, sequence>> /\ Keep

Pause(r) ==
  /\ Change /\ repos[r].known
  /\ repos' = [repos EXCEPT ![r].paused = ~@]
  /\ UNCHANGED <<installation, evidence>> /\ KeepHistory /\ Keep

RefreshEvidence(r, e) ==
  /\ Change /\ Connection(r) = "connected" /\ evidence[r] # e
  /\ evidence' = [evidence EXCEPT ![r] = e]
  /\ UNCHANGED <<installation, repos>> /\ KeepHistory /\ Keep

\* complete_sign_in: the repositories GitHub says the user and the App can both access
SignIn ==
  /\ installation.state \in {"active", "suspended"} /\ now >= session.until
  /\ session' = [repos |-> {r \in Repos : repos[r].listed}, until |-> now + SessionLifetime]
  /\ UNCHANGED <<now, installation, repos, evidence, changes>> /\ KeepHistory

-----------------------------------------------------------------------------
(* Retention.                                                              *)

\* Findings that an open violation depends on stay.
KeptFindings(cutoff) ==
  {f \in findings : \/ f.at >= cutoff
                    \/ f.violation \in DOMAIN violations /\ violations[f.violation].status = "open"}
KeptViolations(cutoff) ==
  {v \in DOMAIN violations : violations[v].status = "open" \/ violations[v].updated >= cutoff}
KeptJobs(cutoff) == {j \in jobs : j.updated >= cutoff \/ j.state = "queued"}

\* Mutant: a repository is forgotten although it was granted again.
ForgottenSeen(cutoff, kept) ==
  {r \in Repos : repos[r].known /\ \A j \in kept : j.repo # r}

\* known_repositories: removed long ago, and no scan of it is left.
Forgotten(cutoff, kept) ==
  {r \in Repos : repos[r].removed # Never /\ repos[r].removed < cutoff /\ \A j \in kept : j.repo # r}

\* purge_expired; _ORPHAN_DELETES removes what belongs to an installation that is gone.
Purge ==
  LET cutoff == now - Retention
      gone == installation.state = "deleted" /\ installation.updated < cutoff
      kept == KeptJobs(cutoff)
      orphan == gone \/ installation.state = "gone"
  IN /\ installation' = IF gone THEN [installation EXCEPT !.state = "gone"] ELSE installation
     /\ findings' = IF orphan THEN {} ELSE KeptFindings(cutoff)
     /\ violations' = [v \in IF orphan THEN {} ELSE KeptViolations(cutoff) |-> violations[v]]
     /\ jobs' = kept
     /\ repos' = [r \in Repos |-> IF orphan THEN [repos[r] EXCEPT !.known = FALSE, !.listed = FALSE, !.paused = FALSE]
                                  ELSE IF r \in Forgotten(cutoff, kept) THEN [repos[r] EXCEPT !.known = FALSE]
                                  ELSE repos[r]]
     /\ evidence' = IF orphan THEN [r \in Repos |-> "unknown"] ELSE evidence
     /\ UNCHANGED <<sequence, changes>> /\ Keep

Tick ==
  /\ now < MaxTime /\ now' = now + 1
  /\ UNCHANGED <<installation, repos, evidence, session, changes>> /\ KeepHistory

Init ==
  /\ now = 0 /\ sequence = 0 /\ changes = 0
  /\ installation = [state |-> "active", updated |-> 0]
  /\ repos = [r \in Repos |-> [known |-> TRUE, listed |-> TRUE, removed |-> Never, paused |-> FALSE]]
  /\ evidence = [r \in Repos |-> "unknown"]
  /\ jobs = {} /\ findings = {} /\ violations = [v \in {} |-> v]
  /\ session = [repos |-> {}, until |-> 0]

ScanStep ==
  \/ \E r \in Repos, head \in Heads : Accept(r, head)
  \/ \E j \in jobs, found \in SUBSET Rules, action \in Actions : Complete(j, found, action)
  \/ \E j \in jobs, kind \in Kinds : Fail(j, kind)

ChangeStep ==
  \/ \E r \in Repos : \/ ClosePullRequest(r) \/ ReopenPullRequest(r) \/ Pause(r)
                      \/ RemoveRepository(r) \/ AddRepository(r)
  \/ \E v \in Ids : Acknowledge(v)
  \/ \E state \in {"active", "suspended", "deleted"} : SetInstallation(state)
  \/ \E r \in Repos, e \in {"unknown", "required", "not_required"} : RefreshEvidence(r, e)

Next == ScanStep \/ ChangeStep \/ SignIn \/ Purge \/ Tick

Spec == Init /\ [][Next]_vars

-----------------------------------------------------------------------------
(* Every number of the overview is the length of the list behind it and    *)
(* the sum of the rows of the repositories, whatever retention deleted.    *)
(* The rows come from known_repositories and the numbers do not, so this   *)
(* needs a session to end before a repository it lists can be forgotten.   *)
NumbersAgree ==
  LET o == Overview(0)
  IN /\ o.violations = Count(ViolationList("open", "block", "any") \cup ViolationList("acknowledged", "block", "any"))
     /\ o.violations = SumFunction([r \in Listed |-> Row(r).violations])
     /\ o.warnings = SumFunction([r \in Listed |-> Row(r).warnings])
     /\ o.critical = SumFunction([r \in Listed |-> Row(r).critical])
     /\ o.monitored = o.protected + o.unprotected + o.unknown + o.configuration
     /\ Count(Listed) = o.monitored + o.atRisk
     /\ o.scans = Count(ScanList("any", "any", 0))
     /\ Health(o).merge_protection = "ok" => RepositoryList("protected") = Listed

(* A scan is found under the result it is shown with, and under no other.  *)
FiltersMatchLabels ==
  \A j \in VisibleJobs, result \in Results : j \in ScanList(result, j.repo, 0) <=> result = Label(j)

(* A scan that may be run again is the current execution of its commit.    *)
RescanIsCurrent == \A j \in VisibleJobs : CanRescan(j) => Current(j) = j

(* The page of a repository shows what its row and the lists show, and a   *)
(* scan that can be opened; the page of the installation what the overview *)
(* says of the connection to GitHub.                                       *)
DetailsAgree ==
  /\ \A r \in Listed :
       LET detail == Detail(r)
       IN /\ detail.open = ViolationList("open", "any", r) \cup ViolationList("acknowledged", "any", r)
          /\ Count(detail.open) = Row(r).violations + Row(r).warnings
          /\ detail.latest \subseteq ScanList("any", r, 0)
          /\ detail.app = "suspended" => Integration = "action_required"
  /\ Monitored # {} => Monitored = ConnectedRepositories /\ Health(Overview(0)).integration = "ok"

(* The pages that show the same history agree with each other.             *)
PagesAgree == NumbersAgree /\ FiltersMatchLabels /\ RescanIsCurrent /\ DetailsAgree

(* What is shown can be explained: purges leave an open violation a        *)
(* finding with its evidence, however old, and a scan that is shown as     *)
(* blocked, or with a warning, its findings.                               *)
HistoryIsExplained ==
  /\ \A v \in DOMAIN violations : violations[v].status = "open" => Evidence(v) # {}
  /\ \A j \in VisibleJobs : Label(j) \in {"blocked", "warning"} => FindingsOf(j) # {}

(* What an open violation depends on is kept: the scan that detected it    *)
(* last can be opened, and its latest detection is listed.                 *)
LinksOpen ==
  \A v \in VisibleViolations :
    violations[v].status = "open" => LastScan(v) # {} /\ Detections(v) # {}
=============================================================================
