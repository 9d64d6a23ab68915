---------------------------- MODULE EffectivePolicy ----------------------------
(***************************************************************************)
(* Which governance applies to the repositories of an organization, and    *)
(* the cache of it that scans use: staged rollouts of the organization's   *)
(* policy (governance/rollouts.py), one repository group (groups.py),      *)
(* exceptions (exceptions.py), monitor and enforce mode (inventory.py),    *)
(* settings and organization rules (settings.py, rules.py), resolution and *)
(* its propagation (resolver.py, cache.py).                                *)
(*                                                                         *)
(* A policy, settings or rules version stands for its content.             *)
(***************************************************************************)
EXTENDS Integers, Sequences, FiniteSets

CONSTANTS
  Repos,             \* repository IDs
  InitRepos,         \* repositories of the organization at first
  Exceptions,        \* exception IDs
  ScopeOf,           \* the scope of an exception: "organization", "group" or a repository
  Admins,            \* request threads, and the maintenance loop, that change rollouts
  Stages,            \* the stages of a rollout, a sequence of sets of repositories
  Changes,           \* which kinds of change occur, a set of names
  RepositoriesLeave, \* is a repository that was removed purged (by retention)?
  MaxChanges,        \* bound: governance changes
  MaxCrashes,        \* bound: crashes of the propagation job
  MaxAttempts        \* MAX_PROPAGATION_ATTEMPTS (5)

VARIABLES
  versions,   \* organization_policy_versions: their documents
  rollout,    \* policy_rollouts with their repositories, by to_version
  admin,      \* what a rollout operation has read
  group,      \* a repository_groups row, its members and its policy version
  exception,  \* policy_exceptions
  mode,       \* repository_governance: the recorded mode
  settings,   \* the current settings version and its default_onboarding_mode
  rules,      \* the current version of the organization rules
  known,      \* account_repositories
  row,        \* repository_effective_policies
  job,        \* propagate: the repositories it selected, and the one in work
  changes,    \* bounds: changes and crashes so far
  crashes

\* Repositories have numbers, so none has the name of a scope, or is no repository.
NoRepo == "none"

ASSUME EffectivePolicyAssumption ==
  /\ {NoRepo, "organization", "group"} \cap Repos = {}
  /\ InitRepos \subseteq Repos
  /\ Stages \in Seq(SUBSET Repos) /\ Len(Stages) >= 1
  /\ MaxChanges \in Nat /\ MaxCrashes \in Nat
  /\ MaxAttempts \in Nat \ {0}

governance == <<versions, rollout, admin, group, exception, mode, settings, rules, known>>
vars == <<governance, row, job, changes, crashes>>

-----------------------------------------------------------------------------
MaxVersions == MaxChanges + 1
Mode == {"monitor", "enforce"}

\* Mutant: a paused rollout does not hold its version back.
InProgressRunning == {"pilot", "rollout"}

InProgress == {"pilot", "rollout", "paused"}

Rollout == [state: {"none", "active", "rolled_back"} \cup InProgress, from: 0..MaxVersions,
            stage: 0..Len(Stages), enrolled: SUBSET Repos,
            resumeTo: {"none", "pilot", "rollout"}]
NoRollout == [state |-> "none", from |-> 0, stage |-> 0, enrolled |-> {}, resumeTo |-> "none"]

Resolution == [organization: 0..MaxVersions, group: 0..MaxChanges, grants: SUBSET Exceptions,
               mode: Mode, settings: 0..MaxChanges, rules: 0..MaxChanges]
Row == [state: {"none", "stale", "syncing", "error"}, attempts: 0..MaxAttempts]
         \cup [state: {"up_to_date", "stale", "syncing", "error"}, attempts: 0..MaxAttempts,
               resolved: Resolution]

Idle == [step |-> "idle"]
Operation == {Idle}
  \cup [step: {"advance"}, to: 2..MaxVersions, stage: 1..(Len(Stages) + 1)]
  \cup [step: {"halted"}, to: 2..MaxVersions]
  \cup [step: {"rollback"}, to: 2..MaxVersions, expected: 1..MaxVersions]

TypeOK ==
  /\ versions \in Seq(1..MaxVersions) /\ Len(versions) \in 1..MaxVersions
  /\ rollout \in [2..MaxVersions -> Rollout]
  /\ admin \in [Admins -> Operation]
  /\ group \in [members: SUBSET Repos, archived: BOOLEAN, version: 0..MaxChanges]
  /\ exception \in [Exceptions ->
       [status: {"none", "requested", "active", "ended"}, past: BOOLEAN]]
  /\ mode \in [Repos -> Mode \cup {"unrecorded"}]
  /\ settings \in [version: 0..MaxChanges, mode: Mode]
  /\ rules \in 0..MaxChanges
  /\ known \subseteq Repos
  /\ row \in [Repos -> Row]
  /\ job \in [work: SUBSET Repos, current: Repos \cup {NoRepo}]
  /\ changes \in 0..MaxChanges /\ crashes \in 0..MaxCrashes

Init ==
  /\ versions = <<1>>
  /\ rollout = [n \in 2..MaxVersions |-> NoRollout]
  /\ admin = [a \in Admins |-> Idle]
  /\ group = [members |-> {}, archived |-> FALSE, version |-> 0]
  /\ exception = [e \in Exceptions |-> [status |-> "none", past |-> FALSE]]
  /\ mode = [r \in Repos |-> "unrecorded"]
  /\ settings = [version |-> 0, mode |-> "enforce"]
  /\ rules = 0
  /\ known = InitRepos
  /\ row = [r \in Repos |-> [state |-> "none", attempts |-> 0]]
  /\ job = [work |-> {}, current |-> NoRepo]
  /\ changes = 0 /\ crashes = 0

-----------------------------------------------------------------------------
(* Resolution.                                                             *)

Latest == Len(versions)

\* _version_for: the latest version, but the previous one for a repository that the
\* rollout in progress has not enrolled.
VersionFor(r) ==
  IF /\ Latest \in DOMAIN rollout
     /\ rollout[Latest].state \in InProgress
     /\ r \notin rollout[Latest].enrolled
    THEN rollout[Latest].from
    ELSE Latest

InGroup(r) == r \in group.members /\ ~group.archived

Applies(e, r) ==
  \/ ScopeOf[e] = "organization"
  \/ ScopeOf[e] = "group" /\ InGroup(r)
  \/ ScopeOf[e] = r

\* active_grants
Grants(r) ==
  {e \in Exceptions : exception[e].status = "active" /\ ~exception[e].past /\ Applies(e, r)}

\* governance_state
ModeOf(r) == IF mode[r] = "unrecorded" THEN settings.mode ELSE mode[r]

\* resolve_in
Resolve(r) ==
  [organization |-> VersionFor(r), group |-> IF InGroup(r) THEN group.version ELSE 0,
   grants |-> Grants(r), mode |-> ModeOf(r), settings |-> settings.version, rules |-> rules]

\* _store_resolution
StoreResolution(r) ==
  row' = [row EXCEPT ![r] = [state |-> "up_to_date", attempts |-> 0, resolved |-> Resolve(r)]]

\* invalidate_repositories: marks the existing rows stale.
Invalidate(S) ==
  row' = [r \in Repos |->
    IF r \in S /\ row[r].state # "none" THEN [row[r] EXCEPT !.state = "stale"] ELSE row[r]]

\* Mutant: an exception of a group touches only the repositories that have one already.
CoveredByGrant(scope) ==
  CASE scope = "organization" -> Repos
    [] scope = "group" ->
         {r \in group.members : row[r].state = "up_to_date" /\ row[r].resolved.grants # {}}
    [] OTHER -> {scope}

\* invalidate_scope
Covered(scope) ==
  CASE scope = "organization" -> Repos
    [] scope = "group" -> group.members
    [] OTHER -> {scope}

\* for_repository uses a row that is up to date and whose exceptions have not expired.
Usable(r) ==
  /\ row[r].state = "up_to_date"
  /\ \A e \in row[r].resolved.grants : ~exception[e].past

\* A change, one of at most MaxChanges.
Change ==
  /\ changes < MaxChanges
  /\ changes' = changes + 1
  /\ UNCHANGED <<job, crashes>>

-----------------------------------------------------------------------------
(* Policy versions and rollouts.                                           *)

\* on_policy_published, then start_in: the first stage is enrolled.  Only one
\* rollout of a target may be in progress.
Publish(staged) ==
  /\ Change /\ Latest < MaxVersions
  /\ staged => \A n \in DOMAIN rollout : rollout[n].state \notin InProgress
  /\ versions' = Append(versions, Latest + 1)
  /\ rollout' = IF staged
       THEN [rollout EXCEPT ![Latest + 1] =
               [state |-> "pilot", from |-> Latest, stage |-> 1,
                enrolled |-> Stages[1] \cap known, resumeTo |-> "none"]]
       ELSE rollout
  /\ Invalidate(Repos)
  /\ UNCHANGED <<admin, group, exception, mode, settings, rules, known>>

\* advance: state and stage are read before the transaction.
ReadAdvance(a, n) ==
  /\ Change
  /\ admin[a] = Idle
  /\ rollout[n].state \in {"pilot", "rollout"}
  /\ admin' = [admin EXCEPT ![a] = [step |-> "advance", to |-> n, stage |-> rollout[n].stage + 1]]
  /\ UNCHANGED <<versions, rollout, group, exception, mode, settings, rules, known, row>>

\* _enroll_stage, _enroll_remaining and the unconditional update; it fails when
\* another rollout of the target is in progress meanwhile.
Advance(a) ==
  LET q == admin[a]
      old == rollout[q.to].enrolled
      staged == IF q.stage > Len(Stages) THEN old ELSE old \cup (Stages[q.stage] \cap known)
      finished == q.stage > Len(Stages) \/ (q.stage = Len(Stages) /\ known \subseteq staged)
      enrolled == IF finished THEN staged \cup known ELSE staged
      clash == ~finished /\ \E n \in DOMAIN rollout \ {q.to} : rollout[n].state \in InProgress
  IN /\ q.step = "advance"
     /\ IF clash
          THEN UNCHANGED <<rollout, row>>
          ELSE /\ rollout' = [rollout EXCEPT
                    ![q.to].state = IF finished THEN "active" ELSE "rollout",
                    ![q.to].stage = IF q.stage > Len(Stages) THEN Len(Stages) ELSE q.stage,
                    ![q.to].enrolled = enrolled]
               /\ Invalidate(enrolled \ old)
     /\ admin' = [admin EXCEPT ![a] = Idle]
     /\ UNCHANGED <<versions, group, exception, mode, settings, rules, known, job, changes, crashes>>

\* _pause_row
PauseRow(n) ==
  /\ rollout[n].state \in {"pilot", "rollout"}
  /\ rollout' = [rollout EXCEPT ![n].state = "paused", ![n].resumeTo = rollout[n].state]
  /\ UNCHANGED <<versions, group, exception, mode, settings, rules, known, row>>

Pause(n) == Change /\ PauseRow(n) /\ UNCHANGED admin

\* evaluate: a threshold is exceeded; with auto_rollback the rollout is rolled back next.
Halt(a, n) ==
  /\ Change
  /\ admin[a] = Idle
  /\ PauseRow(n)
  /\ admin' = [admin EXCEPT ![a] = [step |-> "halted", to |-> n]]

Resume(n) ==
  /\ Change
  /\ rollout[n].state = "paused"
  /\ rollout' = [rollout EXCEPT
       ![n].state = IF rollout[n].resumeTo = "none" THEN "rollout" ELSE rollout[n].resumeTo,
       ![n].resumeTo = "none"]
  /\ UNCHANGED <<versions, admin, group, exception, mode, settings, rules, known, row>>

\* rollback and _rollback_row read the state of the rollout and the current version.
ReadRollback(a, n) ==
  /\ Change
  /\ admin[a] \in {Idle, [step |-> "halted", to |-> n]}
  /\ admin[a] = Idle => rollout[n].state \in InProgress
  /\ admin' = [admin EXCEPT ![a] = [step |-> "rollback", to |-> n, expected |-> Latest]]
  /\ UNCHANGED <<versions, rollout, group, exception, mode, settings, rules, known, row>>

\* The rollback is published as a new version, unless the current one changed or
\* already has this document.
RollBack(a) ==
  LET q == admin[a]
      restored == versions[rollout[q.to].from]
  IN /\ q.step = "rollback"
     /\ IF Latest = q.expected /\ restored # versions[Latest] /\ Latest < MaxVersions
          THEN /\ versions' = Append(versions, restored)
               /\ rollout' = [rollout EXCEPT ![q.to].state = "rolled_back"]
               /\ Invalidate(Repos)
          ELSE UNCHANGED <<versions, rollout, row>>
     /\ admin' = [admin EXCEPT ![a] = Idle]
     /\ UNCHANGED <<group, exception, mode, settings, rules, known, job, changes, crashes>>

-----------------------------------------------------------------------------
(* The group.                                                              *)

PublishGroupPolicy ==
  /\ Change
  /\ group' = [group EXCEPT !.version = @ + 1]
  /\ Invalidate(group.members)
  /\ UNCHANGED <<versions, rollout, admin, exception, mode, settings, rules, known>>

\* add_members_in
AddMember(r) ==
  /\ Change
  /\ ~group.archived /\ r \in known \ group.members
  /\ group' = [group EXCEPT !.members = @ \cup {r}]
  /\ Invalidate({r})
  /\ UNCHANGED <<versions, rollout, admin, exception, mode, settings, rules, known>>

\* remove_members_in
RemoveMember(r) ==
  /\ Change
  /\ r \in group.members
  /\ group' = [group EXCEPT !.members = @ \ {r}]
  /\ Invalidate({r})
  /\ UNCHANGED <<versions, rollout, admin, exception, mode, settings, rules, known>>

\* archive: exceptions for the group end with it.
Archive ==
  /\ Change
  /\ ~group.archived
  /\ group' = [group EXCEPT !.archived = TRUE]
  /\ exception' = [e \in Exceptions |->
       IF ScopeOf[e] = "group" /\ exception[e].status \in {"requested", "active"}
         THEN [exception[e] EXCEPT !.status = "ended"] ELSE exception[e]]
  /\ Invalidate(group.members)
  /\ UNCHANGED <<versions, rollout, admin, mode, settings, rules, known>>

-----------------------------------------------------------------------------
(* Exceptions.                                                             *)

SetException(e, status) == exception' = [exception EXCEPT ![e].status = status]

ExceptionOnly ==
  UNCHANGED <<versions, rollout, admin, group, mode, settings, rules, known>>

\* request: for a group or the organization approval is always needed; that the
\* group is not archived was checked before.
Request(e, approved) ==
  /\ Change
  /\ exception[e].status = "none"
  /\ approved => ScopeOf[e] \in Repos
  /\ SetException(e, IF approved THEN "active" ELSE "requested")
  /\ Invalidate(IF approved THEN Covered(ScopeOf[e]) ELSE {})
  /\ ExceptionOnly

\* approve
Approve(e) ==
  /\ Change
  /\ exception[e].status = "requested"
  /\ SetException(e, "active")
  /\ Invalidate(Covered(ScopeOf[e]))
  /\ ExceptionOnly

\* _end: reject, cancel and revoke
EndException(e) ==
  /\ Change
  /\ exception[e].status \in {"requested", "active"}
  /\ SetException(e, "ended")
  /\ Invalidate(IF exception[e].status = "active" THEN Covered(ScopeOf[e]) ELSE {})
  /\ ExceptionOnly

\* The time expires_at of an exception passes.
Lapse(e) ==
  /\ exception[e].status # "none" /\ ~exception[e].past
  /\ exception' = [exception EXCEPT ![e].past = TRUE]
  /\ UNCHANGED <<row, job, changes, crashes>>
  /\ ExceptionOnly

\* expire_due
ExpireDue(e) ==
  /\ exception[e].status = "active" /\ exception[e].past
  /\ SetException(e, "ended")
  /\ Invalidate(Covered(ScopeOf[e]))
  /\ UNCHANGED <<job, changes, crashes>>
  /\ ExceptionOnly

-----------------------------------------------------------------------------
(* Repositories, their mode, settings and rules.                           *)

\* GitHub reports a repository of the organization.
Join(r) ==
  /\ Change
  /\ r \notin known
  /\ known' = known \cup {r}
  /\ UNCHANGED <<versions, rollout, admin, group, exception, mode, settings, rules, row>>

\* run_retention purges the record of a repository that was removed long ago.
Leave(r) ==
  /\ Change
  /\ r \in known
  /\ known' = known \ {r}
  /\ UNCHANGED <<versions, rollout, admin, group, exception, mode, settings, rules, row>>

\* discovered records the default mode of this moment, and leaves the cache alone.
Discover(r) ==
  /\ r \in known /\ mode[r] = "unrecorded"
  /\ mode' = [mode EXCEPT ![r] = settings.mode]
  /\ UNCHANGED <<versions, rollout, admin, group, exception, settings, rules, known, row, job,
                 changes, crashes>>

\* apply_in: onboard and set_mode
SetMode(r, m) ==
  /\ Change
  /\ r \in known
  /\ mode' = [mode EXCEPT ![r] = m]
  /\ Invalidate(IF ModeOf(r) = m THEN {} ELSE {r})
  /\ UNCHANGED <<versions, rollout, admin, group, exception, settings, rules, known>>

\* save, with on_settings_saved
SaveSettings(m) ==
  /\ Change
  /\ settings' = [version |-> settings.version + 1, mode |-> m]
  /\ Invalidate(Repos)
  /\ UNCHANGED <<versions, rollout, admin, group, exception, mode, rules, known>>

SaveRules ==
  /\ Change
  /\ rules' = rules + 1
  /\ Invalidate(Repos)
  /\ UNCHANGED <<versions, rollout, admin, group, exception, mode, settings, known>>

-----------------------------------------------------------------------------
(* Resolution by scans and by the propagation job.                         *)

\* for_repository, when the row cannot be used.
Scan(r) ==
  /\ r \in known /\ ~Usable(r)
  /\ StoreResolution(r)
  /\ UNCHANGED <<governance, job, changes, crashes>>

\* Mutant: a row that a dead job was resolving is left alone.
SelectedIdle ==
  {r \in Repos : \/ row[r].state \in {"stale", "error"} /\ row[r].attempts < MaxAttempts
                 \/ row[r].state = "none" /\ r \in known}

\* Mutant: failures are retried without a limit.
SelectedAlways ==
  {r \in Repos : \/ row[r].state \in {"stale", "error", "syncing"}
                 \/ row[r].state = "none" /\ r \in known}

\* The rows propagate selects.
Selected ==
  {r \in Repos : \/ row[r].state \in {"stale", "error", "syncing"} /\ row[r].attempts < MaxAttempts
                 \/ row[r].state = "none" /\ r \in known}

StartPropagation ==
  /\ job.work = {} /\ job.current = NoRepo
  /\ Selected # {}
  /\ job' = [job EXCEPT !.work = Selected]
  /\ UNCHANGED <<governance, row, changes, crashes>>

\* The first transaction for a selected repository
Sync(r) ==
  /\ job.current = NoRepo /\ r \in job.work
  /\ row' = [row EXCEPT ![r].state = "syncing"]
  /\ job' = [work |-> job.work \ {r}, current |-> r]
  /\ UNCHANGED <<governance, changes, crashes>>

\* The second one, or the one that records a failure.
Resolved ==
  /\ job.current # NoRepo
  /\ StoreResolution(job.current)
  /\ job' = [job EXCEPT !.current = NoRepo]
  /\ UNCHANGED <<governance, changes, crashes>>

ResolutionFails ==
  /\ job.current # NoRepo
  /\ row' = [row EXCEPT ![job.current].state = "error", ![job.current].attempts = @ + 1]
  /\ job' = [job EXCEPT !.current = NoRepo]
  /\ UNCHANGED <<governance, changes, crashes>>

Crash ==
  /\ crashes < MaxCrashes
  /\ job.current # NoRepo \/ job.work # {}
  /\ job' = [work |-> {}, current |-> NoRepo]
  /\ crashes' = crashes + 1
  /\ UNCHANGED <<governance, row, changes>>

-----------------------------------------------------------------------------
Propagate == StartPropagation \/ (\E r \in Repos : Sync(r)) \/ Resolved \/ ResolutionFails

\* What administrators and GitHub do, of the kinds that occur.
Changed ==
  \/ "publish" \in Changes /\ \E staged \in BOOLEAN : Publish(staged)
  \/ /\ "rollout" \in Changes
     /\ \E n \in DOMAIN rollout :
          \/ Pause(n) \/ Resume(n)
          \/ \E a \in Admins : ReadAdvance(a, n) \/ Halt(a, n) \/ ReadRollback(a, n)
  \/ /\ "group" \in Changes
     /\ \/ PublishGroupPolicy \/ Archive
        \/ \E r \in Repos : AddMember(r) \/ RemoveMember(r)
  \/ /\ "exception" \in Changes
     /\ \E e \in Exceptions :
          \/ \E approved \in BOOLEAN : Request(e, approved)
          \/ Approve(e) \/ EndException(e)
  \/ "repositories" \in Changes /\ \E r \in Repos : Join(r) \/ (RepositoriesLeave /\ Leave(r))
  \/ "mode" \in Changes /\ \E r \in Repos, m \in Mode : SetMode(r, m)
  \/ "settings" \in Changes /\ (SaveRules \/ \E m \in Mode : SaveSettings(m))

Next ==
  \/ Changed
  \/ \E a \in Admins : Advance(a) \/ RollBack(a)
  \/ \E r \in Repos : Discover(r) \/ Scan(r)
  \/ \E e \in Exceptions : Lapse(e) \/ ExpireDue(e)
  \/ Propagate \/ Crash

Spec == Init /\ [][Next]_vars

\* The maintenance loop goes on.
Fairness == WF_vars(Propagate)

-----------------------------------------------------------------------------
\* "A row is never up_to_date for inputs that no longer apply" (governance/cache.py):
\* what a scan takes from the cache is what it would resolve from the database.
FreshWhenUpToDate == \A r \in known : Usable(r) => row[r].resolved = Resolve(r)

\* A repository never falls back to an older version of the policy: a rollout only
\* adds repositories to the new one, and a rollback is a newer version.
VersionsAdvance == [][\A r \in Repos : VersionFor(r)' >= VersionFor(r)]_vars

\* A repository whose row is stale, or that a dead job was resolving, is resolved
\* again, or its failures are reported and it is left to its next scan.
PropagationEnds ==
  \A r \in Repos : (r \in known /\ row[r].state # "up_to_date") ~>
    (row[r].state = "up_to_date" \/ row[r].attempts = MaxAttempts \/ r \notin known)

\* "paused: not expanding" (docs/policy-rollouts.md): a paused rollout, in particular
\* one that was halted by its safety thresholds, enrolls no repository.
PausedIsNotExpanded ==
  [][\A n \in DOMAIN rollout :
       rollout[n].state = "paused" => rollout'[n].enrolled \subseteq rollout[n].enrolled]_vars

\* A rollback of a rollout undoes that rollout, and no policy published after it.
RollbackUndoesRollout ==
  [][\A n \in DOMAIN rollout :
       rollout'[n].state = "rolled_back" /\ rollout[n].state # "rolled_back" => Latest = n]_vars
=============================================================================
