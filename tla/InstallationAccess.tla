---------------------------- MODULE InstallationAccess ----------------------------
(***************************************************************************)
(* One installation of the GitHub App (github/installations.py): what the  *)
(* service stores of it from webhooks and synchronisations, the tokens it  *)
(* caches (github/auth.py) and the mirrors it keeps on disk                *)
(* (github/repositories.py), while jobs use all three.                     *)
(*                                                                         *)
(* The stored state only denies.  Access is granted by GitHub, which       *)
(* changes its mind at any time and reports it in events that arrive in    *)
(* any order, more than once or never.                                     *)
(***************************************************************************)
EXTENDS Integers, FiniteSets

CONSTANTS
  Repos,       \* repositories
  Handlers,    \* threads that handle events
  Jobs,        \* workers, each with one job at a time
  Syncs,       \* requests to synchronise the installation
  MaxChanges,  \* bound: changes at GitHub
  MaxHandled,  \* bound: events handled
  MaxCrashes   \* bound: crashes of the process

VARIABLES
  github,     \* GitHub's side: the state of the installation and its repositories
  events,     \* deliveries that GitHub sent, or may send again
  record,     \* installations.state, "none" when there is no row
  listed,     \* installation_repositories
  syncStatus, \* installation_sync_status.state
  cache,      \* InstallationTokenProvider._cache
  mirrors,    \* the directories under mirrors/
  old,        \* the mirrors not used for the retention period
  handler, job, sync, purge,   \* what every thread is doing
  changes, handled, crashes    \* bounds

stored == <<record, listed, syncStatus>>
threads == <<handler, job, sync, purge>>
bounds == <<changes, handled, crashes>>
vars == <<github, events, stored, cache, mirrors, old, threads, bounds>>

-----------------------------------------------------------------------------
All == "all"   \* the key of a token for the whole installation
Key == Repos \cup {All}
State == {"active", "suspended", "deleted"}

Event == [action: {"created", "deleted", "suspend", "unsuspend", "new_permissions_accepted",
                   "added", "removed"}, repos: SUBSET Repos]

Idle == [pc |-> "idle"]
Handler == {Idle} \cup [pc: {"apply", "tokens", "mirrors"}, event: Event, before: State \cup {"none"}]
\* A job that prepares holds the lock of its mirror.
Job == {Idle}
  \cup [pc: {"fetch_record", "token", "mint", "cache", "lookup", "list", "init", "prepare", "read"},
        repo: Repos]
  \cup [pc: {"store_record"}, repo: Repos, state: State]
Sync == {Idle} \cup [pc: {"info", "healthy", "failed"}]
  \cup [pc: {"record"}, state: State]
  \cup [pc: {"token", "list"}, before: SUBSET Repos]
  \cup [pc: {"replace"}, before: SUBSET Repos, repos: SUBSET Repos]
  \cup [pc: {"mirrors"}, removed: SUBSET Repos]

TypeOK ==
  /\ github \in [state: State \cup {"none"}, repos: SUBSET Repos]
  /\ events \subseteq Event
  /\ record \in State \cup {"none"}
  /\ listed \subseteq Repos
  /\ syncStatus \in {"none", "syncing", "healthy", "failed"}
  /\ cache \in [Key -> {"none", "usable", "expired"}]
  /\ mirrors \in [Repos -> {"none", "made", "used"}]
  /\ old \subseteq Repos
  /\ handler \in [Handlers -> Handler]
  /\ job \in [Jobs -> Job]
  /\ sync \in [Syncs -> Sync]
  /\ purge \subseteq Repos
  /\ changes \in 0..MaxChanges /\ handled \in 0..MaxHandled /\ crashes \in 0..MaxCrashes

Init ==
  /\ github = [state |-> "none", repos |-> {}]
  /\ events = {}
  /\ record = "none" /\ listed = {} /\ syncStatus = "none"
  /\ cache = [k \in Key |-> "none"]
  /\ mirrors = [r \in Repos |-> "none"] /\ old = {}
  /\ handler = [h \in Handlers |-> Idle]
  /\ job = [w \in Jobs |-> Idle]
  /\ sync = [s \in Syncs |-> Idle]
  /\ purge = {}
  /\ changes = 0 /\ handled = 0 /\ crashes = 0

\* Does GitHub let a token of the installation see r?
Covers(r) == github.state = "active" /\ r \in github.repos

\* The lock of a mirror is free.
Unlocked(r) == \A w \in Jobs : job[w].pc = "prepare" => job[w].repo # r

\* invalidate
Invalidated(keys) == [k \in Key |-> IF k \in keys THEN "none" ELSE cache[k]]

-----------------------------------------------------------------------------
(* GitHub.                                                                 *)

Change(to, event) ==
  /\ changes < MaxChanges /\ changes' = changes + 1
  /\ github' = to
  /\ events' = events \cup {event}
  /\ UNCHANGED <<stored, cache, mirrors, old, threads, handled, crashes>>

GitHubChanges ==
  \/ /\ github.state = "none"
     /\ \E S \in SUBSET Repos : Change([state |-> "active", repos |-> S],
                                       [action |-> "created", repos |-> S])
  \/ /\ github.state \in {"active", "suspended"}
     /\ Change([state |-> "deleted", repos |-> {}], [action |-> "deleted", repos |-> {}])
  \/ /\ github.state = "active"
     /\ \/ Change([github EXCEPT !.state = "suspended"], [action |-> "suspend", repos |-> {}])
        \/ Change(github, [action |-> "new_permissions_accepted", repos |-> {}])
        \/ \E r \in Repos \ github.repos :
             Change([github EXCEPT !.repos = @ \cup {r}], [action |-> "added", repos |-> {r}])
        \/ \E r \in github.repos :
             Change([github EXCEPT !.repos = @ \ {r}], [action |-> "removed", repos |-> {r}])
  \/ /\ github.state = "suspended"
     /\ Change([github EXCEPT !.state = "active"], [action |-> "unsuspend", repos |-> {}])

-----------------------------------------------------------------------------
(* Events.                                                                 *)

\* Only "created" makes a removed installation active again.
LateEvent(event) == record = "deleted" /\ event.action # "created"

\* The handler reads the stored installation, and ignores late events.
Receive(h, event) ==
  /\ handler[h] = Idle
  /\ event \in events
  /\ handled < MaxHandled /\ handled' = handled + 1
  /\ handler' = [handler EXCEPT ![h] =
       IF LateEvent(event) THEN Idle
       ELSE [pc |-> IF event.action \in {"suspend", "new_permissions_accepted"} THEN "tokens"
                    ELSE "apply",
             event |-> event, before |-> record]]
  /\ UNCHANGED <<github, events, stored, cache, mirrors, old, job, sync, purge, changes, crashes>>

Goto(h, pc) == handler' = [handler EXCEPT ![h].pc = pc]
Done(h) == handler' = [handler EXCEPT ![h] = Idle]

\* What the event makes of the installation, and of its list of repositories
StateAfter(h) ==
  LET action == handler[h].event.action
  IN CASE action = "deleted" -> "deleted"
       [] action = "suspend" -> "suspended"
       [] action \in {"created", "unsuspend"} -> "active"
       [] OTHER -> IF handler[h].before = "none" THEN "active" ELSE handler[h].before

ListAfter(h) ==
  LET event == handler[h].event
  IN CASE event.action = "created" -> event.repos
       [] event.action = "deleted" -> {}
       [] event.action = "added" -> listed \cup event.repos
       [] event.action = "removed" -> listed \ event.repos
       [] OTHER -> listed

\* A list of repositories changes the installation only when there was none.
Apply(h) ==
  /\ handler[h].pc = "apply"
  /\ record' = IF handler[h].event.action \in {"added", "removed"} /\ handler[h].before # "none"
               THEN record ELSE StateAfter(h)
  /\ listed' = ListAfter(h)
  /\ IF handler[h].event.action \in {"deleted", "removed"} THEN Goto(h, "tokens") ELSE Done(h)
  /\ UNCHANGED <<github, events, syncStatus, cache, mirrors, old, job, sync, purge, bounds>>

\* The tokens of a suspended installation are forgotten before its state is stored, those
\* of a removed one, or of removed repositories, after.
ForgetTokens(h) ==
  LET event == handler[h].event
  IN /\ handler[h].pc = "tokens"
     /\ cache' = Invalidated(IF event.action = "removed" THEN event.repos ELSE Key)
     /\ Goto(h, IF event.action \in {"deleted", "removed"} THEN "mirrors" ELSE "apply")
     /\ UNCHANGED <<github, events, stored, mirrors, old, job, sync, purge, bounds>>

\* remove_repository waits for the lock of the mirror, remove_installation does not.
RemoveMirrors(h) ==
  LET event == handler[h].event
      gone == IF event.action = "deleted" THEN Repos ELSE event.repos
  IN /\ handler[h].pc = "mirrors"
     /\ event.action = "removed" => \A r \in gone : Unlocked(r)
     /\ mirrors' = [r \in Repos |-> IF r \in gone THEN "none" ELSE mirrors[r]]
     /\ old' = old \ gone
     /\ Done(h)
     /\ UNCHANGED <<github, events, stored, cache, job, sync, purge, bounds>>

Handle(h) == Apply(h) \/ ForgetTokens(h) \/ RemoveMirrors(h)

-----------------------------------------------------------------------------
(* Jobs: InstallationService.authorize, then MirrorManager.prepare.        *)

JobIs(w, next) == job' = [job EXCEPT ![w] = next]
JobGoto(w, pc) == JobIs(w, [pc |-> pc, repo |-> job[w].repo])
JobOnly == UNCHANGED <<github, events, syncStatus, handler, sync, purge, bounds>>

\* denial_reason: an installation that is not stored is not denied.
StartJob(w, r) ==
  /\ job[w] = Idle
  /\ record \in {"none", "active"}
  /\ JobIs(w, [pc |-> IF record = "none" THEN "fetch_record" ELSE "token", repo |-> r])
  /\ JobOnly /\ UNCHANGED <<record, listed, cache, mirrors, old>>

\* ensure_installation_record: the details come from GitHub; the job goes on without them
\* when GitHub does not answer.
FetchRecord(w) ==
  /\ job[w].pc = "fetch_record"
  /\ \/ /\ github.state \in {"active", "suspended"}
        /\ JobIs(w, [pc |-> "store_record", repo |-> job[w].repo, state |-> github.state])
     \/ JobGoto(w, "token")
  /\ JobOnly /\ UNCHANGED <<record, listed, cache, mirrors, old>>

StoreRecord(w) ==
  /\ job[w].pc = "store_record"
  /\ record' = job[w].state
  /\ JobGoto(w, "token")
  /\ JobOnly /\ UNCHANGED <<listed, cache, mirrors, old>>

\* A cached token, or a new one, which GitHub grants for a repository it covers.
Token(w) ==
  /\ job[w].pc = "token"
  /\ JobGoto(w, IF cache[job[w].repo] = "usable" THEN "lookup" ELSE "mint")
  /\ JobOnly /\ UNCHANGED <<record, listed, cache, mirrors, old>>

Mint(w) ==
  /\ job[w].pc = "mint"
  /\ IF Covers(job[w].repo) THEN JobGoto(w, "cache") ELSE JobIs(w, Idle)
  /\ JobOnly /\ UNCHANGED <<record, listed, cache, mirrors, old>>

CacheToken(w) ==
  /\ job[w].pc = "cache"
  /\ cache' = [cache EXCEPT ![job[w].repo] = "usable"]
  /\ JobGoto(w, "lookup")
  /\ JobOnly /\ UNCHANGED <<record, listed, mirrors, old>>

\* The repository is looked up with the token, which is forgotten when GitHub refuses it.
LookUp(w) ==
  /\ job[w].pc = "lookup"
  /\ IF Covers(job[w].repo) THEN JobGoto(w, "list") /\ UNCHANGED cache
     ELSE JobIs(w, Idle) /\ cache' = Invalidated({job[w].repo})
  /\ JobOnly /\ UNCHANGED <<record, listed, mirrors, old>>

ListRepository(w) ==
  /\ job[w].pc = "list"
  /\ listed' = listed \cup {job[w].repo}
  /\ JobGoto(w, "init")
  /\ JobOnly /\ UNCHANGED <<record, cache, mirrors, old>>

\* The lock is taken and the mirror is made.
InitMirror(w) ==
  LET r == job[w].repo
  IN /\ job[w].pc = "init"
     /\ Unlocked(r)
     /\ mirrors' = [mirrors EXCEPT ![r] = IF @ = "none" THEN "made" ELSE @]
     /\ JobGoto(w, "prepare")
     /\ JobOnly /\ UNCHANGED <<record, listed, cache, old>>

\* Commits are fetched, the mirror is marked as used, and the lock is given up.
Fetch(w) ==
  LET r == job[w].repo
  IN /\ job[w].pc = "prepare"
     /\ Covers(r) /\ mirrors[r] # "none"
     /\ mirrors' = [mirrors EXCEPT ![r] = "used"]
     /\ old' = old \ {r}
     /\ JobGoto(w, "read")
     /\ JobOnly /\ UNCHANGED <<record, listed, cache>>

\* The scan ends, or a step of the job fails.
EndJob(w) ==
  /\ job[w] # Idle
  /\ JobIs(w, Idle)
  /\ JobOnly /\ UNCHANGED <<record, listed, cache, mirrors, old>>

WorkerStep(w) ==
  \/ FetchRecord(w) \/ StoreRecord(w) \/ Token(w) \/ Mint(w) \/ CacheToken(w) \/ LookUp(w)
  \/ ListRepository(w) \/ InitMirror(w) \/ Fetch(w) \/ EndJob(w)

-----------------------------------------------------------------------------
(* sync_repositories.                                                      *)

SyncIs(s, next) == sync' = [sync EXCEPT ![s] = next]
SyncOnly == UNCHANGED <<github, events, handler, job, purge, bounds>>

StartSync(s) ==
  /\ sync[s] = Idle
  /\ record \in {"active", "suspended"}
  /\ syncStatus' = "syncing"
  /\ SyncIs(s, [pc |-> "info"])
  /\ SyncOnly /\ UNCHANGED <<record, listed, cache, mirrors, old>>

SyncInfo(s) ==
  /\ sync[s].pc = "info"
  /\ github.state \in {"active", "suspended"}
  /\ SyncIs(s, [pc |-> "record", state |-> github.state])
  /\ SyncOnly /\ UNCHANGED <<stored, cache, mirrors, old>>

SyncRecord(s) ==
  /\ sync[s].pc = "record"
  /\ record' = sync[s].state
  /\ cache' = Invalidated(Key)
  /\ SyncIs(s, IF sync[s].state = "suspended" THEN [pc |-> "failed"]
               ELSE [pc |-> "token", before |-> listed])
  /\ SyncOnly /\ UNCHANGED <<listed, syncStatus, mirrors, old>>

SyncToken(s) ==
  /\ sync[s].pc = "token"
  /\ github.state = "active"
  /\ cache' = [cache EXCEPT ![All] = "usable"]
  /\ SyncIs(s, [sync[s] EXCEPT !.pc = "list"])
  /\ SyncOnly /\ UNCHANGED <<stored, mirrors, old>>

SyncList(s) ==
  /\ sync[s].pc = "list"
  /\ cache' = Invalidated(Key)
  /\ SyncIs(s, IF github.state = "active"
               THEN [pc |-> "replace", before |-> sync[s].before, repos |-> github.repos]
               ELSE [pc |-> "failed"])
  /\ SyncOnly /\ UNCHANGED <<stored, mirrors, old>>

SyncReplace(s) ==
  /\ sync[s].pc = "replace"
  /\ listed' = sync[s].repos
  /\ SyncIs(s, [pc |-> "mirrors", removed |-> sync[s].before \ sync[s].repos])
  /\ SyncOnly /\ UNCHANGED <<record, syncStatus, cache, mirrors, old>>

SyncMirrors(s) ==
  LET gone == sync[s].removed
  IN /\ sync[s].pc = "mirrors"
     /\ \A r \in gone : Unlocked(r)
     /\ cache' = Invalidated(gone)
     /\ mirrors' = [r \in Repos |-> IF r \in gone THEN "none" ELSE mirrors[r]]
     /\ old' = old \ gone
     /\ SyncIs(s, [pc |-> "healthy"])
     /\ SyncOnly /\ UNCHANGED stored

\* A request to GitHub fails.
SyncFails(s) ==
  /\ sync[s].pc \in {"info", "token"}
  /\ SyncIs(s, [pc |-> "failed"])
  /\ SyncOnly /\ UNCHANGED <<stored, cache, mirrors, old>>

EndSync(s) ==
  /\ sync[s].pc \in {"healthy", "failed"}
  /\ syncStatus' = sync[s].pc
  /\ SyncIs(s, Idle)
  /\ SyncOnly /\ UNCHANGED <<record, listed, cache, mirrors, old>>

SyncStep(s) ==
  \/ SyncInfo(s) \/ SyncRecord(s) \/ SyncToken(s) \/ SyncList(s) \/ SyncReplace(s)
  \/ SyncMirrors(s) \/ SyncFails(s) \/ EndSync(s)

-----------------------------------------------------------------------------
(* Time, retention and crashes.                                            *)

ExpireToken(k) ==
  /\ cache[k] = "usable"
  /\ cache' = [cache EXCEPT ![k] = "expired"]
  /\ UNCHANGED <<github, events, stored, mirrors, old, threads, bounds>>

\* No job takes as long as the retention period.
Age(r) ==
  /\ mirrors[r] # "none" /\ r \notin old
  /\ \A w \in Jobs : job[w].pc \in {"prepare", "read"} => job[w].repo # r
  /\ old' = old \cup {r}
  /\ UNCHANGED <<github, events, stored, cache, mirrors, threads, bounds>>

\* Mutant: a mirror without a marker is kept.
UnusedMarked(r) == mirrors[r] = "used" /\ r \in old

\* The time of a mirror is that of its marker, or its own when it has none.
Unused(r) == mirrors[r] # "none" /\ r \in old

\* purge_unused looks at a mirror, and removes it without its lock.
CheckUnused(r) ==
  /\ Unused(r) /\ r \notin purge
  /\ purge' = purge \cup {r}
  /\ UNCHANGED <<github, events, stored, cache, mirrors, old, handler, job, sync, bounds>>

RemoveUnused(r) ==
  /\ r \in purge
  /\ purge' = purge \ {r}
  /\ mirrors' = [mirrors EXCEPT ![r] = "none"]
  /\ old' = old \ {r}
  /\ UNCHANGED <<github, events, stored, cache, handler, job, sync, bounds>>

\* The process ends and starts again; GitHub sends an event again that was not answered.
Crash ==
  /\ crashes < MaxCrashes /\ crashes' = crashes + 1
  /\ cache' = [k \in Key |-> "none"]
  /\ handler' = [h \in Handlers |-> Idle]
  /\ job' = [w \in Jobs |-> Idle]
  /\ sync' = [s \in Syncs |-> Idle]
  /\ purge' = {}
  /\ UNCHANGED <<github, events, stored, mirrors, old, changes, handled>>

Next ==
  \/ GitHubChanges \/ Crash
  \/ \E h \in Handlers : Handle(h) \/ \E e \in events : Receive(h, e)
  \/ \E w \in Jobs : WorkerStep(w) \/ \E r \in Repos : StartJob(w, r)
  \/ \E s \in Syncs : StartSync(s) \/ SyncStep(s)
  \/ \E k \in Key : ExpireToken(k)
  \/ \E r \in Repos : Age(r) \/ CheckUnused(r) \/ RemoveUnused(r)

Spec == Init /\ [][Next]_vars

\* Time passes, the purge of the maintenance loop goes on, and so do jobs.
Fairness ==
  /\ \A r \in Repos : WF_vars(Age(r)) /\ WF_vars(CheckUnused(r)) /\ WF_vars(RemoveUnused(r))
  /\ \A w \in Jobs : WF_vars(WorkerStep(w))

-----------------------------------------------------------------------------
\* "An installation stored as deleted is not revived by a late suspend, unsuspend or
\* new_permissions_accepted event; only created makes it active again"
\* (github/installations.py).
DeletedIsNotRevived ==
  [][record = "deleted" /\ record' # "deleted" =>
       \E h \in Handlers : /\ handler[h].pc = "apply" /\ handler'[h] = Idle
                           /\ handler[h].event.action = "created"]_vars

\* A mirror is "removed when a repository or installation is removed, or when unused for
\* the retention period" (docs/deployment/production.md): the mirror of a repository that
\* GitHub took away for good is gone for good one day, whatever events are lost, whoever
\* was preparing it, and wherever the process crashed.
RemovedIsDiscarded ==
  \A r \in Repos : <>[](~Covers(r)) => <>[](mirrors[r] = "none")
=============================================================================
