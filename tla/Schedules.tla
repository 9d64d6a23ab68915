------------------------------- MODULE Schedules -------------------------------
(***************************************************************************)
(* One scan schedule and its runs (governance/schedules.py): maintenance   *)
(* loops of several processes start a run for every due slot and queue a   *)
(* scan of the default branch of every repository in the schedule's scope, *)
(* a few repositories per pass, while the schedule is edited, the scope    *)
(* changes and branches advance.                                           *)
(***************************************************************************)
EXTENDS Integers, FiniteSets

CONSTANTS
  Repos,         \* repository IDs, numbers
  InitScope,     \* the repositories the schedule covers at first
  Loops,         \* maintenance loops
  PerTick,       \* JOBS_PER_TICK (50)
  ScopeShrinks,  \* may a repository leave the scope?
  MaxSlots,      \* bound: slots that become due
  MaxRevisions,  \* bound: edits of the schedule
  MaxOutages     \* bound: crashes, and passes deferred by a backlog

VARIABLES
  clock,       \* the latest slot whose time has come
  schedule,    \* a scan_schedules row
  runs,        \* scan_schedule_runs, by slot
  scope,       \* _scope: the repositories the schedule covers now
  pass,        \* what every maintenance loop is doing
  outages,     \* bound: crashes and deferred passes so far
  considered,  \* history: repositories queued, skipped with a reason or failed, by slot
  covered      \* history: repositories in the scope ever since a run started, by slot

vars == <<clock, schedule, runs, scope, pass, outages, considered, covered>>

-----------------------------------------------------------------------------
Slots == 1..MaxSlots
Idle == [step |-> "idle"]

\* The repositories of a scope are a list in the order of their IDs.
Place(S, r) == Cardinality({x \in S : x < r})

Run == [state: {"none", "running", "completed", "partial", "failed"}, cursor: 0..Cardinality(Repos),
        ok: BOOLEAN, failed: BOOLEAN]
NoRun == [state |-> "none", cursor |-> 0, ok |-> FALSE, failed |-> FALSE]

\* A pass keeps counters of its own, and its place in the list it computed.
Pass == {Idle} \cup [step: {"start"}, slot: Slots, following: 1..(MaxSlots + 1)]
  \cup [step: {"queue"}, slot: Slots, list: SUBSET Repos, position: 0..Cardinality(Repos), left: 0..PerTick,
        ok: BOOLEAN, failed: BOOLEAN]

TypeOK ==
  /\ clock \in 0..MaxSlots
  /\ schedule \in [enabled: BOOLEAN, next: 1..(MaxSlots + 1), revision: 0..MaxRevisions]
  /\ runs \in [Slots -> Run]
  /\ scope \subseteq Repos
  /\ pass \in [Loops -> Pass]
  /\ outages \in 0..MaxOutages
  /\ considered \in [Slots -> SUBSET Repos]
  /\ covered \in [Slots -> SUBSET Repos]

Init ==
  /\ clock = 0
  /\ schedule = [enabled |-> TRUE, next |-> 1, revision |-> 0]
  /\ runs = [s \in Slots |-> NoRun]
  /\ scope = InitScope
  /\ pass = [l \in Loops |-> Idle]
  /\ outages = 0
  /\ considered = [s \in Slots |-> {}]
  /\ covered = [s \in Slots |-> {}]

Begin(l, p) == pass' = [pass EXCEPT ![l] = p]

-----------------------------------------------------------------------------
(* The environment, and requests.                                          *)

\* The time of the next slot comes.
Tick ==
  /\ clock < MaxSlots
  /\ clock' = clock + 1
  /\ UNCHANGED <<schedule, runs, scope, pass, outages, considered, covered>>

Join(r) ==
  /\ r \notin scope
  /\ scope' = scope \cup {r}
  /\ UNCHANGED <<clock, schedule, runs, pass, outages, considered, covered>>

Leave(r) ==
  /\ ScopeShrinks /\ r \in scope
  /\ scope' = scope \ {r}
  /\ covered' = [s \in Slots |-> covered[s] \ {r}]
  /\ UNCHANGED <<clock, schedule, runs, pass, outages, considered>>

\* update and disable: the next run is computed from now on.
Update(enabled) ==
  /\ schedule.revision < MaxRevisions
  /\ schedule' = [enabled |-> enabled, next |-> clock + 1, revision |-> schedule.revision + 1]
  /\ UNCHANGED <<clock, runs, scope, pass, outages, considered, covered>>

-----------------------------------------------------------------------------
(* run_due.                                                                *)

\* A pass reads whether the schedule is due, and computes the next occurrence.
ReadDue(l) ==
  /\ pass[l] = Idle
  /\ schedule.enabled /\ schedule.next <= clock
  /\ Begin(l, [step |-> "start", slot |-> schedule.next, following |-> clock + 1])
  /\ UNCHANGED <<clock, schedule, runs, scope, outages, considered, covered>>

\* The transaction that starts the run of the slot, unless it was started before.
StartRun(l) ==
  LET p == pass[l]
      new == runs[p.slot].state = "none"
  IN /\ p.step = "start"
     /\ schedule' = [schedule EXCEPT !.next = IF @ = p.slot THEN p.following ELSE @]
     /\ runs' = IF new THEN [runs EXCEPT ![p.slot].state = "running"] ELSE runs
     /\ covered' = IF new THEN [covered EXCEPT ![p.slot] = scope] ELSE covered
     /\ Begin(l, Idle)
     /\ UNCHANGED <<clock, scope, outages, considered>>

\* _process_runs goes on with a running run, at the place stored with it, in the list
\* of this moment; with too many scans in the queue its budget is 0.
Resume(l, s, budget) ==
  LET r == runs[s]
  IN /\ pass[l] = Idle
     /\ r.state = "running"
     /\ outages' = outages + (IF budget = 0 THEN 1 ELSE 0) /\ outages' <= MaxOutages
     /\ Begin(l, [step |-> "queue", slot |-> s, list |-> scope,
                  position |-> r.cursor, left |-> budget, ok |-> r.ok, failed |-> r.failed])
     /\ UNCHANGED <<clock, schedule, runs, scope, considered, covered>>

Finished(p) == p.position >= Cardinality(p.list)

\* DefaultBranchScanner.queue: the scan of the head of the default branch is queued, or
\* the repository is skipped with a reason (also because the head was queued for this
\* slot before, or is unchanged), or GitHub cannot be reached.
Queue(l, r, outcome) ==
  LET p == pass[l]
  IN /\ p.step = "queue" /\ p.left > 0
     /\ r \in p.list /\ Place(p.list, r) = p.position
     /\ Begin(l, [p EXCEPT !.position = @ + 1, !.left = @ - 1, !.ok = @ \/ outcome # "failed",
                           !.failed = @ \/ outcome = "failed"])
     /\ considered' = [considered EXCEPT ![p.slot] = @ \cup {r}]
     /\ UNCHANGED <<clock, schedule, runs, scope, outages, covered>>

\* The transaction at the end of a pass stores its counters without looking at the row.
StoreRun(l) ==
  LET p == pass[l]
      state == IF ~Finished(p) THEN "running"
               ELSE IF ~p.failed THEN "completed" ELSE IF p.ok THEN "partial" ELSE "failed"
  IN /\ p.step = "queue" /\ (Finished(p) \/ p.left = 0)
     /\ runs' = [runs EXCEPT ![p.slot] =
                   [state |-> state, cursor |-> p.position, ok |-> p.ok, failed |-> p.failed]]
     /\ Begin(l, Idle)
     /\ UNCHANGED <<clock, schedule, scope, outages, considered, covered>>

Crash(l) ==
  /\ outages < MaxOutages /\ outages' = outages + 1
  /\ pass[l] # Idle
  /\ Begin(l, Idle)
  /\ UNCHANGED <<clock, schedule, runs, scope, considered, covered>>

-----------------------------------------------------------------------------
GoOn(l) ==
  \/ ReadDue(l) \/ StartRun(l) \/ StoreRun(l)
  \/ \E s \in Slots, budget \in {0, PerTick} : Resume(l, s, budget)
  \/ \E r \in Repos, outcome \in {"queued", "skipped", "failed"} : Queue(l, r, outcome)

Next ==
  \/ Tick
  \/ \E r \in Repos : Join(r) \/ Leave(r)
  \/ \E enabled \in BOOLEAN : Update(enabled)
  \/ \E l \in Loops : GoOn(l) \/ Crash(l)

Spec == Init /\ [][Next]_vars

\* Maintenance loops go on; a backlog is worked off.
Fairness == \A l \in Loops : WF_vars(GoOn(l))

-----------------------------------------------------------------------------
Ended(s) == runs[s].state \notin {"none", "running"}

\* "Skipped with a reason, never silently" (docs/repository-management.md): when a
\* run ends, every repository it covered all the time was queued, skipped or failed.
NoneSkippedSilently == \A s \in Slots : Ended(s) => covered[s] \subseteq considered[s]

\* A slot that is due after the last edit of the schedule is run, and every run
\* ends: also when a loop dies, a backlog defers a pass, or several loops process it.
Due(s) == schedule = [enabled |-> TRUE, next |-> s, revision |-> MaxRevisions] /\ s <= clock

RunsEnd == \A s \in Slots : (Due(s) \/ runs[s].state = "running") ~> Ended(s)
=============================================================================
