------------------------------- MODULE Simulations -------------------------------
(***************************************************************************)
(* Policy simulations (governance/simulation.py): a draft is evaluated     *)
(* against the findings of recorded scans, in the background.  The         *)
(* maintenance loop of every process claims queued simulations with a      *)
(* lease, reads the policies of all repositories in one transaction, and   *)
(* then the scans of one repository after the other, while scans finish    *)
(* and policies are published.                                             *)
(*                                                                         *)
(* A policy is the action it decides for a finding: 0 allows, 1 warns and  *)
(* 2 blocks.  GovernedResolution has how it follows from the layers.       *)
(***************************************************************************)
EXTENDS Integers, Sequences, FiniteSets

CONSTANTS
  Ids,           \* simulations
  Runners,       \* the maintenance loops
  Repos, Groups, \* numbers; the pull requests and branches of a repository
  Drafts,        \* the actions that drafts decide
  MaxOpen,       \* MAX_OPEN_SIMULATIONS
  ScanLimit,     \* MAX_SCANS
  LeaseOutlived, \* whether a runner may take longer than SIMULATION_LEASE
  MaxRecorded, MaxVersions, MaxCrashes  \* bounds

VARIABLES
  policies,    \* the published policies, newest last
  scans,       \* the finished scans of the period, with whether they found something
  simulations, \* policy_simulations
  audited,     \* POLICY_SIMULATED events of a simulation
  runner,      \* what the maintenance loops do
  crashes

vars == <<policies, scans, simulations, audited, runner, crashes>>

-----------------------------------------------------------------------------
Actions == 0..2
Scan == [repo: Repos, group: Groups, sequence: 1..MaxRecorded, found: BOOLEAN]

\* "versions": the policies that the counts are about; "counted": the scans with findings
Result == [versions: SUBSET (1..MaxVersions), counted: SUBSET Scan, analyzed: 0..Cardinality(Repos),
           without: 0..Cardinality(Repos), newBlocks: 0..MaxRecorded, noLongerBlocked: 0..MaxRecorded,
           truncated: BOOLEAN]
Empty == [versions |-> {}, counted |-> {}, analyzed |-> 0, without |-> 0, newBlocks |-> 0,
          noLongerBlocked |-> 0, truncated |-> FALSE]

Simulation == [state: {"none", "queued", "running", "expired", "completed", "failed"}, draft: Actions,
               result: Result]
Idle == [step |-> "idle", id |-> CHOOSE i \in Ids : TRUE, version |-> 1, left |-> {}, result |-> Empty]

TypeOK ==
  /\ policies \in Seq(Actions) /\ Len(policies) <= MaxVersions
  /\ scans \subseteq Scan
  /\ simulations \in [Ids -> Simulation] /\ audited \in [Ids -> 0..2]
  /\ runner \in [Runners -> [step: {"idle", "claimed", "reading"}, id: Ids, version: 1..MaxVersions,
                             left: SUBSET Repos, result: Result]]

Open(id) == simulations[id].state \in {"queued", "running", "expired"}

\* "queued" or "running", with a lease that holds or has expired
OpenOnes == {id \in Ids : Open(id)}

-----------------------------------------------------------------------------
Create(id, draft) ==
  /\ simulations[id].state = "none" /\ Cardinality(OpenOnes) < MaxOpen
  /\ simulations' = [simulations EXCEPT ![id] = [state |-> "queued", draft |-> draft, result |-> Empty]]
  /\ UNCHANGED <<policies, scans, audited, runner, crashes>>

\* run_pending: the claim, of a queued simulation or one whose lease has expired
Claim(p, id) ==
  /\ runner[p].step = "idle" /\ simulations[id].state \in {"queued", "expired"}
  /\ simulations' = [simulations EXCEPT ![id].state = "running"]
  /\ runner' = [runner EXCEPT ![p] = [Idle EXCEPT !.step = "claimed", !.id = id]]
  /\ UNCHANGED <<policies, scans, audited, crashes>>

\* _simulate: the scope and the policies of its repositories, in one transaction
Resolve(p) ==
  /\ runner[p].step = "claimed"
  /\ runner' = [runner EXCEPT ![p].step = "reading", ![p].version = Len(policies), ![p].left = Repos]
  /\ UNCHANGED <<policies, scans, simulations, audited, crashes>>

\* Mutant: the policy is read again with every repository.
VersionNow(r) == Len(policies)

\* The policy that the scans of a repository are evaluated under
VersionOf(r) == r.version

\* The newest finished scan of every pull request and branch
NewestFinished(repo) ==
  {s \in scans : s.repo = repo /\ ~\E n \in scans : n.repo = repo /\ n.group = s.group /\ n.sequence > s.sequence}

\* The result with the scans of one more repository
Add(r, repo, old, new) ==
  LET found == {s \in NewestFinished(repo) : s.found}
      result == r.result
  IN IF NewestFinished(repo) = {} THEN [result EXCEPT !.without = @ + 1]
     ELSE [result EXCEPT !.analyzed = @ + 1, !.counted = @ \cup found,
             !.versions = IF found = {} THEN @ ELSE @ \cup {VersionOf(r)},
             !.newBlocks = IF old # 2 /\ new = 2 THEN @ + Cardinality(found) ELSE @,
             !.noLongerBlocked = IF old = 2 /\ new # 2 THEN @ + Cardinality(found) ELSE @]

\* The repositories are read in the order of their IDs, and the limits are looked at
\* before each.
ReadRepository(p, repo) ==
  LET r == runner[p]
      full == Cardinality(r.result.counted) >= ScanLimit
  IN /\ r.step = "reading"
     /\ repo \in r.left /\ \A other \in r.left : repo <= other
     /\ runner' = [runner EXCEPT
          ![p].left = IF full THEN {} ELSE @ \ {repo},
          ![p].result = IF full THEN [@ EXCEPT !.truncated = TRUE]
                        ELSE Add(r, repo, policies[VersionOf(r)], simulations[r.id].draft)]
     /\ UNCHANGED <<policies, scans, simulations, audited, crashes>>

\* The result is stored with its event, or else the failure.
Complete(p) ==
  LET r == runner[p]
  IN /\ r.step = "reading" /\ r.left = {}
     /\ simulations' = [simulations EXCEPT ![r.id].state = "completed", ![r.id].result = r.result]
     /\ audited' = [audited EXCEPT ![r.id] = @ + 1]
     /\ runner' = [runner EXCEPT ![p] = Idle]
     /\ UNCHANGED <<policies, scans, crashes>>

FailRun(p) ==
  /\ runner[p].step # "idle"
  /\ simulations' = [simulations EXCEPT ![runner[p].id].state = "failed"]
  /\ runner' = [runner EXCEPT ![p] = Idle]
  /\ UNCHANGED <<policies, scans, audited, crashes>>

-----------------------------------------------------------------------------
(* The lease, crashes, and what goes on meanwhile.                         *)

Crash(p) ==
  /\ crashes < MaxCrashes /\ crashes' = crashes + 1
  /\ runner[p].step # "idle" /\ runner' = [runner EXCEPT ![p] = Idle]
  /\ UNCHANGED <<policies, scans, simulations, audited>>

Runs(id) == \E p \in Runners : runner[p].step # "idle" /\ runner[p].id = id

ExpireLease(id) ==
  /\ simulations[id].state = "running" /\ (LeaseOutlived \/ ~Runs(id))
  /\ simulations' = [simulations EXCEPT ![id].state = "expired"]
  /\ UNCHANGED <<policies, scans, audited, runner, crashes>>

FinishScan(repo, group, found) ==
  /\ Cardinality(scans) < MaxRecorded
  /\ scans' = scans \cup {[repo |-> repo, group |-> group, sequence |-> Cardinality(scans) + 1, found |-> found]}
  /\ UNCHANGED <<policies, simulations, audited, runner, crashes>>

Publish(action) ==
  /\ Len(policies) < MaxVersions /\ policies' = Append(policies, action)
  /\ UNCHANGED <<scans, simulations, audited, runner, crashes>>

Init ==
  /\ policies \in {<<a>> : a \in Actions} /\ scans = {} /\ crashes = 0
  /\ simulations = [id \in Ids |-> [state |-> "none", draft |-> 0, result |-> Empty]]
  /\ audited = [id \in Ids |-> 0] /\ runner = [p \in Runners |-> Idle]

Work(p) ==
  \/ Resolve(p) \/ Complete(p)
  \/ \E id \in Ids : Claim(p, id)
  \/ \E repo \in Repos : ReadRepository(p, repo)

Next ==
  \/ \E id \in Ids, draft \in Drafts : Create(id, draft)
  \/ \E p \in Runners : Work(p) \/ FailRun(p) \/ Crash(p)
  \/ \E id \in Ids : ExpireLease(id)
  \/ \E repo \in Repos, group \in Groups, found \in BOOLEAN : FinishScan(repo, group, found)
  \/ \E action \in Actions : Publish(action)

\* Time passes, and the maintenance loops run.
Fairness ==
  /\ \A p \in Runners : WF_vars(Work(p))
  /\ \A id \in Ids : WF_vars(ExpireLease(id))

Spec == Init /\ [][Next]_vars
FSpec == Spec /\ Fairness

-----------------------------------------------------------------------------
Completed == {id \in Ids : simulations[id].state = "completed"}

(* A result is about one policy of the repositories, whatever is published *)
(* while it is computed; it counts a pull request or branch once, and says *)
(* so when it leaves a repository out.                                     *)
ResultsAreSound ==
  \A id \in Completed :
    LET r == simulations[id].result
    IN /\ Cardinality(r.versions) <= 1
       /\ \A s, t \in r.counted : s.repo = t.repo /\ s.group = t.group => s = t
       /\ ~r.truncated => r.analyzed + r.without = Cardinality(Repos)
       /\ \A v \in r.versions :
            r.newBlocks = IF policies[v] # 2 /\ simulations[id].draft = 2 THEN Cardinality(r.counted) ELSE 0

(* The limit of open simulations holds, and a simulation is completed once *)
(* and audited then, although runners crash and others take over.          *)
SimulatedOnce ==
  /\ Cardinality({id \in Ids : Open(id)}) <= MaxOpen
  /\ \A id \in Ids : audited[id] = IF id \in Completed THEN 1 ELSE 0

(* Every simulation ends, so that others may be requested.                 *)
SimulationsEnd == \A id \in Ids : Open(id) ~> ~Open(id)
=============================================================================
