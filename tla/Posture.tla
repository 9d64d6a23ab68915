------------------------------- MODULE Posture -------------------------------
(***************************************************************************)
(* The security posture of an organisation: what GitHub enforces on the    *)
(* default branch of each repository, the evidence an administrator's      *)
(* refresh reads of it (two requests, then one transaction), what          *)
(* CommitGuard knows of the repository, and the posture derived from both. *)
(*                                                                         *)
(* A branch is what the probe tells apart: whether its rulesets and its    *)
(* classic protection require a CommitGuard check ("ours"), other things   *)
(* ("other") or nothing. What CommitGuard knows is a set of facts.         *)
(***************************************************************************)
EXTENDS Naturals, FiniteSets

CONSTANTS
  Repos,
  Refreshes,   \* concurrent refresh requests
  Settings,    \* the settings of a branch that occur, within {"none", "other", "ours"}
  FactsUsed,   \* the facts that occur, within Facts
  MaxFacts     \* bound: facts that hold of one repository at once

Facts == {"paused", "configuration_error", "policy_error", "critical", "monitor",
          "high_exception"}
Unread == "failed"

(* What is stored of a branch, and whether it ever required the check while *)
(* that was read.                                                           *)
Evidence == [status : {"unchecked", "required", "not_required", "unknown"}, seen : BOOLEAN]

VARIABLES
  branch,        \* repository -> its branch settings on GitHub
  evidence,      \* repository -> the stored enforcement status
  refresh,       \* refresh -> its progress
  installation,  \* the installation's state
  listed,        \* repositories the installation can access
  facts          \* repository -> what the store says of it

vars == << branch, evidence, refresh, installation, listed, facts >>

Required(b) == "ours" \in {b.rules, b.classic}

Idle == [pc |-> "idle", repo |-> CHOOSE r \in Repos : TRUE, rules |-> Unread, seen |-> FALSE]

Init ==
  /\ branch \in [Repos -> {[rules |-> "none", classic |-> "none"]}]
  /\ evidence = [r \in Repos |-> [status |-> "unchecked", seen |-> FALSE]]
  /\ refresh = [f \in Refreshes |-> Idle]
  /\ installation = "active"
  /\ listed = Repos
  /\ facts = [r \in Repos |-> {}]

-----------------------------------------------------------------------------
(* The read model.                                                         *)

Connection(r) ==
  IF installation = "suspended" THEN "suspended"
  ELSE IF installation = "active" /\ r \in listed THEN "connected" ELSE "disconnected"

(* protection_for: explicit rules, the first that matches decides. *)
Protection(r) ==
  CASE Connection(r) # "connected" -> "at_risk"
    [] Connection(r) = "connected" /\ "paused" \in facts[r] -> "unprotected"
    [] Connection(r) = "connected" /\ "paused" \notin facts[r] ->
         IF "configuration_error" \in facts[r] THEN "configuration_error"
         ELSE CASE evidence[r].status = "required" -> "protected"
                [] evidence[r].status = "not_required" -> "unprotected"
                [] OTHER -> "unknown"

(* repository_posture. *)
RepositoryPosture(r) ==
  CASE Connection(r) # "connected" -> "at_risk"
    [] OTHER -> IF Protection(r) = "unprotected" THEN "unprotected"
                ELSE IF facts[r] # {} THEN "at_risk"
                ELSE IF Protection(r) = "unknown" THEN "unknown" ELSE "secure"

(* The repositories the organisation's views show: also those that were     *)
(* disconnected, as long as the installation is known.                      *)
Shown == Repos
With(posture) == {r \in Shown : RepositoryPosture(r) = posture}

(* overview: installations that are deleted are not looked at.             *)
OrganizationPosture ==
  IF Shown = {} THEN "unknown"
  ELSE IF \/ installation = "suspended"
          \/ With("at_risk") # {}
          \/ With("unprotected") \notin {{}, Shown}
    THEN "at_risk"
  ELSE IF With("unprotected") = Shown THEN "unprotected"
  ELSE IF With("unknown") # {} THEN "unknown"
  ELSE "secure"

-----------------------------------------------------------------------------
(* refresh_enforcement: the App is authorized, the rulesets are read, then  *)
(* the branch, then what both say is stored; a request that fails leaves    *)
(* its half unknown. `seen` is whether the branch required the check at any *)
(* moment of the refresh.                                                   *)

Begin(f, r) ==
  /\ refresh[f].pc = "idle"
  /\ Connection(r) = "connected"
  /\ refresh' = [refresh EXCEPT ![f] =
       [Idle EXCEPT !.pc = "rules", !.repo = r, !.seen = Required(branch[r])]]
  /\ UNCHANGED << branch, evidence, installation, listed, facts >>

ReadRules(f) ==
  LET r == refresh[f].repo
  IN  /\ refresh[f].pc = "rules"
      /\ \E rules \in {branch[r].rules, Unread} :
           refresh' = [refresh EXCEPT ![f].pc = "branch", ![f].rules = rules]
      /\ UNCHANGED << branch, evidence, installation, listed, facts >>

(* A mutation: any required status check counts. *)
ClassifyAny(rules, classic, visible) ==
  IF rules \in {"ours", "other"} \/ (classic = "ours" /\ visible) THEN "required"
  ELSE IF rules # Unread /\ classic = "none" THEN "not_required"
  ELSE "unknown"

(* _required_check: "required" needs one of our contexts; "not_required"    *)
(* needs both answers and an unprotected branch. The contexts of a classic  *)
(* protection are not always visible.                                       *)
Classify(rules, classic, visible) ==
  IF rules = "ours" \/ (classic = "ours" /\ visible) THEN "required"
  ELSE IF rules # Unread /\ classic = "none" THEN "not_required"
  ELSE "unknown"

ReadBranch(f) ==
  LET q == refresh[f]
  IN  /\ q.pc = "branch"
      /\ \E classic \in {branch[q.repo].classic, Unread}, visible \in BOOLEAN :
           refresh' = [refresh EXCEPT ![f].pc = "store",
                         ![f].rules = Classify(q.rules, classic, visible)]
      /\ UNCHANGED << branch, evidence, installation, listed, facts >>

Store(f) ==
  LET q == refresh[f]
  IN  /\ q.pc = "store"
      /\ evidence' = [evidence EXCEPT ![q.repo] = [status |-> q.rules, seen |-> q.seen]]
      /\ refresh' = [refresh EXCEPT ![f] = Idle]
      /\ UNCHANGED << branch, installation, listed, facts >>

(* Neither GitHub nor the installation answers: nothing is stored. *)
Abandon(f) ==
  /\ refresh[f].pc # "idle"
  /\ refresh' = [refresh EXCEPT ![f] = Idle]
  /\ UNCHANGED << branch, evidence, installation, listed, facts >>

-----------------------------------------------------------------------------
(* The world: administrators of the repository change the branch's rules,   *)
(* the installation changes, scans and people change what is known.         *)

ChangeBranch(r) ==
  /\ \E rules, classic \in Settings :
       /\ [rules |-> rules, classic |-> classic] # branch[r]
       /\ branch' = [branch EXCEPT ![r] = [rules |-> rules, classic |-> classic]]
       /\ refresh' = [f \in Refreshes |->
            IF refresh[f].pc # "idle" /\ refresh[f].repo = r
              THEN [refresh[f] EXCEPT !.seen = @ \/ "ours" \in {rules, classic}]
              ELSE refresh[f]]
  /\ UNCHANGED << evidence, installation, listed, facts >>

ChangeInstallation ==
  /\ \E state \in {"active", "suspended", "deleted"} :
       /\ state # installation
       /\ installation' = state
       /\ listed' = IF state = "deleted" THEN {} ELSE listed
       (* enforcement rows go with the installation (delete_installation). *)
       /\ evidence' = IF state = "deleted"
                      THEN [r \in Repos |-> [status |-> "unchecked", seen |-> FALSE]]
                      ELSE evidence
  /\ UNCHANGED << branch, refresh, facts >>

ChangeAccess(r) ==
  /\ installation # "deleted"
  /\ listed' = IF r \in listed THEN listed \ {r} ELSE listed \cup {r}
  /\ UNCHANGED << branch, evidence, refresh, installation, facts >>

ChangeFacts(r) ==
  /\ \E fact \in FactsUsed :
       facts' = [facts EXCEPT ![r] = IF fact \in @ THEN @ \ {fact} ELSE @ \cup {fact}]
  /\ Cardinality(facts'[r]) <= MaxFacts
  /\ UNCHANGED << branch, evidence, refresh, installation, listed >>

Next ==
  \/ \E f \in Refreshes :
       \/ \E r \in Repos : Begin(f, r)
       \/ ReadRules(f) \/ ReadBranch(f) \/ Store(f) \/ Abandon(f)
  \/ ChangeInstallation
  \/ \E r \in Repos : ChangeBranch(r) \/ ChangeAccess(r) \/ ChangeFacts(r)

Spec == Init /\ [][Next]_vars

-----------------------------------------------------------------------------
(* Types of the variables. *)
TypeOK ==
  /\ branch \in [Repos -> [rules : Settings, classic : Settings]]
  /\ evidence \in [Repos -> Evidence]
  /\ installation \in {"active", "suspended", "deleted"}
  /\ listed \subseteq Repos
  /\ facts \in [Repos -> SUBSET FactsUsed]

(* "a repository is never 'protected' only because the App is installed":   *)
(* an organisation is shown as secure only if its installation is active,   *)
(* every repository is accessible, nothing is known against any of them,    *)
(* and GitHub did require a CommitGuard check of each while the evidence of *)
(* it was read.                                                             *)
SecureIsEarned ==
  OrganizationPosture = "secure" =>
    /\ installation = "active"
    /\ listed = Repos
    /\ \A r \in Repos : facts[r] = {} /\ evidence[r].seen
=============================================================================
