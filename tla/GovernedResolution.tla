---------------------------- MODULE GovernedResolution ----------------------------
(***************************************************************************)
(* Which policy applies to a repository (policies/governance.py,           *)
(* resolve_policy): the effective policy of one rule from the policy       *)
(* layers, the repository's configuration, the approved exceptions and the *)
(* mode.  Rules do not influence each other, so one is enough.             *)
(*                                                                         *)
(* Actions are their ranks: 0 is allow, 1 is warn, 2 is block.             *)
(***************************************************************************)
EXTENDS Integers, FiniteSets

CONSTANTS
  Groups,      \* the groups of the repository
  MaxGrants,   \* bound: active exceptions that apply to the repository
  MaxEntries   \* bound: layers that have an entry for the rule

VARIABLE
  in   \* GovernanceInputs, with the built-in policy and the repository's configuration

-----------------------------------------------------------------------------
Action == 0..2
NoEntry == [strength |-> "none", action |-> 0]
Mandatory == [strength: {"mandatory"}, action: {1, 2}]
Default == [strength: {"default"}, action: Action]

Organization == {"service", "baseline", "organization"}
Layers == Organization \cup Groups \cup {"repository"}
Targets == Layers \ {"service", "baseline"}   \* what has policy versions and drafts

\* The entry a layer may have: the service policy and the baseline only require.
Entries(l) == IF l \in Targets THEN Mandatory \cup Default ELSE Mandatory

Unset == -1
Config == [enabled: {"unset", "yes", "no"}, action: Action \cup {Unset}]
Scope == 0..2   \* the organization, a group, the repository
Grant == [scope: Scope, action: {0, 1}]

Inputs == [layers: [Layers -> Mandatory \cup Default \cup {NoEntry}], builtIn: Action, config: Config,
           grants: SUBSET Grant, mode: {"enforce", "monitor"}]

TypeOK == in \in Inputs

Init == in = [layers |-> [l \in Layers |-> NoEntry], builtIn |-> 2,
              config |-> [enabled |-> "unset", action |-> Unset],
              grants |-> {}, mode |-> "enforce"]

-----------------------------------------------------------------------------
Max(S) == CHOOSE x \in S : \A y \in S : y <= x

\* The actions that layers of S require, and those they have as a default
Required(i, S) == {i.layers[l].action : l \in {k \in S : i.layers[k].strength = "mandatory"}}
DefaultOf(i, S) == {i.layers[l].action : l \in {k \in S : i.layers[k].strength = "default"}}

\* Steps 2 to 4: a narrower level replaces a broader one; of several groups, the most
\* restrictive counts.
Baseline(i) ==
  IF DefaultOf(i, {"repository"}) # {} THEN Max(DefaultOf(i, {"repository"}))
  ELSE IF DefaultOf(i, Groups) # {} THEN Max(DefaultOf(i, Groups))
  ELSE IF DefaultOf(i, Organization) # {} THEN Max(DefaultOf(i, Organization))
  ELSE i.builtIn

\* Step 5: build_policy_set
Requested(i) ==
  [enabled |-> i.config.enabled # "no",
   action |-> IF i.config.action = Unset THEN Baseline(i) ELSE i.config.action]

Rank(policy) == IF policy.enabled THEN policy.action ELSE 0

\* Mutant: the narrowest mandatory entry counts.
NarrowestFloor(i) ==
  IF Required(i, {"repository"}) # {} THEN Max(Required(i, {"repository"}))
  ELSE IF Required(i, Groups) # {} THEN Max(Required(i, Groups))
  ELSE IF Required(i, Layers) # {} THEN Max(Required(i, Layers)) ELSE 0

\* Step 6: the most restrictive mandatory entry; 0 when there is none
Floor(i) == IF Required(i, Layers) # {} THEN Max(Required(i, Layers)) ELSE 0

\* Mutant: a policy the configuration disables stays disabled.
FlooredAction(i) ==
  LET r == Requested(i)
  IN IF Floor(i) = 0 THEN r ELSE [r EXCEPT !.action = Max({Rank(r), Floor(i)})]

\* apply_mandatory_policies
Floored(i) ==
  LET r == Requested(i)
  IN IF Floor(i) = 0 THEN r ELSE [enabled |-> TRUE, action |-> Max({Rank(r), Floor(i)})]

Narrowest(i) == {g \in i.grants : g.scope = Max({h.scope : h \in i.grants})}

\* The action of the exception that applies: the most restrictive of the most specific
Granted(i) == Max({g.action : g \in Narrowest(i)})

\* Step 7: an exception only lowers.
Excepted(i) == i.grants # {} /\ Rank(Floored(i)) > Granted(i)
Lowered(i) == IF Excepted(i) THEN [enabled |-> TRUE, action |-> Granted(i)] ELSE Floored(i)

\* Step 8: in monitor mode a block is reported as a warning.
Effective(i) ==
  IF i.mode = "monitor" /\ Rank(Lowered(i)) = 2 THEN [Lowered(i) EXCEPT !.action = 1]
  ELSE Lowered(i)

\* What a finding of the rule is decided to be: PolicyEvaluator
Decision(i) == Rank(Effective(i))

-----------------------------------------------------------------------------
(* What changes the inputs.                                                *)

\* A policy version, the settings' baseline or the service's policy
Publish(l, entry) == in' = [in EXCEPT !.layers[l] = entry]
Configure(config) == in' = [in EXCEPT !.config = config]   \* a push
Approve(grant) == in' = [in EXCEPT !.grants = @ \cup {grant}]
EndException(grant) == in' = [in EXCEPT !.grants = @ \ {grant}]
SwitchMode == in' = [in EXCEPT !.mode = IF @ = "monitor" THEN "enforce" ELSE "monitor"]

Next ==
  \/ \E l \in Layers : \E entry \in Entries(l) \cup {NoEntry} :
       /\ entry = NoEntry \/ in.layers[l] # NoEntry
            \/ Cardinality({k \in Layers : in.layers[k] # NoEntry}) < MaxEntries
       /\ Publish(l, entry)
  \/ \E enabled \in {"unset", "yes", "no"} : Configure([in.config EXCEPT !.enabled = enabled])
  \/ \E action \in Action \cup {Unset} : Configure([in.config EXCEPT !.action = action])
  \/ \E grant \in Grant \ in.grants : Cardinality(in.grants) < MaxGrants /\ Approve(grant)
  \/ \E grant \in in.grants : EndException(grant)
  \/ SwitchMode

Spec == Init /\ [][Next]_in

-----------------------------------------------------------------------------
\* "Nothing above can weaken it" (a mandatory requirement), and an approved exception is
\* "the only way below a floor" (policies/governance.py): whatever the defaults and the
\* configuration ask for, also when it disables the policy, the rule is enforced at least
\* as the floor says, as the exception that applies says, or as the mode reports it.
FloorHolds ==
  \A a \in Required(in, Layers) :
    \/ Decision(in) >= a
    \/ in.grants # {} /\ Decision(in) = Granted(in)
    \/ in.mode = "monitor" /\ Decision(in) = 1

\* The inputs j differ from i in mandatory entries only, added or made stricter.
Stricter(i, j) ==
  /\ j = [i EXCEPT !.layers = j.layers]
  /\ \A l \in Layers :
       \/ j.layers[l] = i.layers[l]
       \/ /\ j.layers[l].strength = "mandatory"
          /\ i.layers[l].strength # "default"
          /\ i.layers[l].action <= j.layers[l].action

\* A mandatory entry that is added, or made stricter, at any level never makes the rule
\* weaker, whatever exceptions and configuration there are.
StricterNeverWeakens == [][Stricter(in, in') => Decision(in') >= Decision(in)]_in
=============================================================================
