--------------------------- MODULE GovernanceProofs ---------------------------
(***************************************************************************)
(* Proofs about the components that MCGovernance runs.                     *)
(*                                                                         *)
(* EffectivePolicy, for any number of repositories, exceptions,            *)
(* administrators, stages and changes: a row of the cache which a scan may *)
(* use is what it would resolve, and no repository falls back to an older  *)
(* version of the policy.                                                  *)
(*                                                                         *)
(* Bulk operations, schedules and simulations, for any numbers of loops,   *)
(* repositories, slots and simulations: what is recorded as done was done. *)
(***************************************************************************)
EXTENDS MCGovernance, FiniteSetTheorems, SequenceTheorems, TLAPS

-----------------------------------------------------------------------------
(* What the proofs are about.                                              *)

\* A rollout leads from an older version to one there is, and the operations that are
\* under way are about rollouts that were started.
RolloutInv ==
  /\ \A n \in DOMAIN rollout :
       rollout[n].state # "none" => rollout[n].from \in 1..(n - 1) /\ n <= Latest
  /\ \A a \in Admins : admin[a] # Idle => rollout[admin[a].to].state # "none"

\* Versions count changes, and the job resolves rows that it has not given up.
CounterInv ==
  /\ settings.version <= changes /\ rules <= changes /\ group.version <= changes
  /\ \A r \in Repos :
       /\ r \in job.work \/ r = job.current => row[r].attempts < MaxAttempts
       /\ row[r].state = "none" => row[r].attempts = 0
  /\ job.current \notin job.work

Inv == TypeOK /\ RolloutInv /\ CounterInv

\* Apart from the version of the organization's policy, a row that a scan may use is
\* what it would resolve.
InputsCurrent ==
  \A r \in Repos :
    Usable(r) =>
      /\ row[r].resolved.group = (IF InGroup(r) THEN group.version ELSE 0)
      /\ row[r].resolved.grants = Grants(r)
      /\ row[r].resolved.mode = ModeOf(r)
      /\ row[r].resolved.settings = settings.version
      /\ row[r].resolved.rules = rules

\* So is the version of the organization's policy.
VersionCurrent ==
  \A r \in Repos : Usable(r) => row[r].resolved.organization = VersionFor(r)

\* No two operations on one rollout overlap.  (advance reads the rollout before its
\* transaction, and does not look at it again.)
RolloutsSerial ==
  \A a, b \in Admins :
    a # b /\ admin[a] # Idle /\ admin[b] # Idle => admin[a].to # admin[b].to

\* A rollout that is about to be advanced is in progress.
AdvanceInv ==
  \A a \in Admins :
    admin[a].step = "advance" => rollout[admin[a].to].state \in InProgress

\* Repositories stay, or there is one version of the policy.
RepositoriesStay == ~RepositoriesLeave \/ "publish" \notin Changes

\* Repositories that have a row are known: so it is where repositories stay.
KnownRows ==
  /\ \A r \in Repos : row[r].state # "none" => r \in known
  /\ job.work \subseteq known
  /\ job.current \in known \cup {NoRepo}

\* There is the first version and no rollout: so it is without publications.
OneVersion == versions = <<1>> /\ \A n \in DOMAIN rollout : rollout[n].state = "none"

\* What a step may do, whatever kinds of change occur.
Publishes == \E staged \in BOOLEAN : Publish(staged)
Leaves == \E r \in Repos : Leave(r)
OtherStep ==
  \/ \E n \in DOMAIN rollout :
       \/ Pause(n) \/ Resume(n)
       \/ \E a \in Admins : ReadAdvance(a, n) \/ Halt(a, n) \/ ReadRollback(a, n)
  \/ \E a \in Admins : Advance(a) \/ RollBack(a)
  \/ PublishGroupPolicy \/ Archive
  \/ \E r \in Repos :
       \/ AddMember(r) \/ RemoveMember(r)
       \/ Join(r) \/ Discover(r) \/ Scan(r)
       \/ \E m \in Mode : SetMode(r, m)
  \/ \E e \in Exceptions :
       \/ \E approved \in BOOLEAN : Request(e, approved)
       \/ Approve(e) \/ EndException(e) \/ Lapse(e) \/ ExpireDue(e)
  \/ \E m \in Mode : SaveSettings(m)
  \/ SaveRules
  \/ Propagate \/ Crash
AnyStep == Publishes \/ Leaves \/ OtherStep

\* The kinds of change that occur, and whether repositories leave, are constants.
LEMMA NextSteps ==
  ASSUME Next
  PROVE  \/ OtherStep
         \/ "publish" \in Changes /\ Publishes
         \/ RepositoriesLeave /\ Leaves
BY DEF Next, Changed, OtherStep, Publishes, Leaves

-----------------------------------------------------------------------------
(* Rows.                                                                   *)

\* A row that becomes stale, is being resolved, or could not be resolved is a row.
LEMMA RowKinds ==
  ASSUME NEW x \in Row
  PROVE  /\ x.attempts \in 0..MaxAttempts
         /\ x.state \in {"none", "up_to_date", "stale", "syncing", "error"}
         /\ x.state = "up_to_date" => x.resolved \in Resolution
         /\ x.state # "none" => [x EXCEPT !.state = "stale"] \in Row
         /\ [x EXCEPT !.state = "syncing"] \in Row
         /\ x.attempts < MaxAttempts => [x EXCEPT !.state = "error", !.attempts = @ + 1] \in Row
<1> DEFINE Short == [state: {"none", "stale", "syncing", "error"}, attempts: 0..MaxAttempts]
           Long == [state: {"up_to_date", "stale", "syncing", "error"}, attempts: 0..MaxAttempts,
                    resolved: Resolution]
<1>1. x.attempts \in 0..MaxAttempts
  BY DEF Row
<1>2. x.attempts < MaxAttempts => x.attempts + 1 \in 0..MaxAttempts
  BY <1>1, EffectivePolicyAssumption
<1>3. CASE x \in Short
  <2>1. ASSUME NEW n \in 0..MaxAttempts, NEW s \in {"none", "stale", "syncing", "error"}
        PROVE  [x EXCEPT !.state = s, !.attempts = n] \in Short
    BY <1>3, <2>1
  <2>2. ASSUME NEW s \in {"none", "stale", "syncing", "error"}
        PROVE  [x EXCEPT !.state = s] \in Short
    BY <1>3, <2>2
  <2>3. Short \subseteq Row
    BY DEF Row
  <2>4. x.state \in {"none", "stale", "syncing", "error"}
    BY <1>3
  <2> HIDE DEF Short
  <2> QED BY <1>1, <1>2, <2>1, <2>2, <2>3, <2>4
<1>4. CASE x \in Long
  <2>1. ASSUME NEW n \in 0..MaxAttempts, NEW s \in {"up_to_date", "stale", "syncing", "error"}
        PROVE  [x EXCEPT !.state = s, !.attempts = n] \in Long
    BY <1>4, <2>1
  <2>2. ASSUME NEW s \in {"up_to_date", "stale", "syncing", "error"}
        PROVE  [x EXCEPT !.state = s] \in Long
    BY <1>4, <2>2
  <2>3. Long \subseteq Row
    BY DEF Row
  <2>4. x.state \in {"up_to_date", "stale", "syncing", "error"} /\ x.resolved \in Resolution
    BY <1>4
  <2> HIDE DEF Long
  <2> QED BY <1>1, <1>2, <2>1, <2>2, <2>3, <2>4
<1> QED BY <1>3, <1>4 DEF Row

\* Invalidation leaves no row of S usable, and the rows of others as they were.
LEMMA Invalidated ==
  ASSUME row \in [Repos -> Row], NEW S, Invalidate(S)
  PROVE  /\ row' \in [Repos -> Row]
         /\ \A r \in Repos :
              /\ row'[r].attempts = row[r].attempts
              /\ row'[r].state = "up_to_date" => r \notin S /\ row'[r] = row[r]
              /\ row'[r].state = "none" <=> row[r].state = "none"
<1>1. ASSUME NEW r \in Repos
      PROVE  row'[r] = IF r \in S /\ row[r].state # "none"
                         THEN [row[r] EXCEPT !.state = "stale"] ELSE row[r]
  BY <1>1 DEF Invalidate
<1>2. ASSUME NEW r \in Repos
      PROVE  /\ row'[r] \in Row
             /\ row'[r].attempts = row[r].attempts
             /\ row'[r].state = "up_to_date" => r \notin S /\ row'[r] = row[r]
             /\ row'[r].state = "none" <=> row[r].state = "none"
  <2>1. row[r] \in Row
    OBVIOUS
  <2>2. /\ row[r].state # "none" => [row[r] EXCEPT !.state = "stale"] \in Row
        /\ row[r].state = "up_to_date" => row[r].state # "none"
    BY <2>1, RowKinds
  <2>3. [row[r] EXCEPT !.state = "stale"].state = "stale" /\
        [row[r] EXCEPT !.state = "stale"].attempts = row[r].attempts
    BY <2>1 DEF Row
  <2> QED BY <1>1, <2>1, <2>2, <2>3
<1>3. row' = [r \in Repos |-> IF r \in S /\ row[r].state # "none"
                                THEN [row[r] EXCEPT !.state = "stale"] ELSE row[r]]
  BY DEF Invalidate
<1>4. row' \in [Repos -> Row]
  BY <1>2, <1>3
<1> QED BY <1>2, <1>4

\* What is resolved has the type of a resolution.
LEMMA ResolutionType ==
  ASSUME TypeOK, NEW r \in Repos
  PROVE  /\ Resolve(r) \in Resolution
         /\ VersionFor(r) \in 0..MaxVersions
<1>1. VersionFor(r) \in 0..MaxVersions
  <2>1. Latest \in 1..MaxVersions /\ Latest \in 0..MaxVersions
    BY EffectivePolicyAssumption DEF TypeOK, Latest, MaxVersions
  <2>2. ASSUME Latest \in DOMAIN rollout
        PROVE  rollout[Latest].from \in 0..MaxVersions
    BY <2>2 DEF TypeOK, Rollout
  <2> QED BY <2>1, <2>2 DEF VersionFor
<1>2. (IF InGroup(r) THEN group.version ELSE 0) \in 0..MaxChanges
  BY EffectivePolicyAssumption DEF TypeOK
<1>3. Grants(r) \in SUBSET Exceptions
  BY DEF Grants
<1>4. ModeOf(r) \in Mode
  BY DEF ModeOf, TypeOK
<1>5. settings.version \in 0..MaxChanges /\ rules \in 0..MaxChanges
  BY DEF TypeOK
<1> QED BY <1>1, <1>2, <1>3, <1>4, <1>5 DEF Resolve, Resolution

\* A row that is resolved.
LEMMA StoredRow ==
  ASSUME TypeOK, NEW r \in Repos, StoreResolution(r)
  PROVE  /\ row' \in [Repos -> Row]
         /\ row'[r].state = "up_to_date" /\ row'[r].attempts = 0
         /\ row'[r].resolved = Resolve(r)
         /\ \A s \in Repos \ {r} : row'[s] = row[s]
<1>1. [state |-> "up_to_date", attempts |-> 0, resolved |-> Resolve(r)] \in Row
  BY ResolutionType, EffectivePolicyAssumption DEF Row
<1>2. row \in [Repos -> Row]
  BY DEF TypeOK
<1>3. row' = [row EXCEPT ![r] = [state |-> "up_to_date", attempts |-> 0, resolved |-> Resolve(r)]]
  BY DEF StoreResolution
<1>4. row'[r] = [state |-> "up_to_date", attempts |-> 0, resolved |-> Resolve(r)]
  BY <1>2, <1>3
<1>5. /\ row'[r].state = "up_to_date" /\ row'[r].attempts = 0
      /\ row'[r].resolved = Resolve(r)
  BY <1>4
<1>6. row' \in [Repos -> Row] /\ \A s \in Repos \ {r} : row'[s] = row[s]
  BY <1>1, <1>2, <1>3
<1> QED BY <1>5, <1>6

-----------------------------------------------------------------------------
(* Inv is inductive.                                                       *)

\* The initial state.
LEMMA InitInv == Init => Inv
<1> SUFFICES ASSUME Init PROVE Inv
  OBVIOUS
<1>1. versions \in Seq(1..MaxVersions) /\ Len(versions) = 1 /\ 1 \in 1..MaxVersions
  BY EffectivePolicyAssumption DEF Init, MaxVersions
<1>2. NoRollout \in Rollout
  BY EffectivePolicyAssumption DEF NoRollout, Rollout, InProgress, MaxVersions
<1>3. [state |-> "none", attempts |-> 0] \in Row
  BY EffectivePolicyAssumption DEF Row
<1>4. TypeOK
  BY <1>1, <1>2, <1>3, EffectivePolicyAssumption DEF Init, TypeOK, Operation, Mode
<1>5. RolloutInv
  BY <1>1 DEF Init, RolloutInv, NoRollout
<1>6. CounterInv
  <2>1. \A r \in Repos : r # job.current
    BY EffectivePolicyAssumption DEF Init
  <2> QED BY <2>1, EffectivePolicyAssumption DEF Init, CounterInv
<1> QED BY <1>4, <1>5, <1>6 DEF Inv

\* A change of anything but the versions and the rollouts.
LEMMA OtherChange ==
  ASSUME Inv, NEW S, Invalidate(S),
         UNCHANGED <<versions, rollout, admin, job, crashes>>,
         group' \in [members: SUBSET Repos, archived: BOOLEAN, version: 0..MaxChanges],
         exception' \in [Exceptions ->
            [status: {"none", "requested", "active", "ended"}, past: BOOLEAN]],
         mode' \in [Repos -> Mode \cup {"unrecorded"}],
         settings' \in [version: 0..MaxChanges, mode: Mode],
         rules' \in 0..MaxChanges, known' \subseteq Repos,
         changes' \in 0..MaxChanges,
         settings'.version <= changes', rules' <= changes', group'.version <= changes'
  PROVE  Inv'
<1>1. /\ row' \in [Repos -> Row]
      /\ \A r \in Repos : /\ row'[r].attempts = row[r].attempts
                          /\ row'[r].state = "none" => row[r].state = "none"
  BY Invalidated DEF Inv, TypeOK
<1>2. TypeOK'
  BY <1>1 DEF Inv, TypeOK
<1>3. RolloutInv'
  BY DEF Inv, RolloutInv, Latest
<1>4. CounterInv'
  BY <1>1 DEF Inv, CounterInv
<1> QED BY <1>2, <1>3, <1>4 DEF Inv

\* One more change is within the bound, and the versions that count changes follow.
LEMMA Counted ==
  ASSUME Inv, Change
  PROVE  /\ changes' = changes + 1 /\ changes' \in 0..MaxChanges
         /\ changes + 1 \in 0..MaxChanges
         /\ job' = job /\ crashes' = crashes
         /\ settings.version + 1 \in 0..MaxChanges /\ settings.version <= changes'
         /\ rules + 1 \in 0..MaxChanges /\ rules <= changes'
         /\ group.version + 1 \in 0..MaxChanges /\ group.version <= changes'
         /\ settings.version + 1 <= changes' /\ rules + 1 <= changes'
         /\ group.version + 1 <= changes'
<1>1. changes \in Nat /\ settings.version \in Nat /\ rules \in Nat /\ group.version \in Nat
  BY EffectivePolicyAssumption DEF Inv, TypeOK
<1> QED BY <1>1, EffectivePolicyAssumption DEF Inv, CounterInv, Change

\* No row is touched.
LEMMA SameRows ==
  ASSUME row \in [Repos -> Row], row' = row
  PROVE  Invalidate({})
BY DEF Invalidate

\* The group.
LEMMA GroupInv ==
  ASSUME Inv,
         \/ PublishGroupPolicy \/ Archive
         \/ \E r \in Repos : AddMember(r) \/ RemoveMember(r)
  PROVE  Inv'
<1>1. /\ group \in [members: SUBSET Repos, archived: BOOLEAN, version: 0..MaxChanges]
      /\ exception \in [Exceptions ->
            [status: {"none", "requested", "active", "ended"}, past: BOOLEAN]]
      /\ mode \in [Repos -> Mode \cup {"unrecorded"}]
      /\ settings \in [version: 0..MaxChanges, mode: Mode]
      /\ rules \in 0..MaxChanges /\ known \subseteq Repos
  BY DEF Inv, TypeOK
<1>2. CASE PublishGroupPolicy
  <2>1. Change /\ Invalidate(group.members)
    BY <1>2 DEF PublishGroupPolicy
  <2>2. /\ group' \in [members: SUBSET Repos, archived: BOOLEAN, version: 0..MaxChanges]
        /\ group'.version <= changes'
    BY <1>1, <1>2, <2>1, Counted DEF PublishGroupPolicy
  <2> QED BY <1>1, <1>2, <2>1, <2>2, Counted, OtherChange DEF PublishGroupPolicy
<1>3. CASE Archive
  <2>1. Change /\ Invalidate(group.members)
    BY <1>3 DEF Archive
  <2>2. /\ group' \in [members: SUBSET Repos, archived: BOOLEAN, version: 0..MaxChanges]
        /\ group'.version <= changes'
    BY <1>1, <1>3, <2>1, Counted DEF Archive
  <2>3. exception' \in [Exceptions ->
            [status: {"none", "requested", "active", "ended"}, past: BOOLEAN]]
    BY <1>1, <1>3 DEF Archive
  <2> QED BY <1>1, <1>3, <2>1, <2>2, <2>3, Counted, OtherChange DEF Archive
<1>4. CASE \E r \in Repos : AddMember(r) \/ RemoveMember(r)
  <2>1. PICK r \in Repos : AddMember(r) \/ RemoveMember(r)
    BY <1>4
  <2>2. Change /\ Invalidate({r})
    BY <2>1 DEF AddMember, RemoveMember
  <2>3. /\ group' \in [members: SUBSET Repos, archived: BOOLEAN, version: 0..MaxChanges]
        /\ group'.version <= changes'
    BY <1>1, <2>1, <2>2, Counted DEF AddMember, RemoveMember
  <2> QED BY <1>1, <2>1, <2>2, <2>3, Counted, OtherChange DEF AddMember, RemoveMember
<1> QED BY <1>2, <1>3, <1>4

\* Exceptions.
LEMMA ExceptionInv ==
  ASSUME Inv, NEW e \in Exceptions,
         \/ \E approved \in BOOLEAN : Request(e, approved)
         \/ Approve(e) \/ EndException(e) \/ Lapse(e) \/ ExpireDue(e)
  PROVE  Inv'
<1>1. /\ group \in [members: SUBSET Repos, archived: BOOLEAN, version: 0..MaxChanges]
      /\ exception \in [Exceptions ->
            [status: {"none", "requested", "active", "ended"}, past: BOOLEAN]]
      /\ mode \in [Repos -> Mode \cup {"unrecorded"}]
      /\ settings \in [version: 0..MaxChanges, mode: Mode]
      /\ rules \in 0..MaxChanges /\ known \subseteq Repos /\ changes \in 0..MaxChanges
      /\ settings.version <= changes /\ rules <= changes /\ group.version <= changes
  BY DEF Inv, TypeOK, CounterInv
<1>2. exception' \in [Exceptions ->
            [status: {"none", "requested", "active", "ended"}, past: BOOLEAN]]
  <2>1. ASSUME NEW status \in {"requested", "active", "ended"}, SetException(e, status)
        PROVE  exception' \in [Exceptions ->
                 [status: {"none", "requested", "active", "ended"}, past: BOOLEAN]]
    BY <1>1, <2>1 DEF SetException
  <2>2. ASSUME NEW approved \in BOOLEAN, Request(e, approved)
        PROVE  SetException(e, "active") \/ SetException(e, "requested")
    BY <2>2 DEF Request
  <2>3. Lapse(e) => exception' \in [Exceptions ->
                 [status: {"none", "requested", "active", "ended"}, past: BOOLEAN]]
    <3>1. [exception[e] EXCEPT !.past = TRUE] \in
            [status: {"none", "requested", "active", "ended"}, past: BOOLEAN]
      BY <1>1
    <3> QED BY <1>1, <3>1 DEF Lapse
  <2> QED BY <2>1, <2>2, <2>3 DEF Approve, EndException, ExpireDue
<1>3. /\ Change \/ UNCHANGED <<job, changes, crashes>>
      /\ \E S : Invalidate(S)
      /\ ExceptionOnly
  <2>1. Lapse(e) => Invalidate({})
    BY SameRows DEF Lapse, Inv, TypeOK
  <2> QED BY <2>1 DEF Request, Approve, EndException, Lapse, ExpireDue
<1>4. /\ changes' \in 0..MaxChanges /\ job' = job /\ crashes' = crashes
      /\ settings.version <= changes' /\ rules <= changes' /\ group.version <= changes'
  <2>1. CASE Change
    BY <2>1, Counted
  <2>2. CASE UNCHANGED <<job, changes, crashes>>
    BY <1>1, <2>2
  <2> QED BY <1>3, <2>1, <2>2
<1>5. PICK S : Invalidate(S)
  BY <1>3
<1> QED BY <1>1, <1>2, <1>3, <1>4, <1>5, OtherChange DEF ExceptionOnly

\* Repositories and their modes.
LEMMA RepositoryInv ==
  ASSUME Inv, NEW r \in Repos,
         \/ Join(r) \/ Leave(r) \/ Discover(r)
         \/ \E m \in Mode : SetMode(r, m)
  PROVE  Inv'
<1>1. /\ group \in [members: SUBSET Repos, archived: BOOLEAN, version: 0..MaxChanges]
      /\ exception \in [Exceptions ->
            [status: {"none", "requested", "active", "ended"}, past: BOOLEAN]]
      /\ mode \in [Repos -> Mode \cup {"unrecorded"}]
      /\ settings \in [version: 0..MaxChanges, mode: Mode]
      /\ rules \in 0..MaxChanges /\ known \subseteq Repos /\ changes \in 0..MaxChanges
      /\ settings.version <= changes /\ rules <= changes /\ group.version <= changes
  BY DEF Inv, TypeOK, CounterInv
<1>2. /\ UNCHANGED <<versions, rollout, admin, group, exception, settings, rules>>
      /\ mode' \in [Repos -> Mode \cup {"unrecorded"}]
      /\ known' \subseteq Repos
  BY <1>1 DEF Join, Leave, Discover, SetMode
<1>3. /\ Change \/ UNCHANGED <<job, changes, crashes>>
      /\ \E S : Invalidate(S)
  <2>1. row' = row => Invalidate({})
    BY SameRows DEF Inv, TypeOK
  <2> QED BY <2>1 DEF Join, Leave, Discover, SetMode
<1>4. /\ changes' \in 0..MaxChanges /\ job' = job /\ crashes' = crashes
      /\ settings.version <= changes' /\ rules <= changes' /\ group.version <= changes'
  <2>1. CASE Change
    BY <2>1, Counted
  <2>2. CASE UNCHANGED <<job, changes, crashes>>
    BY <1>1, <2>2
  <2> QED BY <1>3, <2>1, <2>2
<1>5. PICK S : Invalidate(S)
  BY <1>3
<1> QED BY <1>1, <1>2, <1>4, <1>5, OtherChange

\* Settings and rules.
LEMMA SettingsInv ==
  ASSUME Inv, SaveRules \/ \E m \in Mode : SaveSettings(m)
  PROVE  Inv'
<1>1. /\ group \in [members: SUBSET Repos, archived: BOOLEAN, version: 0..MaxChanges]
      /\ exception \in [Exceptions ->
            [status: {"none", "requested", "active", "ended"}, past: BOOLEAN]]
      /\ mode \in [Repos -> Mode \cup {"unrecorded"}]
      /\ settings \in [version: 0..MaxChanges, mode: Mode]
      /\ rules \in 0..MaxChanges /\ known \subseteq Repos
  BY DEF Inv, TypeOK
<1>2. Change /\ Invalidate(Repos)
  BY DEF SaveRules, SaveSettings
<1>3. /\ UNCHANGED <<versions, rollout, admin, group, exception, mode, known>>
      /\ settings' \in [version: 0..MaxChanges, mode: Mode] /\ settings'.version <= changes'
      /\ rules' \in 0..MaxChanges /\ rules' <= changes'
  BY <1>1, <1>2, Counted DEF SaveRules, SaveSettings
<1> QED BY <1>1, <1>2, <1>3, Counted, OtherChange

\* What an operation under way holds.
LEMMA OperationKinds ==
  ASSUME TypeOK, NEW a \in Admins
  PROVE  /\ admin[a] \in Operation
         /\ admin[a] # Idle => admin[a].to \in 2..MaxVersions /\ admin[a].to \in DOMAIN rollout
         /\ admin[a].step = "advance" => admin[a].stage \in 1..(Len(Stages) + 1)
         /\ admin[a].step \in {"advance", "rollback", "halted"} => admin[a] # Idle
         /\ admin[a] # Idle => admin[a].step \in {"advance", "rollback", "halted"}
BY DEF TypeOK, Operation, Idle

\* The rollouts stay rollouts, and so do the rest of the state.
LEMMA RolloutChange ==
  ASSUME Inv, NEW S, Invalidate(S),
         UNCHANGED <<group, exception, mode, settings, rules, known, job, crashes>>,
         changes' \in 0..MaxChanges, changes <= changes',
         versions' \in Seq(1..MaxVersions), Len(versions') \in 1..MaxVersions,
         rollout' \in [2..MaxVersions -> Rollout],
         admin' \in [Admins -> Operation],
         RolloutInv'
  PROVE  Inv'
<1>1. /\ row' \in [Repos -> Row]
      /\ \A r \in Repos : /\ row'[r].attempts = row[r].attempts
                          /\ row'[r].state = "none" => row[r].state = "none"
  BY Invalidated DEF Inv, TypeOK
<1>2. TypeOK'
  BY <1>1 DEF Inv, TypeOK
<1>3. CounterInv'
  <2>1. /\ changes \in Nat /\ changes' \in Nat
        /\ settings.version \in Nat /\ rules \in Nat /\ group.version \in Nat
    BY EffectivePolicyAssumption DEF Inv, TypeOK
  <2> QED BY <1>1, <2>1 DEF Inv, CounterInv
<1> QED BY <1>2, <1>3 DEF Inv

\* One more version.
LEMMA Appended ==
  ASSUME TypeOK, NEW v \in 1..MaxVersions, Latest < MaxVersions,
         versions' = Append(versions, v)
  PROVE  /\ versions' \in Seq(1..MaxVersions) /\ Len(versions') \in 1..MaxVersions
         /\ Len(versions') = Latest + 1 /\ Latest' = Latest + 1
         /\ Latest \in Nat /\ Latest >= 1 /\ Latest + 1 \in 2..MaxVersions
<1>1. versions \in Seq(1..MaxVersions) /\ Len(versions) \in 1..MaxVersions
  BY DEF TypeOK
<1>2. versions' \in Seq(1..MaxVersions) /\ Len(versions') = Len(versions) + 1
  BY <1>1, AppendProperties
<1> QED BY <1>1, <1>2, EffectivePolicyAssumption DEF Latest, MaxVersions

\* A publication starts the rollout of the version it adds.
LEMMA PublishInv ==
  ASSUME Inv, NEW staged \in BOOLEAN, Publish(staged)
  PROVE  Inv'
<1>1. /\ Change /\ Latest < MaxVersions /\ Invalidate(Repos)
      /\ UNCHANGED <<admin, group, exception, mode, settings, rules, known>>
      /\ versions' = Append(versions, Latest + 1)
  BY DEF Publish
<1>2. /\ versions' \in Seq(1..MaxVersions) /\ Len(versions') \in 1..MaxVersions
      /\ Latest' = Latest + 1
      /\ Latest \in Nat /\ Latest >= 1 /\ Latest + 1 \in 2..MaxVersions
  <2>1. Latest + 1 \in 1..MaxVersions
    BY <1>1, EffectivePolicyAssumption DEF Inv, TypeOK, Latest, MaxVersions
  <2> QED BY <1>1, <2>1, Appended DEF Inv
<1>3. DOMAIN rollout = 2..MaxVersions /\ rollout \in [2..MaxVersions -> Rollout]
  BY DEF Inv, TypeOK
<1>4. /\ rollout' \in [2..MaxVersions -> Rollout]
      /\ \A n \in 2..MaxVersions :
           \/ rollout'[n] = rollout[n]
           \/ n = Latest + 1 /\ rollout'[n].from = Latest /\ rollout'[n].state = "pilot"
  <2> DEFINE new == [state |-> "pilot", from |-> Latest, stage |-> 1,
                     enrolled |-> Stages[1] \cap known, resumeTo |-> "none"]
  <2>1. new \in Rollout
    <3>1. 1 \in 0..Len(Stages) /\ Stages[1] \cap known \in SUBSET Repos
      BY EffectivePolicyAssumption DEF Inv, TypeOK
    <3>2. Latest \in 0..MaxVersions
      BY <1>2, EffectivePolicyAssumption DEF MaxVersions
    <3> QED BY <3>1, <3>2 DEF Rollout, InProgress
  <2>2. rollout' = IF staged THEN [rollout EXCEPT ![Latest + 1] = new] ELSE rollout
    BY DEF Publish
  <2>3. new.from = Latest /\ new.state = "pilot"
    OBVIOUS
  <2> HIDE DEF new
  <2> QED BY <1>2, <1>3, <2>1, <2>2, <2>3
<1>5. RolloutInv'
  <2>1. ASSUME NEW n \in 2..MaxVersions, rollout'[n].state # "none"
        PROVE  rollout'[n].from \in 1..(n - 1) /\ n <= Latest'
    <3>1. CASE rollout'[n] = rollout[n]
      <4>1. rollout[n].from \in 1..(n - 1) /\ n <= Latest
        BY <1>3, <2>1, <3>1 DEF Inv, RolloutInv
      <4> QED BY <1>2, <3>1, <4>1
    <3>2. CASE n = Latest + 1 /\ rollout'[n].from = Latest
      BY <1>2, <3>2
    <3> QED BY <1>4, <3>1, <3>2
  <2>2. ASSUME NEW a \in Admins, admin[a] # Idle
        PROVE  rollout'[admin[a].to].state # "none"
    BY <1>4, <2>2, OperationKinds DEF Inv, RolloutInv
  <2> QED BY <1>1, <1>4, <2>1, <2>2 DEF RolloutInv
<1>6. admin' \in [Admins -> Operation]
  BY <1>1 DEF Inv, TypeOK
<1>7. changes <= changes'
  BY <1>1, Counted, EffectivePolicyAssumption DEF Inv, TypeOK
<1> QED BY <1>1, <1>2, <1>4, <1>5, <1>6, <1>7, Counted, RolloutChange

\* The version and the rollouts are read, and an operation begins.
LEMMA ReadInv ==
  ASSUME Inv, NEW a \in Admins, NEW n \in DOMAIN rollout,
         ReadAdvance(a, n) \/ ReadRollback(a, n)
  PROVE  Inv'
<1>1. /\ Change
      /\ UNCHANGED <<versions, rollout, group, exception, mode, settings, rules, known, row>>
  BY DEF ReadAdvance, ReadRollback
<1>2. n \in 2..MaxVersions /\ rollout[n] \in Rollout /\ Latest \in 1..MaxVersions
  BY DEF Inv, TypeOK, Latest
<1>3. PICK op \in Operation : /\ admin' = [admin EXCEPT ![a] = op]
                              /\ op.to = n /\ rollout[n].state # "none"
  <2>1. CASE ReadAdvance(a, n)
    <3>1. rollout[n].stage + 1 \in 1..(Len(Stages) + 1)
      BY <1>2, EffectivePolicyAssumption DEF Rollout
    <3>2. [step |-> "advance", to |-> n, stage |-> rollout[n].stage + 1] \in Operation
      BY <1>2, <3>1 DEF Operation
    <3> QED BY <2>1, <3>2 DEF ReadAdvance
  <2>2. CASE ReadRollback(a, n)
    <3>1. [step |-> "rollback", to |-> n, expected |-> Latest] \in Operation
      BY <1>2 DEF Operation
    <3>2. rollout[n].state # "none"
      BY <2>2 DEF ReadRollback, InProgress, Idle, Inv, RolloutInv
    <3> QED BY <2>2, <3>1, <3>2 DEF ReadRollback
  <2> QED BY <2>1, <2>2
<1>4. admin' \in [Admins -> Operation] /\ RolloutInv'
  BY <1>1, <1>3 DEF Inv, TypeOK, RolloutInv, Latest
<1>5. Invalidate({})
  BY <1>1, SameRows DEF Inv, TypeOK
<1>6. /\ versions' \in Seq(1..MaxVersions) /\ Len(versions') \in 1..MaxVersions
      /\ rollout' \in [2..MaxVersions -> Rollout]
  BY <1>1 DEF Inv, TypeOK
<1>7. changes <= changes'
  BY <1>1, Counted, EffectivePolicyAssumption DEF Inv, TypeOK
<1> QED BY <1>1, <1>4, <1>5, <1>6, <1>7, Counted, RolloutChange

\* A rollout is paused, or goes on.
LEMMA PauseInv ==
  ASSUME Inv, NEW n \in DOMAIN rollout,
         Pause(n) \/ Resume(n) \/ \E a \in Admins : Halt(a, n)
  PROVE  Inv'
<1>1. /\ Change
      /\ UNCHANGED <<versions, group, exception, mode, settings, rules, known, row>>
  BY DEF Pause, Resume, Halt, PauseRow
<1>2. n \in 2..MaxVersions /\ rollout[n] \in Rollout /\ DOMAIN rollout = 2..MaxVersions
  BY DEF Inv, TypeOK
<1>3. PICK s \in InProgress, t \in {"none", "pilot", "rollout"} :
        rollout' = [rollout EXCEPT ![n].state = s, ![n].resumeTo = t]
  BY <1>2 DEF Pause, Resume, Halt, PauseRow, InProgress, Rollout
<1>4. /\ rollout' \in [2..MaxVersions -> Rollout]
      /\ rollout[n].state # "none"
      /\ \A m \in 2..MaxVersions :
           /\ rollout'[m].from = rollout[m].from
           /\ rollout'[m].state # "none" <=> rollout[m].state # "none"
  <2>1. rollout[n].state \in InProgress
    BY DEF Pause, Resume, Halt, PauseRow, InProgress
  <2>2. rollout'[n] \in Rollout /\ rollout'[n].from = rollout[n].from /\ rollout'[n].state = s
    BY <1>2, <1>3 DEF Rollout
  <2> QED BY <1>2, <1>3, <2>1, <2>2 DEF Inv, TypeOK, InProgress
<1>5. /\ admin' \in [Admins -> Operation]
      /\ \A a \in Admins : admin'[a] = admin[a] \/ admin'[a].to = n
  <2>1. [step |-> "halted", to |-> n] \in Operation
    BY <1>2 DEF Operation
  <2>2. CASE \E a \in Admins : Halt(a, n)
    <3>1. PICK a \in Admins : Halt(a, n)
      BY <2>2
    <3>2. admin' = [admin EXCEPT ![a] = [step |-> "halted", to |-> n]]
      BY <3>1 DEF Halt
    <3> QED BY <2>1, <3>2 DEF Inv, TypeOK
  <2>3. CASE Pause(n) \/ Resume(n)
    BY <2>3 DEF Pause, Resume, Inv, TypeOK
  <2> QED BY <2>2, <2>3
<1>6. RolloutInv'
  <2>1. ASSUME NEW a \in Admins, admin'[a] # Idle
        PROVE  rollout'[admin'[a].to].state # "none"
    BY <1>2, <1>4, <1>5, <2>1, OperationKinds DEF Inv, RolloutInv
  <2>2. DOMAIN rollout' = 2..MaxVersions
    BY <1>4
  <2> QED BY <1>1, <1>2, <1>4, <2>1, <2>2 DEF Inv, RolloutInv, Latest
<1>7. Invalidate({})
  BY <1>1, SameRows DEF Inv, TypeOK
<1>8. changes <= changes' /\ versions' \in Seq(1..MaxVersions) /\ Len(versions') \in 1..MaxVersions
  BY <1>1, Counted, EffectivePolicyAssumption DEF Inv, TypeOK
<1> QED BY <1>1, <1>4, <1>5, <1>6, <1>7, <1>8, Counted, RolloutChange

\* The next stage of a rollout is stored.
LEMMA AdvanceKept ==
  ASSUME Inv, NEW a \in Admins, Advance(a)
  PROVE  Inv'
<1> DEFINE n == admin[a].to
<1>1. /\ UNCHANGED <<versions, group, exception, mode, settings, rules, known, job, changes, crashes>>
      /\ admin' = [admin EXCEPT ![a] = Idle]
      /\ admin[a].step = "advance"
  BY DEF Advance
<1>2. /\ n \in 2..MaxVersions /\ DOMAIN rollout = 2..MaxVersions /\ rollout[n] \in Rollout
      /\ rollout[n].state # "none" /\ admin[a].stage \in 1..(Len(Stages) + 1)
  BY <1>1, OperationKinds DEF Inv, TypeOK, RolloutInv
<1>3. /\ \E S : Invalidate(S)
      /\ \/ rollout' = rollout
         \/ \E s \in {"active", "rollout"}, k \in 0..Len(Stages), E \in SUBSET Repos :
              rollout' = [rollout EXCEPT ![n].state = s, ![n].stage = k, ![n].enrolled = E]
  <2> DEFINE old == rollout[n].enrolled
             staged == IF admin[a].stage > Len(Stages) THEN old
                         ELSE old \cup (Stages[admin[a].stage] \cap known)
             finished == \/ admin[a].stage > Len(Stages)
                         \/ admin[a].stage = Len(Stages) /\ known \subseteq staged
             enrolled == IF finished THEN staged \cup known ELSE staged
             clash == /\ ~finished
                      /\ \E m \in DOMAIN rollout \ {n} : rollout[m].state \in InProgress
  <2>1. enrolled \in SUBSET Repos
    BY <1>2 DEF Rollout, Inv, TypeOK
  <2>2. (IF admin[a].stage > Len(Stages) THEN Len(Stages) ELSE admin[a].stage) \in 0..Len(Stages)
    BY <1>2, EffectivePolicyAssumption
  <2>3. CASE clash
    <3>1. rollout' = rollout /\ row' = row
      BY <2>3 DEF Advance
    <3> QED BY <3>1, SameRows DEF Inv, TypeOK
  <2>4. CASE ~clash
    <3>1. /\ rollout' = [rollout EXCEPT
                ![n].state = IF finished THEN "active" ELSE "rollout",
                ![n].stage = IF admin[a].stage > Len(Stages) THEN Len(Stages) ELSE admin[a].stage,
                ![n].enrolled = enrolled]
          /\ Invalidate(enrolled \ old)
      BY <2>4 DEF Advance
    <3>2. (IF finished THEN "active" ELSE "rollout") \in {"active", "rollout"}
      OBVIOUS
    <3> HIDE DEF finished, enrolled, old
    <3> QED BY <2>1, <2>2, <3>1, <3>2
  <2> QED BY <2>3, <2>4
<1>4. /\ rollout' \in [2..MaxVersions -> Rollout]
      /\ \A m \in 2..MaxVersions :
           /\ rollout'[m].from = rollout[m].from
           /\ rollout'[m].state # "none" <=> rollout[m].state # "none"
  <2>1. CASE rollout' = rollout
    BY <2>1 DEF Inv, TypeOK
  <2>2. ASSUME NEW s \in {"active", "rollout"}, NEW k \in 0..Len(Stages), NEW E \in SUBSET Repos,
               rollout' = [rollout EXCEPT ![n].state = s, ![n].stage = k, ![n].enrolled = E]
        PROVE  <1>4
    <3> HIDE DEF n
    <3>1. rollout'[n] \in Rollout /\ rollout'[n].from = rollout[n].from /\ rollout'[n].state = s
      BY <1>2, <2>2 DEF Rollout, InProgress
    <3> QED BY <1>2, <2>2, <3>1 DEF Inv, TypeOK
  <2> QED BY <1>3, <2>1, <2>2
<1>5. admin' \in [Admins -> Operation] /\ \A b \in Admins : admin'[b] = admin[b] \/ admin'[b] = Idle
  BY <1>1 DEF Inv, TypeOK, Operation
<1>6. RolloutInv'
  <2>1. ASSUME NEW b \in Admins, admin'[b] # Idle
        PROVE  rollout'[admin'[b].to].state # "none"
    BY <1>2, <1>4, <1>5, <2>1, OperationKinds DEF Inv, RolloutInv
  <2>2. DOMAIN rollout' = 2..MaxVersions
    BY <1>4
  <2> QED BY <1>1, <1>2, <1>4, <2>1, <2>2 DEF Inv, RolloutInv, Latest
<1>7. PICK S : Invalidate(S)
  BY <1>3
<1>8. /\ changes <= changes' /\ changes' \in 0..MaxChanges
      /\ versions' \in Seq(1..MaxVersions) /\ Len(versions') \in 1..MaxVersions
  BY <1>1, EffectivePolicyAssumption DEF Inv, TypeOK
<1> QED BY <1>1, <1>4, <1>5, <1>6, <1>7, <1>8, RolloutChange

\* The document of the version a rollout started from is published again.
LEMMA RollBackInv ==
  ASSUME Inv, NEW a \in Admins, RollBack(a)
  PROVE  Inv'
<1> DEFINE n == admin[a].to
<1>1. /\ UNCHANGED <<group, exception, mode, settings, rules, known, job, changes, crashes>>
      /\ admin' = [admin EXCEPT ![a] = Idle]
      /\ admin[a].step = "rollback"
  BY DEF RollBack
<1>2. /\ n \in 2..MaxVersions /\ DOMAIN rollout = 2..MaxVersions /\ rollout[n] \in Rollout
      /\ rollout[n].state # "none"
      /\ rollout[n].from \in 1..(n - 1) /\ n <= Latest
  BY <1>1, OperationKinds DEF Inv, TypeOK, RolloutInv
<1>3. versions[rollout[n].from] \in 1..MaxVersions
  <2> HIDE DEF n
  <2>1. versions \in Seq(1..MaxVersions) /\ Len(versions) \in Nat /\ n \in Nat
    BY <1>2, EffectivePolicyAssumption DEF Inv, TypeOK, MaxVersions
  <2>2. rollout[n].from \in 1..Len(versions)
    BY <1>2, <2>1 DEF Latest
  <2> QED BY <2>1, <2>2, ElementOfSeq
<1>4. admin' \in [Admins -> Operation] /\ \A b \in Admins : admin'[b] = admin[b] \/ admin'[b] = Idle
  BY <1>1 DEF Inv, TypeOK, Operation
<1>5. changes <= changes' /\ changes' \in 0..MaxChanges
  BY <1>1, EffectivePolicyAssumption DEF Inv, TypeOK
<1>6. CASE UNCHANGED <<versions, rollout, row>>
  <2>1. RolloutInv'
    BY <1>4, <1>6 DEF Inv, RolloutInv, Latest
  <2>2. Invalidate({})
    BY <1>6, SameRows DEF Inv, TypeOK
  <2>3. /\ versions' \in Seq(1..MaxVersions) /\ Len(versions') \in 1..MaxVersions
        /\ rollout' \in [2..MaxVersions -> Rollout]
    BY <1>6 DEF Inv, TypeOK
  <2> QED BY <1>1, <1>4, <1>5, <2>1, <2>2, <2>3, RolloutChange
<1>7. CASE /\ Latest < MaxVersions
           /\ versions' = Append(versions, versions[rollout[n].from])
           /\ rollout' = [rollout EXCEPT ![n].state = "rolled_back"]
           /\ Invalidate(Repos)
  <2>1. /\ versions' \in Seq(1..MaxVersions) /\ Len(versions') \in 1..MaxVersions
        /\ Latest' = Latest + 1 /\ Latest \in Nat
    BY <1>3, <1>7, Appended DEF Inv
  <2>2. /\ rollout' \in [2..MaxVersions -> Rollout]
        /\ \A m \in 2..MaxVersions :
             /\ rollout'[m].from = rollout[m].from
             /\ rollout'[m].state # "none" <=> rollout[m].state # "none"
    <3> HIDE DEF n
    <3>1. /\ rollout'[n] \in Rollout /\ rollout'[n].from = rollout[n].from
          /\ rollout'[n].state = "rolled_back"
      BY <1>2, <1>7 DEF Rollout
    <3> QED BY <1>2, <1>7, <3>1 DEF Inv, TypeOK
  <2>3. RolloutInv'
    <3>1. ASSUME NEW b \in Admins, admin'[b] # Idle
          PROVE  rollout'[admin'[b].to].state # "none"
      BY <1>2, <1>4, <2>2, <3>1, OperationKinds DEF Inv, RolloutInv
    <3>2. DOMAIN rollout' = 2..MaxVersions
      BY <2>2
    <3>3. ASSUME NEW m \in 2..MaxVersions, rollout'[m].state # "none"
          PROVE  rollout'[m].from \in 1..(m - 1) /\ m <= Latest'
      BY <1>2, <2>1, <2>2, <3>3 DEF Inv, RolloutInv
    <3> QED BY <3>1, <3>2, <3>3 DEF RolloutInv
  <2> QED BY <1>1, <1>4, <1>5, <1>7, <2>1, <2>2, <2>3, RolloutChange
<1>8. IF Latest = admin[a].expected /\ versions[rollout[n].from] # versions[Latest] /\ Latest < MaxVersions
        THEN /\ versions' = Append(versions, versions[rollout[n].from])
             /\ rollout' = [rollout EXCEPT ![n].state = "rolled_back"]
             /\ Invalidate(Repos)
        ELSE UNCHANGED <<versions, rollout, row>>
  BY DEF RollBack
<1> HIDE DEF n
<1> QED BY <1>6, <1>7, <1>8

-----------------------------------------------------------------------------
(* Resolution by scans and by the propagation job.                         *)

\* Rows and the work of the job change, and nothing of what is resolved.
LEMMA RowChange ==
  ASSUME Inv, UNCHANGED <<governance, changes>>,
         row' \in [Repos -> Row],
         job' \in [work: SUBSET Repos, current: Repos \cup {NoRepo}],
         crashes' \in 0..MaxCrashes,
         \A r \in Repos :
           /\ r \in job'.work \/ r = job'.current => row'[r].attempts < MaxAttempts
           /\ row'[r].state = "none" => row'[r].attempts = 0,
         job'.current \notin job'.work
  PROVE  Inv'
<1>1. TypeOK'
  BY DEF Inv, TypeOK, governance
<1>2. RolloutInv'
  BY DEF Inv, RolloutInv, governance, Latest
<1>3. CounterInv'
  BY DEF Inv, CounterInv, governance
<1> QED BY <1>1, <1>2, <1>3 DEF Inv

\* A scan resolves the repository it is about.
LEMMA ScanInv ==
  ASSUME Inv, NEW r \in Repos, Scan(r)
  PROVE  Inv'
<1>1. /\ UNCHANGED <<governance, job, changes, crashes>> /\ StoreResolution(r)
      /\ job \in [work: SUBSET Repos, current: Repos \cup {NoRepo}] /\ crashes \in 0..MaxCrashes
  BY DEF Scan, Inv, TypeOK
<1>2. /\ row' \in [Repos -> Row] /\ row'[r].state = "up_to_date" /\ row'[r].attempts = 0
      /\ \A s \in Repos \ {r} : row'[s] = row[s]
  BY <1>1, StoredRow DEF Inv
<1>3. /\ \A s \in Repos : /\ s \in job.work \/ s = job.current => row[s].attempts < MaxAttempts
                          /\ row[s].state = "none" => row[s].attempts = 0
      /\ job.current \notin job.work
  BY DEF Inv, CounterInv
<1>4. \A s \in Repos : /\ s \in job.work \/ s = job.current => row'[s].attempts < MaxAttempts
                       /\ row'[s].state = "none" => row'[s].attempts = 0
  BY <1>2, <1>3, EffectivePolicyAssumption
<1> QED BY <1>1, <1>2, <1>3, <1>4, RowChange

\* The propagation job.
LEMMA PropagateInv ==
  ASSUME Inv, Propagate \/ Crash
  PROVE  Inv'
<1>1. /\ job \in [work: SUBSET Repos, current: Repos \cup {NoRepo}] /\ crashes \in 0..MaxCrashes
      /\ row \in [Repos -> Row]
      /\ \A s \in Repos : /\ s \in job.work \/ s = job.current => row[s].attempts < MaxAttempts
                          /\ row[s].state = "none" => row[s].attempts = 0
      /\ \A s \in Repos : row[s] \in Row /\ row[s].attempts \in 0..MaxAttempts
      /\ NoRepo \notin Repos /\ job.current \notin job.work
  BY RowKinds, EffectivePolicyAssumption DEF Inv, TypeOK, CounterInv
<1>2. CASE StartPropagation
  <2>1. /\ UNCHANGED <<governance, row, changes, crashes>>
        /\ job' = [job EXCEPT !.work = Selected] /\ job.current = NoRepo
    BY <1>2 DEF StartPropagation
  <2>2. Selected \subseteq Repos /\ \A r \in Selected : row[r].attempts < MaxAttempts
    BY <1>1, EffectivePolicyAssumption DEF Selected
  <2>3. /\ job' \in [work: SUBSET Repos, current: Repos \cup {NoRepo}]
        /\ job'.work = Selected /\ job'.current = NoRepo
    BY <1>1, <2>1, <2>2
  <2> QED BY <1>1, <2>1, <2>2, <2>3, RowChange
<1>3. ASSUME NEW r \in Repos, Sync(r)
      PROVE  Inv'
  <2>1. /\ UNCHANGED <<governance, changes, crashes>> /\ r \in job.work
        /\ row' = [row EXCEPT ![r].state = "syncing"]
        /\ job' = [work |-> job.work \ {r}, current |-> r]
    BY <1>3 DEF Sync
  <2>2. /\ [row[r] EXCEPT !.state = "syncing"] \in Row
        /\ [row[r] EXCEPT !.state = "syncing"].attempts = row[r].attempts
        /\ [row[r] EXCEPT !.state = "syncing"].state = "syncing"
    <3>1. row[r] \in Row
      BY <1>1
    <3>2. [row[r] EXCEPT !.state = "syncing"] \in Row
      BY <3>1, RowKinds
    <3>3. DOMAIN row[r] = {"state", "attempts"} \/ DOMAIN row[r] = {"state", "attempts", "resolved"}
      BY <3>1 DEF Row
    <3> QED BY <3>2, <3>3
  <2>3. /\ row' \in [Repos -> Row]
        /\ \A s \in Repos : /\ row'[s].attempts = row[s].attempts
                            /\ row'[s].state = "none" => row[s].state = "none"
    BY <1>1, <2>1, <2>2
  <2>4. job' \in [work: SUBSET Repos, current: Repos \cup {NoRepo}]
    BY <1>1, <2>1
  <2> QED BY <1>1, <2>1, <2>3, <2>4, RowChange
<1>4. CASE Resolved
  <2>1. /\ UNCHANGED <<governance, changes, crashes>> /\ job.current # NoRepo
        /\ StoreResolution(job.current) /\ job' = [job EXCEPT !.current = NoRepo]
    BY <1>4 DEF Resolved
  <2>2. job.current \in Repos
    BY <1>1, <2>1
  <2>3. /\ row' \in [Repos -> Row]
        /\ row'[job.current].state = "up_to_date" /\ row'[job.current].attempts = 0
        /\ \A s \in Repos \ {job.current} : row'[s] = row[s]
    BY <2>1, <2>2, StoredRow DEF Inv
  <2>4. /\ job' \in [work: SUBSET Repos, current: Repos \cup {NoRepo}]
        /\ job'.work = job.work /\ job'.current = NoRepo
    BY <1>1, <2>1
  <2>5. \A s \in Repos : /\ s \in job'.work \/ s = job'.current => row'[s].attempts < MaxAttempts
                         /\ row'[s].state = "none" => row'[s].attempts = 0
    BY <1>1, <2>3, <2>4, EffectivePolicyAssumption
  <2> QED BY <1>1, <2>1, <2>3, <2>4, <2>5, RowChange
<1>5. CASE ResolutionFails
  <2> DEFINE r == job.current
             failed == [row[r] EXCEPT !.state = "error", !.attempts = @ + 1]
  <2>1. /\ UNCHANGED <<governance, changes, crashes>> /\ r # NoRepo
        /\ row' = [row EXCEPT ![r] = failed]
        /\ job' = [job EXCEPT !.current = NoRepo]
    BY <1>5 DEF ResolutionFails
  <2>2. r \in Repos /\ row[r] \in Row /\ row[r].attempts < MaxAttempts
    BY <1>1, <2>1
  <2>3. failed \in Row /\ failed.state = "error"
    <3>1. failed \in Row
      BY <2>2, RowKinds
    <3>2. DOMAIN row[r] = {"state", "attempts"} \/ DOMAIN row[r] = {"state", "attempts", "resolved"}
      BY <2>2 DEF Row
    <3> QED BY <3>1, <3>2
  <2> HIDE DEF failed
  <2>4. /\ row' \in [Repos -> Row] /\ row'[r].state = "error"
        /\ \A s \in Repos \ {r} : row'[s] = row[s]
    BY <1>1, <2>1, <2>2, <2>3
  <2>5. /\ job' \in [work: SUBSET Repos, current: Repos \cup {NoRepo}]
        /\ job'.work = job.work /\ job'.current = NoRepo
    BY <1>1, <2>1
  <2>6. \A s \in Repos : /\ s \in job'.work \/ s = job'.current => row'[s].attempts < MaxAttempts
                         /\ row'[s].state = "none" => row'[s].attempts = 0
    BY <1>1, <2>2, <2>4, <2>5
  <2> QED BY <1>1, <2>1, <2>4, <2>5, <2>6, RowChange
<1>6. CASE Crash
  <2>1. /\ UNCHANGED <<governance, row, changes>> /\ crashes' \in 0..MaxCrashes
        /\ job' = [work |-> {}, current |-> NoRepo]
    BY <1>1, <1>6, EffectivePolicyAssumption DEF Crash
  <2> QED BY <1>1, <2>1, RowChange
<1> QED BY <1>2, <1>3, <1>4, <1>5, <1>6 DEF Propagate

\* A step of the program.
LEMMA StepInv == Inv /\ [AnyStep]_vars => Inv'
<1> SUFFICES ASSUME Inv, [AnyStep]_vars PROVE Inv'
  OBVIOUS
<1>1. ASSUME AnyStep PROVE Inv'
  BY <1>1, PublishInv, PauseInv, ReadInv, AdvanceKept, RollBackInv, GroupInv, ExceptionInv,
     RepositoryInv, SettingsInv, ScanInv, PropagateInv
  DEF AnyStep, OtherStep, Publishes, Leaves
<1>2. ASSUME UNCHANGED vars PROVE Inv'
  BY <1>2 DEF Inv, TypeOK, RolloutInv, CounterInv, vars, governance, Latest
<1> QED BY <1>1, <1>2

\* Every variable has its type: in particular versions, the attempts of the propagation
\* job and the stages of rollouts stay within their bounds.
THEOREM TypeCorrect == Spec => []TypeOK
<1>1. [Next]_vars => [AnyStep]_vars
  BY NextSteps DEF AnyStep
<1>2. Spec => []Inv
  BY <1>1, InitInv, StepInv, PTL DEF Spec
<1> QED BY <1>2, PTL DEF Inv

-----------------------------------------------------------------------------
(* What a scan takes from the cache is current.                            *)

\* A row that can be used after an invalidation could be used before it, and was left alone.
LEMMA UsableBefore ==
  ASSUME Inv, NEW S, Invalidate(S), NEW r \in Repos, Usable(r)',
         \A e \in Exceptions : exception[e].past => exception'[e].past
  PROVE  r \notin S /\ row'[r] = row[r] /\ Usable(r)
<1>1. row'[r].state = "up_to_date"
  BY DEF Usable
<1>2. r \notin S /\ row'[r] = row[r]
  BY <1>1, Invalidated DEF Inv, TypeOK
<1>3. row[r] \in Row /\ row[r].state = "up_to_date"
  BY <1>1, <1>2 DEF Inv, TypeOK
<1>4. row[r].resolved \in Resolution /\ row[r].resolved.grants \subseteq Exceptions
  BY <1>3, RowKinds DEF Resolution
<1>5. \A e \in row[r].resolved.grants : ~exception'[e].past
  BY <1>2 DEF Usable
<1> QED BY <1>2, <1>3, <1>4, <1>5 DEF Usable

\* What resolution reads of the group, the exceptions, the mode, settings and rules.
Inputs(r) ==
  [group |-> IF InGroup(r) THEN group.version ELSE 0, grants |-> Grants(r),
   mode |-> ModeOf(r), settings |-> settings.version, rules |-> rules]

\* The row of r agrees with it.
Agrees(r) ==
  LET x == row[r].resolved
  IN /\ x.group = Inputs(r).group /\ x.grants = Inputs(r).grants /\ x.mode = Inputs(r).mode
     /\ x.settings = Inputs(r).settings /\ x.rules = Inputs(r).rules

\* InputsCurrent, in these words.
LEMMA InputsAgree == InputsCurrent <=> \A r \in Repos : Usable(r) => Agrees(r)
BY DEF InputsCurrent, Agrees, Inputs

\* A resolution that was just stored agrees.
LEMMA StoredAgrees ==
  ASSUME Inv, InputsCurrent, NEW r \in Repos, StoreResolution(r), UNCHANGED governance
  PROVE  InputsCurrent'
<1>1. \A s \in Repos : Inputs(s)' = Inputs(s)
  BY DEF Inputs, InGroup, Grants, Applies, ModeOf, governance
<1>2. row'[r].resolved = Resolve(r) /\ \A s \in Repos \ {r} : row'[s] = row[s]
  BY StoredRow DEF Inv
<1>3. Agrees(r)'
  <2>1. /\ Resolve(r).group = Inputs(r).group /\ Resolve(r).grants = Inputs(r).grants
        /\ Resolve(r).mode = Inputs(r).mode /\ Resolve(r).settings = Inputs(r).settings
        /\ Resolve(r).rules = Inputs(r).rules
    BY DEF Resolve, Inputs
  <2> QED BY <1>1, <1>2, <2>1 DEF Agrees
<1>4. ASSUME NEW s \in Repos \ {r}, Usable(s)'
      PROVE  Agrees(s)'
  <2>1. Usable(s)
    BY <1>2, <1>4 DEF Usable, governance
  <2>2. Agrees(s)
    BY <2>1, InputsAgree
  <2> QED BY <1>1, <1>2, <2>2 DEF Agrees
<1> QED BY <1>3, <1>4 DEF InputsCurrent, Agrees, Inputs

\* A step that leaves alone the inputs of every row it does not invalidate.
LEMMA AgreesKept ==
  ASSUME Inv, InputsCurrent, NEW S, Invalidate(S),
         \A e \in Exceptions : exception[e].past => exception'[e].past,
         \A r \in Repos \ S : Usable(r) /\ Usable(r)' => Inputs(r)' = Inputs(r)
  PROVE  InputsCurrent'
<1>1. ASSUME NEW r \in Repos, Usable(r)'
      PROVE  Agrees(r)'
  <2>1. r \notin S /\ row'[r] = row[r] /\ Usable(r)
    BY <1>1, UsableBefore
  <2>2. Agrees(r) /\ Inputs(r)' = Inputs(r)
    BY <1>1, <2>1, InputsAgree
  <2> QED BY <2>1, <2>2 DEF Agrees
<1> QED BY <1>1 DEF InputsCurrent, Agrees, Inputs

\* The group: its members are invalidated, and those that join or leave it.
LEMMA GroupAgrees ==
  ASSUME Inv, InputsCurrent,
         \/ PublishGroupPolicy \/ Archive
         \/ \E r \in Repos : AddMember(r) \/ RemoveMember(r)
  PROVE  InputsCurrent'
<1>1. /\ group \in [members: SUBSET Repos, archived: BOOLEAN, version: 0..MaxChanges]
      /\ exception \in [Exceptions ->
            [status: {"none", "requested", "active", "ended"}, past: BOOLEAN]]
  BY DEF Inv, TypeOK
<1>2. ASSUME PublishGroupPolicy \/ Archive
      PROVE  InputsCurrent'
  <2>1. /\ Invalidate(group.members) /\ group'.members = group.members
        /\ UNCHANGED <<mode, settings, rules>>
    BY <1>1, <1>2 DEF PublishGroupPolicy, Archive
  <2>2. ASSUME NEW e \in Exceptions
        PROVE  /\ exception'[e].past = exception[e].past
               /\ exception'[e].status # exception[e].status => ScopeOf[e] = "group"
    <3>1. CASE PublishGroupPolicy
      BY <3>1 DEF PublishGroupPolicy
    <3>2. CASE Archive
      <4>1. exception'[e] = IF ScopeOf[e] = "group" /\ exception[e].status \in {"requested", "active"}
              THEN [exception[e] EXCEPT !.status = "ended"] ELSE exception[e]
        BY <3>2 DEF Archive
      <4> QED BY <1>1, <4>1
    <3> QED BY <1>2, <3>1, <3>2
  <2>3. ASSUME NEW r \in Repos \ group.members
        PROVE  Inputs(r)' = Inputs(r)
    <3>1. ~InGroup(r) /\ ~InGroup(r)' /\ r # "group"
      BY <2>1, <2>3, EffectivePolicyAssumption DEF InGroup
    <3>2. Grants(r)' = Grants(r)
      <4>1. ASSUME NEW e \in Exceptions
            PROVE  /\ Applies(e, r)' <=> Applies(e, r)
                   /\ Applies(e, r) => ScopeOf[e] # "group"
        BY <3>1 DEF Applies
      <4> QED BY <2>2, <4>1 DEF Grants
    <3> QED BY <2>1, <3>1, <3>2 DEF Inputs, ModeOf
  <2> QED BY <2>1, <2>2, <2>3, AgreesKept
<1>3. ASSUME NEW x \in Repos, AddMember(x) \/ RemoveMember(x)
      PROVE  InputsCurrent'
  <2>1. /\ Invalidate({x}) /\ group'.archived = group.archived /\ group'.version = group.version
        /\ UNCHANGED <<exception, mode, settings, rules>>
    BY <1>1, <1>3 DEF AddMember, RemoveMember
  <2>2. ASSUME NEW r \in Repos \ {x}
        PROVE  Inputs(r)' = Inputs(r)
    <3>1. InGroup(r)' <=> InGroup(r)
      BY <1>1, <1>3, <2>1, <2>2 DEF InGroup, AddMember, RemoveMember
    <3>2. Grants(r)' = Grants(r)
      BY <2>1, <3>1 DEF Grants, Applies
    <3> QED BY <2>1, <3>1, <3>2 DEF Inputs, ModeOf
  <2> QED BY <2>1, <2>2, AgreesKept
<1> QED BY <1>2, <1>3

\* Exceptions: what one covers is invalidated, and a row with an expired one is not used.
LEMMA ExceptionAgrees ==
  ASSUME Inv, InputsCurrent, NEW e \in Exceptions,
         \/ \E approved \in BOOLEAN : Request(e, approved)
         \/ Approve(e) \/ EndException(e) \/ Lapse(e) \/ ExpireDue(e)
  PROVE  InputsCurrent'
<1>1. /\ ExceptionOnly
      /\ exception \in [Exceptions ->
            [status: {"none", "requested", "active", "ended"}, past: BOOLEAN]]
  BY DEF Inv, TypeOK, Request, Approve, EndException, Lapse, ExpireDue
<1>2. \A r \in Repos : Inputs(r)' = [Inputs(r) EXCEPT !.grants = Grants(r)']
  BY <1>1 DEF Inputs, InGroup, ModeOf, ExceptionOnly
<1>3. /\ \A f \in Exceptions \ {e} : exception'[f] = exception[f]
      /\ exception[e].past => exception'[e].past
  BY <1>1 DEF Request, Approve, EndException, Lapse, ExpireDue, SetException
<1>4. \A f \in Exceptions, r \in Repos : Applies(f, r)' <=> Applies(f, r)
  BY <1>1 DEF Applies, InGroup, ExceptionOnly
<1>5. ASSUME NEW r \in Repos,
             Applies(e, r) =>
               ((exception'[e].status = "active" /\ ~exception'[e].past)
                  <=> (exception[e].status = "active" /\ ~exception[e].past))
      PROVE  Inputs(r)' = Inputs(r)
  <2>1. Grants(r)' = Grants(r)
    BY <1>3, <1>4, <1>5 DEF Grants
  <2> QED BY <1>2, <2>1 DEF Inputs
<1>6. CASE Lapse(e)
  <2>1. Invalidate({})
    BY <1>6, SameRows DEF Lapse, Inv, TypeOK
  <2>2. ASSUME NEW r \in Repos, Usable(r), Usable(r)'
        PROVE  Inputs(r)' = Inputs(r)
    <3>1. row[r].resolved.grants = Grants(r)
      BY <2>2 DEF InputsCurrent
    <3>2. exception'[e].past /\ row' = row
      BY <1>1, <1>6 DEF Lapse
    <3>3. e \notin Grants(r)
      BY <2>2, <3>1, <3>2 DEF Usable
    <3> QED BY <1>5, <3>2, <3>3 DEF Grants
  <2> QED BY <1>3, <2>1, <2>2, AgreesKept
<1>7. ASSUME NEW r \in Repos, r \notin Covered(ScopeOf[e])
      PROVE  ~Applies(e, r)
  BY <1>7, EffectivePolicyAssumption DEF Applies, Covered, InGroup
<1>8. ASSUME NEW S, Invalidate(S),
             \/ S = Covered(ScopeOf[e])
             \/ exception'[e].status # "active" /\ exception[e].status # "active"
      PROVE  InputsCurrent'
  <2>1. \A r \in Repos \ S : Inputs(r)' = Inputs(r)
    BY <1>5, <1>7, <1>8
  <2> QED BY <1>3, <1>8, <2>1, AgreesKept
<1>9. CASE \E approved \in BOOLEAN : Request(e, approved)
  <2>1. PICK approved \in BOOLEAN : Request(e, approved)
    BY <1>9
  <2>2. CASE approved
    BY <1>8, <2>1, <2>2 DEF Request
  <2>3. CASE ~approved
    <3>1. exception'[e].status = "requested" /\ exception[e].status = "none" /\ Invalidate({})
      BY <1>1, <2>1, <2>3 DEF Request, SetException
    <3> QED BY <1>8, <3>1
  <2> QED BY <2>2, <2>3
<1>10. CASE Approve(e) \/ ExpireDue(e)
  BY <1>8, <1>10 DEF Approve, ExpireDue
<1>11. CASE EndException(e)
  <2>1. CASE exception[e].status = "active"
    BY <1>8, <1>11, <2>1 DEF EndException
  <2>2. CASE exception[e].status # "active"
    <3>1. exception'[e].status = "ended" /\ Invalidate({})
      BY <1>1, <1>11, <2>2 DEF EndException, SetException
    <3> QED BY <1>8, <2>2, <3>1
  <2> QED BY <2>1, <2>2
<1> QED BY <1>6, <1>9, <1>10, <1>11

\* Repositories: one whose mode changes is invalidated.
LEMMA RepositoryAgrees ==
  ASSUME Inv, InputsCurrent, NEW x \in Repos,
         \/ Join(x) \/ Leave(x) \/ Discover(x)
         \/ \E m \in Mode : SetMode(x, m)
  PROVE  InputsCurrent'
<1>1. /\ UNCHANGED <<group, exception, settings, rules>>
      /\ mode \in [Repos -> Mode \cup {"unrecorded"}] /\ settings.mode \in Mode
      /\ "unrecorded" \notin Mode
  BY DEF Join, Leave, Discover, SetMode, Inv, TypeOK, Mode
<1>2. ASSUME NEW r \in Repos, ModeOf(r)' = ModeOf(r)
      PROVE  Inputs(r)' = Inputs(r)
  BY <1>1, <1>2 DEF Inputs, InGroup, Grants, Applies
<1>3. CASE Join(x) \/ Leave(x) \/ Discover(x)
  <2>1. Invalidate({})
    BY <1>3, SameRows DEF Join, Leave, Discover, Inv, TypeOK
  <2>2. \A r \in Repos : ModeOf(r)' = ModeOf(r)
    BY <1>1, <1>3 DEF Join, Leave, Discover, ModeOf
  <2> QED BY <1>1, <1>2, <2>1, <2>2, AgreesKept
<1>4. ASSUME NEW m \in Mode, SetMode(x, m)
      PROVE  InputsCurrent'
  <2>1. mode' = [mode EXCEPT ![x] = m] /\ Invalidate(IF ModeOf(x) = m THEN {} ELSE {x})
    BY <1>4 DEF SetMode
  <2>2. ASSUME NEW r \in Repos, r # x \/ ModeOf(x) = m
        PROVE  ModeOf(r)' = ModeOf(r)
    BY <1>1, <2>1, <2>2 DEF ModeOf
  <2>3. \A r \in Repos \ (IF ModeOf(x) = m THEN {} ELSE {x}) : Inputs(r)' = Inputs(r)
    BY <1>2, <2>2
  <2> QED BY <1>1, <2>1, <2>3, AgreesKept
<1> QED BY <1>3, <1>4

\* Publications and rollback, settings and rules leave no row usable; operations on
\* rollouts leave alone what a row agrees with.
LEMMA VersionsAgree ==
  ASSUME Inv, InputsCurrent,
         \/ \E staged \in BOOLEAN : Publish(staged)
         \/ \E n \in DOMAIN rollout :
              \/ Pause(n) \/ Resume(n)
              \/ \E a \in Admins : ReadAdvance(a, n) \/ Halt(a, n) \/ ReadRollback(a, n)
         \/ \E a \in Admins : Advance(a) \/ RollBack(a)
         \/ SaveRules \/ \E m \in Mode : SaveSettings(m)
  PROVE  InputsCurrent'
<1>1. CASE SaveRules \/ \E m \in Mode : SaveSettings(m)
  <2>1. Invalidate(Repos) /\ exception' = exception
    BY <1>1 DEF SaveRules, SaveSettings
  <2> QED BY <2>1, AgreesKept
<1>2. CASE /\ UNCHANGED <<group, exception, mode, settings, rules>>
           /\ \E S : Invalidate(S)
  <2>1. PICK S : Invalidate(S)
    BY <1>2
  <2>2. \A r \in Repos : Inputs(r)' = Inputs(r)
    BY <1>2 DEF Inputs, InGroup, Grants, Applies, ModeOf
  <2> QED BY <1>2, <2>1, <2>2, AgreesKept
<1>3. row' = row => Invalidate({})
  BY SameRows DEF Inv, TypeOK
<1>4. ASSUME NEW staged \in BOOLEAN, Publish(staged)
      PROVE  InputsCurrent'
  BY <1>2, <1>4 DEF Publish
<1>5. ASSUME NEW n \in DOMAIN rollout, NEW a \in Admins,
             \/ Pause(n) \/ Resume(n)
             \/ ReadAdvance(a, n) \/ Halt(a, n) \/ ReadRollback(a, n)
      PROVE  InputsCurrent'
  BY <1>2, <1>3, <1>5 DEF Pause, Resume, ReadAdvance, Halt, ReadRollback, PauseRow
<1>6. ASSUME NEW a \in Admins, Advance(a)
      PROVE  InputsCurrent'
  <2>1. UNCHANGED <<group, exception, mode, settings, rules>>
    BY <1>6 DEF Advance
  <2>2. \E S : Invalidate(S)
    BY <1>3, <1>6 DEF Advance
  <2> QED BY <1>2, <2>1, <2>2
<1>7. ASSUME NEW a \in Admins, RollBack(a)
      PROVE  InputsCurrent'
  <2>1. UNCHANGED <<group, exception, mode, settings, rules>>
    BY <1>7 DEF RollBack
  <2>2. \E S : Invalidate(S)
    BY <1>3, <1>7 DEF RollBack
  <2> QED BY <1>2, <2>1, <2>2
<1>8. ASSUME NEW n \in DOMAIN rollout, Pause(n) \/ Resume(n)
      PROVE  InputsCurrent'
  BY <1>2, <1>3, <1>8 DEF Pause, Resume, PauseRow
<1> QED BY <1>1, <1>4, <1>5, <1>6, <1>7, <1>8

\* A row that the propagation job marks, or fails to resolve, cannot be used; rows it
\* only selects, and rows it leaves, are as they were.
LEMMA JobRows ==
  ASSUME Inv, \/ StartPropagation \/ (\E r \in Repos : Sync(r)) \/ ResolutionFails \/ Crash
  PROVE  /\ UNCHANGED <<governance, changes>>
         /\ \A r \in Repos :
              row'[r].state \in {"up_to_date", "none"} => row'[r] = row[r]
<1>1. UNCHANGED <<governance, changes>>
  BY DEF StartPropagation, Sync, ResolutionFails, Crash
<1>2. /\ row \in [Repos -> Row] /\ job.current \in Repos \cup {NoRepo}
      /\ \A r \in Repos : row[r] \in Row
  BY DEF Inv, TypeOK
<1>3. CASE StartPropagation \/ Crash
  BY <1>1, <1>3 DEF StartPropagation, Crash
<1>4. ASSUME NEW x \in Repos, NEW y \in Row, row' = [row EXCEPT ![x] = y],
             y.state \in {"syncing", "error"}
      PROVE  \A r \in Repos : row'[r].state \in {"up_to_date", "none"} => row'[r] = row[r]
  BY <1>2, <1>4
<1>5. ASSUME NEW x \in Repos
      PROVE  DOMAIN row[x] = {"state", "attempts"} \/ DOMAIN row[x] = {"state", "attempts", "resolved"}
  BY <1>2 DEF Row
<1>6. ASSUME NEW x \in Repos, Sync(x)
      PROVE  \A r \in Repos : row'[r].state \in {"up_to_date", "none"} => row'[r] = row[r]
  <2>1. [row[x] EXCEPT !.state = "syncing"] \in Row
    BY <1>2, RowKinds
  <2>2. [row[x] EXCEPT !.state = "syncing"].state = "syncing"
    BY <1>5
  <2>3. row' = [row EXCEPT ![x] = [row[x] EXCEPT !.state = "syncing"]]
    BY <1>6 DEF Sync
  <2> QED BY <1>4, <2>1, <2>2, <2>3
<1>7. CASE ResolutionFails
  <2> DEFINE x == job.current
             failed == [row[x] EXCEPT !.state = "error", !.attempts = @ + 1]
  <2>1. x \in Repos /\ row' = [row EXCEPT ![x] = failed]
    BY <1>2, <1>7 DEF ResolutionFails
  <2>2. row[x].attempts < MaxAttempts
    BY <2>1 DEF Inv, CounterInv
  <2>3. failed \in Row
    BY <1>2, <2>1, <2>2, RowKinds
  <2>4. failed.state = "error"
    BY <1>5, <2>1
  <2> HIDE DEF failed
  <2>5. PICK y \in Row : row' = [row EXCEPT ![x] = y] /\ y.state = "error"
    BY <2>1, <2>3, <2>4
  <2> QED BY <1>1, <1>4, <2>1, <2>5
<1> QED BY <1>1, <1>3, <1>6, <1>7

\* Scans and the propagation job.
LEMMA ResolvedAgrees ==
  ASSUME Inv, InputsCurrent, Propagate \/ Crash \/ \E r \in Repos : Scan(r)
  PROVE  InputsCurrent'
<1>1. ASSUME NEW r \in Repos, Scan(r)
      PROVE  InputsCurrent'
  BY <1>1, StoredAgrees DEF Scan
<1>2. CASE Resolved
  <2>1. job.current \in Repos
    BY <1>2 DEF Resolved, Inv, TypeOK
  <2> QED BY <1>2, <2>1, StoredAgrees DEF Resolved
<1>3. CASE StartPropagation \/ (\E r \in Repos : Sync(r)) \/ ResolutionFails \/ Crash
  <2>1. \A r \in Repos : row'[r].state = "up_to_date" => row'[r] = row[r]
    BY <1>3, JobRows
  <2>2. UNCHANGED governance
    BY <1>3, JobRows
  <2>3. \A r \in Repos : Inputs(r)' = Inputs(r)
    BY <2>2 DEF Inputs, InGroup, Grants, Applies, ModeOf, governance
  <2>4. ASSUME NEW r \in Repos, Usable(r)'
        PROVE  Agrees(r)'
    <3>1. row'[r] = row[r] /\ Usable(r)
      BY <2>1, <2>2, <2>4 DEF Usable, governance
    <3>2. Agrees(r) /\ Inputs(r)' = Inputs(r)
      BY <2>3, <3>1, InputsAgree
    <3> QED BY <3>1, <3>2 DEF Agrees
  <2> QED BY <2>4 DEF InputsCurrent, Agrees, Inputs
<1> QED BY <1>1, <1>2, <1>3 DEF Propagate

\* A step of the program.
LEMMA StepAgrees == Inv /\ InputsCurrent /\ [AnyStep]_vars => InputsCurrent'
<1> SUFFICES ASSUME Inv, InputsCurrent, [AnyStep]_vars PROVE InputsCurrent'
  OBVIOUS
<1>1. ASSUME AnyStep PROVE InputsCurrent'
  BY <1>1, VersionsAgree, GroupAgrees, ExceptionAgrees, RepositoryAgrees, ResolvedAgrees
  DEF AnyStep, OtherStep, Publishes, Leaves
<1>2. ASSUME UNCHANGED vars PROVE InputsCurrent'
  BY <1>2 DEF InputsCurrent, Usable, InGroup, Grants, Applies, ModeOf, vars, governance
<1> QED BY <1>1, <1>2

\* Whatever happens, a row that a scan may use was resolved from the group, the
\* exceptions, the mode, the settings and the rules of now: every change of them marks
\* the rows it concerns in its own transaction (governance/cache.py).
THEOREM InputsStayCurrent == Spec => []InputsCurrent
<1>1. Init => InputsCurrent
  BY DEF Init, InputsCurrent, Usable
<1>2. (Inv /\ InputsCurrent) /\ [Next]_vars => (Inv /\ InputsCurrent)'
  BY NextSteps, StepInv, StepAgrees DEF AnyStep
<1> QED BY <1>1, <1>2, InitInv, PTL DEF Spec

-----------------------------------------------------------------------------
(* The version of the organization's policy.                               *)

VersionInv ==
  /\ AdvanceInv
  /\ ~RepositoriesLeave => KnownRows
  /\ "publish" \notin Changes => OneVersion

\* What a repository gets is no newer than the latest version.
LEMMA VersionForBounds ==
  ASSUME Inv, NEW r \in Repos
  PROVE  /\ Latest \in Nat /\ Latest >= 1 /\ VersionFor(r) \in Nat /\ VersionFor(r) <= Latest
         /\ VersionFor(r) # Latest =>
              /\ Latest \in DOMAIN rollout /\ rollout[Latest].state \in InProgress
              /\ r \notin rollout[Latest].enrolled /\ VersionFor(r) = rollout[Latest].from
<1>1. Latest \in Nat /\ Latest >= 1
  BY EffectivePolicyAssumption DEF Inv, TypeOK, Latest, MaxVersions
<1>2. ASSUME Latest \in DOMAIN rollout, rollout[Latest].state \in InProgress
      PROVE  rollout[Latest].from \in Nat /\ rollout[Latest].from <= Latest
  <2>1. rollout[Latest].from \in 1..(Latest - 1)
    BY <1>2 DEF Inv, RolloutInv, InProgress
  <2> QED BY <1>1, <2>1
<1> QED BY <1>1, <1>2 DEF VersionFor

\* When the latest version and its rollout are the same, so is what repositories get.
LEMMA SameVersions ==
  ASSUME Inv, versions' = versions, DOMAIN rollout' = DOMAIN rollout,
         NEW r \in Repos,
         Latest \in DOMAIN rollout =>
           /\ rollout'[Latest].state \in InProgress <=> rollout[Latest].state \in InProgress
           /\ rollout'[Latest].from = rollout[Latest].from
           /\ rollout[Latest].state \in InProgress =>
                (r \in rollout'[Latest].enrolled <=> r \in rollout[Latest].enrolled)
  PROVE  VersionFor(r)' = VersionFor(r)
<1>1. Latest' = Latest
  BY DEF Latest
<1> QED BY <1>1 DEF VersionFor

\* Pausing and resuming a rollout changes no repository's version.
LEMMA PausedVersions ==
  ASSUME Inv, NEW n \in DOMAIN rollout,
         Pause(n) \/ Resume(n) \/ \E a \in Admins : Halt(a, n)
  PROVE  \A r \in Repos : VersionFor(r)' = VersionFor(r)
<1>1. rollout \in [2..MaxVersions -> Rollout] /\ DOMAIN rollout = 2..MaxVersions
  BY DEF Inv, TypeOK
<1>2. versions' = versions /\ rollout[n].state \in InProgress
  BY DEF Pause, Resume, Halt, PauseRow, InProgress
<1>3. PICK s \in InProgress, t \in {"none", "pilot", "rollout"} :
        rollout' = [rollout EXCEPT ![n].state = s, ![n].resumeTo = t]
  BY <1>1 DEF Pause, Resume, Halt, PauseRow, InProgress, Rollout
<1>4. /\ rollout'[n].state = s /\ rollout'[n].from = rollout[n].from
      /\ rollout'[n].enrolled = rollout[n].enrolled
      /\ \A m \in DOMAIN rollout \ {n} : rollout'[m] = rollout[m]
      /\ DOMAIN rollout' = DOMAIN rollout
  BY <1>1, <1>3 DEF Rollout
<1> QED BY <1>2, <1>4, SameVersions

\* After a publication every repository gets a version that is not older.
LEMMA PublishVersions ==
  ASSUME Inv, NEW staged \in BOOLEAN, Publish(staged), NEW r \in Repos
  PROVE  VersionFor(r)' >= VersionFor(r)
<1>1. Inv' /\ Latest < MaxVersions
  BY PublishInv DEF Publish
<1>2. Latest' = Latest + 1 /\ Latest \in Nat /\ Latest + 1 \in 2..MaxVersions
  <2>1. Latest + 1 \in 1..MaxVersions
    BY <1>1, EffectivePolicyAssumption DEF Inv, TypeOK, Latest, MaxVersions
  <2> QED BY <1>1, <2>1, Appended DEF Publish, Inv
<1>3. rollout \in [2..MaxVersions -> Rollout] /\ rollout[Latest + 1].state = "none"
  BY <1>2 DEF Inv, TypeOK, RolloutInv
<1>4. \/ rollout' = rollout
      \/ rollout'[Latest + 1].from = Latest
  BY <1>2, <1>3 DEF Publish
<1>5. VersionFor(r)' = Latest \/ VersionFor(r)' = Latest + 1
  BY <1>2, <1>3, <1>4 DEF VersionFor, InProgress
<1> QED BY <1>2, <1>5, VersionForBounds

\* A rollback is a newer version for every repository.
LEMMA RollBackVersions ==
  ASSUME Inv, NEW a \in Admins, RollBack(a), NEW r \in Repos
  PROVE  /\ VersionFor(r)' >= VersionFor(r)
         /\ \/ Invalidate(Repos)
            \/ UNCHANGED <<versions, rollout, row>>
<1> DEFINE n == admin[a].to
<1>1. n \in 2..MaxVersions /\ rollout \in [2..MaxVersions -> Rollout]
      /\ versions[rollout[n].from] \in 1..MaxVersions
  <2>1. admin[a].step = "rollback"
    BY DEF RollBack
  <2>2. n \in 2..MaxVersions /\ rollout[n].from \in 1..(n - 1) /\ n <= Latest
    BY <2>1, OperationKinds DEF Inv, TypeOK, RolloutInv
  <2> HIDE DEF n
  <2>3. versions \in Seq(1..MaxVersions) /\ Len(versions) \in Nat
    BY EffectivePolicyAssumption DEF Inv, TypeOK, MaxVersions
  <2>4. rollout[n].from \in 1..Len(versions)
    BY <2>2, <2>3, EffectivePolicyAssumption DEF Latest, MaxVersions
  <2> QED BY <2>2, <2>3, <2>4, ElementOfSeq DEF Inv, TypeOK
<1>2. \/ /\ versions' = Append(versions, versions[rollout[n].from]) /\ Latest < MaxVersions
         /\ rollout' = [rollout EXCEPT ![n].state = "rolled_back"]
         /\ Invalidate(Repos)
      \/ UNCHANGED <<versions, rollout, row>>
  BY DEF RollBack
<1> HIDE DEF n
<1>3. CASE UNCHANGED <<versions, rollout, row>>
  <2>1. VersionFor(r)' = VersionFor(r)
    BY <1>3 DEF VersionFor, Latest
  <2> QED BY <1>3, <2>1, VersionForBounds
<1>4. CASE /\ versions' = Append(versions, versions[rollout[n].from]) /\ Latest < MaxVersions
           /\ rollout' = [rollout EXCEPT ![n].state = "rolled_back"]
           /\ Invalidate(Repos)
  <2>1. Latest' = Latest + 1 /\ Latest \in Nat /\ Latest + 1 \in 2..MaxVersions
    BY <1>1, <1>4, Appended DEF Inv
  <2>2. rollout[Latest + 1].state = "none"
    BY <1>1, <2>1 DEF Inv, RolloutInv
  <2>3. rollout'[Latest + 1].state \in {"none", "rolled_back"}
    BY <1>1, <1>4, <2>1, <2>2 DEF Rollout
  <2>4. VersionFor(r)' = Latest + 1
    BY <2>1, <2>3 DEF VersionFor, InProgress
  <2> QED BY <1>4, <2>1, <2>4, VersionForBounds
<1> QED BY <1>2, <1>3, <1>4

\* What a stage that is stored does to the rollout that is advanced.
LEMMA AdvanceVersions ==
  ASSUME Inv, AdvanceInv, NEW a \in Admins, Advance(a)
  PROVE  /\ \A r \in Repos : VersionFor(r)' >= VersionFor(r)
         /\ \E S : /\ Invalidate(S)
                   /\ \A r \in known \ S : VersionFor(r)' = VersionFor(r)
<1> DEFINE n == admin[a].to
           old == rollout[n].enrolled
           staged == IF admin[a].stage > Len(Stages) THEN old
                       ELSE old \cup (Stages[admin[a].stage] \cap known)
           finished == \/ admin[a].stage > Len(Stages)
                       \/ admin[a].stage = Len(Stages) /\ known \subseteq staged
           enrolled == IF finished THEN staged \cup known ELSE staged
           clash == /\ ~finished
                    /\ \E m \in DOMAIN rollout \ {n} : rollout[m].state \in InProgress
<1>1. /\ n \in 2..MaxVersions /\ rollout \in [2..MaxVersions -> Rollout]
      /\ rollout[n].state \in InProgress /\ versions' = versions
      /\ DOMAIN rollout = 2..MaxVersions
  BY OperationKinds DEF Advance, AdvanceInv, Inv, TypeOK
<1>2. CASE clash
  <2>1. rollout' = rollout /\ row' = row
    BY <1>2 DEF Advance
  <2>2. \A r \in Repos : VersionFor(r)' = VersionFor(r)
    BY <1>1, <2>1 DEF VersionFor, Latest
  <2>3. Invalidate({})
    BY <2>1, SameRows DEF Inv, TypeOK
  <2>4. known \subseteq Repos
    BY DEF Inv, TypeOK
  <2> QED BY <2>2, <2>3, <2>4, VersionForBounds
<1>3. CASE ~clash
  <2>1. /\ rollout' = [rollout EXCEPT
              ![n].state = IF finished THEN "active" ELSE "rollout",
              ![n].stage = IF admin[a].stage > Len(Stages) THEN Len(Stages) ELSE admin[a].stage,
              ![n].enrolled = enrolled]
        /\ Invalidate(enrolled \ old)
    BY <1>3 DEF Advance
  <2>2. old \subseteq enrolled /\ (finished => known \subseteq enrolled)
    OBVIOUS
  <2> HIDE DEF n, old, staged, finished, enrolled, clash
  <2>3. /\ \A m \in (2..MaxVersions) \ {n} : rollout'[m] = rollout[m]
        /\ rollout'[n].state = (IF finished THEN "active" ELSE "rollout")
        /\ rollout'[n].enrolled = enrolled /\ rollout'[n].from = rollout[n].from
        /\ DOMAIN rollout' = 2..MaxVersions
    BY <1>1, <2>1 DEF Rollout
  <2>4. CASE Latest # n
    <3>1. ASSUME NEW r \in Repos
          PROVE  VersionFor(r)' = VersionFor(r)
      BY <1>1, <2>3, <2>4, SameVersions
    <3>2. known \subseteq Repos
      BY DEF Inv, TypeOK
    <3> QED BY <2>1, <3>1, <3>2, VersionForBounds
  <2>5. CASE Latest = n
    <3>1. Latest' = n
      BY <1>1, <2>5 DEF Latest
    <3>2. ASSUME NEW r \in Repos
          PROVE  /\ VersionFor(r)' \in {VersionFor(r), Latest}
                 /\ r \in old => VersionFor(r)' = VersionFor(r)
                 /\ r \notin enrolled /\ ~finished => VersionFor(r)' = VersionFor(r)
      <4>1. VersionFor(r) = IF r \in old THEN n ELSE rollout[n].from
        BY <1>1, <2>5 DEF VersionFor, old
      <4>2. VersionFor(r)' = IF ~finished /\ r \notin enrolled THEN rollout[n].from ELSE n
        BY <1>1, <2>3, <3>1 DEF VersionFor, InProgress
      <4> QED BY <2>2, <2>5, <4>1, <4>2
    <3>3. \A r \in Repos : VersionFor(r)' >= VersionFor(r)
      BY <3>2, VersionForBounds
    <3>4. \A r \in known \ (enrolled \ old) : VersionFor(r)' = VersionFor(r)
      <4>1. known \subseteq Repos
        BY DEF Inv, TypeOK
      <4> QED BY <2>2, <3>2, <4>1
    <3> QED BY <2>1, <3>3, <3>4
  <2> QED BY <2>4, <2>5
<1> QED BY <1>2, <1>3

\* What one operation of an administrator does to the others and to their rollouts.
LEMMA OperationFrame ==
  ASSUME Inv, NEW a \in Admins, Advance(a) \/ RollBack(a)
  PROVE  /\ admin' = [admin EXCEPT ![a] = Idle] /\ admin[a] # Idle
         /\ \A m \in DOMAIN rollout : m # admin[a].to => rollout'[m] = rollout[m]
<1>1. admin' = [admin EXCEPT ![a] = Idle] /\ admin[a] # Idle
  <2>1. admin' = [admin EXCEPT ![a] = Idle]
    BY DEF Advance, RollBack
  <2>2. admin[a].step = "advance" \/ admin[a].step = "rollback"
    BY DEF Advance, RollBack
  <2>3. Idle.step = "idle"
    BY DEF Idle
  <2> QED BY <2>1, <2>2, <2>3
<1>2. admin[a].to \in 2..MaxVersions /\ rollout \in [2..MaxVersions -> Rollout]
  BY <1>1, OperationKinds DEF Inv, TypeOK
<1>3. \/ rollout' = rollout
      \/ \E R : rollout' = [rollout EXCEPT ![admin[a].to] = R]
  <2>1. CASE Advance(a)
    BY <2>1 DEF Advance
  <2>2. CASE RollBack(a)
    BY <2>2 DEF RollBack
  <2> QED BY <2>1, <2>2
<1> QED BY <1>1, <1>2, <1>3

\* A rollout that is read to be advanced stays in progress, as long as operations on one
\* rollout do not overlap.
LEMMA AdvanceStep == Inv /\ AdvanceInv /\ RolloutsSerial /\ [AnyStep]_vars => AdvanceInv'
<1> SUFFICES ASSUME Inv, AdvanceInv, RolloutsSerial, [AnyStep]_vars PROVE AdvanceInv'
  OBVIOUS
<1>1. /\ DOMAIN rollout = 2..MaxVersions /\ rollout \in [2..MaxVersions -> Rollout]
      /\ admin \in [Admins -> Operation]
  BY DEF Inv, TypeOK
<1>2. ASSUME admin' = admin,
             \A m \in 2..MaxVersions :
               rollout[m].state \in InProgress => rollout'[m].state \in InProgress
      PROVE  AdvanceInv'
  BY <1>1, <1>2, OperationKinds DEF AdvanceInv, Inv, InProgress
<1>3. ASSUME NEW staged \in BOOLEAN, Publish(staged)
      PROVE  AdvanceInv'
  <2>1. /\ admin' = admin
        /\ \/ rollout' = rollout
           \/ \E R : rollout' = [rollout EXCEPT ![Latest + 1] = R]
    BY <1>3 DEF Publish
  <2>2. Latest + 1 \in 2..MaxVersions => rollout[Latest + 1].state \notin InProgress
    <3>1. Latest \in Nat
      BY VersionForBounds, EffectivePolicyAssumption DEF Inv, TypeOK, Latest
    <3> QED BY <1>1, <3>1 DEF Inv, RolloutInv, InProgress
  <2> QED BY <1>1, <1>2, <2>1, <2>2
<1>4. ASSUME NEW n \in DOMAIN rollout, Pause(n) \/ Resume(n)
      PROVE  AdvanceInv'
  <2>1. admin' = admin
    BY <1>4 DEF Pause, Resume
  <2>2. PICK s \in InProgress, t \in {"none", "pilot", "rollout"} :
          rollout' = [rollout EXCEPT ![n].state = s, ![n].resumeTo = t]
    BY <1>1, <1>4 DEF Pause, Resume, PauseRow, InProgress, Rollout
  <2>3. rollout'[n].state = s
    BY <1>1, <1>4, <2>2 DEF Rollout
  <2> QED BY <1>1, <1>2, <2>1, <2>2, <2>3
<1>5. ASSUME NEW n \in DOMAIN rollout, NEW a \in Admins,
             ReadAdvance(a, n) \/ Halt(a, n) \/ ReadRollback(a, n)
      PROVE  AdvanceInv'
  <2>1. CASE ReadAdvance(a, n)
    <3>1. /\ rollout' = rollout /\ rollout[n].state \in InProgress
          /\ admin' = [admin EXCEPT ![a] =
               [step |-> "advance", to |-> n, stage |-> rollout[n].stage + 1]]
      BY <2>1 DEF ReadAdvance, InProgress
    <3> QED BY <1>1, <3>1 DEF AdvanceInv, InProgress
  <2>2. CASE Halt(a, n)
    <3>1. /\ rollout' = [rollout EXCEPT ![n].state = "paused", ![n].resumeTo = rollout[n].state]
          /\ admin' = [admin EXCEPT ![a] = [step |-> "halted", to |-> n]]
      BY <2>2 DEF Halt, PauseRow
    <3>2. rollout'[n].state = "paused" /\ \A m \in (2..MaxVersions) \ {n} : rollout'[m] = rollout[m]
      BY <1>1, <1>5, <3>1 DEF Rollout
    <3>3. ASSUME NEW b \in Admins, admin'[b].step = "advance"
          PROVE  rollout'[admin'[b].to].state \in InProgress
      <4>1. admin'[b] = admin[b]
        BY <1>1, <3>1, <3>3
      <4> QED BY <1>1, <3>2, <3>3, <4>1, OperationKinds DEF AdvanceInv, InProgress, Inv
    <3> QED BY <3>3 DEF AdvanceInv, InProgress
  <2>3. CASE ReadRollback(a, n)
    <3>1. /\ rollout' = rollout
          /\ admin' = [admin EXCEPT ![a] =
               [step |-> "rollback", to |-> n, expected |-> Latest]]
      BY <2>3 DEF ReadRollback
    <3> QED BY <1>1, <3>1 DEF AdvanceInv, InProgress
  <2> QED BY <1>5, <2>1, <2>2, <2>3
<1>6. ASSUME NEW a \in Admins, Advance(a) \/ RollBack(a)
      PROVE  AdvanceInv'
  <2>1. ASSUME NEW b \in Admins, admin'[b].step = "advance"
        PROVE  rollout'[admin'[b].to].state \in InProgress
    <3>1. b # a /\ admin'[b] = admin[b]
      BY <1>1, <1>6, <2>1, OperationFrame DEF Idle
    <3>2. admin[b] # Idle /\ admin[b].to # admin[a].to /\ admin[b].to \in DOMAIN rollout
      BY <1>6, <2>1, <3>1, OperationKinds, OperationFrame DEF RolloutsSerial, Inv
    <3> QED BY <1>6, <2>1, <3>1, <3>2, OperationFrame DEF AdvanceInv, InProgress
  <2> QED BY <2>1 DEF AdvanceInv, InProgress
<1>7. CASE UNCHANGED <<rollout, admin>>
  BY <1>7 DEF AdvanceInv, InProgress
<1>8. ASSUME \/ PublishGroupPolicy \/ Archive
             \/ \E r \in Repos :
                  \/ AddMember(r) \/ RemoveMember(r)
                  \/ Join(r) \/ Leave(r) \/ Discover(r) \/ Scan(r)
                  \/ \E m \in Mode : SetMode(r, m)
             \/ \E e \in Exceptions :
                  \/ \E approved \in BOOLEAN : Request(e, approved)
                  \/ Approve(e) \/ EndException(e) \/ Lapse(e) \/ ExpireDue(e)
             \/ (\E m \in Mode : SaveSettings(m))
             \/ SaveRules \/ Propagate \/ Crash
      PROVE  UNCHANGED <<versions, rollout, admin>>
  BY <1>8 DEF PublishGroupPolicy, Archive, AddMember, RemoveMember, Join, Leave, Discover, Scan,
     SetMode, Request, Approve, EndException, Lapse, ExpireDue, ExceptionOnly, SaveSettings,
     SaveRules, Propagate, StartPropagation, Sync, Resolved, ResolutionFails, Crash, governance
<1>9. CASE AnyStep
  BY <1>3, <1>4, <1>5, <1>6, <1>7, <1>8, <1>9 DEF AnyStep, OtherStep, Publishes, Leaves
<1>10. CASE UNCHANGED vars
  BY <1>7, <1>10 DEF vars, governance
<1> QED BY <1>9, <1>10

-----------------------------------------------------------------------------
(* Rows of repositories that are known, and the one version there is when  *)
(* nothing is published.                                                   *)

\* A change marks rows and leaves the propagation job alone.
LEMMA ChangeMarks ==
  ASSUME Inv,
         \/ \E staged \in BOOLEAN : Publish(staged)
         \/ \E n \in DOMAIN rollout :
              \/ Pause(n) \/ Resume(n)
              \/ \E a \in Admins : ReadAdvance(a, n) \/ Halt(a, n) \/ ReadRollback(a, n)
         \/ \E a \in Admins : Advance(a) \/ RollBack(a)
         \/ PublishGroupPolicy \/ Archive
         \/ \E r \in Repos :
              \/ AddMember(r) \/ RemoveMember(r)
              \/ Join(r) \/ Leave(r) \/ Discover(r)
              \/ \E m \in Mode : SetMode(r, m)
         \/ \E e \in Exceptions :
              \/ \E approved \in BOOLEAN : Request(e, approved)
              \/ Approve(e) \/ EndException(e) \/ Lapse(e) \/ ExpireDue(e)
         \/ \E m \in Mode : SaveSettings(m)
         \/ SaveRules
  PROVE  job' = job /\ \E S : Invalidate(S)
<1>1. row' = row => Invalidate({})
  BY SameRows DEF Inv, TypeOK
<1>2. ASSUME Change
      PROVE  job' = job
  BY <1>2 DEF Change
<1>3. ASSUME NEW staged \in BOOLEAN, Publish(staged)
      PROVE  job' = job /\ \E S : Invalidate(S)
  BY <1>2, <1>3 DEF Publish
<1>4. ASSUME NEW n \in DOMAIN rollout, Pause(n) \/ Resume(n)
      PROVE  job' = job /\ row' = row
  BY <1>2, <1>4 DEF Pause, Resume, PauseRow
<1>5. ASSUME NEW n \in DOMAIN rollout, NEW a \in Admins,
             ReadAdvance(a, n) \/ Halt(a, n) \/ ReadRollback(a, n)
      PROVE  job' = job /\ row' = row
  BY <1>2, <1>5 DEF ReadAdvance, Halt, ReadRollback, PauseRow
<1>6. ASSUME NEW a \in Admins, Advance(a)
      PROVE  job' = job /\ \E S : Invalidate(S)
  BY <1>1, <1>6 DEF Advance
<1>7. ASSUME NEW a \in Admins, RollBack(a)
      PROVE  job' = job /\ \E S : Invalidate(S)
  BY <1>1, <1>7 DEF RollBack
<1>8. ASSUME PublishGroupPolicy \/ Archive
      PROVE  job' = job /\ \E S : Invalidate(S)
  BY <1>2, <1>8 DEF PublishGroupPolicy, Archive
<1>9. ASSUME NEW r \in Repos,
             \/ AddMember(r) \/ RemoveMember(r) \/ Discover(r)
             \/ \E m \in Mode : SetMode(r, m)
      PROVE  job' = job /\ \E S : Invalidate(S)
  BY <1>1, <1>2, <1>9 DEF AddMember, RemoveMember, Discover, SetMode
<1>10. ASSUME NEW r \in Repos, Join(r) \/ Leave(r)
       PROVE  job' = job /\ row' = row
  BY <1>2, <1>10 DEF Join, Leave
<1>11. ASSUME NEW e \in Exceptions,
              \/ \E approved \in BOOLEAN : Request(e, approved)
              \/ Approve(e) \/ EndException(e) \/ Lapse(e) \/ ExpireDue(e)
       PROVE  job' = job /\ \E S : Invalidate(S)
  BY <1>1, <1>2, <1>11 DEF Request, Approve, EndException, Lapse, ExpireDue, ExceptionOnly
<1>12. ASSUME SaveRules \/ \E m \in Mode : SaveSettings(m)
       PROVE  job' = job /\ \E S : Invalidate(S)
  BY <1>2, <1>12 DEF SaveRules, SaveSettings
<1> QED BY <1>1, <1>3, <1>4, <1>5, <1>6, <1>7, <1>8, <1>9, <1>10, <1>11, <1>12

\* No other step takes a repository away.
LEMMA OnlyLeaving ==
  ASSUME Publishes \/ OtherStep
  PROVE  known \subseteq known'
<1>1. ASSUME NEW r \in Repos, Join(r)
      PROVE  known \subseteq known'
  BY <1>1 DEF Join
<1>2. ASSUME \/ Publishes
             \/ OtherStep /\ \A r \in Repos : ~Join(r)
      PROVE  known' = known
  BY <1>2
  DEF OtherStep, Publishes, Publish, Pause, Resume, PauseRow, ReadAdvance, Halt, ReadRollback,
      Advance, RollBack, PublishGroupPolicy, Archive, AddMember, RemoveMember, Discover, Scan,
      SetMode, Request, Approve, EndException, Lapse, ExpireDue, ExceptionOnly, SaveSettings,
      SaveRules, Propagate, StartPropagation, Sync, Resolved, ResolutionFails, Crash, governance
<1> QED BY <1>1, <1>2

\* Only repositories of the organization are scanned or selected.
LEMMA StepKnown == Inv /\ KnownRows /\ [Publishes \/ OtherStep]_vars => KnownRows'
<1> SUFFICES ASSUME Inv, KnownRows, [Publishes \/ OtherStep]_vars
             PROVE  /\ \A r \in Repos : row'[r].state # "none" => r \in known'
                    /\ job'.work \subseteq known'
                    /\ job'.current \in known' \cup {NoRepo}
  BY DEF KnownRows
<1>1. /\ \A r \in Repos : row[r].state # "none" => r \in known
      /\ job.work \subseteq known /\ job.current \in known \cup {NoRepo}
      /\ known \subseteq Repos /\ row \in [Repos -> Row]
      /\ job \in [work: SUBSET Repos, current: Repos \cup {NoRepo}]
  BY DEF KnownRows, Inv, TypeOK
<1>2. ASSUME NEW S, Invalidate(S), job' = job, known \subseteq known'
      PROVE  /\ \A r \in Repos : row'[r].state # "none" => r \in known'
             /\ job'.work \subseteq known'
             /\ job'.current \in known' \cup {NoRepo}
  BY <1>1, <1>2, Invalidated
<1>3. ASSUME NEW r \in known, StoreResolution(r), known' = known,
             job' = job \/ job' = [job EXCEPT !.current = NoRepo]
      PROVE  /\ \A s \in Repos : row'[s].state # "none" => s \in known'
             /\ job'.work \subseteq known'
             /\ job'.current \in known' \cup {NoRepo}
  <2>1. \A s \in Repos \ {r} : row'[s] = row[s]
    BY <1>1, <1>3, StoredRow DEF Inv
  <2> QED BY <1>1, <1>3, <2>1
<1>4. CASE \E r \in Repos : Scan(r)
  BY <1>3, <1>4 DEF Scan, governance
<1>5. CASE Resolved
  <2>1. job.current \in known
    BY <1>1, <1>5 DEF Resolved
  <2> QED BY <1>3, <1>5, <2>1 DEF Resolved, governance
<1>6. CASE StartPropagation \/ Crash
  <2>1. row' = row /\ known' = known
    BY <1>6 DEF StartPropagation, Crash, governance
  <2>2. Selected \subseteq known
    BY <1>1 DEF Selected
  <2>3. job'.work \subseteq known /\ job'.current \in known \cup {NoRepo}
    BY <1>1, <1>6, <2>2 DEF StartPropagation, Crash
  <2> QED BY <1>1, <2>1, <2>3
<1>7. ASSUME NEW r \in known, \A s \in Repos \ {r} : row'[s] = row[s], known' = known,
             job'.work \subseteq job.work, job'.current \in {r, NoRepo}
      PROVE  /\ \A s \in Repos : row'[s].state # "none" => s \in known'
             /\ job'.work \subseteq known'
             /\ job'.current \in known' \cup {NoRepo}
  BY <1>1, <1>7
<1>8. ASSUME NEW r \in Repos, Sync(r)
      PROVE  /\ \A s \in Repos : row'[s].state # "none" => s \in known'
             /\ job'.work \subseteq known'
             /\ job'.current \in known' \cup {NoRepo}
  <2>1. r \in known /\ known' = known /\ job' = [work |-> job.work \ {r}, current |-> r]
    BY <1>1, <1>8 DEF Sync, governance
  <2>2. \A s \in Repos \ {r} : row'[s] = row[s]
    BY <1>1, <1>8 DEF Sync
  <2> QED BY <1>7, <2>1, <2>2
<1>9. CASE ResolutionFails
  <2>1. /\ job.current \in known /\ known' = known
        /\ job' = [job EXCEPT !.current = NoRepo]
    BY <1>1, <1>9 DEF ResolutionFails, governance
  <2>2. \A s \in Repos \ {job.current} : row'[s] = row[s]
    BY <1>1, <1>9 DEF ResolutionFails
  <2>3. job'.work = job.work /\ job'.current = NoRepo
    BY <1>1, <2>1
  <2> QED BY <1>7, <2>1, <2>2, <2>3
<1>10. CASE UNCHANGED vars
  BY <1>1, <1>10 DEF vars, governance
<1>11. CASE Publishes \/ OtherStep
  <2>1. CASE \/ Propagate \/ Crash
             \/ \E r \in Repos : Scan(r)
    BY <1>4, <1>5, <1>6, <1>8, <1>9, <2>1 DEF Propagate
  <2>2. CASE ~(\/ Propagate \/ Crash
               \/ \E r \in Repos : Scan(r))
    <3>1. job' = job /\ \E S : Invalidate(S)
      BY <1>11, <2>2, ChangeMarks DEF Publishes, OtherStep
    <3>2. known \subseteq known'
      BY <1>11, OnlyLeaving
    <3> QED BY <1>2, <3>1, <3>2
  <2> QED BY <2>1, <2>2
<1> QED BY <1>10, <1>11

\* What leaves the versions and their rollouts alone.
LEMMA OtherVersions ==
  ASSUME \/ \E n \in DOMAIN rollout, a \in Admins : ReadAdvance(a, n) \/ ReadRollback(a, n)
         \/ PublishGroupPolicy \/ Archive
         \/ \E r \in Repos :
              \/ AddMember(r) \/ RemoveMember(r)
              \/ Join(r) \/ Leave(r) \/ Discover(r) \/ Scan(r)
              \/ \E m \in Mode : SetMode(r, m)
         \/ \E e \in Exceptions :
              \/ \E approved \in BOOLEAN : Request(e, approved)
              \/ Approve(e) \/ EndException(e) \/ Lapse(e) \/ ExpireDue(e)
         \/ \E m \in Mode : SaveSettings(m)
         \/ SaveRules \/ Propagate \/ Crash
  PROVE  UNCHANGED <<versions, rollout>>
BY DEF ReadAdvance, ReadRollback, PublishGroupPolicy, Archive, AddMember, RemoveMember, Join,
   Leave, Discover, Scan, SetMode, Request, Approve, EndException, Lapse, ExpireDue, ExceptionOnly,
   SaveSettings, SaveRules, Propagate, StartPropagation, Sync, Resolved, ResolutionFails, Crash,
   governance

\* Without publications no rollout starts, and none is operated on.
LEMMA StepOneVersion == Inv /\ OneVersion /\ [Leaves \/ OtherStep]_vars => OneVersion'
<1> SUFFICES ASSUME Inv, OneVersion, [Leaves \/ OtherStep]_vars
             PROVE  UNCHANGED <<versions, rollout>>
  BY DEF OneVersion
<1>1. \A n \in DOMAIN rollout : rollout[n].state = "none"
  BY DEF OneVersion
<1>3. \A n \in DOMAIN rollout : ~Pause(n) /\ ~Resume(n) /\ \A a \in Admins : ~Halt(a, n)
  BY <1>1 DEF Pause, Resume, Halt, PauseRow
<1>4. ASSUME NEW a \in Admins PROVE ~Advance(a) /\ ~RollBack(a)
  <2>1. Advance(a) \/ RollBack(a) => admin[a] # Idle /\ admin[a].to \in DOMAIN rollout
    BY OperationFrame, OperationKinds DEF Inv
  <2> QED BY <1>1, <2>1 DEF Inv, RolloutInv
<1>5. CASE UNCHANGED vars
  BY <1>5 DEF vars, governance
<1>6. CASE Leaves \/ OtherStep
  BY <1>3, <1>4, <1>6, OtherVersions DEF Leaves, OtherStep
<1> QED BY <1>5, <1>6

-----------------------------------------------------------------------------
(* The version a usable row was resolved for is the one its repository     *)
(* gets.                                                                   *)

\* A step that leaves alone the version of every usable row it does not invalidate.
LEMMA VersionKept ==
  ASSUME Inv, VersionCurrent, NEW S, Invalidate(S),
         \A e \in Exceptions : exception[e].past => exception'[e].past,
         \A r \in Repos \ S : Usable(r) => VersionFor(r)' = VersionFor(r)
  PROVE  VersionCurrent'
<1>1. ASSUME NEW r \in Repos, Usable(r)'
      PROVE  row'[r].resolved.organization = VersionFor(r)'
  <2>1. r \notin S /\ row'[r] = row[r] /\ Usable(r)
    BY <1>1, UsableBefore
  <2> QED BY <2>1 DEF VersionCurrent
<1> QED BY <1>1 DEF VersionCurrent

\* Time goes on: what has expired stays so.
LEMMA PastStays ==
  ASSUME Inv, AnyStep
  PROVE  \A e \in Exceptions : exception[e].past => exception'[e].past
<1>1. exception \in [Exceptions ->
         [status: {"none", "requested", "active", "ended"}, past: BOOLEAN]]
  BY DEF Inv, TypeOK
<1>2. ASSUME NEW e \in Exceptions,
             \/ \E status : SetException(e, status)
             \/ exception' = [exception EXCEPT ![e].past = TRUE]
      PROVE  \A f \in Exceptions : exception[f].past => exception'[f].past
  BY <1>1, <1>2 DEF SetException
<1>3. ASSUME NEW e \in Exceptions,
             \/ \E approved \in BOOLEAN : Request(e, approved)
             \/ Approve(e) \/ EndException(e) \/ Lapse(e) \/ ExpireDue(e)
      PROVE  \A f \in Exceptions : exception[f].past => exception'[f].past
  BY <1>2, <1>3 DEF Request, Approve, EndException, Lapse, ExpireDue
<1>4. CASE Archive
  <2>1. ASSUME NEW e \in Exceptions
        PROVE  exception'[e] = exception[e] \/ exception'[e] = [exception[e] EXCEPT !.status = "ended"]
    BY <1>4 DEF Archive
  <2> QED BY <1>1, <2>1
<1>5. CASE UNCHANGED exception
  BY <1>5
<1>6. ASSUME \/ \E staged \in BOOLEAN : Publish(staged)
             \/ \E n \in DOMAIN rollout :
                  \/ Pause(n) \/ Resume(n)
                  \/ \E a \in Admins : ReadAdvance(a, n) \/ Halt(a, n) \/ ReadRollback(a, n)
             \/ \E a \in Admins : Advance(a) \/ RollBack(a)
             \/ PublishGroupPolicy
             \/ \E r \in Repos :
                  \/ AddMember(r) \/ RemoveMember(r)
                  \/ Join(r) \/ Leave(r) \/ Discover(r) \/ Scan(r)
                  \/ \E m \in Mode : SetMode(r, m)
             \/ \E m \in Mode : SaveSettings(m)
             \/ SaveRules \/ Propagate \/ Crash
      PROVE  UNCHANGED exception
  BY <1>6 DEF Publish, Pause, Resume, PauseRow, ReadAdvance, Halt, ReadRollback, Advance, RollBack,
     PublishGroupPolicy, AddMember, RemoveMember, Join, Leave, Discover, Scan, SetMode,
     SaveSettings, SaveRules, Propagate, StartPropagation, Sync, Resolved, ResolutionFails, Crash,
     governance
<1> QED BY <1>3, <1>4, <1>5, <1>6 DEF AnyStep, OtherStep, Publishes, Leaves

\* Steps about other things.
LEMMA OtherVersionCurrent ==
  ASSUME Inv, VersionCurrent, UNCHANGED <<versions, rollout>>, NEW S, Invalidate(S),
         \A e \in Exceptions : exception[e].past => exception'[e].past
  PROVE  VersionCurrent'
<1>1. \A r \in Repos : VersionFor(r)' = VersionFor(r)
  BY DEF VersionFor, Latest
<1> QED BY <1>1, VersionKept

\* A resolution is for the version of now, and the propagation job leaves other rows alone.
LEMMA ResolvedVersion ==
  ASSUME Inv, VersionCurrent, Propagate \/ Crash \/ \E r \in Repos : Scan(r)
  PROVE  VersionCurrent'
<1>1. ASSUME UNCHANGED governance
      PROVE  \A r \in Repos : VersionFor(r)' = VersionFor(r) /\ exception' = exception
  BY <1>1 DEF VersionFor, Latest, governance
<1>2. ASSUME NEW r \in Repos, StoreResolution(r), UNCHANGED governance
      PROVE  VersionCurrent'
  <2>1. row'[r].resolved = Resolve(r) /\ \A s \in Repos \ {r} : row'[s] = row[s]
    BY <1>2, StoredRow DEF Inv
  <2>2. Resolve(r).organization = VersionFor(r)
    BY DEF Resolve
  <2>3. \A s \in Repos \ {r} : Usable(s)' => Usable(s)
    BY <1>1, <1>2, <2>1 DEF Usable
  <2> QED BY <1>1, <1>2, <2>1, <2>2, <2>3 DEF VersionCurrent
<1>3. CASE \E r \in Repos : Scan(r)
  BY <1>2, <1>3 DEF Scan
<1>4. CASE Resolved
  <2>1. job.current \in Repos
    BY <1>4 DEF Resolved, Inv, TypeOK
  <2> QED BY <1>2, <1>4, <2>1 DEF Resolved
<1>5. CASE StartPropagation \/ (\E r \in Repos : Sync(r)) \/ ResolutionFails \/ Crash
  <2>1. /\ UNCHANGED governance
        /\ \A r \in Repos : row'[r].state = "up_to_date" => row'[r] = row[r]
    BY <1>5, JobRows
  <2>2. \A r \in Repos : Usable(r)' => Usable(r) /\ row'[r] = row[r]
    BY <1>1, <2>1 DEF Usable
  <2> QED BY <1>1, <2>1, <2>2 DEF VersionCurrent
<1> QED BY <1>3, <1>4, <1>5 DEF Propagate

\* An advance invalidates every repository it enrolls, and one that completes the rollout
\* enrolls every repository that is known.
LEMMA AdvanceVersion ==
  ASSUME Inv, AdvanceInv, KnownRows \/ OneVersion, VersionCurrent, NEW a \in Admins, Advance(a)
  PROVE  VersionCurrent'
<1>1. exception' = exception
  BY DEF Advance
<1>2. CASE OneVersion
  <2>1. admin[a] # Idle /\ admin[a].to \in DOMAIN rollout
    BY OperationFrame, OperationKinds DEF Inv
  <2> QED BY <1>2, <2>1 DEF OneVersion, Inv, RolloutInv
<1>3. CASE KnownRows
  <2>1. PICK S : /\ Invalidate(S)
                 /\ \A r \in known \ S : VersionFor(r)' = VersionFor(r)
    BY AdvanceVersions
  <2>2. \A r \in Repos : Usable(r) => r \in known
    BY <1>3 DEF Usable, KnownRows
  <2> QED BY <1>1, <2>1, <2>2, VersionKept
<1> QED BY <1>2, <1>3

\* A step of the program.
LEMMA StepVersion ==
  ASSUME Inv, AdvanceInv, KnownRows \/ OneVersion, VersionCurrent, [AnyStep]_vars
  PROVE  VersionCurrent'
<1>1. row' = row => Invalidate({})
  BY SameRows DEF Inv, TypeOK
<1>2. ASSUME NEW staged \in BOOLEAN, Publish(staged)
      PROVE  VersionCurrent'
  <2>1. Invalidate(Repos) /\ exception' = exception
    BY <1>2 DEF Publish
  <2> QED BY <2>1, VersionKept
<1>3. ASSUME NEW n \in DOMAIN rollout,
             Pause(n) \/ Resume(n) \/ \E a \in Admins : Halt(a, n)
      PROVE  VersionCurrent'
  <2>1. exception' = exception /\ row' = row
    BY <1>3 DEF Pause, Resume, Halt, PauseRow
  <2>2. \A r \in Repos : VersionFor(r)' = VersionFor(r)
    BY <1>3, PausedVersions
  <2> QED BY <1>1, <2>1, <2>2, VersionKept
<1>4. ASSUME NEW a \in Admins, RollBack(a)
      PROVE  VersionCurrent'
  <2>1. exception' = exception /\ (Invalidate(Repos) \/ UNCHANGED <<versions, rollout, row>>)
    BY <1>4 DEF RollBack
  <2> QED BY <1>1, <2>1, VersionKept, OtherVersionCurrent
<1>5. ASSUME \/ \E n \in DOMAIN rollout, a \in Admins : ReadAdvance(a, n) \/ ReadRollback(a, n)
             \/ PublishGroupPolicy \/ Archive
             \/ \E r \in Repos :
                  \/ AddMember(r) \/ RemoveMember(r)
                  \/ Join(r) \/ Leave(r) \/ Discover(r)
                  \/ \E m \in Mode : SetMode(r, m)
             \/ \E e \in Exceptions :
                  \/ \E approved \in BOOLEAN : Request(e, approved)
                  \/ Approve(e) \/ EndException(e) \/ Lapse(e) \/ ExpireDue(e)
             \/ \E m \in Mode : SaveSettings(m)
             \/ SaveRules
      PROVE  VersionCurrent'
  <2>1. UNCHANGED <<versions, rollout>>
    BY <1>5, OtherVersions
  <2>2. \E S : Invalidate(S)
    BY <1>5, ChangeMarks
  <2>3. AnyStep
    BY <1>5 DEF AnyStep, OtherStep, Publishes, Leaves
  <2>4. \A e \in Exceptions : exception[e].past => exception'[e].past
    BY <2>3, PastStays
  <2> QED BY <2>1, <2>2, <2>4, OtherVersionCurrent
<1>6. CASE UNCHANGED vars
  BY <1>6 DEF VersionCurrent, Usable, VersionFor, Latest, vars, governance
<1>7. CASE AnyStep
  BY <1>2, <1>3, <1>4, <1>5, <1>7, AdvanceVersion, ResolvedVersion DEF AnyStep, OtherStep, Publishes, Leaves
<1> QED BY <1>6, <1>7

-----------------------------------------------------------------------------
(* The two theorems about versions.                                        *)

\* The initial state.
LEMMA InitVersion ==
  Init => AdvanceInv /\ KnownRows /\ OneVersion /\ InputsCurrent /\ VersionCurrent
<1> SUFFICES ASSUME Init
             PROVE  AdvanceInv /\ KnownRows /\ OneVersion /\ InputsCurrent /\ VersionCurrent
  OBVIOUS
<1>1. AdvanceInv
  BY DEF Init, AdvanceInv, Idle
<1>2. KnownRows /\ OneVersion
  BY DEF Init, KnownRows, OneVersion, NoRollout
<1>3. InputsCurrent /\ VersionCurrent
  BY DEF Init, InputsCurrent, VersionCurrent, Usable
<1> QED BY <1>1, <1>2, <1>3

\* The inductive invariant of what follows.
LEMMA StepVersionInv ==
  (Inv /\ VersionInv) /\ RolloutsSerial /\ [Next]_vars => (Inv /\ VersionInv)'
BY NextSteps, StepInv, AdvanceStep, StepKnown, StepOneVersion DEF VersionInv, AnyStep

\* A usable row whose parts are all current is what would be resolved.
LEMMA CurrentRows == Inv /\ InputsCurrent /\ VersionCurrent => FreshWhenUpToDate
<1> SUFFICES ASSUME Inv, InputsCurrent, VersionCurrent, NEW r \in known, Usable(r)
             PROVE  row[r].resolved = Resolve(r)
  BY DEF FreshWhenUpToDate
<1>1. r \in Repos /\ row[r] \in Row /\ row[r].state = "up_to_date"
  BY DEF Inv, TypeOK, Usable
<1>2. row[r].resolved \in Resolution
  BY <1>1, RowKinds
<1>3. Resolve(r) \in Resolution
  BY <1>1, ResolutionType DEF Inv
<1>4. /\ row[r].resolved.organization = VersionFor(r)
      /\ row[r].resolved.group = (IF InGroup(r) THEN group.version ELSE 0)
      /\ row[r].resolved.grants = Grants(r)
      /\ row[r].resolved.mode = ModeOf(r)
      /\ row[r].resolved.settings = settings.version
      /\ row[r].resolved.rules = rules
  BY <1>1 DEF InputsCurrent, VersionCurrent
<1>5. row[r].resolved =
        [organization |-> row[r].resolved.organization, group |-> row[r].resolved.group,
         grants |-> row[r].resolved.grants, mode |-> row[r].resolved.mode,
         settings |-> row[r].resolved.settings, rules |-> row[r].resolved.rules]
  BY <1>2 DEF Resolution
<1> QED BY <1>4, <1>5 DEF Resolve

\* "A row is never up_to_date for inputs that no longer apply" (governance/cache.py), the
\* version of the organization's policy included, where no two operations on one rollout
\* overlap, and no repository is purged while versions are published.
THEOREM FreshRows ==
  ASSUME RepositoriesStay
  PROVE  Spec /\ []RolloutsSerial => []FreshWhenUpToDate
<1> DEFINE Strong == (Inv /\ VersionInv) /\ InputsCurrent /\ VersionCurrent
<1>1. Init => Strong
  BY InitInv, InitVersion DEF VersionInv
<1>2. Strong /\ RolloutsSerial /\ [Next]_vars => Strong'
  BY NextSteps, StepVersionInv, StepAgrees, StepVersion DEF AnyStep, VersionInv, RepositoriesStay
<1>3. Strong => FreshWhenUpToDate
  BY CurrentRows
<1> HIDE DEF Strong
<1> QED BY <1>1, <1>2, <1>3, PTL DEF Spec

\* A step never gives a repository an older version than it had.
LEMMA StepVersions ==
  ASSUME Inv, AdvanceInv, [AnyStep]_vars
  PROVE  \A r \in Repos : VersionFor(r)' >= VersionFor(r)
<1> SUFFICES ASSUME NEW r \in Repos PROVE VersionFor(r)' >= VersionFor(r)
  OBVIOUS
<1>1. rollout \in [2..MaxVersions -> Rollout] /\ DOMAIN rollout = 2..MaxVersions
  BY DEF Inv, TypeOK
<1>2. ASSUME UNCHANGED <<versions, rollout>>
      PROVE  VersionFor(r)' >= VersionFor(r)
  <2>1. VersionFor(r)' = VersionFor(r)
    BY <1>2 DEF VersionFor, Latest
  <2> QED BY <2>1, VersionForBounds
<1>3. ASSUME NEW n \in DOMAIN rollout,
             Pause(n) \/ Resume(n) \/ \E a \in Admins : Halt(a, n)
      PROVE  VersionFor(r)' >= VersionFor(r)
  <2>1. VersionFor(r)' = VersionFor(r)
    BY <1>3, PausedVersions
  <2> QED BY <2>1, VersionForBounds
<1>4. CASE UNCHANGED vars
  BY <1>2, <1>4 DEF vars, governance
<1>5. CASE AnyStep
  BY <1>2, <1>3, <1>5, PublishVersions, RollBackVersions, AdvanceVersions, OtherVersions
  DEF AnyStep, OtherStep, Publishes, Leaves
<1> QED BY <1>4, <1>5

\* A rollout only adds repositories to the newer version of the policy, and a rollback
\* publishes a newer one (governance/rollouts.py): no repository falls back, where no two
\* operations on one rollout overlap.
THEOREM VersionsNeverFall == Spec /\ []RolloutsSerial => VersionsAdvance
<1>1. Init => Inv /\ VersionInv
  BY InitInv, InitVersion DEF VersionInv
<1>2. (Inv /\ VersionInv) /\ [Next]_vars => [\A r \in Repos : VersionFor(r)' >= VersionFor(r)]_vars
  BY NextSteps, StepVersions DEF VersionInv, AnyStep
<1> QED BY <1>1, <1>2, StepVersionInv, PTL DEF Spec, VersionsAdvance

-----------------------------------------------------------------------------
(* What the maintenance loops work on, by the lemmas of OperationsProofs    *)
(* and SimulationsProofs.                                                   *)

Shared == INSTANCE OperationsProofs WITH
  Budget <- 1, BatchSize <- 1, LeaseOutlived <- TRUE, MaxRetries <- 0,
  InitScope <- {}, ScopeShrinks <- FALSE

Retried == INSTANCE OperationsProofs WITH
  Loops <- OneLoop, Budget <- 2, BatchSize <- 1, LeaseOutlived <- FALSE,
  InitScope <- {}, ScopeShrinks <- FALSE

Overlapping == INSTANCE OperationsProofs WITH
  Repos <- Scheduled, InitScope <- Scheduled, ScopeShrinks <- FALSE, MaxRevisions <- 0,
  Budget <- 1, BatchSize <- 1, LeaseOutlived <- FALSE

Rescheduled == INSTANCE OperationsProofs WITH
  Repos <- Scheduled, InitScope <- LateScope, Loops <- OneLoop, ScopeShrinks <- FALSE,
  Budget <- 1, BatchSize <- 1, LeaseOutlived <- FALSE

Shrunk == INSTANCE OperationsProofs WITH
  Repos <- Scheduled, InitScope <- Scheduled, Loops <- OneLoop, ScopeShrinks <- TRUE,
  MaxRevisions <- 0, MaxOutages <- 0, Budget <- 1, BatchSize <- 1, LeaseOutlived <- FALSE

Simulating == INSTANCE SimulationsProofs WITH
  Runners <- Loops, Repos <- {1}, Groups <- {"g"}, ScanLimit <- 5, LeaseOutlived <- FALSE,
  MaxRecorded <- 1, MaxVersions <- 1, MaxCrashes <- 1, crashes <- deaths

LEMMA SharedNext == BulkShared!Next <=> Shared!Bulk!Next
BY Zenon
DEF BulkShared!Outcome, Shared!Bulk!Outcome, BulkShared!Idle, Shared!Bulk!Idle,
    BulkShared!Claimable, Shared!Bulk!Claimable, BulkShared!With, Shared!Bulk!With,
    BulkShared!Begin, Shared!Bulk!Begin, BulkShared!Create, Shared!Bulk!Create,
    BulkShared!ReadRequest, Shared!Bulk!ReadRequest, BulkShared!Cancel, Shared!Bulk!Cancel,
    BulkShared!Retry, Shared!Bulk!Retry, BulkShared!Claim, Shared!Bulk!Claim,
    BulkShared!Load, Shared!Bulk!Load, BulkShared!StoreItems, Shared!Bulk!StoreItems,
    BulkShared!NextBatch, Shared!Bulk!NextBatch,
    BulkShared!ApplyBatch, Shared!Bulk!ApplyBatch, BulkShared!BatchFails,
    Shared!Bulk!BatchFails, BulkShared!ApplyItem, Shared!Bulk!ApplyItem,
    BulkShared!StoreItem, Shared!Bulk!StoreItem, BulkShared!Summary, Shared!Bulk!Summary,
    BulkShared!CountItems, Shared!Bulk!CountItems, BulkShared!Finish, Shared!Bulk!Finish,
    BulkShared!Crash, Shared!Bulk!Crash, BulkShared!LeaseExpires, Shared!Bulk!LeaseExpires,
    BulkShared!Pass, Shared!Bulk!Pass, BulkShared!Next, Shared!Bulk!Next,
    BulkShared!Cardinality, Shared!Bulk!Cardinality

LEMMA SharedInit == BulkShared!Init <=> Shared!Bulk!Init
BY Zenon
DEF BulkShared!Init, Shared!Bulk!Init, BulkShared!Idle, Shared!Bulk!Idle

LEMMA RetriedNext == BulkRetried!Next <=> Retried!Bulk!Next
BY Zenon
DEF BulkRetried!Outcome, Retried!Bulk!Outcome, BulkRetried!Idle, Retried!Bulk!Idle,
    BulkRetried!Claimable, Retried!Bulk!Claimable, BulkRetried!With, Retried!Bulk!With,
    BulkRetried!Begin, Retried!Bulk!Begin, BulkRetried!Create, Retried!Bulk!Create,
    BulkRetried!ReadRequest, Retried!Bulk!ReadRequest, BulkRetried!Cancel,
    Retried!Bulk!Cancel, BulkRetried!Retry, Retried!Bulk!Retry, BulkRetried!Claim,
    Retried!Bulk!Claim, BulkRetried!Load, Retried!Bulk!Load, BulkRetried!StoreItems,
    Retried!Bulk!StoreItems, BulkRetried!NextBatch, Retried!Bulk!NextBatch,
    BulkRetried!ApplyBatch, Retried!Bulk!ApplyBatch,
    BulkRetried!BatchFails, Retried!Bulk!BatchFails, BulkRetried!ApplyItem,
    Retried!Bulk!ApplyItem, BulkRetried!StoreItem, Retried!Bulk!StoreItem,
    BulkRetried!Summary, Retried!Bulk!Summary, BulkRetried!CountItems,
    Retried!Bulk!CountItems, BulkRetried!Finish, Retried!Bulk!Finish, BulkRetried!Crash,
    Retried!Bulk!Crash, BulkRetried!LeaseExpires, Retried!Bulk!LeaseExpires,
    BulkRetried!Pass, Retried!Bulk!Pass, BulkRetried!Next, Retried!Bulk!Next,
    BulkRetried!Cardinality, Retried!Bulk!Cardinality

LEMMA RetriedInit == BulkRetried!Init <=> Retried!Bulk!Init
BY Zenon
DEF BulkRetried!Init, Retried!Bulk!Init, BulkRetried!Idle, Retried!Bulk!Idle

LEMMA OverlappingNext == TwoLoops!Next <=> Overlapping!Scheduled!Next
BY Zenon
DEF TwoLoops!Slots, Overlapping!Scheduled!Slots, TwoLoops!Idle, Overlapping!Scheduled!Idle,
    TwoLoops!Place, Overlapping!Scheduled!Place, TwoLoops!Begin,
    Overlapping!Scheduled!Begin, TwoLoops!Tick, Overlapping!Scheduled!Tick, TwoLoops!Join,
    Overlapping!Scheduled!Join, TwoLoops!Leave, Overlapping!Scheduled!Leave,
    TwoLoops!Update, Overlapping!Scheduled!Update, TwoLoops!ReadDue,
    Overlapping!Scheduled!ReadDue, TwoLoops!StartRun, Overlapping!Scheduled!StartRun,
    TwoLoops!Resume, Overlapping!Scheduled!Resume, TwoLoops!Finished,
    Overlapping!Scheduled!Finished, TwoLoops!Queue, Overlapping!Scheduled!Queue,
    TwoLoops!StoreRun, Overlapping!Scheduled!StoreRun, TwoLoops!Crash,
    Overlapping!Scheduled!Crash, TwoLoops!GoOn, Overlapping!Scheduled!GoOn, TwoLoops!Next,
    Overlapping!Scheduled!Next, TwoLoops!Cardinality, Overlapping!Scheduled!Cardinality

LEMMA OverlappingInit == TwoLoops!Init <=> Overlapping!Scheduled!Init
BY Zenon
DEF TwoLoops!Init, Overlapping!Scheduled!Init, TwoLoops!Slots, Overlapping!Scheduled!Slots,
    TwoLoops!Idle, Overlapping!Scheduled!Idle, TwoLoops!NoRun, Overlapping!Scheduled!NoRun

LEMMA RescheduledNext == Edited!Next <=> Rescheduled!Scheduled!Next
BY Zenon
DEF Edited!Slots, Rescheduled!Scheduled!Slots, Edited!Idle, Rescheduled!Scheduled!Idle,
    Edited!Place, Rescheduled!Scheduled!Place, Edited!Begin, Rescheduled!Scheduled!Begin,
    Edited!Tick, Rescheduled!Scheduled!Tick, Edited!Join, Rescheduled!Scheduled!Join,
    Edited!Leave, Rescheduled!Scheduled!Leave, Edited!Update, Rescheduled!Scheduled!Update,
    Edited!ReadDue, Rescheduled!Scheduled!ReadDue, Edited!StartRun,
    Rescheduled!Scheduled!StartRun, Edited!Resume, Rescheduled!Scheduled!Resume,
    Edited!Finished, Rescheduled!Scheduled!Finished, Edited!Queue,
    Rescheduled!Scheduled!Queue, Edited!StoreRun, Rescheduled!Scheduled!StoreRun,
    Edited!Crash, Rescheduled!Scheduled!Crash, Edited!GoOn, Rescheduled!Scheduled!GoOn,
    Edited!Next, Rescheduled!Scheduled!Next, Edited!Cardinality,
    Rescheduled!Scheduled!Cardinality

LEMMA RescheduledInit == Edited!Init <=> Rescheduled!Scheduled!Init
BY Zenon
DEF Edited!Init, Rescheduled!Scheduled!Init, Edited!Slots, Rescheduled!Scheduled!Slots,
    Edited!Idle, Rescheduled!Scheduled!Idle, Edited!NoRun, Rescheduled!Scheduled!NoRun

LEMMA ShrunkNext == Shrinking!Next <=> Shrunk!Scheduled!Next
BY Zenon
DEF Shrinking!Slots, Shrunk!Scheduled!Slots, Shrinking!Idle, Shrunk!Scheduled!Idle,
    Shrinking!Place, Shrunk!Scheduled!Place, Shrinking!Begin, Shrunk!Scheduled!Begin,
    Shrinking!Tick, Shrunk!Scheduled!Tick, Shrinking!Join, Shrunk!Scheduled!Join, Shrinking!Leave,
    Shrunk!Scheduled!Leave, Shrinking!Update, Shrunk!Scheduled!Update, Shrinking!ReadDue,
    Shrunk!Scheduled!ReadDue, Shrinking!StartRun, Shrunk!Scheduled!StartRun, Shrinking!Resume,
    Shrunk!Scheduled!Resume, Shrinking!Finished, Shrunk!Scheduled!Finished, Shrinking!Queue,
    Shrunk!Scheduled!Queue, Shrinking!StoreRun, Shrunk!Scheduled!StoreRun, Shrinking!Crash,
    Shrunk!Scheduled!Crash, Shrinking!GoOn, Shrunk!Scheduled!GoOn, Shrinking!Next,
    Shrunk!Scheduled!Next, Shrinking!Cardinality, Shrunk!Scheduled!Cardinality

LEMMA ShrunkInit == Shrinking!Init <=> Shrunk!Scheduled!Init
BY Zenon
DEF Shrinking!Init, Shrunk!Scheduled!Init, Shrinking!Slots, Shrunk!Scheduled!Slots,
    Shrinking!Idle, Shrunk!Scheduled!Idle, Shrinking!NoRun, Shrunk!Scheduled!NoRun

LEMMA SimulatingNext == Simulated!Next <=> Simulating!Next
BY Zenon
DEF Simulated!Actions, Simulating!Actions, Simulated!Scan, Simulating!Scan,
    Simulated!Result, Simulating!Result, Simulated!Empty, Simulating!Empty, Simulated!Idle,
    Simulating!Idle, Simulated!Open, Simulating!Open, Simulated!OpenOnes,
    Simulating!OpenOnes, Simulated!Create, Simulating!Create, Simulated!Claim,
    Simulating!Claim, Simulated!Resolve, Simulating!Resolve, Simulated!VersionOf,
    Simulating!VersionOf, Simulated!NewestFinished, Simulating!NewestFinished,
    Simulated!Add, Simulating!Add, Simulated!ReadRepository, Simulating!ReadRepository,
    Simulated!Complete, Simulating!Complete, Simulated!FailRun, Simulating!FailRun,
    Simulated!Crash, Simulating!Crash, Simulated!Runs, Simulating!Runs,
    Simulated!ExpireLease, Simulating!ExpireLease, Simulated!FinishScan,
    Simulating!FinishScan, Simulated!Publish, Simulating!Publish, Simulated!Work,
    Simulating!Work, Simulated!Next, Simulating!Next, Simulated!Cardinality,
    Simulating!Cardinality

LEMMA SimulatingInit == Simulated!Init <=> Simulating!Init
BY Zenon
DEF Simulated!Init, Simulating!Init, Simulated!Actions, Simulating!Actions, Simulated!Empty,
    Simulating!Empty, Simulated!Idle, Simulating!Idle

\* Each component keeps its invariant while it runs, and before that.
OperationsInv ==
  /\ IF part = "bulk_retried" THEN Retried!BulkInv ELSE Shared!BulkInv
  /\ part = "edited" => Rescheduled!ScheduleInv
  /\ part = "shrinking" => Shrunk!Scheduled!TypeOK
  /\ part \notin {"edited", "shrinking"} => Overlapping!ScheduleInv
  /\ Simulating!ResultInv /\ Simulating!OnceInv

LEMMA OperationsLimits ==
  /\ Shared!BulkBounds /\ Shared!RetriesAreSerial
  /\ Retried!BulkBounds /\ Retried!RetriesAreSerial
  /\ Overlapping!ScheduleBounds /\ Rescheduled!ScheduleBounds /\ Shrunk!ScheduleBounds
  /\ Simulating!SimulationBounds
<1>1. /\ \A S : Overlapping!IsFiniteSet(S) <=> IsFiniteSet(S)
      /\ \A S : Rescheduled!IsFiniteSet(S) <=> IsFiniteSet(S)
      /\ \A S : Shrunk!IsFiniteSet(S) <=> IsFiniteSet(S)
      /\ \A S : Simulating!IsFiniteSet(S) <=> IsFiniteSet(S)
  BY Zenon
  DEF Overlapping!IsFiniteSet, Rescheduled!IsFiniteSet, Shrunk!IsFiniteSet,
      Simulating!IsFiniteSet, IsFiniteSet
<1>2. IsFiniteSet({1})
  BY FS_Singleton
<1>3. Shared!BulkBounds /\ Shared!RetriesAreSerial /\ Retried!BulkBounds /\ Retried!RetriesAreSerial
  BY OperationsAssumption
  DEF Shared!BulkBounds, Shared!RetriesAreSerial, Retried!BulkBounds, Retried!RetriesAreSerial
<1>4. Overlapping!ScheduleBounds /\ Rescheduled!ScheduleBounds /\ Shrunk!ScheduleBounds
  BY <1>1, OperationsAssumption
  DEF Overlapping!ScheduleBounds, Rescheduled!ScheduleBounds, Shrunk!ScheduleBounds
<1>5. Simulating!SimulationBounds
  BY <1>1, <1>2, OperationsAssumption DEF Simulating!SimulationBounds, Simulating!Actions
<1> QED BY <1>3, <1>4, <1>5

LEMMA OperationsInit ==
  ASSUME AllInit
  PROVE  OperationsInv
<1>1. part = "bulk_retried" => Retried!BulkInv
  BY OperationsLimits, RetriedInit, Retried!BulkInit DEF AllInit, BulkInit
<1>2. part # "bulk_retried" => Shared!BulkInv
  BY OperationsLimits, SharedInit, Shared!BulkInit DEF AllInit, BulkInit
<1>3. part = "edited" => Rescheduled!ScheduleInv
  BY OperationsLimits, RescheduledInit, Rescheduled!ScheduleInit DEF AllInit, ScheduleInit
<1>4. part \notin {"edited", "shrinking"} => Overlapping!ScheduleInv
  BY OperationsLimits, OverlappingInit, Overlapping!ScheduleInit DEF AllInit, ScheduleInit
<1>5. Simulating!ResultInv /\ Simulating!OnceInv
  BY OperationsLimits, SimulatingInit, Simulating!ResultInit, Simulating!OnceInit DEF AllInit
<1>6. part = "shrinking" => Shrunk!Scheduled!TypeOK
  BY OperationsLimits, ShrunkInit, Shrunk!ScheduleInit DEF AllInit, ScheduleInit, Shrunk!ScheduleInv
<1> QED BY <1>1, <1>2, <1>3, <1>4, <1>5, <1>6 DEF OperationsInv

\* A step of the whole is a step of one component.
LEMMA OneComponentSteps ==
  ASSUME [AllNext]_allVars
  PROVE  /\ part' = part
         /\ part = "bulk_retried" => [Retried!Bulk!Next]_bulkVars
         /\ part # "bulk_retried" => [Shared!Bulk!Next]_bulkVars
         /\ part = "edited" => [Rescheduled!Scheduled!Next]_scheduleVars
         /\ part = "shrinking" => [Shrunk!Scheduled!Next]_scheduleVars
         /\ part \notin {"edited", "shrinking"} => [Overlapping!Scheduled!Next]_scheduleVars
         /\ [Simulating!Next]_simulationVars
<1>1. CASE RolloutsStep \/ GroupsStep \/ ModesStep
  BY <1>1 DEF RolloutsStep, GroupsStep, ModesStep, EffectiveOnly
<1>2. CASE BulkSharedStep
  BY <1>2, SharedNext DEF BulkSharedStep, BulkOnly
<1>3. CASE BulkRetriedStep
  BY <1>3, RetriedNext DEF BulkRetriedStep, BulkOnly
<1>4. CASE TwoLoopsStep
  BY <1>4, OverlappingNext DEF TwoLoopsStep, ScheduleOnly
<1>5. CASE EditedStep
  BY <1>5, RescheduledNext DEF EditedStep, ScheduleOnly
<1>6. CASE ShrinkingStep
  BY <1>6, ShrunkNext DEF ShrinkingStep, ScheduleOnly
<1>7. CASE SimulatedStep
  BY <1>7, SimulatingNext DEF SimulatedStep, SimulatedOnly
<1>8. CASE UNCHANGED allVars
  BY <1>8 DEF allVars
<1> QED BY <1>1, <1>2, <1>3, <1>4, <1>5, <1>6, <1>7, <1>8 DEF AllNext

LEMMA OperationsStep ==
  ASSUME OperationsInv, [AllNext]_allVars
  PROVE  OperationsInv'
<1>1. part' = part
  BY OneComponentSteps
<1>2. part = "bulk_retried" => Retried!BulkInv'
  BY OperationsLimits, OneComponentSteps, Retried!BulkStep DEF OperationsInv, bulkVars, Retried!Bulk!vars
<1>3. part # "bulk_retried" => Shared!BulkInv'
  BY OperationsLimits, OneComponentSteps, Shared!BulkStep DEF OperationsInv, bulkVars, Shared!Bulk!vars
<1>4. part = "edited" => Rescheduled!ScheduleInv'
  BY OperationsLimits, OneComponentSteps, Rescheduled!ScheduleStep
  DEF OperationsInv, scheduleVars, Rescheduled!Scheduled!vars
<1>5. part \notin {"edited", "shrinking"} => Overlapping!ScheduleInv'
  BY OperationsLimits, OneComponentSteps, Overlapping!ScheduleStep
  DEF OperationsInv, scheduleVars, Overlapping!Scheduled!vars
<1>6. Simulating!ResultInv' /\ Simulating!OnceInv'
  BY OperationsLimits, OneComponentSteps, Simulating!ResultStep, Simulating!OnceStep
  DEF OperationsInv, simulationVars, Simulating!vars
<1>7. part = "shrinking" => Shrunk!Scheduled!TypeOK'
  BY OperationsLimits, OneComponentSteps, Shrunk!ScheduleTypeStep
  DEF OperationsInv, scheduleVars, Shrunk!Scheduled!vars
<1> QED BY <1>1, <1>2, <1>3, <1>4, <1>5, <1>6, <1>7 DEF OperationsInv

\* What is recorded as done was done, whatever other loops, cancellations, edits and crashes
\* do in between: the status of a bulk operation is that of its items
\* (controlplane/bulk.py, _finish_if_done), a schedule's run skips no repository in silence
\* (controlplane/schedules.py, _process_runs), and a simulation is completed and audited once
\* (governance/simulation.py, run_pending).
THEOREM DoneWasRecorded == AllSpec => []RecordedAsDone
<1>1. OperationsInv => RecordedAsDone
  <2> SUFFICES ASSUME OperationsInv PROVE RecordedAsDone
    OBVIOUS
  <2>1. Retried!Bulk!StatusMatchesItems => BulkShared!StatusMatchesItems
    BY Zenon
    DEF Retried!Bulk!StatusMatchesItems, BulkShared!StatusMatchesItems, Retried!Bulk!Ended,
        BulkShared!Ended, Retried!Bulk!With, BulkShared!With, Retried!Bulk!Summary,
        BulkShared!Summary
  <2>2. Shared!Bulk!StatusMatchesItems => BulkShared!StatusMatchesItems
    BY Zenon
    DEF Shared!Bulk!StatusMatchesItems, BulkShared!StatusMatchesItems, Shared!Bulk!Ended,
        BulkShared!Ended, Shared!Bulk!With, BulkShared!With, Shared!Bulk!Summary,
        BulkShared!Summary
  <2>3. Overlapping!Scheduled!NoneSkippedSilently => TwoLoops!NoneSkippedSilently
    BY Zenon
    DEF Overlapping!Scheduled!NoneSkippedSilently, TwoLoops!NoneSkippedSilently,
        Overlapping!Scheduled!Slots, TwoLoops!Slots, Overlapping!Scheduled!Ended,
        TwoLoops!Ended
  <2>4. Rescheduled!Scheduled!NoneSkippedSilently => Edited!NoneSkippedSilently
    BY Zenon
    DEF Rescheduled!Scheduled!NoneSkippedSilently, Edited!NoneSkippedSilently,
        Rescheduled!Scheduled!Slots, Edited!Slots, Rescheduled!Scheduled!Ended, Edited!Ended
  <2>5. Simulating!OnceInv => Simulated!SimulatedOnce
    BY Zenon
    DEF Simulating!OnceInv, Simulated!SimulatedOnce, Simulated!Completed,
        Simulating!OpenOnes, Simulated!OpenOnes, Simulating!Open, Simulated!Open,
        Simulating!Cardinality, Simulated!Cardinality
  <2> QED BY <2>1, <2>2, <2>3, <2>4, <2>5
          DEF OperationsInv, RecordedAsDone, Shared!BulkInv, Retried!BulkInv,
              Overlapping!ScheduleInv, Rescheduled!ScheduleInv
<1> QED BY <1>1, OperationsInit, OperationsStep, PTL DEF AllSpec
-----------------------------------------------------------------------------
(* The policy in the parts that MCGovernance runs: Rollouts and Grouped     *)
(* take the steps of EffectivePolicy, for other kinds of change.            *)

LEMMA RolloutsActions ==
  /\ \A staged : Rollouts!Publish(staged) <=> Publish(staged)
  /\ \A n : Rollouts!Pause(n) <=> Pause(n)
  /\ \A n : Rollouts!Resume(n) <=> Resume(n)
  /\ \A a, n : Rollouts!ReadAdvance(a, n) <=> ReadAdvance(a, n)
  /\ \A a, n : Rollouts!Halt(a, n) <=> Halt(a, n)
  /\ \A a, n : Rollouts!ReadRollback(a, n) <=> ReadRollback(a, n)
  /\ \A a : Rollouts!Advance(a) <=> Advance(a)
  /\ \A a : Rollouts!RollBack(a) <=> RollBack(a)
  /\ Rollouts!PublishGroupPolicy <=> PublishGroupPolicy
  /\ Rollouts!Archive <=> Archive
  /\ \A r : Rollouts!AddMember(r) <=> AddMember(r)
  /\ \A r : Rollouts!RemoveMember(r) <=> RemoveMember(r)
  /\ \A r : Rollouts!Join(r) <=> Join(r)
  /\ \A r : Rollouts!Leave(r) <=> Leave(r)
  /\ \A r : Rollouts!Discover(r) <=> Discover(r)
  /\ \A r : Rollouts!Scan(r) <=> Scan(r)
  /\ \A r, m : Rollouts!SetMode(r, m) <=> SetMode(r, m)
  /\ \A e, approved : Rollouts!Request(e, approved) <=> Request(e, approved)
  /\ \A e : Rollouts!Approve(e) <=> Approve(e)
  /\ \A e : Rollouts!EndException(e) <=> EndException(e)
  /\ \A e : Rollouts!Lapse(e) <=> Lapse(e)
  /\ \A e : Rollouts!ExpireDue(e) <=> ExpireDue(e)
  /\ \A m : Rollouts!SaveSettings(m) <=> SaveSettings(m)
  /\ Rollouts!SaveRules <=> SaveRules
  /\ Rollouts!Propagate <=> Propagate
BY Zenon
DEF Rollouts!MaxVersions, MaxVersions, Rollouts!InProgress, InProgress, Rollouts!Idle, Idle,
    Rollouts!Latest, Latest, Rollouts!VersionFor, VersionFor, Rollouts!InGroup, InGroup,
    Rollouts!Applies, Applies, Rollouts!Grants, Grants, Rollouts!ModeOf, ModeOf, Rollouts!Resolve,
    Resolve, Rollouts!StoreResolution, StoreResolution, Rollouts!Invalidate, Invalidate,
    Rollouts!Covered, Covered, Rollouts!Usable, Usable, Rollouts!Change, Change,
    Rollouts!PauseRow, PauseRow, Rollouts!SetException, SetException, Rollouts!ExceptionOnly,
    ExceptionOnly, Rollouts!Selected, Selected, Rollouts!NoRepo, NoRepo, Rollouts!governance,
    governance, Rollouts!Propagate, Propagate, Rollouts!StartPropagation, StartPropagation,
    Rollouts!Sync, Sync, Rollouts!Resolved, Resolved, Rollouts!ResolutionFails, ResolutionFails,
    Rollouts!Publish, Publish, Rollouts!Pause, Pause, Rollouts!Resume, Resume,
    Rollouts!ReadAdvance, ReadAdvance, Rollouts!Halt, Halt, Rollouts!ReadRollback, ReadRollback,
    Rollouts!Advance, Advance, Rollouts!RollBack, RollBack, Rollouts!PublishGroupPolicy,
    PublishGroupPolicy, Rollouts!Archive, Archive, Rollouts!AddMember, AddMember,
    Rollouts!RemoveMember, RemoveMember, Rollouts!Join, Join, Rollouts!Leave, Leave,
    Rollouts!Discover, Discover, Rollouts!Scan, Scan, Rollouts!SetMode, SetMode, Rollouts!Request,
    Request, Rollouts!Approve, Approve, Rollouts!EndException, EndException, Rollouts!Lapse,
    Lapse, Rollouts!ExpireDue, ExpireDue, Rollouts!SaveSettings, SaveSettings, Rollouts!SaveRules,
    SaveRules

LEMMA GroupedActions ==
  /\ \A staged : Grouped!Publish(staged) <=> Publish(staged)
  /\ \A n : Grouped!Pause(n) <=> Pause(n)
  /\ \A n : Grouped!Resume(n) <=> Resume(n)
  /\ \A a, n : Grouped!ReadAdvance(a, n) <=> ReadAdvance(a, n)
  /\ \A a, n : Grouped!Halt(a, n) <=> Halt(a, n)
  /\ \A a, n : Grouped!ReadRollback(a, n) <=> ReadRollback(a, n)
  /\ \A a : Grouped!Advance(a) <=> Advance(a)
  /\ \A a : Grouped!RollBack(a) <=> RollBack(a)
  /\ Grouped!PublishGroupPolicy <=> PublishGroupPolicy
  /\ Grouped!Archive <=> Archive
  /\ \A r : Grouped!AddMember(r) <=> AddMember(r)
  /\ \A r : Grouped!RemoveMember(r) <=> RemoveMember(r)
  /\ \A r : Grouped!Join(r) <=> Join(r)
  /\ \A r : Grouped!Leave(r) <=> Leave(r)
  /\ \A r : Grouped!Discover(r) <=> Discover(r)
  /\ \A r : Grouped!Scan(r) <=> Scan(r)
  /\ \A r, m : Grouped!SetMode(r, m) <=> SetMode(r, m)
  /\ \A e, approved : Grouped!Request(e, approved) <=> Request(e, approved)
  /\ \A e : Grouped!Approve(e) <=> Approve(e)
  /\ \A e : Grouped!EndException(e) <=> EndException(e)
  /\ \A e : Grouped!Lapse(e) <=> Lapse(e)
  /\ \A e : Grouped!ExpireDue(e) <=> ExpireDue(e)
  /\ \A m : Grouped!SaveSettings(m) <=> SaveSettings(m)
  /\ Grouped!SaveRules <=> SaveRules
  /\ Grouped!Propagate <=> Propagate
BY Zenon
DEF Grouped!MaxVersions, MaxVersions, Grouped!InProgress, InProgress, Grouped!Idle, Idle,
    Grouped!Latest, Latest, Grouped!VersionFor, VersionFor, Grouped!InGroup, InGroup,
    Grouped!Applies, Applies, Grouped!Grants, Grants, Grouped!ModeOf, ModeOf, Grouped!Resolve,
    Resolve, Grouped!StoreResolution, StoreResolution, Grouped!Invalidate, Invalidate,
    Grouped!Covered, Covered, Grouped!Usable, Usable, Grouped!Change, Change, Grouped!PauseRow,
    PauseRow, Grouped!SetException, SetException, Grouped!ExceptionOnly, ExceptionOnly,
    Grouped!Selected, Selected, Grouped!NoRepo, NoRepo, Grouped!governance, governance,
    Grouped!Propagate, Propagate, Grouped!StartPropagation, StartPropagation, Grouped!Sync, Sync,
    Grouped!Resolved, Resolved, Grouped!ResolutionFails, ResolutionFails, Grouped!Publish,
    Publish, Grouped!Pause, Pause, Grouped!Resume, Resume, Grouped!ReadAdvance, ReadAdvance,
    Grouped!Halt, Halt, Grouped!ReadRollback, ReadRollback, Grouped!Advance, Advance,
    Grouped!RollBack, RollBack, Grouped!PublishGroupPolicy, PublishGroupPolicy, Grouped!Archive,
    Archive, Grouped!AddMember, AddMember, Grouped!RemoveMember, RemoveMember, Grouped!Join, Join,
    Grouped!Leave, Leave, Grouped!Discover, Discover, Grouped!Scan, Scan, Grouped!SetMode,
    SetMode, Grouped!Request, Request, Grouped!Approve, Approve, Grouped!EndException,
    EndException, Grouped!Lapse, Lapse, Grouped!ExpireDue, ExpireDue, Grouped!SaveSettings,
    SaveSettings, Grouped!SaveRules, SaveRules

LEMMA RolloutsSteps ==
  ASSUME Rollouts!Next
  PROVE  OtherStep \/ Publishes \/ (RepositoriesLeave /\ Leaves) \/ Rollouts!Crash
BY RolloutsActions
DEF Rollouts!Next, Rollouts!Changed, Rollouts!Mode, Mode, OtherStep, Publishes, Leaves

LEMMA GroupedSteps ==
  ASSUME Grouped!Next
  PROVE  OtherStep \/ Leaves \/ Grouped!Crash
BY GroupedActions
DEF Grouped!Next, Grouped!Changed, Grouped!Mode, Mode, OtherStep, Publishes, Leaves

\* A behaviour of one part makes the changes of that part.
LEMMA PolicySteps ==
  ASSUME Inv, [AllNext]_allVars
  PROVE  /\ [AnyStep]_vars
         /\ part = "groups" => [Leaves \/ OtherStep]_vars
         /\ part # "groups" /\ ~RepositoriesLeave => [Publishes \/ OtherStep]_vars
<1>1. ~Rollouts!Crash /\ ~Grouped!Crash
  BY DEF Rollouts!Crash, Grouped!Crash, Inv, TypeOK
<1>2. CASE RolloutsStep
  BY <1>1, <1>2, RolloutsSteps DEF RolloutsStep, AnyStep
<1>3. CASE GroupsStep
  BY <1>1, <1>3, GroupedSteps DEF GroupsStep, AnyStep
<1>4. CASE ModesStep
  BY <1>4, NextSteps DEF ModesStep, AnyStep
<1>5. ASSUME UNCHANGED vars
      PROVE  /\ [AnyStep]_vars
             /\ [Leaves \/ OtherStep]_vars
             /\ [Publishes \/ OtherStep]_vars
  BY <1>5
<1>6. ASSUME \/ BulkSharedStep \/ BulkRetriedStep
             \/ TwoLoopsStep \/ EditedStep \/ ShrinkingStep \/ SimulatedStep
             \/ UNCHANGED allVars
      PROVE  UNCHANGED vars
  BY <1>6
  DEF BulkSharedStep, BulkRetriedStep, TwoLoopsStep, EditedStep, ShrinkingStep, SimulatedStep,
      BulkOnly, ScheduleOnly, SimulatedOnly, allVars, effectiveVars
<1> QED BY <1>2, <1>3, <1>4, <1>5, <1>6 DEF AllNext

LEMMA AllInvHolds == AllSpec => []Inv
<1>1. AllInit => Inv
  BY InitInv DEF AllInit
<1>2. Inv /\ [AllNext]_allVars => Inv'
  BY PolicySteps, StepInv
<1> QED BY <1>1, <1>2, PTL DEF AllSpec

\* The variables of every part have their types: versions, attempts, stages, retries and
\* runs stay within their bounds, what a request or a pass holds is about what there is,
\* and no simulation is audited twice.
THEOREM GovernanceTyped == AllSpec => []Types
<1>1. Inv /\ OperationsInv => Types
  <2> SUFFICES ASSUME Inv, OperationsInv PROVE Types
    OBVIOUS
  <2>1. Retried!Bulk!TypeOK => BulkRetried!TypeOK
    BY Zenon
    DEF Retried!Bulk!TypeOK, BulkRetried!TypeOK, Retried!Bulk!Status, BulkRetried!Status,
        Retried!Bulk!ItemStatus, BulkRetried!ItemStatus, Retried!Bulk!Loop, BulkRetried!Loop,
        Retried!Bulk!Idle, BulkRetried!Idle, Retried!Bulk!Outcome, BulkRetried!Outcome,
        Retried!Bulk!Ended, BulkRetried!Ended
  <2>2. Shared!Bulk!TypeOK => BulkShared!TypeOK
    BY Zenon
    DEF Shared!Bulk!TypeOK, BulkShared!TypeOK, Shared!Bulk!Status, BulkShared!Status,
        Shared!Bulk!ItemStatus, BulkShared!ItemStatus, Shared!Bulk!Loop, BulkShared!Loop,
        Shared!Bulk!Idle, BulkShared!Idle, Shared!Bulk!Outcome, BulkShared!Outcome,
        Shared!Bulk!Ended, BulkShared!Ended
  <2>3. Overlapping!Scheduled!TypeOK => TwoLoops!TypeOK
    BY Zenon
    DEF Overlapping!Scheduled!TypeOK, TwoLoops!TypeOK, Overlapping!Scheduled!Slots,
        TwoLoops!Slots, Overlapping!Scheduled!Run, TwoLoops!Run, Overlapping!Scheduled!Pass,
        TwoLoops!Pass, Overlapping!Scheduled!Idle, TwoLoops!Idle,
        Overlapping!Scheduled!Cardinality, TwoLoops!Cardinality
  <2>4. Rescheduled!Scheduled!TypeOK => Edited!TypeOK
    BY Zenon
    DEF Rescheduled!Scheduled!TypeOK, Edited!TypeOK, Rescheduled!Scheduled!Slots,
        Edited!Slots, Rescheduled!Scheduled!Run, Edited!Run, Rescheduled!Scheduled!Pass,
        Edited!Pass, Rescheduled!Scheduled!Idle, Edited!Idle,
        Rescheduled!Scheduled!Cardinality, Edited!Cardinality
  <2>5. Shrunk!Scheduled!TypeOK => Shrinking!TypeOK
    BY Zenon
    DEF Shrunk!Scheduled!TypeOK, Shrinking!TypeOK, Shrunk!Scheduled!Slots,
        Shrinking!Slots, Shrunk!Scheduled!Run, Shrinking!Run, Shrunk!Scheduled!Pass,
        Shrinking!Pass, Shrunk!Scheduled!Idle, Shrinking!Idle,
        Shrunk!Scheduled!Cardinality, Shrinking!Cardinality
  <2>6. Simulating!TypeOK => Simulated!TypeOK
    BY Zenon
    DEF Simulating!TypeOK, Simulated!TypeOK, Simulating!Actions, Simulated!Actions,
        Simulating!Scan, Simulated!Scan, Simulating!Simulation, Simulated!Simulation,
        Simulating!Result, Simulated!Result, Simulating!Cardinality, Simulated!Cardinality
  <2>7. Simulating!TypeOK
    BY Simulating!SimulationsTyped DEF OperationsInv
  <2> QED BY <2>1, <2>2, <2>3, <2>4, <2>5, <2>6, <2>7
          DEF Types, Inv, OperationsInv, Shared!BulkInv, Retried!BulkInv,
              Overlapping!ScheduleInv, Rescheduled!ScheduleInv
<1> QED BY <1>1, AllInvHolds, OperationsInit, OperationsStep, PTL DEF AllSpec

\* In the part with a group repositories leave, and nothing is published; in the others
\* it is the other way round.
PartsVersionInv ==
  /\ AdvanceInv
  /\ IF part = "groups" THEN OneVersion ELSE KnownRows

LEMMA PartsVersionInit == AllInit => PartsVersionInv
BY InitVersion DEF AllInit, PartsVersionInv

LEMMA PartsVersionStep ==
  ASSUME ~RepositoriesLeave, Inv, PartsVersionInv, RolloutsSerial, [AllNext]_allVars
  PROVE  PartsVersionInv'
<1>1. part' = part
  BY OneComponentSteps
<1>2. AdvanceInv'
  BY PolicySteps, AdvanceStep DEF PartsVersionInv
<1>3. part = "groups" => OneVersion'
  BY PolicySteps, StepOneVersion DEF PartsVersionInv
<1>4. part # "groups" => KnownRows'
  BY PolicySteps, StepKnown DEF PartsVersionInv
<1> QED BY <1>1, <1>2, <1>3, <1>4 DEF PartsVersionInv

\* "A row is never up_to_date for inputs that no longer apply" (governance/cache.py), in
\* every part: with publications, rollouts and new repositories, with a group, exceptions
\* and repositories that come and go, and with modes, settings, rules and crashes of the
\* job, where no two operations on one rollout overlap.
THEOREM RowsAreFresh ==
  ASSUME ~RepositoriesLeave
  PROVE  AllSpec /\ []RolloutsSerial => []FreshWhenUpToDate
<1> DEFINE Current == PartsVersionInv /\ InputsCurrent /\ VersionCurrent
<1>1. AllInit => Current
  BY PartsVersionInit, InitVersion DEF AllInit
<1>2. Inv /\ Current /\ RolloutsSerial /\ [AllNext]_allVars => Current'
  <2> SUFFICES ASSUME Inv, Current, RolloutsSerial, [AllNext]_allVars PROVE Current'
    OBVIOUS
  <2>1. AdvanceInv /\ (KnownRows \/ OneVersion)
    BY DEF PartsVersionInv
  <2>2. [AnyStep]_vars
    BY PolicySteps
  <2>3. InputsCurrent' /\ VersionCurrent'
    BY <2>1, <2>2, StepAgrees, StepVersion
  <2> QED BY <2>3, PartsVersionStep
<1>3. Inv /\ Current => FreshWhenUpToDate
  BY CurrentRows
<1> HIDE DEF Current
<1> QED BY <1>1, <1>2, <1>3, AllInvHolds, PTL DEF AllSpec

\* No repository falls back to an older version of the policy in any part, where no two
\* operations on one rollout overlap (governance/rollouts.py).
THEOREM NoVersionFalls == AllSpec /\ []RolloutsSerial => VersionsAdvance
<1>1. AllInit => AdvanceInv
  BY InitVersion DEF AllInit
<1>2. Inv /\ AdvanceInv /\ RolloutsSerial /\ [AllNext]_allVars => AdvanceInv'
  BY PolicySteps, AdvanceStep
<1>3. Inv /\ AdvanceInv /\ [AllNext]_allVars => [\A r \in Repos : VersionFor(r)' >= VersionFor(r)]_vars
  BY PolicySteps, StepVersions
<1> QED BY <1>1, <1>2, <1>3, AllInvHolds, PTL DEF AllSpec, VersionsAdvance
=============================================================================
