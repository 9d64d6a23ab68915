--------------------------- MODULE SimulationsProofs ---------------------------
(***************************************************************************)
(* Proofs about Simulations, for any number of simulations, runners,       *)
(* repositories, scans and published policies: that the limit of open      *)
(* simulations holds and each is completed and audited once, and that a    *)
(* result is about one policy and counts every branch once.                *)
(***************************************************************************)
EXTENDS Simulations, FiniteSetTheorems, SequenceTheorems, TLAPS

SimulationBounds ==
  /\ IsFiniteSet(Ids) /\ Ids # {} /\ IsFiniteSet(Repos) /\ Drafts \subseteq Actions
  /\ MaxOpen \in Nat /\ MaxRecorded \in Nat /\ MaxVersions \in Nat \ {0}

-----------------------------------------------------------------------------
(* The invariant.                                                          *)

RunnerState == [step: {"idle", "claimed", "reading"}, id: Ids, version: 1..MaxVersions,
                left: SUBSET Repos, result: Result]

\* The types, but for how often a simulation is audited
Typed ==
  /\ policies \in Seq(Actions) /\ Len(policies) <= MaxVersions
  /\ scans \subseteq Scan
  /\ simulations \in [Ids -> Simulation] /\ audited \in [Ids -> Nat]
  /\ runner \in [Runners -> RunnerState]

\* Scans are numbered in the order in which they finish.
ScansNumbered ==
  /\ IsFiniteSet(scans) /\ Cardinality(scans) <= MaxRecorded
  /\ \A s \in scans : s.sequence <= Cardinality(scans)
  /\ \A s, t \in scans : s.sequence = t.sequence => s = t

\* What a result says of the repositories that are not left, for the policy that was
\* published as version v.
Sound(r, v, draft, left) ==
  /\ r.versions \subseteq {v} /\ r.counted \subseteq scans
  /\ \A s, t \in r.counted : s.repo = t.repo /\ s.group = t.group => s = t
  /\ r.analyzed + r.without <= Cardinality(Repos \ left)
  /\ ~r.truncated => r.analyzed + r.without = Cardinality(Repos \ left)
  /\ r.newBlocks = IF policies[v] # 2 /\ draft = 2 THEN Cardinality(r.counted) ELSE 0
  /\ r.noLongerBlocked <= Cardinality(r.counted)

\* A runner counts scans of repositories that it has read only.
ReadsSoundly(p) ==
  LET r == runner[p]
  IN /\ r.step # "idle" => simulations[r.id].state # "none"
     /\ r.step = "claimed" => r.result = Empty
     /\ r.step = "reading" =>
          /\ r.version <= Len(policies)
          /\ Sound(r.result, r.version, simulations[r.id].draft, r.left)
          /\ \A s \in r.result.counted : s.repo \notin r.left

EndedSoundly(id) ==
  simulations[id].state = "completed" =>
    \E v \in 1..Len(policies) : Sound(simulations[id].result, v, simulations[id].draft, {})

ResultInv ==
  /\ Typed /\ Len(policies) >= 1
  /\ ScansNumbered
  /\ \A p \in Runners : ReadsSoundly(p)
  /\ \A id \in Ids : EndedSoundly(id)

\* A simulation is run by the runner that claimed it last, and by no other, where no
\* runner takes longer than its lease.
OneRunner ==
  \A p \in Runners : runner[p].step # "idle" =>
    /\ simulations[runner[p].id].state = "running"
    /\ \A q \in Runners : runner[q].step # "idle" /\ runner[q].id = runner[p].id => q = p

-----------------------------------------------------------------------------
(* Cardinalities and results.                                              *)

LEMMA Parts ==
  ASSUME SimulationBounds, NEW S \in SUBSET Repos
  PROVE  /\ IsFiniteSet(S) /\ Cardinality(S) \in Nat /\ Cardinality(S) <= Cardinality(Repos)
         /\ Cardinality(Repos) \in Nat
BY FS_Subset, FS_CardinalityType DEF SimulationBounds

\* One more repository is read.
LEMMA OneFewerLeft ==
  ASSUME SimulationBounds, NEW left \in SUBSET Repos, NEW repo \in left
  PROVE  Cardinality(Repos \ (left \ {repo})) = Cardinality(Repos \ left) + 1
<1>1. Repos \ (left \ {repo}) = (Repos \ left) \cup {repo}
  OBVIOUS
<1>2. IsFiniteSet(Repos \ left) /\ repo \notin Repos \ left
  BY Parts
<1> QED BY <1>1, <1>2, FS_AddElement

\* Sets that have nothing in common are counted one after the other.
LEMMA CountBoth ==
  ASSUME NEW S, NEW T, IsFiniteSet(S), IsFiniteSet(T), S \cap T = {}
  PROVE  Cardinality(S \cup T) = Cardinality(S) + Cardinality(T)
<1>1. Cardinality(S \cup T) = Cardinality(S) + Cardinality(T) - Cardinality(S \cap T)
  BY FS_Union
<1>2. Cardinality(S \cap T) = 0
  BY FS_EmptySet
<1>3. Cardinality(S) \in Nat /\ Cardinality(T) \in Nat
  BY FS_CardinalityType
<1> QED BY <1>1, <1>2, <1>3

LEMMA EmptyResult == SimulationBounds => Empty \in Result
BY Parts DEF Empty, Result, SimulationBounds

\* Sets of scans are finite, and not larger than the bound.
LEMMA SomeScans ==
  ASSUME SimulationBounds, ScansNumbered, NEW S \in SUBSET scans
  PROVE  /\ IsFiniteSet(S) /\ Cardinality(S) \in Nat /\ Cardinality(S) <= Cardinality(scans)
         /\ Cardinality(scans) \in Nat /\ Cardinality(S) <= MaxRecorded
<1>1. IsFiniteSet(S) /\ Cardinality(S) <= Cardinality(scans)
  BY FS_Subset DEF ScansNumbered
<1>2. Cardinality(S) \in Nat /\ Cardinality(scans) \in Nat
  BY <1>1, FS_CardinalityType DEF ScansNumbered
<1> QED BY <1>1, <1>2 DEF ScansNumbered, SimulationBounds

\* What is recorded or published later changes nothing of a result.
LEMMA SoundStays ==
  ASSUME NEW r, NEW v \in 1..Len(policies), NEW draft, NEW left,
         scans \subseteq scans', policies'[v] = policies[v], Sound(r, v, draft, left)
  PROVE  Sound(r, v, draft, left)'
BY DEF Sound

\* The newest scans of a repository have different branches.
LEMMA NewestDiffer ==
  ASSUME Typed, ScansNumbered, NEW repo
  PROVE  /\ NewestFinished(repo) \subseteq scans
         /\ \A s \in NewestFinished(repo) : s.repo = repo
         /\ \A s, t \in NewestFinished(repo) : s.group = t.group => s = t
<1>1. \A s \in scans : s.sequence \in Nat
  BY DEF Typed, Scan
<1>2. ASSUME NEW s \in NewestFinished(repo), NEW t \in NewestFinished(repo), s.group = t.group
      PROVE  s = t
  <2>1. ~(s.sequence > t.sequence) /\ ~(t.sequence > s.sequence)
    BY <1>2 DEF NewestFinished
  <2>2. s.sequence = t.sequence
    BY <1>1, <2>1 DEF NewestFinished
  <2> QED BY <2>2 DEF NewestFinished, ScansNumbered
<1> QED BY <1>2 DEF NewestFinished

\* A result stays sound with the scans of one more repository.
LEMMA AddIsSound ==
  ASSUME SimulationBounds, ResultInv, NEW p \in Runners, NEW repo \in runner[p].left,
         runner[p].step = "reading"
  PROVE  LET r == runner[p]
             draft == simulations[r.id].draft
             next == Add(r, repo, policies[VersionOf(r)], draft)
         IN /\ next \in Result
            /\ Sound(next, r.version, draft, r.left \ {repo})
            /\ \A s \in next.counted : s.repo \notin r.left \ {repo}
<1> DEFINE r == runner[p]
           old == r.result
           draft == simulations[r.id].draft
           newest == NewestFinished(repo)
           found == {s \in newest : s.found}
           next == Add(r, repo, policies[VersionOf(r)], draft)
           rest == r.left \ {repo}
<1>1. /\ r \in RunnerState
      /\ old \in Result /\ r.left \in SUBSET Repos /\ r.version \in 1..MaxVersions
      /\ ScansNumbered /\ Typed
  BY DEF ResultInv, Typed, RunnerState
<1>2. /\ Sound(old, r.version, draft, r.left)
      /\ \A s \in old.counted : s.repo \notin r.left
  BY DEF ResultInv, ReadsSoundly
<1>3. /\ found \subseteq scans /\ \A s \in found : s.repo = repo
      /\ \A s, t \in found : s.group = t.group => s = t
  BY <1>1, NewestDiffer
<1>4. old.counted \subseteq scans /\ old.counted \cap found = {}
  BY <1>2, <1>3 DEF Sound
<1>5. /\ Cardinality(old.counted \cup found) = Cardinality(old.counted) + Cardinality(found)
      /\ Cardinality(old.counted) \in Nat /\ Cardinality(found) \in Nat
      /\ Cardinality(old.counted \cup found) <= MaxRecorded
  <2>1. IsFiniteSet(old.counted) /\ IsFiniteSet(found)
        /\ Cardinality(old.counted) \in Nat /\ Cardinality(found) \in Nat
    BY <1>1, <1>3, <1>4, SomeScans
  <2>2. old.counted \cup found \in SUBSET scans
    BY <1>3, <1>4
  <2> QED BY <1>1, <1>4, <2>1, <2>2, CountBoth, SomeScans
<1>6. /\ Cardinality(Repos \ rest) = Cardinality(Repos \ r.left) + 1
      /\ Cardinality(Repos \ rest) \in Nat /\ Cardinality(Repos \ r.left) \in Nat
      /\ Cardinality(Repos \ rest) <= Cardinality(Repos) /\ Cardinality(Repos) \in Nat
  BY <1>1, OneFewerLeft, Parts
<1>7. /\ old.analyzed \in Nat /\ old.without \in Nat
      /\ old.analyzed + old.without <= Cardinality(Repos \ r.left)
      /\ ~old.truncated => old.analyzed + old.without = Cardinality(Repos \ r.left)
  BY <1>1, <1>2, Parts DEF Result, Sound
<1>8. CASE newest = {}
  <2>1. next = [old EXCEPT !.without = @ + 1]
    BY <1>8 DEF Add
  <2>2. old.without + 1 \in 0..Cardinality(Repos)
    BY <1>6, <1>7
  <2>3. next \in Result
    BY <1>1, <2>1, <2>2 DEF Result
  <2>4. /\ next.counted = old.counted /\ next.versions = old.versions
        /\ next.newBlocks = old.newBlocks /\ next.noLongerBlocked = old.noLongerBlocked
        /\ next.analyzed = old.analyzed /\ next.without = old.without + 1
        /\ next.truncated = old.truncated
    BY <1>1, <2>1 DEF Result
  <2> HIDE DEF next
  <2>5. /\ next.analyzed + next.without <= Cardinality(Repos \ rest)
        /\ ~next.truncated => next.analyzed + next.without = Cardinality(Repos \ rest)
    BY <1>6, <1>7, <2>4
  <2>6. Sound(next, r.version, draft, rest)
    BY <1>2, <2>4, <2>5 DEF Sound
  <2> QED BY <1>2, <2>3, <2>4, <2>6 DEF next
<1>9. CASE newest # {}
  <2> DEFINE version == policies[r.version]
             blocks == IF version # 2 /\ draft = 2 THEN old.newBlocks + Cardinality(found)
                       ELSE old.newBlocks
             allows == IF version = 2 /\ draft # 2 THEN old.noLongerBlocked + Cardinality(found)
                       ELSE old.noLongerBlocked
             versions == IF found = {} THEN old.versions ELSE old.versions \cup {r.version}
  <2>1. next = [old EXCEPT !.analyzed = @ + 1, !.counted = @ \cup found,
                           !.versions = versions, !.newBlocks = blocks,
                           !.noLongerBlocked = allows]
    BY <1>9 DEF Add, VersionOf
  <2>2. old.analyzed + 1 \in 0..Cardinality(Repos)
    BY <1>6, <1>7
  <2>3. versions \subseteq {r.version} /\ versions \in SUBSET (1..MaxVersions)
    BY <1>1, <1>2 DEF Sound
  <2>4. old.counted \cup found \in SUBSET Scan
    BY <1>1, <1>3, <1>4 DEF Typed
  <2>5. /\ blocks = IF version # 2 /\ draft = 2 THEN Cardinality(old.counted \cup found) ELSE 0
        /\ allows \in Nat /\ allows <= Cardinality(old.counted \cup found)
    <3>1. /\ old.newBlocks = IF version # 2 /\ draft = 2 THEN Cardinality(old.counted) ELSE 0
          /\ old.noLongerBlocked \in Nat /\ old.noLongerBlocked <= Cardinality(old.counted)
      BY <1>1, <1>2 DEF Result, Sound
    <3> QED BY <1>5, <3>1
  <2>6. blocks \in 0..MaxRecorded /\ allows \in 0..MaxRecorded
    BY <1>5, <2>5 DEF SimulationBounds
  <2> HIDE DEF blocks, allows, versions
  <2>7. next \in Result
    BY <1>1, <2>1, <2>2, <2>3, <2>4, <2>6 DEF Result
  <2>8. /\ next.counted = old.counted \cup found /\ next.versions = versions
        /\ next.newBlocks = blocks /\ next.noLongerBlocked = allows
        /\ next.analyzed = old.analyzed + 1 /\ next.without = old.without
        /\ next.truncated = old.truncated
    BY <1>1, <2>1 DEF Result
  <2> HIDE DEF next
  <2>9. /\ next.analyzed + next.without <= Cardinality(Repos \ rest)
        /\ ~next.truncated => next.analyzed + next.without = Cardinality(Repos \ rest)
    BY <1>6, <1>7, <2>8
  <2>10. \A s, t \in old.counted \cup found : s.repo = t.repo /\ s.group = t.group => s = t
    <3>1. \A s, t \in old.counted : s.repo = t.repo /\ s.group = t.group => s = t
      BY <1>2 DEF Sound
    <3>2. \A s \in old.counted, t \in found : s.repo # t.repo
      BY <1>2, <1>3
    <3> QED BY <1>3, <3>1, <3>2
  <2>11. Sound(next, r.version, draft, rest)
    BY <1>3, <1>4, <2>3, <2>5, <2>8, <2>9, <2>10 DEF Sound
  <2>12. \A s \in next.counted : s.repo \notin rest
    BY <1>2, <1>3, <2>8
  <2> QED BY <2>7, <2>11, <2>12 DEF next
<1> QED BY <1>8, <1>9

-----------------------------------------------------------------------------
(* Results: every step keeps the invariant.                                *)

\* What changes neither a runner nor a completed simulation leaves them sound: scans and
\* policies are added only, and a simulation keeps its draft.
LEMMA Later ==
  ASSUME ResultInv, scans \subseteq scans', Len(policies') \in Int, Len(policies) <= Len(policies'),
         \A v \in 1..Len(policies) : policies'[v] = policies[v],
         \A id \in Ids : simulations[id].state # "none" =>
           simulations'[id].state # "none" /\ simulations'[id].draft = simulations[id].draft
  PROVE  /\ \A p \in Runners : runner'[p] = runner[p] => ReadsSoundly(p)'
         /\ \A id \in Ids :
              (simulations'[id].state = "completed" => simulations'[id] = simulations[id])
                => EndedSoundly(id)'
<1>1. Len(policies) \in Nat
  BY LenProperties DEF ResultInv, Typed
<1>2. ASSUME NEW p \in Runners, runner'[p] = runner[p] PROVE ReadsSoundly(p)'
  <2> DEFINE r == runner[p]
  <2>1. ReadsSoundly(p) /\ r.id \in Ids /\ r.version \in Nat \ {0}
    BY DEF ResultInv, Typed, RunnerState
  <2>2. CASE r.step = "reading"
    <3>1. r.version \in 1..Len(policies) /\ r.version <= Len(policies')
      BY <1>1, <2>1, <2>2 DEF ReadsSoundly
    <3>2. simulations'[r.id].draft = simulations[r.id].draft /\ simulations'[r.id].state # "none"
      BY <2>1, <2>2 DEF ReadsSoundly
    <3>3. Sound(r.result, r.version, simulations[r.id].draft, r.left)
          /\ \A s \in r.result.counted : s.repo \notin r.left
      BY <2>1, <2>2 DEF ReadsSoundly
    <3>4. Sound(r.result, r.version, simulations[r.id].draft, r.left)'
      BY <1>2, <3>1, <3>2, <3>3 DEF Sound
    <3> QED BY <1>2, <2>2, <3>1, <3>2, <3>3, <3>4 DEF ReadsSoundly
  <2>3. CASE r.step # "reading"
    BY <1>2, <2>1, <2>3 DEF ReadsSoundly
  <2> QED BY <2>2, <2>3
<1>3. ASSUME NEW id \in Ids, simulations'[id].state = "completed" => simulations'[id] = simulations[id]
      PROVE  EndedSoundly(id)'
  <2> SUFFICES ASSUME simulations'[id].state = "completed"
               PROVE  \E v \in 1..Len(policies') :
                        Sound(simulations[id].result, v, simulations[id].draft, {})'
    BY DEF EndedSoundly
  <2>1. simulations'[id] = simulations[id]
    BY <1>3
  <2>2. PICK v \in 1..Len(policies) : Sound(simulations[id].result, v, simulations[id].draft, {})
    BY <2>1 DEF ResultInv, EndedSoundly
  <2>3. v \in 1..Len(policies') /\ policies'[v] = policies[v]
    BY <1>1
  <2>4. Sound(simulations[id].result, v, simulations[id].draft, {})'
    BY <2>1, <2>2, <2>3 DEF Sound
  <2> QED BY <2>3, <2>4
<1> QED BY <1>2, <1>3

\* The same, where nothing is published or recorded.
LEMMA SameInputs ==
  ASSUME ResultInv, UNCHANGED <<policies, scans>>,
         \A id \in Ids : simulations[id].state # "none" =>
           simulations'[id].state # "none" /\ simulations'[id].draft = simulations[id].draft
  PROVE  /\ \A p \in Runners : runner'[p] = runner[p] => ReadsSoundly(p)'
         /\ \A id \in Ids :
              (simulations'[id].state = "completed" => simulations'[id] = simulations[id])
                => EndedSoundly(id)'
         /\ ScansNumbered' /\ Len(policies') >= 1
<1>1. Len(policies) \in Nat
  BY LenProperties DEF ResultInv, Typed
<1>2. Len(policies') \in Int /\ Len(policies) <= Len(policies')
  BY <1>1
<1>3. /\ \A p \in Runners : runner'[p] = runner[p] => ReadsSoundly(p)'
      /\ \A id \in Ids :
           (simulations'[id].state = "completed" => simulations'[id] = simulations[id])
             => EndedSoundly(id)'
  BY <1>2, Later
<1> QED BY <1>3 DEF ResultInv, ScansNumbered

LEMMA IdleRunner ==
  ASSUME SimulationBounds
  PROVE  /\ Idle \in RunnerState /\ Idle.step = "idle"
         /\ \A id \in Ids : LET claimed == [Idle EXCEPT !.step = "claimed", !.id = id]
                            IN claimed \in RunnerState /\ claimed.step = "claimed"
                               /\ claimed.id = id /\ claimed.result = Empty
<1>1. (CHOOSE i \in Ids : TRUE) \in Ids
  BY DEF SimulationBounds
<1>2. 1 \in 1..MaxVersions /\ Empty \in Result
  BY EmptyResult DEF SimulationBounds
<1> QED BY <1>1, <1>2 DEF Idle, RunnerState

\* A step of a runner is one of no other.
LEMMA OneMoves ==
  ASSUME runner \in [Runners -> RunnerState], NEW p \in Runners, NEW r \in RunnerState,
         runner' = [runner EXCEPT ![p] = r]
  PROVE  /\ runner' \in [Runners -> RunnerState] /\ runner'[p] = r
         /\ \A q \in Runners \ {p} : runner'[q] = runner[q]
OBVIOUS

LEMMA ResultInit ==
  ASSUME SimulationBounds, Init
  PROVE  ResultInv
<1> USE DEF Init
<1>1. PICK a \in Actions : policies = <<a>>
  OBVIOUS
<1>2. policies \in Seq(Actions) /\ Len(policies) = 1
  BY <1>1
<1>3. Typed
  <2>1. [state |-> "none", draft |-> 0, result |-> Empty] \in Simulation
    BY EmptyResult DEF Simulation, Actions
  <2>2. simulations \in [Ids -> Simulation] /\ audited \in [Ids -> Nat]
    BY <2>1
  <2>3. runner \in [Runners -> RunnerState]
    BY IdleRunner
  <2> QED BY <1>2, <2>2, <2>3 DEF Typed, SimulationBounds
<1>4. ScansNumbered
  BY FS_EmptySet DEF ScansNumbered, SimulationBounds
<1>5. \A p \in Runners : ReadsSoundly(p)
  BY IdleRunner DEF ReadsSoundly
<1>6. \A id \in Ids : EndedSoundly(id)
  BY DEF EndedSoundly
<1> QED BY <1>2, <1>3, <1>4, <1>5, <1>6 DEF ResultInv

LEMMA CreateStep ==
  ASSUME SimulationBounds, ResultInv, NEW id \in Ids, NEW draft \in Drafts, Create(id, draft)
  PROVE  ResultInv'
<1> DEFINE new == [state |-> "queued", draft |-> draft, result |-> Empty]
<1>1. new \in Simulation /\ new.state = "queued"
  BY EmptyResult DEF Simulation, SimulationBounds
<1>2. simulations[id].state = "none" /\ simulations' = [simulations EXCEPT ![id] = new]
      /\ UNCHANGED <<policies, scans, audited, runner>>
  BY DEF Create
<1>3. simulations' \in [Ids -> Simulation] /\ simulations'[id] = new
      /\ \A i \in Ids \ {id} : simulations'[i] = simulations[i]
  BY <1>1, <1>2 DEF ResultInv, Typed
<1> HIDE DEF new
<1>4. Typed'
  BY <1>2, <1>3 DEF ResultInv, Typed
<1>5. \A i \in Ids : simulations[i].state # "none" =>
        simulations'[i].state # "none" /\ simulations'[i].draft = simulations[i].draft
  BY <1>2, <1>3
<1>6. \A i \in Ids : simulations'[i].state = "completed" => simulations'[i] = simulations[i]
  BY <1>1, <1>3
<1> QED BY <1>2, <1>4, <1>5, <1>6, SameInputs DEF ResultInv

\* The state of a simulation changes, and it is not recorded as completed.
LEMMA StateStep ==
  ASSUME SimulationBounds, ResultInv, NEW id \in Ids, NEW state \in {"running", "expired", "failed"},
         simulations' = [simulations EXCEPT ![id].state = state]
  PROVE  /\ simulations' \in [Ids -> Simulation] /\ simulations'[id].state = state
         /\ \A i \in Ids \ {id} : simulations'[i] = simulations[i]
         /\ \A i \in Ids : simulations[i].state # "none" =>
              simulations'[i].state # "none" /\ simulations'[i].draft = simulations[i].draft
         /\ \A i \in Ids : simulations'[i].state = "completed" => simulations'[i] = simulations[i]
<1> DEFINE new == [simulations[id] EXCEPT !.state = state]
<1>1. simulations \in [Ids -> Simulation] /\ simulations[id] \in Simulation
  BY DEF ResultInv, Typed
<1>2. new \in Simulation /\ new.state = state /\ new.draft = simulations[id].draft
  BY <1>1 DEF Simulation
<1>3. simulations' = [simulations EXCEPT ![id] = new]
  OBVIOUS
<1> HIDE DEF new
<1>4. simulations' \in [Ids -> Simulation] /\ simulations'[id] = new
      /\ \A i \in Ids \ {id} : simulations'[i] = simulations[i]
  BY <1>1, <1>2, <1>3
<1> QED BY <1>2, <1>4

LEMMA ClaimStep ==
  ASSUME SimulationBounds, ResultInv, NEW p \in Runners, NEW id \in Ids, Claim(p, id)
  PROVE  ResultInv'
<1> DEFINE new == [Idle EXCEPT !.step = "claimed", !.id = id]
<1>1. new \in RunnerState /\ new.step = "claimed" /\ new.id = id /\ new.result = Empty
  BY IdleRunner
<1>2. /\ runner' = [runner EXCEPT ![p] = new]
      /\ simulations' = [simulations EXCEPT ![id].state = "running"]
      /\ simulations[id].state \in {"queued", "expired"}
      /\ UNCHANGED <<policies, scans, audited>>
  BY DEF Claim
<1> HIDE DEF new
<1>3. /\ runner' \in [Runners -> RunnerState] /\ runner'[p] = new
      /\ \A q \in Runners \ {p} : runner'[q] = runner[q]
  BY <1>1, <1>2, OneMoves DEF ResultInv, Typed
<1>4. Typed'
  BY <1>2, <1>3, StateStep DEF ResultInv, Typed
<1>5. ReadsSoundly(p)'
  BY <1>1, <1>2, <1>3, StateStep DEF ReadsSoundly
<1>6. /\ \A q \in Runners : runner'[q] = runner[q] => ReadsSoundly(q)'
      /\ \A i \in Ids : EndedSoundly(i)'
      /\ ScansNumbered' /\ Len(policies') >= 1
  BY <1>2, StateStep, SameInputs
<1> QED BY <1>3, <1>4, <1>5, <1>6 DEF ResultInv

LEMMA ResolveStep ==
  ASSUME SimulationBounds, ResultInv, NEW p \in Runners, Resolve(p)
  PROVE  ResultInv'
<1> DEFINE r == runner[p]
           new == [r EXCEPT !.step = "reading", !.version = Len(policies), !.left = Repos]
<1>1. r \in RunnerState /\ r.step = "claimed" /\ r.result = Empty /\ r.id \in Ids
  BY DEF Resolve, ResultInv, Typed, RunnerState, ReadsSoundly
<1>2. Len(policies) \in 1..MaxVersions
  BY LenProperties DEF ResultInv, Typed, SimulationBounds
<1>3. /\ new \in RunnerState /\ new.step = "reading" /\ new.id = r.id /\ new.result = Empty
      /\ new.version = Len(policies) /\ new.left = Repos
  BY <1>1, <1>2 DEF RunnerState
<1>4. runner' = [runner EXCEPT ![p] = new] /\ UNCHANGED <<policies, scans, simulations, audited>>
  BY DEF Resolve
<1> HIDE DEF new
<1>5. /\ runner' \in [Runners -> RunnerState] /\ runner'[p] = new
      /\ \A q \in Runners \ {p} : runner'[q] = runner[q]
  BY <1>3, <1>4, OneMoves DEF ResultInv, Typed
<1>6. Typed'
  BY <1>4, <1>5 DEF ResultInv, Typed
<1>7. \A draft : Sound(Empty, Len(policies), draft, Repos)
  <2>1. Cardinality(Repos \ Repos) = 0 /\ Cardinality({}) = 0
    BY FS_EmptySet
  <2> QED BY <2>1 DEF Sound, Empty
<1>8. ReadsSoundly(p)'
  <2>1. simulations[r.id].state # "none"
    BY <1>1 DEF ResultInv, ReadsSoundly
  <2>2. Len(policies) <= Len(policies)
    BY <1>2
  <2>3. \A s \in Empty.counted : s.repo \notin Repos
    BY DEF Empty
  <2>4. \A draft : Sound(Empty, Len(policies), draft, Repos)'
    BY <1>4, <1>7 DEF Sound
  <2> QED BY <1>3, <1>4, <1>5, <2>1, <2>2, <2>3, <2>4 DEF ReadsSoundly
<1>9. /\ \A q \in Runners : runner'[q] = runner[q] => ReadsSoundly(q)'
      /\ \A i \in Ids : EndedSoundly(i)'
      /\ ScansNumbered' /\ Len(policies') >= 1
  BY <1>4, SameInputs
<1> QED BY <1>5, <1>6, <1>8, <1>9 DEF ResultInv

LEMMA ReadStep ==
  ASSUME SimulationBounds, ResultInv, NEW p \in Runners, NEW repo \in Repos, ReadRepository(p, repo)
  PROVE  ResultInv'
<1> DEFINE r == runner[p]
           draft == simulations[r.id].draft
           full == Cardinality(r.result.counted) >= ScanLimit
           left == IF full THEN {} ELSE r.left \ {repo}
           result == IF full THEN [r.result EXCEPT !.truncated = TRUE]
                     ELSE Add(r, repo, policies[VersionOf(r)], draft)
           new == [r EXCEPT !.left = left, !.result = result]
<1>1. r \in RunnerState /\ r.step = "reading" /\ repo \in r.left
      /\ runner \in [Runners -> RunnerState]
  BY DEF ReadRepository, ResultInv, Typed
<1>2. runner' = [runner EXCEPT ![p] = new] /\ UNCHANGED <<policies, scans, simulations, audited>>
  <2>1. runner' = [runner EXCEPT ![p].left = left, ![p].result = result]
    BY DEF ReadRepository
  <2>2. [runner EXCEPT ![p].left = left, ![p].result = result] = [runner EXCEPT ![p] = new]
    BY <1>1 DEF RunnerState
  <2> QED BY <2>1, <2>2 DEF ReadRepository
<1>3. /\ Sound(r.result, r.version, draft, r.left) /\ r.version <= Len(policies)
      /\ \A s \in r.result.counted : s.repo \notin r.left
      /\ simulations[r.id].state # "none"
  BY <1>1 DEF ResultInv, ReadsSoundly
<1>4. /\ result \in Result /\ left \in SUBSET Repos
      /\ Sound(result, r.version, draft, left)
      /\ \A s \in result.counted : s.repo \notin left
  <2>1. CASE full
    <3> DEFINE cut == [r.result EXCEPT !.truncated = TRUE]
    <3>1. result = cut /\ left = {}
      BY <2>1
    <3>2. /\ cut \in Result /\ cut.truncated
          /\ cut.versions = r.result.versions /\ cut.counted = r.result.counted
          /\ cut.analyzed = r.result.analyzed /\ cut.without = r.result.without
          /\ cut.newBlocks = r.result.newBlocks /\ cut.noLongerBlocked = r.result.noLongerBlocked
      BY <1>1 DEF RunnerState, Result
    <3> HIDE DEF cut
    <3>3. cut.analyzed + cut.without <= Cardinality(Repos \ {})
      <4>1. Cardinality(Repos \ r.left) <= Cardinality(Repos) /\ Cardinality(Repos \ r.left) \in Nat
            /\ Cardinality(Repos) \in Nat
        BY Parts
      <4>2. r.result.analyzed + r.result.without <= Cardinality(Repos \ r.left)
            /\ r.result.analyzed \in Nat /\ r.result.without \in Nat
        BY <1>1, <1>3, <4>1 DEF Sound, RunnerState, Result
      <4>3. Repos \ {} = Repos
        OBVIOUS
      <4> QED BY <3>2, <4>1, <4>2, <4>3
    <3>4. Sound(cut, r.version, draft, {})
      BY <1>3, <3>2, <3>3 DEF Sound
    <3> HIDE DEF result, left
    <3> QED BY <3>1, <3>2, <3>4
  <2>2. CASE ~full
    <3>1. result = Add(r, repo, policies[VersionOf(r)], draft) /\ left = r.left \ {repo}
      BY <2>2
    <3>2. r.left \ {repo} \in SUBSET Repos
      BY <1>1 DEF RunnerState
    <3> HIDE DEF result, left
    <3> QED BY <1>1, <3>1, <3>2, AddIsSound
  <2> QED BY <2>1, <2>2
<1> HIDE DEF result, left
<1>5. /\ new \in RunnerState /\ new.step = "reading" /\ new.id = r.id /\ new.version = r.version
      /\ new.left = left /\ new.result = result
  BY <1>1, <1>4 DEF RunnerState
<1> HIDE DEF new
<1>6. /\ runner' \in [Runners -> RunnerState] /\ runner'[p] = new
      /\ \A q \in Runners \ {p} : runner'[q] = runner[q]
  BY <1>1, <1>2, <1>5, OneMoves
<1>7. Typed'
  BY <1>2, <1>6 DEF ResultInv, Typed
<1>8. ReadsSoundly(p)'
  <2>1. simulations'[new.id].draft = draft /\ simulations'[new.id].state # "none"
    BY <1>2, <1>3, <1>5
  <2>2. new.version <= Len(policies')
    BY <1>2, <1>3, <1>5
  <2>3. \A v, d, x, y : Sound(x, v, d, y) => Sound(x, v, d, y)'
    BY <1>2 DEF Sound
  <2> DEFINE asked == draft
  <2>4. Sound(new.result, new.version, asked, new.left)
    BY <1>4, <1>5
  <2> HIDE DEF asked
  <2> QED BY <1>4, <1>5, <1>6, <2>1, <2>2, <2>3, <2>4 DEF ReadsSoundly, asked
<1>9. /\ \A q \in Runners : runner'[q] = runner[q] => ReadsSoundly(q)'
      /\ \A i \in Ids : EndedSoundly(i)'
      /\ ScansNumbered' /\ Len(policies') >= 1
  BY <1>2, SameInputs
<1> QED BY <1>6, <1>7, <1>8, <1>9 DEF ResultInv

\* A runner stops: it has nothing to be sound about.
LEMMA Stopped ==
  ASSUME SimulationBounds, ResultInv, NEW p \in Runners, runner' = [runner EXCEPT ![p] = Idle],
         \A q \in Runners : runner'[q] = runner[q] => ReadsSoundly(q)'
  PROVE  /\ runner' \in [Runners -> RunnerState]
         /\ \A q \in Runners : ReadsSoundly(q)'
<1>1. /\ runner' \in [Runners -> RunnerState] /\ runner'[p] = Idle
      /\ \A q \in Runners \ {p} : runner'[q] = runner[q]
  BY IdleRunner, OneMoves DEF ResultInv, Typed
<1>2. ReadsSoundly(p)'
  BY <1>1, IdleRunner DEF ReadsSoundly
<1> QED BY <1>1, <1>2

LEMMA CompleteStep ==
  ASSUME SimulationBounds, ResultInv, NEW p \in Runners, Complete(p)
  PROVE  ResultInv'
<1> DEFINE r == runner[p]
           new == [simulations[r.id] EXCEPT !.state = "completed", !.result = r.result]
<1>1. /\ r \in RunnerState /\ r.step = "reading" /\ r.left = {} /\ r.id \in Ids
      /\ simulations \in [Ids -> Simulation] /\ audited \in [Ids -> Nat]
  BY DEF Complete, ResultInv, Typed, RunnerState
<1>2. /\ simulations' = [simulations EXCEPT ![r.id] = new]
      /\ audited' = [audited EXCEPT ![r.id] = @ + 1]
      /\ runner' = [runner EXCEPT ![p] = Idle] /\ UNCHANGED <<policies, scans>>
  <2>1. simulations' = [simulations EXCEPT ![r.id].state = "completed", ![r.id].result = r.result]
    BY DEF Complete
  <2>2. [simulations EXCEPT ![r.id].state = "completed", ![r.id].result = r.result]
          = [simulations EXCEPT ![r.id] = new]
    BY <1>1 DEF Simulation
  <2> QED BY <2>1, <2>2 DEF Complete
<1>3. /\ new \in Simulation /\ new.state = "completed" /\ new.result = r.result
      /\ new.draft = simulations[r.id].draft
  BY <1>1 DEF Simulation, RunnerState
<1> HIDE DEF new
<1>4. /\ simulations' \in [Ids -> Simulation] /\ simulations'[r.id] = new
      /\ \A i \in Ids \ {r.id} : simulations'[i] = simulations[i]
  BY <1>1, <1>2, <1>3
<1>5. audited' \in [Ids -> Nat]
  BY <1>1, <1>2
<1>6. \A i \in Ids : simulations[i].state # "none" =>
        simulations'[i].state # "none" /\ simulations'[i].draft = simulations[i].draft
  BY <1>3, <1>4
<1>7. /\ \A q \in Runners : runner'[q] = runner[q] => ReadsSoundly(q)'
      /\ \A i \in Ids :
           (simulations'[i].state = "completed" => simulations'[i] = simulations[i]) => EndedSoundly(i)'
      /\ ScansNumbered' /\ Len(policies') >= 1
  BY <1>2, <1>6, SameInputs
<1>8. runner' \in [Runners -> RunnerState] /\ \A q \in Runners : ReadsSoundly(q)'
  BY <1>2, <1>7, Stopped
<1>9. Typed'
  BY <1>2, <1>4, <1>5, <1>8 DEF ResultInv, Typed
<1>10. ASSUME NEW i \in Ids PROVE EndedSoundly(i)'
  <2>1. CASE i = r.id
    <3>1. Sound(r.result, r.version, simulations[r.id].draft, {}) /\ r.version <= Len(policies)
      BY <1>1 DEF ResultInv, ReadsSoundly
    <3>2. r.version \in 1..Len(policies)
      BY <1>1, <3>1, LenProperties DEF RunnerState, ResultInv, Typed
    <3>3. \A v, d, x, y : Sound(x, v, d, y) => Sound(x, v, d, y)'
      BY <1>2 DEF Sound
    <3>4. Sound(new.result, r.version, new.draft, {})
      BY <1>3, <3>1
    <3> DEFINE version == r.version
               made == new
    <3>5. version \in 1..Len(policies') /\ simulations'[i] = made
      BY <1>2, <1>4, <2>1, <3>2
    <3>6. Sound(made.result, version, made.draft, {})
      BY <3>4
    <3> HIDE DEF version, made
    <3> QED BY <3>3, <3>5, <3>6 DEF EndedSoundly
  <2>2. CASE i # r.id
    BY <1>4, <1>7, <2>2
  <2> QED BY <2>1, <2>2
<1> QED BY <1>7, <1>8, <1>9, <1>10 DEF ResultInv

LEMMA StopStep ==
  ASSUME SimulationBounds, ResultInv, NEW p \in Runners, FailRun(p) \/ Crash(p)
  PROVE  ResultInv'
<1>1. runner' = [runner EXCEPT ![p] = Idle] /\ UNCHANGED <<policies, scans, audited>>
  BY DEF FailRun, Crash
<1>2. runner[p].id \in Ids
  BY DEF ResultInv, Typed, RunnerState
<1>3. /\ simulations' \in [Ids -> Simulation]
      /\ \A i \in Ids : simulations[i].state # "none" =>
           simulations'[i].state # "none" /\ simulations'[i].draft = simulations[i].draft
      /\ \A i \in Ids : simulations'[i].state = "completed" => simulations'[i] = simulations[i]
  <2>1. CASE FailRun(p)
    <3>1. simulations' = [simulations EXCEPT ![runner[p].id].state = "failed"]
      BY <2>1 DEF FailRun
    <3> QED BY <1>2, <3>1, StateStep
  <2>2. CASE Crash(p)
    BY <2>2 DEF Crash, ResultInv, Typed
  <2> QED BY <2>1, <2>2
<1>4. /\ \A q \in Runners : runner'[q] = runner[q] => ReadsSoundly(q)'
      /\ \A i \in Ids : EndedSoundly(i)'
      /\ ScansNumbered' /\ Len(policies') >= 1
  BY <1>1, <1>3, SameInputs
<1>5. runner' \in [Runners -> RunnerState] /\ \A q \in Runners : ReadsSoundly(q)'
  BY <1>1, <1>4, Stopped
<1>6. Typed'
  BY <1>1, <1>3, <1>5 DEF ResultInv, Typed
<1> QED BY <1>4, <1>5, <1>6 DEF ResultInv

LEMMA ExpireStep ==
  ASSUME SimulationBounds, ResultInv, NEW id \in Ids, ExpireLease(id)
  PROVE  ResultInv'
<1>1. simulations' = [simulations EXCEPT ![id].state = "expired"]
      /\ UNCHANGED <<policies, scans, audited, runner>>
  BY DEF ExpireLease
<1>2. /\ \A q \in Runners : ReadsSoundly(q)'
      /\ \A i \in Ids : EndedSoundly(i)'
      /\ ScansNumbered' /\ Len(policies') >= 1
  BY <1>1, StateStep, SameInputs
<1>3. Typed'
  BY <1>1, StateStep DEF ResultInv, Typed
<1> QED BY <1>2, <1>3 DEF ResultInv

\* A scan gets the next number.
LEMMA FinishScanStep ==
  ASSUME SimulationBounds, ResultInv, NEW repo \in Repos, NEW group \in Groups, NEW found \in BOOLEAN,
         FinishScan(repo, group, found)
  PROVE  ResultInv'
<1> DEFINE number == Cardinality(scans) + 1
           scan == [repo |-> repo, group |-> group, sequence |-> number, found |-> found]
<1>1. /\ scans' = scans \cup {scan} /\ Cardinality(scans) < MaxRecorded
      /\ UNCHANGED <<policies, simulations, audited, runner>>
  BY DEF FinishScan
<1>2. /\ IsFiniteSet(scans) /\ Cardinality(scans) \in Nat
      /\ \A s \in scans : s \in Scan /\ s.sequence \in Nat /\ s.sequence <= Cardinality(scans)
  BY FS_CardinalityType DEF ResultInv, ScansNumbered, Typed, Scan
<1>3. number \in 1..MaxRecorded
  BY <1>1, <1>2 DEF SimulationBounds
<1>4. scan \in Scan /\ scan.sequence = number
  BY <1>3 DEF Scan
<1>5. scan \notin scans
  BY <1>2, <1>4
<1>6. IsFiniteSet(scans') /\ Cardinality(scans') = number
  BY <1>1, <1>2, <1>5, FS_AddElement
<1> HIDE DEF scan
<1>7. ScansNumbered'
  <2>1. \A s \in scans' : s = scan \/ (s \in scans /\ s.sequence # number)
    BY <1>1, <1>2
  <2>2. \A s, t \in scans' : s.sequence = t.sequence => s = t
    BY <1>4, <2>1 DEF ResultInv, ScansNumbered
  <2>3. \A s \in scans' : s.sequence <= number
    BY <1>2, <1>4, <2>1
  <2> HIDE DEF number
  <2> QED BY <1>3, <1>6, <2>2, <2>3 DEF ScansNumbered, SimulationBounds
<1>8. Typed'
  BY <1>1, <1>4 DEF ResultInv, Typed
<1>9. /\ \A p \in Runners : ReadsSoundly(p)'
      /\ \A id \in Ids : EndedSoundly(id)'
  <2>1. scans \subseteq scans' /\ Len(policies') \in Int /\ Len(policies) <= Len(policies')
    BY <1>1, LenProperties DEF ResultInv, Typed
  <2> QED BY <1>1, <2>1, Later
<1> QED BY <1>1, <1>7, <1>8, <1>9 DEF ResultInv

LEMMA PublishStep ==
  ASSUME SimulationBounds, ResultInv, NEW action \in Actions, Publish(action)
  PROVE  ResultInv'
<1>1. /\ policies' = Append(policies, action) /\ Len(policies) < MaxVersions
      /\ UNCHANGED <<scans, simulations, audited, runner>>
  BY DEF Publish
<1>2. policies \in Seq(Actions) /\ Len(policies) \in Nat /\ Len(policies) >= 1
  BY LenProperties DEF ResultInv, Typed
<1>3. /\ policies' \in Seq(Actions) /\ Len(policies') = Len(policies) + 1
      /\ \A v \in 1..Len(policies) : policies'[v] = policies[v]
  BY <1>1, <1>2, AppendProperties
<1>4. Len(policies') <= MaxVersions /\ Len(policies') >= 1
  BY <1>1, <1>2, <1>3 DEF SimulationBounds
<1>5. Typed'
  BY <1>1, <1>3, <1>4 DEF ResultInv, Typed
<1>6. ScansNumbered'
  BY <1>1 DEF ResultInv, ScansNumbered
<1>7. /\ \A p \in Runners : ReadsSoundly(p)'
      /\ \A id \in Ids : EndedSoundly(id)'
  BY <1>1, <1>2, <1>3, Later
<1> QED BY <1>4, <1>5, <1>6, <1>7 DEF ResultInv

LEMMA ResultStep ==
  ASSUME SimulationBounds, ResultInv, [Next]_vars
  PROVE  ResultInv'
<1>1. CASE UNCHANGED vars
  <2>1. Typed' /\ ScansNumbered' /\ Len(policies') >= 1
    BY <1>1 DEF ResultInv, Typed, ScansNumbered, vars
  <2>2. /\ \A p \in Runners : ReadsSoundly(p)'
        /\ \A id \in Ids : EndedSoundly(id)'
    BY <1>1, SameInputs DEF vars
  <2> QED BY <2>1, <2>2 DEF ResultInv
<1>2. ASSUME NEW p \in Runners, Work(p) PROVE ResultInv'
  BY <1>2, ResolveStep, CompleteStep, ClaimStep, ReadStep DEF Work
<1> QED BY <1>1, <1>2, CreateStep, StopStep, ExpireStep, FinishScanStep, PublishStep DEF Next

\* Whatever is published, and whatever scans finish, while a simulation is computed, and
\* also when its runner outlives the lease: the result is about one policy, counts every
\* branch of a repository once, and says so when it leaves repositories out
\* (governance/simulation.py, _simulate).
THEOREM ResultsSound ==
  ASSUME SimulationBounds
  PROVE  Spec => []ResultsAreSound
<1>1. ResultInv => ResultsAreSound
  <2> SUFFICES ASSUME ResultInv, NEW id \in Completed
               PROVE  LET r == simulations[id].result
                      IN /\ Cardinality(r.versions) <= 1
                         /\ \A s, t \in r.counted : s.repo = t.repo /\ s.group = t.group => s = t
                         /\ ~r.truncated => r.analyzed + r.without = Cardinality(Repos)
                         /\ \A v \in r.versions :
                              r.newBlocks = IF policies[v] # 2 /\ simulations[id].draft = 2
                                            THEN Cardinality(r.counted) ELSE 0
    BY DEF ResultsAreSound
  <2> DEFINE r == simulations[id].result
  <2>1. PICK v \in 1..Len(policies) : Sound(r, v, simulations[id].draft, {})
    BY DEF ResultInv, EndedSoundly, Completed
  <2>2. Cardinality(r.versions) <= 1
    <3>1. r.versions \in SUBSET {v} /\ IsFiniteSet({v}) /\ Cardinality({v}) = 1
      BY <2>1, FS_Singleton DEF Sound
    <3> QED BY <3>1, FS_Subset
  <2>3. Repos \ {} = Repos
    OBVIOUS
  <2>4. \A w \in r.versions : w = v
    BY <2>1 DEF Sound
  <2> QED BY <2>1, <2>2, <2>3, <2>4 DEF Sound
<1>2. Init => ResultInv
  BY ResultInit
<1>3. ResultInv /\ [Next]_vars => ResultInv'
  BY ResultStep
<1> QED BY <1>1, <1>2, <1>3, PTL DEF Spec

-----------------------------------------------------------------------------
(* Every simulation once.                                                  *)

OnceInv ==
  /\ OneRunner
  /\ Cardinality(OpenOnes) <= MaxOpen
  /\ \A id \in Ids : audited[id] = IF simulations[id].state = "completed" THEN 1 ELSE 0

\* The open simulations are finitely many, and fewer when none is opened.
LEMMA FewerOpen ==
  ASSUME SimulationBounds, Cardinality(OpenOnes) <= MaxOpen, OpenOnes' \subseteq OpenOnes
  PROVE  Cardinality(OpenOnes') <= MaxOpen
<1>1. IsFiniteSet(OpenOnes)
  BY FS_Subset DEF SimulationBounds, OpenOnes
<1>2. IsFiniteSet(OpenOnes') /\ Cardinality(OpenOnes') <= Cardinality(OpenOnes)
  BY <1>1, FS_Subset
<1>3. Cardinality(OpenOnes) \in Nat /\ Cardinality(OpenOnes') \in Nat
  BY <1>1, <1>2, FS_CardinalityType
<1> QED BY <1>2, <1>3 DEF SimulationBounds

LEMMA SameOpen ==
  ASSUME UNCHANGED simulations
  PROVE  OpenOnes' = OpenOnes
BY DEF OpenOnes, Open

LEMMA OnceInit ==
  ASSUME SimulationBounds, Init
  PROVE  OnceInv
<1>1. OpenOnes = {}
  BY DEF Init, OpenOnes, Open
<1>2. Cardinality(OpenOnes) <= MaxOpen
  BY <1>1, FS_EmptySet DEF SimulationBounds
<1>3. OneRunner
  BY IdleRunner DEF Init, OneRunner
<1> QED BY <1>2, <1>3 DEF OnceInv, Init

LEMMA OnceStep ==
  ASSUME SimulationBounds, ~LeaseOutlived, ResultInv, OnceInv, [Next]_vars
  PROVE  OnceInv'
<1>1. /\ simulations \in [Ids -> Simulation] /\ audited \in [Ids -> Nat]
      /\ runner \in [Runners -> RunnerState] /\ \A p \in Runners : runner[p].id \in Ids
  BY DEF ResultInv, Typed, RunnerState
<1>2. ASSUME UNCHANGED <<simulations, audited>>,
             \A p \in Runners : runner'[p].step # "idle" =>
               runner[p].step # "idle" /\ runner'[p].id = runner[p].id
      PROVE  OnceInv'
  BY <1>2, SameOpen DEF OnceInv, OneRunner
<1>3. ASSUME NEW id \in Ids, NEW draft \in Drafts, Create(id, draft) PROVE OnceInv'
  <2> DEFINE new == [state |-> "queued", draft |-> draft, result |-> Empty]
  <2>1. /\ simulations[id].state = "none" /\ Cardinality(OpenOnes) < MaxOpen
        /\ simulations' = [simulations EXCEPT ![id] = new]
        /\ new.state = "queued" /\ UNCHANGED <<audited, runner>>
    BY <1>3 DEF Create
  <2> HIDE DEF new
  <2>2. simulations'[id] = new /\ \A i \in Ids \ {id} : simulations'[i] = simulations[i]
    BY <1>1, <2>1
  <2>3. OpenOnes' = OpenOnes \cup {id} /\ id \notin OpenOnes
    BY <2>1, <2>2 DEF OpenOnes, Open
  <2>4. IsFiniteSet(OpenOnes) /\ Cardinality(OpenOnes) \in Nat
    BY FS_Subset, FS_CardinalityType DEF SimulationBounds, OpenOnes
  <2>5. Cardinality(OpenOnes') <= MaxOpen
    <3>1. Cardinality(OpenOnes \cup {id}) = Cardinality(OpenOnes) + 1
      BY <2>3, <2>4, FS_AddElement
    <3>2. Cardinality(OpenOnes') = Cardinality(OpenOnes) + 1
      BY <2>3, <3>1
    <3> QED BY <2>1, <2>4, <3>2 DEF SimulationBounds
  <2>6. OneRunner'
    BY <1>1, <2>1, <2>2 DEF OnceInv, OneRunner
  <2>7. \A i \in Ids : audited'[i] = IF simulations'[i].state = "completed" THEN 1 ELSE 0
    BY <2>1, <2>2 DEF OnceInv
  <2> QED BY <2>5, <2>6, <2>7 DEF OnceInv
<1>4. ASSUME NEW p \in Runners, NEW id \in Ids, Claim(p, id) PROVE OnceInv'
  <2> DEFINE new == [Idle EXCEPT !.step = "claimed", !.id = id]
  <2>1. new \in RunnerState /\ new.step = "claimed" /\ new.id = id
    BY IdleRunner
  <2>2. /\ runner' = [runner EXCEPT ![p] = new]
        /\ simulations' = [simulations EXCEPT ![id].state = "running"]
        /\ simulations[id].state \in {"queued", "expired"} /\ UNCHANGED audited
    BY <1>4 DEF Claim
  <2> HIDE DEF new
  <2>3. runner'[p] = new /\ \A q \in Runners \ {p} : runner'[q] = runner[q]
    BY <1>1, <2>1, <2>2, OneMoves
  <2>4. simulations'[id].state = "running" /\ \A i \in Ids \ {id} : simulations'[i] = simulations[i]
    BY <2>2, StateStep
  <2>5. \A q \in Runners : runner[q].step # "idle" => runner[q].id # id
    BY <2>2 DEF OnceInv, OneRunner
  <2>6. OneRunner'
    BY <1>1, <2>1, <2>3, <2>4, <2>5 DEF OnceInv, OneRunner
  <2>7. OpenOnes' \subseteq OpenOnes
    BY <2>2, <2>4 DEF OpenOnes, Open
  <2>8. \A i \in Ids : audited'[i] = IF simulations'[i].state = "completed" THEN 1 ELSE 0
    BY <2>2, <2>4 DEF OnceInv
  <2> QED BY <2>6, <2>7, <2>8, FewerOpen DEF OnceInv
<1>5. ASSUME NEW p \in Runners, Resolve(p) PROVE OnceInv'
  <2>1. /\ runner' = [runner EXCEPT ![p].step = "reading", ![p].version = Len(policies), ![p].left = Repos]
        /\ runner[p].step = "claimed" /\ UNCHANGED <<simulations, audited>>
    BY <1>5 DEF Resolve
  <2>2. /\ runner'[p].id = runner[p].id
        /\ \A q \in Runners \ {p} : runner'[q] = runner[q]
    BY <1>1, <2>1 DEF RunnerState
  <2> QED BY <1>2, <2>1, <2>2
<1>6. ASSUME NEW p \in Runners, NEW repo \in Repos, ReadRepository(p, repo) PROVE OnceInv'
  <2>1. PICK left, result : runner' = [runner EXCEPT ![p].left = left, ![p].result = result]
    BY <1>6 DEF ReadRepository
  <2>2. /\ runner'[p].id = runner[p].id /\ runner'[p].step = runner[p].step
        /\ \A q \in Runners \ {p} : runner'[q] = runner[q]
    BY <1>1, <2>1 DEF RunnerState
  <2>3. UNCHANGED <<simulations, audited>>
    BY <1>6 DEF ReadRepository
  <2> QED BY <1>2, <2>2, <2>3
<1>7. ASSUME NEW p \in Runners, runner[p].step # "idle", runner' = [runner EXCEPT ![p] = Idle]
      PROVE  /\ \A q \in Runners : runner'[q].step # "idle" => q # p /\ runner'[q] = runner[q]
             /\ simulations[runner[p].id].state = "running"
             /\ \A q \in Runners : runner'[q].step # "idle" => runner'[q].id # runner[p].id
  <2>1. runner'[p] = Idle /\ \A q \in Runners \ {p} : runner'[q] = runner[q]
    BY <1>1, <1>7, IdleRunner, OneMoves
  <2>2. \A q \in Runners : runner'[q].step # "idle" => q # p /\ runner'[q] = runner[q]
    BY <2>1, IdleRunner
  <2>3. /\ simulations[runner[p].id].state = "running"
        /\ \A q \in Runners : runner[q].step # "idle" /\ runner[q].id = runner[p].id => q = p
    BY <1>7 DEF OnceInv, OneRunner
  <2>4. \A q \in Runners : runner'[q].step # "idle" => runner'[q].id # runner[p].id
    BY <2>2, <2>3
  <2> QED BY <2>2, <2>3, <2>4
<1>8. ASSUME NEW p \in Runners, Complete(p) PROVE OnceInv'
  <2> DEFINE id == runner[p].id
  <2>1. /\ simulations' = [simulations EXCEPT ![id].state = "completed", ![id].result = runner[p].result]
        /\ audited' = [audited EXCEPT ![id] = @ + 1]
        /\ runner' = [runner EXCEPT ![p] = Idle] /\ runner[p].step = "reading"
    BY <1>8 DEF Complete
  <2>2. id \in Ids
    BY <1>1
  <2>3. simulations'[id].state = "completed" /\ \A i \in Ids \ {id} : simulations'[i] = simulations[i]
    BY <1>1, <2>1, <2>2 DEF Simulation
  <2>4. audited'[id] = audited[id] + 1 /\ \A i \in Ids \ {id} : audited'[i] = audited[i]
    BY <1>1, <2>1, <2>2
  <2>5. /\ \A q \in Runners : runner'[q].step # "idle" => q # p /\ runner'[q] = runner[q]
        /\ simulations[id].state = "running"
        /\ \A q \in Runners : runner'[q].step # "idle" => runner'[q].id # id
    BY <1>7, <2>1
  <2> HIDE DEF id
  <2>6. OneRunner'
    BY <1>1, <2>3, <2>5 DEF OnceInv, OneRunner
  <2>7. OpenOnes' \subseteq OpenOnes
    BY <2>2, <2>3, <2>5 DEF OpenOnes, Open
  <2>8. \A i \in Ids : audited'[i] = IF simulations'[i].state = "completed" THEN 1 ELSE 0
    BY <2>2, <2>3, <2>4, <2>5 DEF OnceInv
  <2> QED BY <2>6, <2>7, <2>8, FewerOpen DEF OnceInv
<1>9. ASSUME NEW p \in Runners, FailRun(p) PROVE OnceInv'
  <2> DEFINE id == runner[p].id
  <2>1. /\ simulations' = [simulations EXCEPT ![id].state = "failed"]
        /\ runner' = [runner EXCEPT ![p] = Idle] /\ runner[p].step # "idle" /\ UNCHANGED audited
    BY <1>9 DEF FailRun
  <2>2. id \in Ids
    BY <1>1
  <2>3. simulations'[id].state = "failed" /\ \A i \in Ids \ {id} : simulations'[i] = simulations[i]
    BY <2>1, <2>2, StateStep
  <2>4. /\ \A q \in Runners : runner'[q].step # "idle" => q # p /\ runner'[q] = runner[q]
        /\ simulations[id].state = "running"
        /\ \A q \in Runners : runner'[q].step # "idle" => runner'[q].id # id
    BY <1>7, <2>1
  <2> HIDE DEF id
  <2>5. OneRunner'
    BY <1>1, <2>3, <2>4 DEF OnceInv, OneRunner
  <2>6. OpenOnes' \subseteq OpenOnes
    BY <2>2, <2>3, <2>4 DEF OpenOnes, Open
  <2>7. \A i \in Ids : audited'[i] = IF simulations'[i].state = "completed" THEN 1 ELSE 0
    BY <2>1, <2>2, <2>3, <2>4 DEF OnceInv
  <2> QED BY <2>5, <2>6, <2>7, FewerOpen DEF OnceInv
<1>10. ASSUME NEW p \in Runners, Crash(p) PROVE OnceInv'
  <2>1. runner' = [runner EXCEPT ![p] = Idle] /\ runner[p].step # "idle"
        /\ UNCHANGED <<simulations, audited>>
    BY <1>10 DEF Crash
  <2> QED BY <1>2, <1>7, <2>1
<1>11. ASSUME NEW id \in Ids, ExpireLease(id) PROVE OnceInv'
  <2>1. /\ simulations[id].state = "running" /\ ~Runs(id) /\ UNCHANGED <<audited, runner>>
        /\ simulations' = [simulations EXCEPT ![id].state = "expired"]
    BY <1>11 DEF ExpireLease
  <2>2. simulations'[id].state = "expired" /\ \A i \in Ids \ {id} : simulations'[i] = simulations[i]
    BY <2>1, StateStep
  <2>3. OneRunner'
    BY <1>1, <2>1, <2>2 DEF OnceInv, OneRunner, Runs
  <2>4. OpenOnes' \subseteq OpenOnes
    BY <2>1, <2>2 DEF OpenOnes, Open
  <2>5. \A i \in Ids : audited'[i] = IF simulations'[i].state = "completed" THEN 1 ELSE 0
    BY <2>1, <2>2 DEF OnceInv
  <2> QED BY <2>3, <2>4, <2>5, FewerOpen DEF OnceInv
<1>12. CASE UNCHANGED vars
  BY <1>2, <1>12 DEF vars
<1>13. ASSUME NEW repo \in Repos, NEW group \in Groups, NEW found \in BOOLEAN,
              FinishScan(repo, group, found)
       PROVE  OnceInv'
  BY <1>2, <1>13 DEF FinishScan
<1>14. ASSUME NEW action \in Actions, Publish(action) PROVE OnceInv'
  BY <1>2, <1>14 DEF Publish
<1>15. ASSUME NEW p \in Runners, Work(p) PROVE OnceInv'
  BY <1>4, <1>5, <1>6, <1>8, <1>15 DEF Work
<1> QED BY <1>3, <1>9, <1>10, <1>11, <1>12, <1>13, <1>14, <1>15 DEF Next

LEMMA OnceOnly ==
  ASSUME SimulationBounds, ~LeaseOutlived
  PROVE  Spec => [](ResultInv /\ OnceInv)
<1>1. Init => ResultInv /\ OnceInv
  BY ResultInit, OnceInit
<1>2. ResultInv /\ OnceInv /\ [Next]_vars => (ResultInv /\ OnceInv)'
  BY ResultStep, OnceStep
<1> QED BY <1>1, <1>2, PTL DEF Spec

LEMMA SimulationsTyped == ResultInv /\ OnceInv => TypeOK
<1> SUFFICES ASSUME ResultInv, OnceInv PROVE TypeOK
  OBVIOUS
<1>1. \A id \in Ids : audited[id] \in 0..2
  BY DEF OnceInv
<1>2. audited \in [Ids -> 0..2]
  BY <1>1 DEF ResultInv, Typed
<1> QED BY <1>2 DEF ResultInv, Typed, TypeOK, RunnerState

\* Every variable has its type: no simulation is audited twice.
THEOREM TypeCorrect ==
  ASSUME SimulationBounds, ~LeaseOutlived
  PROVE  Spec => []TypeOK
BY SimulationsTyped, OnceOnly, PTL

\* The limit of open simulations holds, and each is completed and audited once, although
\* runners crash and others take over, where no runner takes longer than its lease
\* (governance/simulation.py, create and run_pending).
THEOREM SimulatedOnlyOnce ==
  ASSUME SimulationBounds, ~LeaseOutlived
  PROVE  Spec => []SimulatedOnce
<1>1. ResultInv /\ OnceInv => SimulatedOnce
  BY DEF OnceInv, SimulatedOnce, OpenOnes, Completed
<1> QED BY <1>1, OnceOnly, PTL
=============================================================================
