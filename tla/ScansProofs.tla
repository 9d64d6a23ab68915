------------------------------- MODULE ScansProofs -------------------------------
(***************************************************************************)
(* Proofs about the components that MCScans runs: the lifecycle of         *)
(* violations, for any findings, groups and number of scans; the           *)
(* resolution of a rule, for any number of groups, layers and exceptions;  *)
(* the hooks of a user, for any hooks; the commits that are pushed, for    *)
(* any branches, commits and pushers; the posture of an organization, for  *)
(* any repositories and concurrent refreshes of their enforcement; and the *)
(* pages of the dashboard, for any repositories, scans and retention.      *)
(***************************************************************************)
EXTENDS MCScans, SequenceTheorems, FiniteSetTheorems, WellFoundedInduction, TLAPS

\* A violation that is, or once was, exposed somewhere is stored.
ExposedIsStored ==
  \A v \in Findings, g \in Groups : exposure[v][g] # "none" => status[v] # "none"

\* What a scan found unreachable is not reachable from its head.
GoneIsUnreachable ==
  \A i \in ScanIds : scans[i].gone \cap scans[i].head = {}

Inv == /\ TypeOK
       /\ StatusMatchesExposures
       /\ ExposedIsStored
       /\ NewestScanStands
       /\ GoneIsUnreachable

-----------------------------------------------------------------------------
(* Changes of the scans.                                                   *)

\* Scans are numbered from 1.
LEMMA ScanIdsType ==
  ASSUME TypeOK
  PROVE  /\ ScanIds = 1..Len(scans) /\ Len(scans) \in Nat
         /\ \A i \in ScanIds : scans[i] \in Scan
BY LenProperties, ElementOfSeq DEF TypeOK, ScanIds

\* A scan that changes keeps its number, and the other scans stay the same.
LEMMA ChangeScan ==
  ASSUME TypeOK, NEW i \in ScanIds, NEW s \in Scan, scans' = [scans EXCEPT ![i] = s]
  PROVE  /\ scans' \in Seq(Scan) /\ Len(scans') = Len(scans)
         /\ ScanIds' = ScanIds
         /\ scans'[i] = s
         /\ \A j \in ScanIds : j # i => scans'[j] = scans[j]
<1>1. i \in 1..Len(scans) /\ ScanIds = 1..Len(scans)
  BY ScanIdsType
<1>2. /\ scans' \in Seq(Scan) /\ Len(scans') = Len(scans)
      /\ \A j \in 1..Len(scans) : scans'[j] = IF j = i THEN s ELSE scans[j]
  BY <1>1, ExceptSeq DEF TypeOK
<1>3. ScanIds' = 1..Len(scans')
  BY <1>2, LenProperties DEF ScanIds
<1>. QED
  BY <1>1, <1>2, <1>3

\* Only the state of a scan changes.
LEMMA ChangeState ==
  ASSUME TypeOK, NEW i \in ScanIds, NEW st \in {"running", "recording", "completed", "ended"},
         scans' = [scans EXCEPT ![i].state = st]
  PROVE  /\ scans' \in Seq(Scan) /\ Len(scans') = Len(scans)
         /\ ScanIds' = ScanIds
         /\ scans'[i].state = st
         /\ \A j \in ScanIds :
              /\ j # i => scans'[j] = scans[j]
              /\ scans'[j].group = scans[j].group /\ scans'[j].head = scans[j].head
              /\ scans'[j].finds = scans[j].finds /\ scans'[j].gone = scans[j].gone
<1> DEFINE s == [scans[i] EXCEPT !.state = st]
<1>1. scans[i] \in Scan
  BY ScanIdsType
<1>2. s \in Scan
  BY <1>1 DEF Scan
<1>3. scans' = [scans EXCEPT ![i] = s]
  OBVIOUS
<1>4. /\ s.state = st /\ s.group = scans[i].group /\ s.head = scans[i].head
      /\ s.finds = scans[i].finds /\ s.gone = scans[i].gone
  BY <1>1 DEF Scan
<1> HIDE DEF s
<1>5. /\ scans' \in Seq(Scan) /\ Len(scans') = Len(scans)
      /\ ScanIds' = ScanIds
      /\ scans'[i] = s
      /\ \A j \in ScanIds : j # i => scans'[j] = scans[j]
  BY <1>2, <1>3, ChangeScan
<1>. QED
  BY <1>4, <1>5

\* A new scan gets the next number.
LEMMA AddedScan ==
  ASSUME TypeOK, NEW g \in Groups, NEW head \in SUBSET Findings, AddScan(g, head)
  PROVE  /\ scans' \in Seq(Scan) /\ Len(scans') = Len(scans) + 1 /\ Len(scans') <= MaxScans
         /\ ScanIds' = ScanIds \cup {Len(scans) + 1}
         /\ \A j \in ScanIds : scans'[j] = scans[j]
         /\ scans'[Len(scans) + 1].state = "running"
         /\ scans'[Len(scans) + 1].gone = {}
<1> DEFINE s == [group |-> g, head |-> head, gone |-> {}, state |-> "running",
                 finds |-> IF g \in Branches THEN head \ Before(g) ELSE head]
<1>1. s \in Scan
  BY DEF Scan
<1>2. scans' = Append(scans, s) /\ Len(scans) < MaxScans
  BY DEF AddScan
<1>3. ScanIds = 1..Len(scans) /\ Len(scans) \in Nat
  BY ScanIdsType
<1>4. s.state = "running" /\ s.gone = {}
  OBVIOUS
<1> HIDE DEF s
<1>5. /\ scans' \in Seq(Scan) /\ Len(scans') = Len(scans) + 1
      /\ \A j \in 1..Len(scans) : scans'[j] = scans[j]
      /\ scans'[Len(scans) + 1] = s
  BY <1>1, <1>2, AppendProperties DEF TypeOK
<1>6. ScanIds' = 1..Len(scans')
  BY <1>5, LenProperties DEF ScanIds
<1>. QED
  BY <1>2, <1>3, <1>4, <1>5, <1>6, GroupsAssumption

\* A running scan has looked for unreachable commits.
LEMMA ReachableChecked ==
  ASSUME TypeOK, NEW i \in ScanIds, CheckReachable(i)
  PROVE  /\ scans' \in Seq(Scan) /\ Len(scans') = Len(scans)
         /\ ScanIds' = ScanIds
         /\ scans[i].state = "running" /\ scans'[i].state = "recording"
         /\ scans'[i].gone \cap scans'[i].head = {}
         /\ \A j \in ScanIds : j # i => scans'[j] = scans[j]
<1>1. scans[i] \in Scan
  BY ScanIdsType
<1>2. PICK gone \in SUBSET Findings :
        /\ gone \cap scans[i].head = {}
        /\ scans' = [scans EXCEPT ![i].state = "recording", ![i].gone = gone]
  BY <1>1 DEF CheckReachable, Scan
<1> DEFINE s == [scans[i] EXCEPT !.state = "recording", !.gone = gone]
<1>3. s \in Scan
  BY <1>1, <1>2 DEF Scan
<1>4. s.state = "recording" /\ s.gone = gone /\ s.head = scans[i].head
  BY <1>1 DEF Scan
<1>5. scans' = [scans EXCEPT ![i] = s]
  BY <1>2
<1> HIDE DEF s
<1>6. scans[i].state = "running"
  BY DEF CheckReachable
<1>. QED
  BY <1>2, <1>3, <1>4, <1>5, <1>6, ChangeScan

-----------------------------------------------------------------------------
(* Types.                                                                  *)

ExposureType == [Findings -> [Groups -> ExposureState]]
StatusType == [Findings -> {"none", "open", "resolved"}]

\* _refresh_statuses keeps the types.
LEMMA RefreshType ==
  ASSUME NEW st \in StatusType, NEW e, NEW touched
  PROVE  Refresh(st, e, touched) \in StatusType
BY DEF Refresh, StatusType

\* Clearing acknowledgements keeps the types.
LEMMA ClearType ==
  ASSUME TypeOK, NEW old, NEW new
  PROVE  ClearReopened(old, new) \in [Findings -> BOOLEAN]
BY DEF ClearReopened, TypeOK

\* So does a change of exposures.
LEMMA UpdateType ==
  ASSUME TypeOK, NEW e \in ExposureType, NEW touched, Update(e, touched)
  PROVE  /\ exposure' \in ExposureType /\ status' \in StatusType
         /\ ack' \in [Findings -> BOOLEAN]
BY RefreshType, ClearType DEF Update, TypeOK, StatusType

\* What the end of a group makes of the exposures.
LEMMA EndedType ==
  ASSUME TypeOK, NEW g \in Groups, NEW reason \in {"closed", "ended"}, NEW bases
  PROVE  EndedExposure(g, reason, bases) \in ExposureType
BY DEF EndedExposure, TypeOK, ExposureType, ExposureState

\* The end of a group keeps the types.
LEMMA EndGroupType ==
  ASSUME TypeOK, NEW g \in Groups, NEW state \in {"closed", "ended"},
         NEW reason \in {"closed", "ended"}, NEW bases, EndGroup(g, state, reason, bases)
  PROVE  TypeOK'
<1>1. /\ exposure' \in ExposureType /\ status' \in StatusType
      /\ ack' \in [Findings -> BOOLEAN]
  BY EndedType, UpdateType DEF EndGroup
<1>2. group' \in [Groups -> {"open", "closed", "ended"}]
  BY DEF EndGroup, TypeOK
<1>3. scans' = scans
  BY DEF EndGroup
<1>. QED
  BY <1>1, <1>2, <1>3 DEF TypeOK, ExposureType, StatusType

\* Every step keeps the types.
LEMMA TypeStep ==
  ASSUME TypeOK, [Next]_vars
  PROVE  TypeOK'
<1>1. ASSUME NEW g \in Groups, NEW head \in SUBSET Findings, StartScan(g, head)
      PROVE  TypeOK'
  BY <1>1, AddedScan DEF StartScan, TypeOK
<1>2. ASSUME NEW i \in ScanIds, CheckReachable(i) PROVE TypeOK'
  <2>1. scans' \in Seq(Scan) /\ Len(scans') = Len(scans)
    BY <1>2, ReachableChecked
  <2>. QED
    BY <1>2, <2>1 DEF CheckReachable, TypeOK
<1>3. ASSUME NEW i \in ScanIds, RecordCompleted(i) PROVE TypeOK'
  <2>1. scans' \in Seq(Scan) /\ Len(scans') = Len(scans)
    BY <1>3, ChangeState DEF RecordCompleted
  <2>2. exposure' \in ExposureType
    BY <1>3 DEF RecordCompleted, TypeOK, ExposureType, ExposureState
  <2>3. Upsert(scans[i], Stale(i)) \in StatusType
    BY DEF Upsert, TypeOK, StatusType
  <2>4. status' \in StatusType
    BY <1>3, <2>3, RefreshType DEF RecordCompleted
  <2>5. ack' \in [Findings -> BOOLEAN]
    BY <1>3, ClearType DEF RecordCompleted
  <2>. QED
    BY <1>3, <2>1, <2>2, <2>4, <2>5 DEF RecordCompleted, TypeOK, ExposureType, StatusType
<1>4. ASSUME NEW i \in ScanIds, ScanEnds(i) PROVE TypeOK'
  <2>1. scans' \in Seq(Scan) /\ Len(scans') = Len(scans)
    BY <1>4, ChangeState DEF ScanEnds
  <2>. QED
    BY <1>4, <2>1 DEF ScanEnds, TypeOK
<1>5. ASSUME NEW g \in Groups, PullRequestClosed(g) PROVE TypeOK'
  BY <1>5, EndGroupType DEF PullRequestClosed
<1>6. ASSUME NEW g \in Groups, NEW base \in Branches, PullRequestMerged(g, base)
      PROVE  TypeOK'
  BY <1>6, EndGroupType DEF PullRequestMerged
<1>7. ASSUME NEW g \in Groups, NEW bases, MergeGroupDestroyed(g, bases) PROVE TypeOK'
  BY <1>7, EndGroupType DEF MergeGroupDestroyed
<1>8. ASSUME NEW g \in Groups, BranchDeleted(g) PROVE TypeOK'
  BY <1>8, EndGroupType DEF BranchDeleted
<1>9. ASSUME NEW g \in Groups, PullRequestReopened(g) PROVE TypeOK'
  <2> DEFINE e == [v \in Findings |-> [h \in Groups |->
                     IF h = g /\ v \in Restored(g) THEN "active" ELSE exposure[v][h]]]
  <2>1. e \in ExposureType
    BY DEF TypeOK, ExposureType, ExposureState
  <2>2. Update(e, Restored(g))
    BY <1>9 DEF PullRequestReopened
  <2> HIDE DEF e
  <2>3. /\ exposure' \in ExposureType /\ status' \in StatusType
        /\ ack' \in [Findings -> BOOLEAN]
    BY <2>1, <2>2, UpdateType
  <2>. QED
    BY <1>9, <2>3 DEF PullRequestReopened, TypeOK, ExposureType, StatusType
<1>10. ASSUME NEW g \in Groups, NEW head \in SUBSET Findings, ReopenedChanged(g, head)
       PROVE  TypeOK'
  BY <1>10, AddedScan DEF ReopenedChanged, TypeOK
<1>11. ASSUME NEW v \in Findings, Acknowledge(v) \/ RemoveAcknowledgement(v)
       PROVE  TypeOK'
  BY <1>11 DEF Acknowledge, RemoveAcknowledgement, TypeOK
<1>12. CASE UNCHANGED vars
  BY <1>12 DEF vars, TypeOK
<1>. QED
  BY <1>1, <1>2, <1>3, <1>4, <1>5, <1>6, <1>7, <1>8, <1>9, <1>10, <1>11, <1>12
  DEF Next, GroupEvent

\* The types hold initially.
LEMMA TypeInit == Init => TypeOK
BY EmptySeq, GroupsAssumption DEF Init, TypeOK, ExposureState

-----------------------------------------------------------------------------
(* Status and exposures.                                                   *)

\* A change of exposures that touches every violation whose exposures change,
\* and only stored violations, keeps statuses and exposures in agreement.
LEMMA UpdateStatus ==
  ASSUME Inv, NEW e \in ExposureType, NEW touched \in SUBSET Findings, Update(e, touched),
         \A v \in Findings \ touched : e[v] = exposure[v],
         \A v \in touched : status[v] # "none"
  PROVE  StatusMatchesExposures' /\ ExposedIsStored'
<1>1. exposure' = e /\ status' = Refresh(status, e, touched)
  BY DEF Update
<1>2. status \in StatusType
  BY DEF Inv, TypeOK, StatusType
<1>3. ASSUME NEW v \in Findings
      PROVE  /\ (status'[v] = "open") <=> Exposed(v, exposure')
             /\ status[v] # "none" => status'[v] # "none"
  <2>1. status'[v] = IF v \in touched /\ ~Exposed(v, e) /\ status[v] = "open" THEN "resolved"
                     ELSE IF v \in touched /\ Exposed(v, e) /\ status[v] = "resolved"
                     THEN "open" ELSE status[v]
    BY <1>1 DEF Refresh
  <2>2. (status[v] = "open") <=> Exposed(v, exposure)
    BY DEF Inv, StatusMatchesExposures
  <2>3. v \notin touched => (Exposed(v, exposure) <=> Exposed(v, e))
    BY DEF Exposed
  <2>. QED
    BY <1>1, <1>2, <2>1, <2>2, <2>3 DEF StatusType
<1>4. StatusMatchesExposures'
  BY <1>3 DEF StatusMatchesExposures
<1>5. ExposedIsStored'
  BY <1>1, <1>3 DEF Inv, ExposedIsStored
<1>. QED
  BY <1>4, <1>5

\* A violation that is exposed is open.
LEMMA ActiveIsOpen ==
  ASSUME Inv, NEW v \in Findings, NEW g \in Groups, Active(v, g)
  PROVE  status[v] = "open"
BY DEF Inv, StatusMatchesExposures, Exposed, Active

\* The newest scans of the groups stay the newest, and nothing they report is
\* taken back: NewestScanStands is kept.
LEMMA NewestKept ==
  ASSUME Inv, TypeOK',
         \A j \in ScanIds : scans[j].state = "completed" =>
           j \in ScanIds' /\ scans'[j] = scans[j],
         \A j \in ScanIds' : scans'[j].state = "completed" =>
           j \in ScanIds /\ scans'[j] = scans[j],
         \A v \in Findings, g \in Groups \ Branches :
           exposure[v][g] \in {"active", "closed", "ended"} =>
             exposure'[v][g] \in {"active", "closed", "ended"}
  PROVE  NewestScanStands'
<1> SUFFICES ASSUME NEW i \in ScanIds', IsNewest(i)', scans'[i].group \notin Branches,
                    NEW v \in scans'[i].finds
             PROVE  exposure'[v][scans'[i].group] \in {"active", "closed", "ended"}
  BY DEF NewestScanStands
<1>1. i \in ScanIds /\ scans'[i] = scans[i] /\ scans[i].state = "completed"
  BY DEF IsNewest, Completed
<1>2. ~Stale(i)
  BY <1>1 DEF IsNewest, Stale
<1>3. IsNewest(i)
  BY <1>1, <1>2 DEF IsNewest, Completed
<1>4. scans[i] \in Scan
  BY <1>1, ScanIdsType DEF Inv
<1>5. v \in Findings /\ scans[i].group \in Groups \ Branches
  BY <1>1, <1>4 DEF Scan
<1>6. exposure[v][scans[i].group] \in {"active", "closed", "ended"}
  BY <1>1, <1>3, <1>5 DEF Inv, NewestScanStands
<1>. QED
  BY <1>1, <1>5, <1>6

\* Closing, merging, deleting or destroying a group keeps the invariant.
LEMMA EndGroupInv ==
  ASSUME Inv, NEW g \in Groups, NEW state \in {"closed", "ended"},
         NEW reason \in {"closed", "ended"}, NEW bases \in SUBSET Branches,
         EndGroup(g, state, reason, bases)
  PROVE  Inv'
<1> DEFINE e == EndedExposure(g, reason, bases)
<1>1. TypeOK /\ TypeOK'
  BY EndGroupType DEF Inv
<1>2. e \in ExposureType /\ Update(e, ActiveIn(g)) /\ exposure' = e
  BY <1>1, EndedType DEF EndGroup, Update
<1>3. \A v \in Findings \ ActiveIn(g) : e[v] = exposure[v]
  BY <1>1 DEF EndedExposure, TypeOK
<1>4. \A v \in ActiveIn(g) : status[v] # "none"
  BY ActiveIsOpen DEF ActiveIn
<1>5. StatusMatchesExposures' /\ ExposedIsStored'
  <2> HIDE DEF e
  <2>1. ActiveIn(g) \in SUBSET Findings
    BY DEF ActiveIn
  <2>. QED
    BY <1>2, <1>3, <1>4, <2>1, UpdateStatus
<1>6. scans' = scans /\ ScanIds' = ScanIds
  BY DEF EndGroup, ScanIds
<1>7. \A v \in Findings, h \in Groups \ Branches :
        exposure[v][h] \in {"active", "closed", "ended"} =>
          exposure'[v][h] \in {"active", "closed", "ended"}
  BY <1>2 DEF EndedExposure
<1>8. NewestScanStands'
  BY <1>1, <1>6, <1>7, NewestKept
<1>9. GoneIsUnreachable'
  BY <1>6 DEF Inv, GoneIsUnreachable
<1>. QED
  BY <1>1, <1>5, <1>8, <1>9 DEF Inv

\* Reopening a pull request keeps the invariant.
LEMMA ReopenInv ==
  ASSUME Inv, TypeOK', NEW g \in Groups, PullRequestReopened(g)
  PROVE  Inv'
<1> DEFINE e == [v \in Findings |-> [h \in Groups |->
                   IF h = g /\ v \in Restored(g) THEN "active" ELSE exposure[v][h]]]
<1>1. TypeOK
  BY DEF Inv
<1>2. e \in ExposureType
  BY <1>1 DEF TypeOK, ExposureType, ExposureState
<1>3. Update(e, Restored(g)) /\ exposure' = e
  BY DEF PullRequestReopened, Update
<1>4. \A v \in Findings \ Restored(g) : e[v] = exposure[v]
  BY <1>1 DEF TypeOK
<1>5. \A v \in Restored(g) : status[v] # "none"
  BY DEF Inv, ExposedIsStored, Restored
<1>6. StatusMatchesExposures' /\ ExposedIsStored'
  <2> HIDE DEF e
  <2>1. Restored(g) \in SUBSET Findings
    BY DEF Restored
  <2>. QED
    BY <1>2, <1>3, <1>4, <1>5, <2>1, UpdateStatus
<1>7. scans' = scans /\ ScanIds' = ScanIds
  BY DEF PullRequestReopened, ScanIds
<1>8. \A v \in Findings, h \in Groups \ Branches :
        exposure[v][h] \in {"active", "closed", "ended"} =>
          exposure'[v][h] \in {"active", "closed", "ended"}
  BY <1>3
<1>9. NewestScanStands'
  BY <1>7, <1>8, NewestKept
<1>10. GoneIsUnreachable'
  BY <1>7 DEF Inv, GoneIsUnreachable
<1>. QED
  BY <1>6, <1>9, <1>10 DEF Inv

\* A new scan changes no violation.
LEMMA AddScanInv ==
  ASSUME Inv, TypeOK', NEW g \in Groups, NEW head \in SUBSET Findings, AddScan(g, head),
         UNCHANGED <<exposure, status, ack>>
  PROVE  Inv'
<1>1. /\ ScanIds' = ScanIds \cup {Len(scans) + 1}
      /\ \A j \in ScanIds : scans'[j] = scans[j]
      /\ scans'[Len(scans) + 1].state = "running"
      /\ scans'[Len(scans) + 1].gone = {}
  BY AddedScan DEF Inv
<1>2. NewestScanStands'
  BY <1>1, NewestKept
<1>3. GoneIsUnreachable'
  BY <1>1 DEF Inv, GoneIsUnreachable
<1>4. StatusMatchesExposures' /\ ExposedIsStored'
  BY DEF Inv, StatusMatchesExposures, ExposedIsStored, Exposed
<1>. QED
  BY <1>2, <1>3, <1>4 DEF Inv

-----------------------------------------------------------------------------
(* record_completed.                                                       *)

\* The exposures a completed scan leads to: none of another group changes, none at
\* all if a newer scan of the group completed before.
LEMMA RecordedExposure ==
  ASSUME Inv, NEW i \in ScanIds, RecordCompleted(i)
  PROVE  /\ \A v \in Findings, g \in Groups :
              (Stale(i) \/ g # scans[i].group) => exposure'[v][g] = exposure[v][g]
         /\ ~Stale(i) => \A v \in Findings :
              exposure'[v][scans[i].group] =
                IF v \in scans[i].finds THEN "active"
                ELSE IF v \in ClosedBy(scans[i]) THEN "absent"
                ELSE exposure[v][scans[i].group]
<1>1. scans[i].group \in Groups
  BY ScanIdsType DEF Inv, Scan
<1>. QED
  BY <1>1 DEF RecordCompleted

\* Status and exposures agree after a scan was recorded.
LEMMA RecordStatus ==
  ASSUME Inv, NEW i \in ScanIds, RecordCompleted(i)
  PROVE  StatusMatchesExposures' /\ ExposedIsStored'
<1> DEFINE s == scans[i]
           stale == Stale(i)
           upserted == Upsert(s, stale)
           touched == s.finds \cup IF stale THEN {} ELSE ClosedBy(s)
<1>1. s.group \in Groups /\ status \in StatusType
  BY ScanIdsType DEF Inv, Scan, TypeOK, StatusType
<1>2. status' = Refresh(upserted, exposure', touched)
  BY DEF RecordCompleted
<1>3. ASSUME NEW v \in Findings
      PROVE  /\ (status'[v] = "open") <=> Exposed(v, exposure')
             /\ (\E g \in Groups : exposure'[v][g] # "none") => status'[v] # "none"
  <2>1. (status[v] = "open") <=> Exposed(v, exposure)
    BY DEF Inv, StatusMatchesExposures
  <2>2. upserted[v] = IF v \in s.finds /\ (status[v] = "none" \/ (status[v] = "resolved" /\ ~stale))
                      THEN "open" ELSE status[v]
    BY DEF Upsert
  <2>3. status'[v] =
          IF v \in touched /\ ~Exposed(v, exposure') /\ upserted[v] = "open" THEN "resolved"
          ELSE IF v \in touched /\ Exposed(v, exposure') /\ upserted[v] = "resolved" THEN "open"
          ELSE upserted[v]
    BY <1>2 DEF Refresh
  <2> HIDE DEF upserted, touched
  <2>4. CASE v \in s.finds
    <3>1. v \in touched /\ upserted[v] \in {"open", "resolved"}
      BY <1>1, <2>2, <2>4 DEF StatusType, touched
    <3>. QED
      BY <2>3, <3>1
  <2>5. CASE v \notin s.finds /\ ~stale /\ v \in ClosedBy(s)
    <3>1. status[v] = "open"
      BY <1>1, ActiveIsOpen, <2>5 DEF ClosedBy
    <3>. QED
      BY <2>2, <2>3, <2>5, <3>1 DEF touched
  <2>6. CASE v \notin s.finds /\ (stale \/ v \notin ClosedBy(s))
    <3>1. \A g \in Groups : exposure'[v][g] = exposure[v][g]
      BY <1>1, <2>6, RecordedExposure
    <3>2. Exposed(v, exposure') <=> Exposed(v, exposure)
      BY <3>1 DEF Exposed
    <3>3. status'[v] = status[v]
      BY <2>2, <2>3, <2>6 DEF touched
    <3>. QED
      BY <2>1, <3>1, <3>2, <3>3 DEF Inv, ExposedIsStored
  <2>. QED
    BY <2>4, <2>5, <2>6
<1>. QED
  BY <1>3 DEF StatusMatchesExposures, ExposedIsStored

\* The newest completed scan of a pull request or merge group stands: a scan that
\* completes late changes no exposure, any other one becomes the newest itself.
LEMMA RecordNewest ==
  ASSUME Inv, TypeOK', NEW i \in ScanIds, RecordCompleted(i)
  PROVE  NewestScanStands'
<1>1. /\ ScanIds' = ScanIds /\ scans'[i].state = "completed"
      /\ \A j \in ScanIds :
           /\ j # i => scans'[j] = scans[j]
           /\ scans'[j].group = scans[j].group /\ scans'[j].finds = scans[j].finds
  BY ChangeState DEF RecordCompleted, Inv
<1>2. ScanIds \subseteq Nat /\ \A j \in ScanIds : scans[j] \in Scan
  BY ScanIdsType DEF Inv
<1> SUFFICES ASSUME NEW k \in ScanIds, IsNewest(k)', scans[k].group \notin Branches,
                    NEW v \in scans[k].finds
             PROVE  exposure'[v][scans[k].group] \in {"active", "closed", "ended"}
  BY <1>1 DEF NewestScanStands
<1>3. v \in Findings /\ scans[k].group \in Groups \ Branches
  BY <1>2 DEF Scan
<1>4. ~Stale(k)'
  BY DEF IsNewest
<1>5. CASE k = i
  <2>1. ~Stale(i)
    BY <1>1, <1>2, <1>4, <1>5 DEF Stale
  <2>. QED
    BY <1>3, <1>5, <2>1, RecordedExposure
<1>6. CASE k # i
  <2>1. scans[k].state = "completed"
    BY <1>1, <1>6 DEF IsNewest, Completed
  <2>2. ~Stale(k)
    BY <1>1, <1>4 DEF Stale, RecordCompleted
  <2>3. exposure[v][scans[k].group] \in {"active", "closed", "ended"}
    BY <1>3, <2>1, <2>2 DEF Inv, NewestScanStands, IsNewest, Completed
  <2>4. scans[k].group = scans[i].group => Stale(i)
    BY <1>1, <1>2, <1>4, <1>6, <2>1 DEF Stale
  <2>. QED
    BY <1>3, <2>3, <2>4, RecordedExposure
<1>. QED
  BY <1>5, <1>6

\* A scan that only changes its state, and completes none, keeps the invariant.
LEMMA ScanStepInv ==
  ASSUME Inv, TypeOK', NEW i \in ScanIds, ScanEnds(i) \/ CheckReachable(i)
  PROVE  Inv'
<1>1. /\ ScanIds' = ScanIds
      /\ scans[i].state # "completed" /\ scans'[i].state # "completed"
      /\ scans'[i].gone \cap scans'[i].head = {}
      /\ \A j \in ScanIds : j # i => scans'[j] = scans[j]
  <2>1. CASE ScanEnds(i)
    <3>1. scans[i].gone \cap scans[i].head = {}
      BY DEF Inv, GoneIsUnreachable
    <3>. QED
      BY <2>1, <3>1, ChangeState DEF ScanEnds, Inv
  <2>2. CASE CheckReachable(i)
    BY <2>2, ReachableChecked DEF Inv
  <2>. QED
    BY <2>1, <2>2
<1>2. UNCHANGED <<exposure, status>>
  BY DEF ScanEnds, CheckReachable
<1>3. NewestScanStands'
  BY <1>1, <1>2, NewestKept
<1>4. GoneIsUnreachable'
  BY <1>1 DEF Inv, GoneIsUnreachable
<1>5. StatusMatchesExposures' /\ ExposedIsStored'
  BY <1>2 DEF Inv, StatusMatchesExposures, ExposedIsStored, Exposed
<1>. QED
  BY <1>3, <1>4, <1>5 DEF Inv

-----------------------------------------------------------------------------
\* Every step keeps the invariant.
LEMMA InvStep ==
  ASSUME Inv, [Next]_vars
  PROVE  Inv'
<1>0. TypeOK /\ TypeOK'
  BY TypeStep DEF Inv
<1>1. ASSUME NEW g \in Groups, NEW head \in SUBSET Findings,
             StartScan(g, head) \/ ReopenedChanged(g, head)
      PROVE  Inv'
  BY <1>0, <1>1, AddScanInv DEF StartScan, ReopenedChanged
<1>2. ASSUME NEW i \in ScanIds, CheckReachable(i) \/ ScanEnds(i) PROVE Inv'
  BY <1>0, <1>2, ScanStepInv
<1>3. ASSUME NEW i \in ScanIds, RecordCompleted(i) PROVE Inv'
  <2>1. /\ ScanIds' = ScanIds
        /\ \A j \in ScanIds : scans'[j].head = scans[j].head /\ scans'[j].gone = scans[j].gone
    BY <1>0, <1>3, ChangeState DEF RecordCompleted
  <2>2. GoneIsUnreachable'
    BY <2>1 DEF Inv, GoneIsUnreachable
  <2>. QED
    BY <1>0, <1>3, <2>2, RecordStatus, RecordNewest DEF Inv
<1>4. ASSUME NEW g \in Groups, PullRequestClosed(g) \/ BranchDeleted(g) PROVE Inv'
  BY <1>4, EndGroupInv DEF PullRequestClosed, BranchDeleted
<1>5. ASSUME NEW g \in Groups, NEW base \in Branches, PullRequestMerged(g, base)
      PROVE  Inv'
  BY <1>5, EndGroupInv DEF PullRequestMerged
<1>6. ASSUME NEW g \in Groups, NEW bases \in SUBSET Branches, MergeGroupDestroyed(g, bases)
      PROVE  Inv'
  BY <1>6, EndGroupInv DEF MergeGroupDestroyed
<1>7. ASSUME NEW g \in Groups, PullRequestReopened(g) PROVE Inv'
  BY <1>0, <1>7, ReopenInv
<1>8. ASSUME NEW v \in Findings, Acknowledge(v) \/ RemoveAcknowledgement(v) PROVE Inv'
  <2>1. UNCHANGED <<scans, exposure, status>>
    BY <1>8 DEF Acknowledge, RemoveAcknowledgement
  <2>2. ScanIds' = ScanIds
    BY <2>1 DEF ScanIds
  <2>3. NewestScanStands'
    BY <1>0, <2>1, <2>2, NewestKept
  <2>. QED
    BY <1>0, <2>1, <2>2, <2>3
    DEF Inv, StatusMatchesExposures, ExposedIsStored, Exposed, GoneIsUnreachable
<1>9. CASE UNCHANGED vars
  BY <1>0, <1>9
  DEF vars, Inv, StatusMatchesExposures, ExposedIsStored, Exposed, GoneIsUnreachable,
      NewestScanStands, IsNewest, Completed, Stale, ScanIds
<1>. QED
  BY <1>1, <1>2, <1>3, <1>4, <1>5, <1>6, <1>7, <1>8, <1>9 DEF Next, GroupEvent

\* Nothing is exposed initially.
LEMMA InvInit == Init => Inv
BY TypeInit
DEF Init, Inv, StatusMatchesExposures, ExposedIsStored, Exposed, GoneIsUnreachable,
    NewestScanStands, ScanIds

\* The inductive invariant.
THEOREM Invariance == Spec => []Inv
BY InvInit, InvStep, PTL DEF Spec

\* Type correctness of scans, exposures and violations.
THEOREM TypeCorrect == Spec => []TypeOK
<1>1. Inv => TypeOK
  BY DEF Inv
<1>. QED
  BY <1>1, Invariance, PTL

\* A stored violation is open exactly while it is exposed somewhere (record_completed,
\* pull_request_closed, pull_request_reopened, merge_group_destroyed, branch_deleted).
THEOREM StatusIsExposure == Spec => []StatusMatchesExposures
<1>1. Inv => StatusMatchesExposures
  BY DEF Inv
<1>. QED
  BY <1>1, Invariance, PTL

\* An older scan that completes late takes nothing back from the newest one.
THEOREM NewestStands == Spec => []NewestScanStands
<1>1. Inv => NewestScanStands
  BY DEF Inv
<1>. QED
  BY <1>1, Invariance, PTL

-----------------------------------------------------------------------------
(* What a step may never do.                                               *)

\* A change of exposures clears the acknowledgement of what it reopens.
LEMMA UpdateClears ==
  ASSUME NEW e, NEW touched, Update(e, touched), NEW v \in Findings,
         status[v] = "resolved", status'[v] = "open"
  PROVE  ~ack'[v]
BY DEF Update, ClearReopened

\* So does the recording of a scan: a violation it reopens is not exposed before, so
\* a scan that completes late cannot reopen it.
LEMMA RecordClears ==
  ASSUME Inv, NEW i \in ScanIds, RecordCompleted(i), NEW v \in Findings,
         status[v] = "resolved", status'[v] = "open"
  PROVE  ~ack'[v]
<1> DEFINE upserted == Upsert(scans[i], Stale(i))
<1>1. ack' = ClearReopened(status, upserted)
  BY DEF RecordCompleted
<1>2. Exposed(v, exposure') /\ ~Exposed(v, exposure)
  BY RecordStatus DEF Inv, StatusMatchesExposures
<1>3. ~Stale(i) /\ v \in scans[i].finds
  BY <1>2, RecordedExposure DEF Exposed
<1>4. upserted[v] = "open"
  BY <1>3 DEF Upsert
<1>. QED
  BY <1>1, <1>4 DEF ClearReopened

\* A violation that comes back is reviewed again: its acknowledgement is cleared
\* (_upsert_violation, _refresh_statuses).
THEOREM ReopenedIsUnacknowledged == Spec => ReopenClearsAck
<1>1. ASSUME Inv, [Next]_vars, NEW v \in Findings, status[v] = "resolved", status'[v] = "open"
      PROVE  ~ack'[v]
  <2>1. ASSUME NEW i \in ScanIds, RecordCompleted(i) PROVE ~ack'[v]
    BY <1>1, <2>1, RecordClears
  <2>2. ASSUME NEW g, NEW state, NEW reason, NEW bases, EndGroup(g, state, reason, bases)
        PROVE  ~ack'[v]
    BY <1>1, <2>2, UpdateClears DEF EndGroup
  <2>3. ASSUME NEW g \in Groups, PullRequestReopened(g) PROVE ~ack'[v]
    BY <1>1, <2>3, UpdateClears DEF PullRequestReopened
  <2>4. ~UNCHANGED status
    BY <1>1
  <2>. QED
    BY <1>1, <2>1, <2>2, <2>3, <2>4
    DEF Next, GroupEvent, vars, PullRequestClosed, PullRequestMerged, MergeGroupDestroyed,
        BranchDeleted, StartScan, ReopenedChanged, CheckReachable, ScanEnds, Acknowledge,
        RemoveAcknowledgement
<1>2. Inv /\ [Next]_vars =>
        [\A v \in Findings : status[v] = "resolved" /\ status'[v] = "open" => ~ack'[v]]_vars
  BY <1>1
<1>. QED
  BY <1>2, Invariance, PTL DEF Spec, ReopenClearsAck

BranchKept(g, v) ==
  \/ group'[g] = "ended"
  \/ \E i \in ScanIds : /\ IsNewest(i)' /\ ~IsNewest(i)
                        /\ scans[i].group = g /\ v \notin scans[i].head

\* A scan that ends a branch exposure is the newest completed one, and its head does
\* not contain the commit.
LEMMA RecordKeeps ==
  ASSUME Inv, TypeOK', NEW i \in ScanIds, RecordCompleted(i),
         NEW g \in Branches, NEW v \in Findings, Active(v, g), ~Active(v, g)'
  PROVE  BranchKept(g, v)
<1>1. g \in Groups /\ g \notin PullRequests
  BY GroupsAssumption DEF Groups
<1>2. ~Stale(i) /\ scans[i].group = g /\ v \in ClosedBy(scans[i])
  BY <1>1, RecordedExposure DEF Active
<1>3. v \in scans[i].gone /\ v \notin scans[i].head
  BY <1>1, <1>2 DEF ClosedBy, Inv, GoneIsUnreachable
<1>4. scans[i].state = "recording"
  BY DEF RecordCompleted
<1>5. ~IsNewest(i)
  BY <1>4 DEF IsNewest, Completed
<1>6. /\ ScanIds' = ScanIds /\ scans'[i].state = "completed"
      /\ \A j \in ScanIds : scans'[j].group = scans[j].group /\ (j # i => scans'[j] = scans[j])
  BY ChangeState DEF RecordCompleted, Inv
<1>7. ScanIds \subseteq Nat
  BY ScanIdsType DEF Inv
<1>8. ~Stale(i)'
  BY <1>2, <1>6, <1>7 DEF Stale
<1>9. IsNewest(i)'
  BY <1>6, <1>8 DEF IsNewest, Completed
<1>. QED
  BY <1>2, <1>3, <1>5, <1>9 DEF BranchKept

\* The end of a pull request or merge group keeps branch exposures, the end of a
\* branch ends its own.
LEMMA EndGroupKeeps ==
  ASSUME Inv, NEW h \in Groups, NEW state, NEW reason, NEW bases,
         EndGroup(h, state, reason, bases), h \in Branches => state = "ended",
         NEW g \in Branches, NEW v \in Findings, Active(v, g), ~Active(v, g)'
  PROVE  BranchKept(g, v)
<1>1. g \in Groups
  BY DEF Groups
<1>2. h = g
  BY <1>1 DEF EndGroup, Update, EndedExposure, Active
<1>3. group'[g] = "ended"
  BY <1>1, <1>2 DEF EndGroup, Inv, TypeOK
<1>. QED
  BY <1>3 DEF BranchKept

\* An exposure on a branch ends only with the branch, or with a scan of it whose head
\* no longer contains the commit (_close_absent_exposures).
THEOREM BranchExposureIsKept == Spec => BranchExposureKept
<1>1. ASSUME Inv, [Next]_vars, NEW g \in Branches, NEW v \in Findings,
             Active(v, g), ~Active(v, g)'
      PROVE  BranchKept(g, v)
  <2>0. TypeOK'
    BY <1>1, TypeStep DEF Inv
  <2>1. g \in Groups
    BY DEF Groups
  <2>2. ASSUME NEW i \in ScanIds, RecordCompleted(i) PROVE BranchKept(g, v)
    BY <1>1, <2>0, <2>2, RecordKeeps
  <2>3. ASSUME NEW h \in Groups, PullRequestClosed(h) PROVE BranchKept(g, v)
    BY <1>1, <2>3, EndGroupKeeps, GroupsAssumption DEF PullRequestClosed
  <2>4. ASSUME NEW h \in Groups, NEW base \in Branches, PullRequestMerged(h, base)
        PROVE  BranchKept(g, v)
    BY <1>1, <2>4, EndGroupKeeps DEF PullRequestMerged
  <2>5. ASSUME NEW h \in Groups, NEW bases, MergeGroupDestroyed(h, bases)
        PROVE  BranchKept(g, v)
    BY <1>1, <2>5, EndGroupKeeps DEF MergeGroupDestroyed
  <2>6. ASSUME NEW h \in Groups, BranchDeleted(h) PROVE BranchKept(g, v)
    BY <1>1, <2>6, EndGroupKeeps DEF BranchDeleted
  <2>7. ASSUME NEW h \in Groups, PullRequestReopened(h) PROVE BranchKept(g, v)
    BY <1>1, <2>1, <2>7 DEF PullRequestReopened, Update, Active
  <2>8. ~UNCHANGED exposure
    BY <1>1 DEF Active
  <2>. QED
    BY <1>1, <2>2, <2>3, <2>4, <2>5, <2>6, <2>7, <2>8
    DEF Next, GroupEvent, vars, StartScan, ReopenedChanged, CheckReachable, ScanEnds,
        Acknowledge, RemoveAcknowledgement
<1>2. Inv /\ [Next]_vars =>
        [\A g \in Branches, v \in Findings : Active(v, g) /\ ~Active(v, g)' =>
           \/ group'[g] = "ended"
           \/ \E i \in ScanIds : /\ IsNewest(i)' /\ ~IsNewest(i)
                                 /\ scans[i].group = g /\ v \notin scans[i].head]_vars
  BY <1>1 DEF BranchKept
<1>. QED
  BY <1>2, Invariance, PTL DEF Spec, BranchExposureKept

-----------------------------------------------------------------------------
(* The resolution of a rule (Resolved).                                    *)

\* A set of ranks that is not empty has a greatest element.
LEMMA MaxRank ==
  ASSUME NEW S, S \subseteq Resolved!Action, S # {}
  PROVE  Resolved!Max(S) \in S /\ \A y \in S : y <= Resolved!Max(S)
<1>1. \E x \in S : \A y \in S : y <= x
  <2>1. CASE 2 \in S
    <3>1. \A y \in S : y <= 2
      BY DEF Resolved!Action
    <3> QED BY <2>1, <3>1
  <2>2. CASE 2 \notin S /\ 1 \in S
    <3>1. \A y \in S : y <= 1
      BY <2>2 DEF Resolved!Action
    <3> QED BY <2>2, <3>1
  <2>3. CASE 2 \notin S /\ 1 \notin S
    <3>1. \A y \in S : y = 0
      BY <2>3 DEF Resolved!Action
    <3> QED BY <3>1
  <2> QED BY <2>1, <2>2, <2>3
<1> QED BY <1>1 DEF Resolved!Max

-----------------------------------------------------------------------------
(* The ranks the resolution computes with.                                 *)

\* The inputs of every resolution are of their type, also those of a draft.
LEMMA RequiredRanks ==
  ASSUME NEW i \in Resolved!Inputs, NEW S \in SUBSET Resolved!Layers
  PROVE  Resolved!Required(i, S) \subseteq {1, 2} /\ Resolved!DefaultOf(i,
           S) \subseteq Resolved!Action
<1>1. \A l \in S : i.layers[l] \in Resolved!Mandatory \cup Resolved!Default \cup {Resolved!NoEntry}
  BY DEF Resolved!Inputs
<1>2. \A l \in S : i.layers[l].strength = "mandatory" => i.layers[l].action \in {1, 2}
  BY <1>1 DEF Resolved!Mandatory, Resolved!Default, Resolved!NoEntry
<1>3. \A l \in S : i.layers[l].strength = "default" => i.layers[l].action \in Resolved!Action
  BY <1>1 DEF Resolved!Mandatory, Resolved!Default, Resolved!NoEntry
<1> QED BY <1>2, <1>3 DEF Resolved!Required, Resolved!DefaultOf

LEMMA LayerSets ==
  RepositoryGroups \subseteq Resolved!Layers /\ Resolved!Organization \subseteq Resolved!Layers
       /\ {"repository"} \subseteq Resolved!Layers
BY DEF Resolved!Layers

LEMMA BaselineRank ==
  ASSUME NEW i \in Resolved!Inputs
  PROVE  Resolved!Baseline(i) \in Resolved!Action
<1>1. /\ Resolved!DefaultOf(i, {"repository"}) \subseteq Resolved!Action
      /\ Resolved!DefaultOf(i, RepositoryGroups) \subseteq Resolved!Action
      /\ Resolved!DefaultOf(i, Resolved!Organization) \subseteq Resolved!Action
  BY LayerSets, RequiredRanks
<1>2. /\ Resolved!DefaultOf(i, {"repository"}) # {} => Resolved!Max(Resolved!DefaultOf(i,
           {"repository"})) \in Resolved!Action
      /\ Resolved!DefaultOf(i, RepositoryGroups) # {} => Resolved!Max(Resolved!DefaultOf(i,
           RepositoryGroups)) \in Resolved!Action
      /\ Resolved!DefaultOf(i, Resolved!Organization) # {} => Resolved!Max(Resolved!DefaultOf(i,
           Resolved!Organization)) \in Resolved!Action
  BY <1>1, MaxRank
<1>3. i.builtIn \in Resolved!Action
  BY DEF Resolved!Inputs
<1> QED BY <1>2, <1>3 DEF Resolved!Baseline

Policy == [enabled: BOOLEAN, action: Resolved!Action]

LEMMA RequestedPolicy ==
  ASSUME NEW i \in Resolved!Inputs
  PROVE  Resolved!Requested(i) \in Policy
           /\ Resolved!Rank(Resolved!Requested(i)) \in Resolved!Action
<1>1. i.config \in Resolved!Config
  BY DEF Resolved!Inputs
<1>2. i.config.action = Resolved!Unset \/ i.config.action \in Resolved!Action
  BY <1>1 DEF Resolved!Config
<1>3. Resolved!Requested(i) \in Policy
  BY <1>2, BaselineRank DEF Resolved!Requested, Policy
<1>4. \A p \in Policy : Resolved!Rank(p) \in Resolved!Action
  BY DEF Policy, Resolved!Rank, Resolved!Action
<1> QED BY <1>3, <1>4

LEMMA FloorRank ==
  ASSUME NEW i \in Resolved!Inputs
  PROVE  /\ Resolved!Floor(i) \in Resolved!Action
         /\ \A a \in Resolved!Required(i, Resolved!Layers) : a <= Resolved!Floor(i)
         /\ Resolved!Required(i, Resolved!Layers) # {}
              => Resolved!Floor(i) \in Resolved!Required(i, Resolved!Layers)
         /\ Resolved!Required(i, Resolved!Layers) # {} => Resolved!Floor(i) # 0
<1>1. Resolved!Required(i, Resolved!Layers) \subseteq {1, 2}
  BY RequiredRanks
<1>2. Resolved!Required(i, Resolved!Layers) \subseteq Resolved!Action
  BY <1>1 DEF Resolved!Action
<1>3. CASE Resolved!Required(i, Resolved!Layers) = {}
  BY <1>3 DEF Resolved!Floor, Resolved!Action
<1>4. CASE Resolved!Required(i, Resolved!Layers) # {}
  <2>1. Resolved!Floor(i) = Resolved!Max(Resolved!Required(i, Resolved!Layers))
    BY <1>4 DEF Resolved!Floor
  <2>2. Resolved!Floor(i) \in Resolved!Required(i, Resolved!Layers)
          /\ \A a \in Resolved!Required(i, Resolved!Layers) : a <= Resolved!Floor(i)
    BY <1>2, <1>4, <2>1, MaxRank
  <2> QED BY <1>1, <1>2, <2>2
<1> QED BY <1>3, <1>4

\* The floored policy has the greater of the requested rank and the floor.
LEMMA FlooredRank ==
  ASSUME NEW i \in Resolved!Inputs
  PROVE  /\ Resolved!Rank(Resolved!Floored(i)) \in Resolved!Action
         /\ Resolved!Rank(Resolved!Floored(i))
              = Resolved!Rank(Resolved!Requested(i)) \/ Resolved!Rank(Resolved!Floored(i))
                   = Resolved!Floor(i)
         /\ Resolved!Rank(Resolved!Floored(i)) >= Resolved!Rank(Resolved!Requested(i))
         /\ Resolved!Rank(Resolved!Floored(i)) >= Resolved!Floor(i)
<1>1. Resolved!Rank(Resolved!Requested(i)) \in Resolved!Action
        /\ Resolved!Floor(i) \in Resolved!Action
  BY RequestedPolicy, FloorRank
<1>2. CASE Resolved!Floor(i) = 0
  <2>1. Resolved!Floored(i) = Resolved!Requested(i)
    BY <1>2 DEF Resolved!Floored
  <2> QED BY <1>1, <1>2, <2>1 DEF Resolved!Action
<1>3. CASE Resolved!Floor(i) # 0
  <2> DEFINE S == {Resolved!Rank(Resolved!Requested(i)), Resolved!Floor(i)}
  <2>1. Resolved!Max(S) \in S /\ \A y \in S : y <= Resolved!Max(S)
    <3>1. S \subseteq Resolved!Action /\ S # {}
      BY <1>1
    <3> QED BY <3>1, MaxRank
  <2>2. Resolved!Floored(i) = [enabled |-> TRUE, action |-> Resolved!Max(S)]
    BY <1>3 DEF Resolved!Floored
  <2>3. Resolved!Rank(Resolved!Floored(i)) = Resolved!Max(S)
    BY <2>2 DEF Resolved!Rank
  <2> QED BY <1>1, <2>1, <2>3 DEF Resolved!Action
<1> QED BY <1>2, <1>3

LEMMA GrantedRank ==
  ASSUME NEW i \in Resolved!Inputs, i.grants # {}
  PROVE  Resolved!Granted(i) \in {0, 1}
<1>1. i.grants \subseteq Resolved!Grant
  BY DEF Resolved!Inputs
<1> DEFINE scopes == {h.scope : h \in i.grants}
<1>2. scopes \subseteq Resolved!Action /\ scopes # {}
  BY <1>1 DEF Resolved!Grant, Resolved!Scope, Resolved!Action
<1>3. Resolved!Max(scopes) \in scopes
  BY <1>2, MaxRank
<1>4. Resolved!Narrowest(i) # {} /\ Resolved!Narrowest(i) \subseteq Resolved!Grant
  BY <1>1, <1>3 DEF Resolved!Narrowest
<1> DEFINE actions == {g.action : g \in Resolved!Narrowest(i)}
<1>5. actions \subseteq {0, 1} /\ actions # {}
  BY <1>4 DEF Resolved!Grant
<1>6. actions \subseteq Resolved!Action
  BY <1>5 DEF Resolved!Action
<1>7. Resolved!Max(actions) \in actions
  BY <1>5, <1>6, MaxRank
<1> QED BY <1>5, <1>7 DEF Resolved!Granted

\* What the last two steps do to a rank
Reported(mode, rank) == IF mode = "monitor" /\ rank = 2 THEN 1 ELSE rank

LEMMA DecisionRank ==
  ASSUME NEW i \in Resolved!Inputs
  PROVE  /\ Resolved!Rank(Resolved!Lowered(i)) \in Resolved!Action
         /\ Resolved!Rank(Resolved!Lowered(i))
              = IF Resolved!Excepted(i) THEN Resolved!Granted(i) ELSE Resolved!Rank(Resolved!Floored(i))
         /\ Resolved!Decision(i) = Reported(i.mode, Resolved!Rank(Resolved!Lowered(i)))
         /\ Resolved!Decision(i) \in Resolved!Action
<1>1. Resolved!Rank(Resolved!Floored(i)) \in Resolved!Action
  BY FlooredRank
<1>2. Resolved!Excepted(i) => Resolved!Granted(i) \in Resolved!Action
  BY GrantedRank DEF Resolved!Excepted, Resolved!Action
<1>3. Resolved!Rank(Resolved!Lowered(i))
        = IF Resolved!Excepted(i) THEN Resolved!Granted(i) ELSE Resolved!Rank(Resolved!Floored(i))
  BY DEF Resolved!Lowered, Resolved!Rank
<1>4. Resolved!Rank(Resolved!Lowered(i)) \in Resolved!Action
  BY <1>1, <1>2, <1>3
<1>5. Resolved!Lowered(i) \in Policy
  <2>1. CASE Resolved!Excepted(i)
    BY <1>2, <2>1 DEF Resolved!Lowered, Policy
  <2>2. CASE ~Resolved!Excepted(i)
    <3>1. Resolved!Lowered(i) = Resolved!Floored(i)
      BY <2>2 DEF Resolved!Lowered
    <3>2. Resolved!Floored(i) \in Policy
      <4>1. CASE Resolved!Floor(i) = 0
        BY <4>1, RequestedPolicy DEF Resolved!Floored
      <4>2. CASE Resolved!Floor(i) # 0
        <5> DEFINE S == {Resolved!Rank(Resolved!Requested(i)), Resolved!Floor(i)}
        <5>1. S \subseteq Resolved!Action /\ S # {}
          BY RequestedPolicy, FloorRank
        <5>2. Resolved!Max(S) \in Resolved!Action
          BY <5>1, MaxRank
        <5>3. Resolved!Floored(i) = [enabled |-> TRUE, action |-> Resolved!Max(S)]
          BY <4>2 DEF Resolved!Floored
        <5> QED BY <5>2, <5>3 DEF Policy
      <4> QED BY <4>1, <4>2
    <3> QED BY <3>1, <3>2
  <2> QED BY <2>1, <2>2
<1>6. Resolved!Decision(i) = Reported(i.mode, Resolved!Rank(Resolved!Lowered(i)))
  <2>1. CASE i.mode = "monitor" /\ Resolved!Rank(Resolved!Lowered(i)) = 2
    <3>1. Resolved!Lowered(i).enabled = TRUE
      BY <1>5, <2>1 DEF Policy, Resolved!Rank
    <3>2. Resolved!Effective(i) = [Resolved!Lowered(i) EXCEPT !.action = 1]
      BY <2>1 DEF Resolved!Effective
    <3>3. Resolved!Effective(i).enabled = TRUE /\ Resolved!Effective(i).action = 1
      BY <1>5, <3>1, <3>2 DEF Policy
    <3> QED BY <2>1, <3>3 DEF Resolved!Decision, Resolved!Rank, Reported
  <2>2. CASE ~(i.mode = "monitor" /\ Resolved!Rank(Resolved!Lowered(i)) = 2)
    BY <2>2 DEF Resolved!Decision, Resolved!Effective, Reported
  <2> QED BY <2>1, <2>2
<1>7. Resolved!Decision(i) \in Resolved!Action
  BY <1>4, <1>6 DEF Reported, Resolved!Action
<1> QED BY <1>3, <1>4, <1>6, <1>7

-----------------------------------------------------------------------------
(* The theorems.                                                           *)

\* The inputs stay of their type.
THEOREM ResolvedTypes == Resolved!Spec => []Resolved!TypeOK
<1>1. Resolved!Init => Resolved!TypeOK
  BY DEF Resolved!Init, Resolved!TypeOK, Resolved!Inputs, Resolved!Action, Resolved!Config,
       Resolved!Unset
<1>2. Resolved!TypeOK /\ [Resolved!Next]_in => Resolved!TypeOK'
  <2> SUFFICES ASSUME Resolved!TypeOK, [Resolved!Next]_in PROVE Resolved!TypeOK'
    OBVIOUS
  <2> USE DEF Resolved!TypeOK
  <2>1. CASE \E l \in Resolved!Layers : \E entry \in Resolved!Entries(l)
          \cup {Resolved!NoEntry} : Resolved!Publish(l, entry)
    BY <2>1 DEF Resolved!Publish, Resolved!Entries, Resolved!Inputs
  <2>2. CASE \E config \in Resolved!Config : Resolved!Configure(config)
    BY <2>2 DEF Resolved!Configure, Resolved!Inputs
  <2>3. CASE \E grant \in Resolved!Grant : Resolved!Approve(grant) \/ Resolved!EndException(grant)
    BY <2>3 DEF Resolved!Approve, Resolved!EndException, Resolved!Inputs
  <2>4. CASE Resolved!SwitchMode
    BY <2>4 DEF Resolved!SwitchMode, Resolved!Inputs
  <2>5. CASE UNCHANGED in
    BY <2>5
  <2>6. in.config \in Resolved!Config /\ in.grants \subseteq Resolved!Grant
    BY DEF Resolved!Inputs
  <2>7. \A e \in {"unset", "yes", "no"} : [in.config EXCEPT !.enabled = e] \in Resolved!Config
    BY <2>6 DEF Resolved!Config
  <2>8. \A a \in Resolved!Action \cup {Resolved!Unset} : [in.config EXCEPT !.action
          = a] \in Resolved!Config
    BY <2>6 DEF Resolved!Config
  <2> QED BY <2>1, <2>2, <2>3, <2>4, <2>5, <2>6, <2>7, <2>8 DEF Resolved!Next
<1> QED BY <1>1, <1>2, PTL DEF Resolved!Spec

\* A mandatory requirement is enforced, except for an exception and for the mode.
THEOREM ResolvedFloors == Resolved!Spec => []Resolved!FloorHolds
<1>1. Resolved!TypeOK => Resolved!FloorHolds
  <2> SUFFICES ASSUME in \in Resolved!Inputs, NEW a \in Resolved!Required(in, Resolved!Layers)
               PROVE  \/ Resolved!Decision(in) >= a
                      \/ in.grants # {} /\ Resolved!Decision(in) = Resolved!Granted(in)
                      \/ in.mode = "monitor" /\ Resolved!Decision(in) = 1
    BY DEF Resolved!TypeOK, Resolved!FloorHolds
  <2>1. a \in {1, 2}
    BY RequiredRanks
  <2>2. Resolved!Rank(Resolved!Floored(in)) >= a
          /\ Resolved!Rank(Resolved!Floored(in)) \in Resolved!Action
    <3>1. a <= Resolved!Floor(in) /\ Resolved!Floor(in) \in Resolved!Action
      BY FloorRank
    <3> QED BY <2>1, <3>1, FlooredRank DEF Resolved!Action
  <2>3. CASE Resolved!Excepted(in)
    <3>1. in.grants # {} /\ Resolved!Granted(in) \in {0, 1}
      BY <2>3, GrantedRank DEF Resolved!Excepted
    <3>2. Resolved!Decision(in) = Reported(in.mode, Resolved!Granted(in))
      BY <2>3, DecisionRank
    <3> QED BY <3>1, <3>2 DEF Reported
  <2>4. CASE ~Resolved!Excepted(in)
    <3>1. Resolved!Decision(in) = Reported(in.mode, Resolved!Rank(Resolved!Floored(in)))
      BY <2>4, DecisionRank
    <3> QED BY <2>1, <2>2, <3>1 DEF Reported, Resolved!Action
  <2> QED BY <2>3, <2>4
<1> QED BY <1>1, ResolvedTypes, PTL

\* Making mandatory entries stricter never lowers a decision.
LEMMA StricterDecision ==
  ASSUME NEW i \in Resolved!Inputs, NEW j \in Resolved!Inputs, Resolved!Stricter(i, j)
  PROVE  Resolved!Decision(j) >= Resolved!Decision(i)
<1>1. /\ j.config = i.config /\ j.builtIn = i.builtIn
      /\ j.grants = i.grants /\ j.mode = i.mode
  BY DEF Resolved!Stricter, Resolved!Inputs
<1>2. \A l \in Resolved!Layers : \/ j.layers[l] = i.layers[l]
                        \/ /\ j.layers[l].strength = "mandatory"
                           /\ i.layers[l].strength # "default"
                           /\ i.layers[l].action <= j.layers[l].action
  BY DEF Resolved!Stricter
<1>3. \A S \in SUBSET Resolved!Layers : Resolved!DefaultOf(j, S) = Resolved!DefaultOf(i, S)
  <2> SUFFICES ASSUME NEW S \in SUBSET Resolved!Layers PROVE Resolved!DefaultOf(j, S)
       = Resolved!DefaultOf(i, S)
    OBVIOUS
  <2>1. \A l \in S : /\ (j.layers[l].strength = "default") = (i.layers[l].strength = "default")
                     /\ j.layers[l].strength = "default" => j.layers[l] = i.layers[l]
    BY <1>2
  <2> QED BY <2>1 DEF Resolved!DefaultOf
<1>4. Resolved!Requested(j) = Resolved!Requested(i)
  <2>1. Resolved!Baseline(j) = Resolved!Baseline(i)
    BY <1>1, <1>3, LayerSets DEF Resolved!Baseline
  <2> QED BY <1>1, <2>1 DEF Resolved!Requested
<1>5. Resolved!Floor(j) >= Resolved!Floor(i)
  <2>1. CASE Resolved!Required(i, Resolved!Layers) = {}
    <3>1. Resolved!Floor(i) = 0
      BY <2>1 DEF Resolved!Floor
    <3> QED BY <3>1, FloorRank DEF Resolved!Action
  <2>2. CASE Resolved!Required(i, Resolved!Layers) # {}
    <3>1. PICK l \in Resolved!Layers : i.layers[l].strength = "mandatory" /\ Resolved!Floor(i)
            = i.layers[l].action
      BY <2>2, FloorRank DEF Resolved!Required
    <3>2. j.layers[l].strength = "mandatory" /\ i.layers[l].action <= j.layers[l].action
      <4>1. i.layers[l].action \in Resolved!Action
        BY <3>1, FloorRank
      <4> QED BY <1>2, <3>1, <4>1 DEF Resolved!Action
    <3>3. j.layers[l].action \in Resolved!Required(j, Resolved!Layers)
      BY <3>2 DEF Resolved!Required
    <3>4. j.layers[l].action <= Resolved!Floor(j) /\ j.layers[l].action \in {1, 2}
      BY <3>3, FloorRank, RequiredRanks
    <3> QED BY <3>1, <3>2, <3>4, FloorRank DEF Resolved!Action
  <2> QED BY <2>1, <2>2
<1>6. Resolved!Rank(Resolved!Floored(j)) >= Resolved!Rank(Resolved!Floored(i))
  <2>1. /\ Resolved!Rank(Resolved!Requested(i)) \in Resolved!Action
             /\ Resolved!Floor(i) \in Resolved!Action /\ Resolved!Floor(j) \in Resolved!Action
        /\ Resolved!Rank(Resolved!Floored(i)) \in Resolved!Action
             /\ Resolved!Rank(Resolved!Floored(j)) \in Resolved!Action
    BY RequestedPolicy, FloorRank, FlooredRank
  <2>2. Resolved!Rank(Resolved!Floored(j)) >= Resolved!Rank(Resolved!Requested(i))
          /\ Resolved!Rank(Resolved!Floored(j)) >= Resolved!Floor(j)
    BY <1>4, FlooredRank
  <2>3. Resolved!Rank(Resolved!Floored(i))
          = Resolved!Rank(Resolved!Requested(i)) \/ Resolved!Rank(Resolved!Floored(i))
               = Resolved!Floor(i)
    BY FlooredRank
  <2> QED BY <1>5, <2>1, <2>2, <2>3 DEF Resolved!Action
<1>7. Resolved!Granted(j) = Resolved!Granted(i)
  BY <1>1 DEF Resolved!Granted, Resolved!Narrowest
<1>8. Resolved!Rank(Resolved!Lowered(j)) >= Resolved!Rank(Resolved!Lowered(i))
  <2>1. /\ Resolved!Rank(Resolved!Lowered(i))
             = IF Resolved!Excepted(i) THEN Resolved!Granted(i) ELSE Resolved!Rank(Resolved!Floored(i))
        /\ Resolved!Rank(Resolved!Lowered(j))
             = IF Resolved!Excepted(j) THEN Resolved!Granted(j) ELSE Resolved!Rank(Resolved!Floored(j))
    BY DecisionRank
  <2>2. Resolved!Rank(Resolved!Floored(i)) \in Resolved!Action
          /\ Resolved!Rank(Resolved!Floored(j)) \in Resolved!Action
    BY FlooredRank
  <2>3. CASE i.grants = {}
    BY <1>1, <1>6, <2>1, <2>3 DEF Resolved!Excepted
  <2>4. CASE i.grants # {}
    <3>1. Resolved!Granted(i) \in {0, 1}
      BY <2>4, GrantedRank
    <3>2. Resolved!Excepted(i) = (Resolved!Rank(Resolved!Floored(i)) > Resolved!Granted(i))
            /\ Resolved!Excepted(j) = (Resolved!Rank(Resolved!Floored(j)) > Resolved!Granted(i))
      BY <1>1, <1>7, <2>4 DEF Resolved!Excepted
    <3> QED BY <1>6, <1>7, <2>1, <2>2, <3>1, <3>2 DEF Resolved!Action
  <2> QED BY <2>3, <2>4
<1>9. Resolved!Rank(Resolved!Lowered(i)) \in Resolved!Action
        /\ Resolved!Rank(Resolved!Lowered(j)) \in Resolved!Action
  BY DecisionRank
<1> QED BY <1>1, <1>8, <1>9, DecisionRank DEF Reported, Resolved!Action

\* No step that only makes mandatory entries stricter makes the rule weaker.
THEOREM ResolvedStricter == Resolved!Spec => Resolved!StricterNeverWeakens
<1>1. Resolved!TypeOK /\ Resolved!TypeOK' /\ [Resolved!Next]_in => [Resolved!Stricter(in, in')
        => Resolved!Decision(in') >= Resolved!Decision(in)]_in
  BY StricterDecision DEF Resolved!TypeOK
<1> QED BY <1>1, ResolvedTypes, PTL DEF Resolved!Spec, Resolved!StricterNeverWeakens

-----------------------------------------------------------------------------
(* The resolution in the behaviours of MCScans.                            *)

\* A step of another component leaves the inputs of the resolution alone.
LEMMA ResolutionSteps ==
  ASSUME [AllNext]_allVars
  PROVE  [Resolved!Next]_in
<1>1. CASE ResolvedStep
  BY <1>1 DEF ResolvedStep
<1>2. CASE ViolationsStep \/ HooksStep
  BY <1>2 DEF ViolationsStep, HooksStep
<1>3. CASE PushedStep \/ RewrittenStep
  BY <1>3 DEF PushedStep, RewrittenStep, CommitsOnly
<1>4. CASE OneRepositoryStep \/ TwoRepositoriesStep
  BY <1>4 DEF OneRepositoryStep, TwoRepositoriesStep, PostureOnly
<1>5. CASE AgingStep \/ ListedStep \/ ReopenedStep
  BY <1>5 DEF AgingStep, ListedStep, ReopenedStep, ViewsOnly
<1>6. CASE UNCHANGED allVars
  BY <1>6 DEF allVars
<1> QED BY <1>1, <1>2, <1>3, <1>4, <1>5, <1>6 DEF AllNext

LEMMA Resolution == AllSpec => Resolved!Spec
<1>1. AllInit => Resolved!Init
  BY DEF AllInit
<1>2. [AllNext]_allVars => [Resolved!Next]_in
  BY ResolutionSteps
<1> QED BY <1>1, <1>2, PTL DEF AllSpec, Resolved!Spec

\* "Nothing above can weaken it": whatever the defaults, the configuration and the groups
\* ask for, resolve_policy enforces a rule as strictly as every mandatory entry says,
\* unless an approved exception applies or the repository is in monitor mode.
THEOREM FloorsHold == AllSpec => []FloorHolds
<1>1. Resolved!FloorHolds => FloorHolds
  BY DEF FloorHolds
<1> QED BY <1>1, Resolution, ResolvedFloors, PTL

\* No step that only makes mandatory entries stricter makes the resolved rule weaker.
THEOREM StricterIsNeverWeaker == AllSpec => StricterNeverWeakens
BY Resolution, ResolvedStricter DEF StricterNeverWeakens

-----------------------------------------------------------------------------
(* Hooks of the user.                                                       *)

HookFile == [block: Hooks!Blocks, own: SUBSET HooksWritten, there: BOOLEAN]

\* Nobody writes while an operation runs, so what it has read is what is there; no file is
\* empty-handed: a hook that is not there holds nothing of the user's.
HooksInv ==
  /\ path \in [Hooks!Dirs -> HookFile] /\ chained \in [Hooks!Dirs -> HookFile]
  /\ kept \in [Hooks!Dirs -> SUBSET HooksWritten]
  /\ op \in [kind: {"idle", "install", "uninstall"}, dir: Hooks!Dirs,
             step: {"read", "act", "wrap", "setting"}, seen: HookFile]
  /\ op.kind = "idle" => op = Hooks!Idle
  /\ \A d \in Hooks!Dirs :
       /\ ~path[d].there => path[d] = Hooks!Absent
       /\ ~chained[d].there => chained[d] = Hooks!Absent
       /\ kept[d] \subseteq path[d].own \cup chained[d].own
  /\ op.step = "act" => op.seen = path[op.dir]
  /\ op.step = "wrap" => path[op.dir] = Hooks!Absent

\* The hooks of one directory change, and no hook of the user's there is lost.
LEMMA OneDirectory ==
  ASSUME HooksInv, NEW d \in Hooks!Dirs, NEW p \in HookFile, NEW c \in HookFile,
         NEW k \in SUBSET HooksWritten,
         path' = [path EXCEPT ![d] = p], chained' = [chained EXCEPT ![d] = c],
         kept' = [kept EXCEPT ![d] = k],
         ~p.there => p = Hooks!Absent, ~c.there => c = Hooks!Absent,
         k \subseteq p.own \cup c.own
  PROVE  /\ path' \in [Hooks!Dirs -> HookFile] /\ chained' \in [Hooks!Dirs -> HookFile]
         /\ kept' \in [Hooks!Dirs -> SUBSET HooksWritten]
         /\ path'[d] = p
         /\ \A e \in Hooks!Dirs :
              /\ ~path'[e].there => path'[e] = Hooks!Absent
              /\ ~chained'[e].there => chained'[e] = Hooks!Absent
              /\ kept'[e] \subseteq path'[e].own \cup chained'[e].own
BY DEF HooksInv

LEMMA HookFiles ==
  /\ Hooks!Absent \in HookFile /\ Hooks!Absent.own = {} /\ ~Hooks!Absent.there
  /\ \A b \in Hooks!Blocks, own \in SUBSET HooksWritten :
       /\ Hooks!File(b, own) \in HookFile
       /\ Hooks!File(b, own).own = own /\ Hooks!File(b, own).there
BY DEF HookFile, Hooks!Absent, Hooks!File, Hooks!Blocks

\* What an operation does next, where it may have changed the directory it is about
LEMMA HookOperation ==
  ASSUME HooksInv
  PROVE  /\ op.dir \in Hooks!Dirs /\ Hooks!Idle.step = "read" /\ Hooks!Idle.kind = "idle"
         /\ Hooks!Idle \in [kind: {"idle", "install", "uninstall"}, dir: Hooks!Dirs,
                            step: {"read", "act", "wrap", "setting"}, seen: HookFile]
         /\ op.kind # "idle" => \A s \in {"setting", "wrap"} :
              /\ [op EXCEPT !.step = s] \in [kind: {"idle", "install", "uninstall"},
                   dir: Hooks!Dirs,
                                             step: {"read", "act", "wrap", "setting"},
                                                  seen: HookFile]
              /\ [op EXCEPT !.step = s].kind # "idle" /\ [op EXCEPT !.step = s].step = s
              /\ [op EXCEPT !.step = s].dir = op.dir
<1>1. Hooks!Idle \in [kind: {"idle", "install", "uninstall"}, dir: Hooks!Dirs,
                      step: {"read", "act", "wrap", "setting"}, seen: HookFile]
  BY HookFiles DEF Hooks!Idle, Hooks!Dirs
<1>2. Hooks!Idle.step = "read" /\ Hooks!Idle.kind = "idle"
  BY DEF Hooks!Idle
<1> QED BY <1>1, <1>2 DEF HooksInv

LEMMA SameHooks ==
  ASSUME HooksInv, UNCHANGED <<path, chained, kept>>,
         op' \in [kind: {"idle", "install", "uninstall"}, dir: Hooks!Dirs,
                  step: {"read", "act", "wrap", "setting"}, seen: HookFile],
         op'.kind = "idle" => op' = Hooks!Idle,
         op'.step = "act" => op'.seen = path[op'.dir],
         op'.step = "wrap" => path[op'.dir] = Hooks!Absent
  PROVE  HooksInv'
BY DEF HooksInv

LEMMA HookInstalls ==
  ASSUME HooksInv, Hooks!InstallNew \/ Hooks!InstallOver \/ Hooks!Preserve \/ Hooks!Wrap
  PROVE  HooksInv'
<1> DEFINE d == op.dir
<1>1. d \in Hooks!Dirs /\ path[d] \in HookFile /\ chained[d] \in HookFile /\ op.seen \in HookFile
      /\ op.kind = "install"
  BY DEF HooksInv, Hooks!InstallNew, Hooks!InstallOver, Hooks!Preserve, Hooks!Wrap, Hooks!Installing
<1>2. CASE UNCHANGED <<path, chained>> /\ (op' = Hooks!Idle \/ op' = Hooks!Finished)
  BY <1>1, <1>2, HookOperation, SameHooks
  DEF Hooks!InstallNew, Hooks!InstallOver, Hooks!Preserve, Hooks!Wrap, Hooks!Finished
<1>3. ASSUME NEW p \in HookFile, NEW c \in HookFile,
             path' = [path EXCEPT ![d] = p], chained' = [chained EXCEPT ![d] = c], kept' = kept,
             ~p.there => p = Hooks!Absent, ~c.there => c = Hooks!Absent,
             path[d].own \cup chained[d].own \subseteq p.own \cup c.own,
             \/ op' = Hooks!Idle \/ op' = Hooks!Finished
             \/ op' = [op EXCEPT !.step = "wrap"] /\ p = Hooks!Absent
      PROVE  HooksInv'
  <2>1. kept[d] \in SUBSET HooksWritten /\ kept' = [kept EXCEPT ![d] = kept[d]]
        /\ kept[d] \subseteq p.own \cup c.own
    BY <1>1, <1>3 DEF HooksInv
  <2>2. op' \in [kind: {"idle", "install", "uninstall"}, dir: Hooks!Dirs,
                 step: {"read", "act", "wrap", "setting"}, seen: HookFile]
        /\ (op'.kind = "idle" => op' = Hooks!Idle)
        /\ op'.step # "act"
        /\ (op'.step = "wrap" => p = Hooks!Absent /\ op'.dir = d)
    BY <1>1, <1>3, HookOperation DEF Hooks!Finished
  <2> HIDE DEF d
  <2>3. /\ path' \in [Hooks!Dirs -> HookFile] /\ chained' \in [Hooks!Dirs -> HookFile]
        /\ kept' \in [Hooks!Dirs -> SUBSET HooksWritten]
        /\ path'[d] = p
        /\ \A e \in Hooks!Dirs :
             /\ ~path'[e].there => path'[e] = Hooks!Absent
             /\ ~chained'[e].there => chained'[e] = Hooks!Absent
             /\ kept'[e] \subseteq path'[e].own \cup chained'[e].own
    BY <1>1, <1>3, <2>1, OneDirectory
  <2> QED BY <2>2, <2>3 DEF HooksInv
<1>4. chained' = chained => chained' = [chained EXCEPT ![d] = chained[d]]
  BY <1>1 DEF HooksInv
<1>5. kept' = kept
  BY DEF Hooks!InstallNew, Hooks!InstallOver, Hooks!Preserve, Hooks!Wrap
<1>6. "installed" \in Hooks!Blocks
  BY DEF Hooks!Blocks
<1>7. CASE Hooks!InstallNew
  <2>1. CASE path[d].there
    BY <1>2, <1>7, <2>1 DEF Hooks!InstallNew
  <2>2. CASE ~path[d].there
    <3>1. path[d].own = {}
      BY <1>1, <2>2, HookFiles DEF HooksInv
    <3>2. path' = [path EXCEPT ![d] = Hooks!File("installed", {})] /\ op' = Hooks!Finished
          /\ chained' = chained
      BY <1>7, <2>2 DEF Hooks!InstallNew, Hooks!Write
    <3>3. /\ Hooks!File("installed", {}) \in HookFile /\ Hooks!File("installed", {}).there
          /\ Hooks!File("installed", {}).own = {}
      BY <1>6, HookFiles
    <3>4. ~chained[d].there => chained[d] = Hooks!Absent
      BY <1>1 DEF HooksInv
    <3> QED BY <1>1, <1>3, <1>4, <1>5, <3>1, <3>2, <3>3, <3>4
  <2> QED BY <2>1, <2>2
<1>8. CASE Hooks!InstallOver
  <2>1. op.seen = path[d]
    BY <1>8 DEF HooksInv, Hooks!InstallOver, Hooks!Installing
  <2>2. CASE op.seen.block = "installed"
    BY <1>2, <1>8, <2>2 DEF Hooks!InstallOver
  <2>3. CASE op.seen.block # "installed"
    <3>1. path' = [path EXCEPT ![d] = Hooks!File("installed", path[d].own)] /\ op' = Hooks!Finished
          /\ chained' = chained
      BY <1>8, <2>1, <2>3 DEF Hooks!InstallOver, Hooks!Write
    <3>2. path[d].own \in SUBSET HooksWritten
      BY <1>1 DEF HookFile
    <3>3. /\ Hooks!File("installed", path[d].own) \in HookFile
          /\ Hooks!File("installed", path[d].own).there
          /\ Hooks!File("installed", path[d].own).own = path[d].own
      BY <1>6, <3>2, HookFiles
    <3>4. ~chained[d].there => chained[d] = Hooks!Absent
      BY <1>1 DEF HooksInv
    <3> QED BY <1>1, <1>3, <1>4, <1>5, <3>1, <3>3, <3>4
  <2> QED BY <2>2, <2>3
<1>9. CASE Hooks!Preserve
  <2>1. CASE Hooks!MayPreserve(d)
    <3>1. chained' = [chained EXCEPT ![d] = path[d]] /\ path' = [path EXCEPT ![d] = Hooks!Absent]
          /\ op' = [op EXCEPT !.step = "wrap"]
      BY <1>9, <2>1 DEF Hooks!Preserve, Hooks!Write
    <3>2. chained[d].own = {}
      BY <1>1, <2>1, HookFiles DEF HooksInv, Hooks!MayPreserve
    <3>3. ~path[d].there => path[d] = Hooks!Absent
      BY <1>1 DEF HooksInv
    <3> QED BY <1>1, <1>3, <1>5, <3>1, <3>2, <3>3, HookFiles
  <2>2. CASE ~Hooks!MayPreserve(d)
    BY <1>2, <1>9, <2>2 DEF Hooks!Preserve
  <2> QED BY <2>1, <2>2
<1>10. CASE Hooks!Wrap
  <2>1. path[d] = Hooks!Absent
    BY <1>10 DEF HooksInv, Hooks!Wrap, Hooks!Installing
  <2>2. ~chained[d].there => chained[d] = Hooks!Absent
    BY <1>1 DEF HooksInv
  <2>3. CASE Hooks!RestorePreserved
    <3>1. path' = [path EXCEPT ![d] = chained[d]] /\ chained' = [chained EXCEPT ![d] = Hooks!Absent]
          /\ op' = Hooks!Idle
      BY <2>3 DEF Hooks!RestorePreserved, Hooks!Write
    <3> QED BY <1>1, <1>3, <1>5, <2>1, <2>2, <3>1, HookFiles
  <2>4. CASE ~Hooks!RestorePreserved
    <3>1. path' = [path EXCEPT ![d] = Hooks!File("installed", {})] /\ op' = Hooks!Finished
          /\ chained' = chained
      BY <1>10, <2>4 DEF Hooks!Wrap, Hooks!Write
    <3>2. /\ Hooks!File("installed", {}) \in HookFile /\ Hooks!File("installed", {}).there
          /\ Hooks!File("installed", {}).own = {}
      BY <1>6, HookFiles
    <3> QED BY <1>1, <1>3, <1>4, <1>5, <2>1, <2>2, <3>1, <3>2, HookFiles
  <2> QED BY <2>3, <2>4
<1> QED BY <1>7, <1>8, <1>9, <1>10

LEMMA HookUninstalls ==
  ASSUME HooksInv, Hooks!Uninstall
  PROVE  HooksInv'
<1> DEFINE d == op.dir
<1>1. /\ d \in Hooks!Dirs /\ path[d] \in HookFile /\ chained[d] \in HookFile
      /\ op.kind = "uninstall" /\ op.seen = path[d] /\ kept' = kept /\ op' = Hooks!Finished
      /\ ~chained[d].there => chained[d] = Hooks!Absent
      /\ kept[d] \subseteq path[d].own \cup chained[d].own
      /\ kept[d] \in SUBSET HooksWritten /\ kept' = [kept EXCEPT ![d] = kept[d]]
  BY DEF HooksInv, Hooks!Uninstall, Hooks!Uninstalling
<1>2. op' \in [kind: {"idle", "install", "uninstall"}, dir: Hooks!Dirs,
               step: {"read", "act", "wrap", "setting"}, seen: HookFile]
      /\ op'.kind # "idle" /\ op'.step = "setting"
  BY <1>1, HookOperation DEF Hooks!Finished
<1>3. CASE path[d].block \notin Hooks!Managed
  <2>1. UNCHANGED <<path, chained>>
    BY <1>1, <1>3 DEF Hooks!Uninstall
  <2> QED BY <1>1, <1>2, <2>1, SameHooks
<1>4. ASSUME NEW p \in HookFile, NEW c \in HookFile,
             path' = [path EXCEPT ![d] = p], chained' = [chained EXCEPT ![d] = c],
             ~p.there => p = Hooks!Absent, ~c.there => c = Hooks!Absent,
             kept[d] \subseteq p.own \cup c.own
      PROVE  HooksInv'
  <2> HIDE DEF d
  <2>1. /\ path' \in [Hooks!Dirs -> HookFile] /\ chained' \in [Hooks!Dirs -> HookFile]
        /\ kept' \in [Hooks!Dirs -> SUBSET HooksWritten]
        /\ \A e \in Hooks!Dirs :
             /\ ~path'[e].there => path'[e] = Hooks!Absent
             /\ ~chained'[e].there => chained'[e] = Hooks!Absent
             /\ kept'[e] \subseteq path'[e].own \cup chained'[e].own
    BY <1>1, <1>4, OneDirectory
  <2> QED BY <1>2, <2>1 DEF HooksInv
<1>5. CASE path[d].block \in Hooks!Managed /\ path[d].own # {}
  <2>1. path' = [path EXCEPT ![d] = Hooks!File("none", path[d].own)] /\ chained' = chained
    BY <1>1, <1>5 DEF Hooks!Uninstall, Hooks!Write
  <2>2. path[d].own \in SUBSET HooksWritten /\ "none" \in Hooks!Blocks
    BY <1>1 DEF HookFile, Hooks!Blocks
  <2>3. /\ Hooks!File("none", path[d].own) \in HookFile /\ Hooks!File("none", path[d].own).there
        /\ Hooks!File("none", path[d].own).own = path[d].own
    BY <2>2, HookFiles
  <2>4. chained' = [chained EXCEPT ![d] = chained[d]]
    BY <1>1, <2>1 DEF HooksInv
  <2> QED BY <1>1, <1>4, <2>1, <2>3, <2>4
<1>6. CASE path[d].block \in Hooks!Managed /\ path[d].own = {}
  <2>1. path' = [path EXCEPT ![d] = chained[d]] /\ chained' = [chained EXCEPT ![d] = Hooks!Absent]
    BY <1>1, <1>6 DEF Hooks!Uninstall, Hooks!Write
  <2> QED BY <1>1, <1>4, <1>6, <2>1, HookFiles
<1> QED BY <1>3, <1>5, <1>6

LEMMA HookWrites ==
  ASSUME HooksInv, NEW d \in Hooks!Dirs,
         Hooks!EditBlock(d) \/ \E h \in HooksWritten : Hooks!WriteOwn(d, h)
  PROVE  HooksInv'
<1>1. /\ path[d] \in HookFile /\ chained[d] \in HookFile /\ kept[d] \in SUBSET HooksWritten
      /\ path[d].own \in SUBSET HooksWritten
      /\ ~chained[d].there => chained[d] = Hooks!Absent
      /\ ~path[d].there => path[d] = Hooks!Absent
      /\ kept[d] \subseteq path[d].own \cup chained[d].own
      /\ op' = op /\ op = Hooks!Idle /\ chained' = chained
      /\ chained' = [chained EXCEPT ![d] = chained[d]]
  BY DEF HooksInv, HookFile, Hooks!EditBlock, Hooks!WriteOwn, Hooks!MayWrite
<1>2. ASSUME NEW p \in HookFile, NEW k \in SUBSET HooksWritten,
             path' = [path EXCEPT ![d] = p], kept' = [kept EXCEPT ![d] = k], p.there,
             k \subseteq p.own \cup chained[d].own
      PROVE  HooksInv'
  <2>1. /\ path' \in [Hooks!Dirs -> HookFile] /\ chained' \in [Hooks!Dirs -> HookFile]
        /\ kept' \in [Hooks!Dirs -> SUBSET HooksWritten]
        /\ \A e \in Hooks!Dirs :
             /\ ~path'[e].there => path'[e] = Hooks!Absent
             /\ ~chained'[e].there => chained'[e] = Hooks!Absent
             /\ kept'[e] \subseteq path'[e].own \cup chained'[e].own
    BY <1>1, <1>2, OneDirectory
  <2> QED BY <1>1, <2>1, HookOperation DEF HooksInv
<1>3. ASSUME Hooks!EditBlock(d) PROVE HooksInv'
  <2>1. PICK b \in Hooks!Blocks : path' = [path EXCEPT ![d] = [path[d] EXCEPT !.block = b]]
    BY <1>3 DEF Hooks!EditBlock, Hooks!Write
  <2>2. path[d].there
    BY <1>1, <1>3 DEF Hooks!EditBlock, Hooks!Absent
  <2>3. [path[d] EXCEPT !.block = b] \in HookFile /\ [path[d] EXCEPT !.block = b].there
        /\ [path[d] EXCEPT !.block = b].own = path[d].own
    BY <1>1, <2>2 DEF HookFile
  <2>4. kept' = [kept EXCEPT ![d] = kept[d]]
    BY <1>3 DEF Hooks!EditBlock, HooksInv
  <2> QED BY <1>1, <1>2, <2>1, <2>3, <2>4
<1>4. ASSUME NEW h \in HooksWritten, Hooks!WriteOwn(d, h) PROVE HooksInv'
  <2>1. CASE path' = [path EXCEPT ![d] = Hooks!File("none", {h})]
             /\ kept' = [kept EXCEPT ![d] = (kept[d] \ path[d].own) \cup {h}]
    <3>1. /\ Hooks!File("none", {h}) \in HookFile /\ Hooks!File("none", {h}).there
          /\ Hooks!File("none", {h}).own = {h}
      <4>1. "none" \in Hooks!Blocks /\ {h} \in SUBSET HooksWritten
        BY DEF Hooks!Blocks
      <4> QED BY <4>1, HookFiles
    <3>2. (kept[d] \ path[d].own) \cup {h} \in SUBSET HooksWritten
      BY <1>1
    <3> QED BY <1>1, <1>2, <2>1, <3>1, <3>2
  <2>2. CASE path[d].there /\ path[d].own = {} /\ path' = [path EXCEPT ![d]
          = [path[d] EXCEPT !.own = {h}]]
             /\ kept' = [kept EXCEPT ![d] = kept[d] \cup {h}]
    <3>1. [path[d] EXCEPT !.own = {h}] \in HookFile /\ [path[d] EXCEPT !.own = {h}].there
          /\ [path[d] EXCEPT !.own = {h}].own = {h}
      BY <1>1, <2>2 DEF HookFile
    <3>2. kept[d] \cup {h} \in SUBSET HooksWritten
      BY <1>1
    <3> QED BY <1>1, <1>2, <2>2, <3>1, <3>2
  <2> QED BY <1>4, <2>1, <2>2 DEF Hooks!WriteOwn, Hooks!Write
<1> QED BY <1>3, <1>4

LEMMA HookStep ==
  ASSUME HooksInv, [Hooks!Next]_hookVars
  PROVE  HooksInv'
<1>1. ASSUME NEW d \in Hooks!Dirs, Hooks!BeginInstall(d) \/ Hooks!BeginUninstall(d) PROVE HooksInv'
  <2>1. PICK kind \in {"install", "uninstall"} : op' = [op EXCEPT !.kind = kind, !.dir = d]
    BY <1>1 DEF Hooks!BeginInstall, Hooks!BeginUninstall, Hooks!Begin
  <2>2. op = Hooks!Idle /\ UNCHANGED <<path, chained, kept>>
    BY <1>1 DEF Hooks!BeginInstall, Hooks!BeginUninstall, Hooks!Begin
  <2>3. op' \in [kind: {"idle", "install", "uninstall"}, dir: Hooks!Dirs,
                 step: {"read", "act", "wrap", "setting"}, seen: HookFile]
        /\ op'.kind # "idle" /\ op'.step = "read"
    BY <2>1, <2>2, HookOperation DEF HooksInv
  <2> QED BY <2>2, <2>3, SameHooks
<1>2. ASSUME Hooks!ReadHook PROVE HooksInv'
  <2>1. CASE op' = Hooks!Idle
    BY <1>2, <2>1, HookOperation, SameHooks DEF Hooks!ReadHook
  <2>2. CASE op' = [op EXCEPT !.step = "act", !.seen = path[op.dir]]
    <3>1. /\ op' \in [kind: {"idle", "install", "uninstall"}, dir: Hooks!Dirs,
                      step: {"read", "act", "wrap", "setting"}, seen: HookFile]
          /\ op'.kind # "idle" /\ op'.step = "act" /\ op'.seen = path[op'.dir]
      BY <1>2, <2>2 DEF HooksInv, Hooks!ReadHook
    <3> QED BY <1>2, <3>1, SameHooks DEF Hooks!ReadHook
  <2> QED BY <1>2, <2>1, <2>2 DEF Hooks!ReadHook
<1>3. ASSUME Hooks!Configure \/ Hooks!Die PROVE HooksInv'
  BY <1>3, HookOperation, SameHooks DEF Hooks!Configure, Hooks!Die
<1>4. ASSUME UNCHANGED hookVars PROVE HooksInv'
  BY <1>4, SameHooks DEF hookVars, HooksInv
<1> QED BY <1>1, <1>2, <1>3, <1>4, HookInstalls, HookUninstalls, HookWrites DEF Hooks!Next

LEMMA HookInit ==
  ASSUME Hooks!Init
  PROVE  HooksInv
BY HookFiles DEF HooksInv, Hooks!Init, Hooks!Idle, Hooks!Dirs, Hooks!Absent

-----------------------------------------------------------------------------
(* The posture of an organization, for any repositories, refreshes, branch  *)
(* settings and facts.                                                      *)

Postured(R, F, S, U, M) == INSTANCE Posture WITH
  Repos <- R, Refreshes <- F, Settings <- S, FactsUsed <- U, MaxFacts <- M

Requires(b) == "ours" \in {b.rules, b.classic}

Progress(R, S) ==
  [pc: {"idle", "rules", "branch", "store"}, repo: R \cup {CHOOSE r \in R : TRUE},
   rules: S \cup {"none", "failed", "required", "not_required", "unknown"}, seen: BOOLEAN]

\* What a refresh has read, or may still read, of a branch that requires the check is
\* known to have been required.
Witnessed(q, R) ==
  q.pc # "idle" =>
    /\ q.repo \in R
    /\ q.pc \in {"rules", "branch"} /\ Requires(branch[q.repo]) => q.seen
    /\ q.pc = "branch" /\ q.rules = "ours" => q.seen
    /\ q.pc = "store" /\ q.rules = "required" => q.seen

PostureInv(R, F, S) ==
  /\ listed \subseteq R
  /\ branch \in [R -> [rules: S \cup {"none"}, classic: S \cup {"none"}]]
  /\ DOMAIN evidence = R
  /\ \A r \in R : evidence[r].status = "required" => evidence[r].seen
  /\ refresh \in [F -> Progress(R, S)]
  /\ \A f \in F : Witnessed(refresh[f], R)

\* A refresh goes on, and the others stay as they were.
LEMMA OneRefresh ==
  ASSUME NEW CONSTANT R, NEW CONSTANT F, NEW CONSTANT S, PostureInv(R, F, S),
         NEW f \in F, NEW q \in Progress(R, S), Witnessed(q, R),
         refresh' = [refresh EXCEPT ![f] = q], branch' = branch
  PROVE  refresh' \in [F -> Progress(R, S)] /\ \A g \in F : Witnessed(refresh[g], R)'
<1>1. refresh' \in [F -> Progress(R, S)]
  BY DEF PostureInv
<1>2. ASSUME NEW g \in F PROVE Witnessed(refresh'[g], R)
  BY <1>2 DEF PostureInv
<1>3. ASSUME NEW g \in F PROVE Witnessed(refresh[g], R)'
  BY <1>2, <1>3 DEF Witnessed
<1> QED BY <1>1, <1>3

LEMMA PostureRefresh ==
  ASSUME NEW CONSTANT R, NEW CONSTANT F, NEW CONSTANT S, NEW CONSTANT U, NEW CONSTANT M,
         PostureInv(R, F, S), NEW f \in F,
         \/ \E r \in R : Postured(R, F, S, U, M)!Begin(f, r)
         \/ Postured(R, F, S, U, M)!ReadRules(f)
         \/ Postured(R, F, S, U, M)!ReadBranch(f)
         \/ Postured(R, F, S, U, M)!Store(f)
         \/ Postured(R, F, S, U, M)!Abandon(f)
  PROVE  PostureInv(R, F, S)'
<1> DEFINE q == refresh[f]
           idle == Postured(R, F, S, U, M)!Idle
<1>1. q \in Progress(R, S) /\ Witnessed(q, R)
  BY DEF PostureInv
<1>2. idle \in Progress(R, S) /\ Witnessed(idle, R)
  BY DEF Postured!Idle, Progress, Witnessed, Postured!Unread
<1>3. branch' = branch /\ listed' = listed
  BY DEF Postured!Begin, Postured!ReadRules, Postured!ReadBranch, Postured!Store, Postured!Abandon
<1>4. ASSUME NEW p \in Progress(R, S), Witnessed(p, R), refresh' = [refresh EXCEPT ![f] = p],
             \/ evidence' = evidence
             \/ evidence' = [evidence EXCEPT ![q.repo] = [status |-> q.rules, seen |-> q.seen]]
                  /\ q.pc = "store"
      PROVE  PostureInv(R, F, S)'
  <2>1. refresh' \in [F -> Progress(R, S)] /\ \A g \in F : Witnessed(refresh[g], R)'
    BY <1>3, <1>4, OneRefresh
  <2>2. DOMAIN evidence' = R /\ \A r \in R : evidence'[r].status = "required" => evidence'[r].seen
    BY <1>1, <1>4 DEF PostureInv, Witnessed
  <2> QED BY <1>3, <2>1, <2>2 DEF PostureInv
<1>5. ASSUME NEW r \in R, Postured(R, F, S, U, M)!Begin(f, r) PROVE PostureInv(R, F, S)'
  <2> DEFINE p == [idle EXCEPT !.pc = "rules", !.repo = r, !.seen = Requires(branch[r])]
  <2>1. refresh' = [refresh EXCEPT ![f] = p] /\ evidence' = evidence
    BY <1>5 DEF Postured!Begin, Postured!Required, Requires
  <2>2. p.pc = "rules" /\ p.repo = r /\ p.seen = Requires(branch[r])
    BY <1>2 DEF Progress
  <2>3. p \in Progress(R, S)
    <3> HIDE DEF idle
    <3>1. Requires(branch[r]) \in BOOLEAN
      BY DEF Requires
    <3>2. r \in R \cup {CHOOSE x \in R : TRUE} /\ "rules" \in {"idle", "rules", "branch", "store"}
      BY <1>5
    <3> HIDE DEF Requires
    <3> QED BY <1>2, <3>1, <3>2 DEF Progress
  <2>4. Witnessed(p, R)
    BY <2>2 DEF Witnessed
  <2> HIDE DEF p
  <2> QED BY <1>4, <2>1, <2>3, <2>4
<1>6. ASSUME Postured(R, F, S, U, M)!ReadRules(f) PROVE PostureInv(R, F, S)'
  <2>1. q.pc = "rules" /\ q.repo \in R /\ branch[q.repo].rules \in S \cup {"none"}
        /\ (Requires(branch[q.repo]) => q.seen)
    BY <1>1, <1>6 DEF Postured!ReadRules, Witnessed, PostureInv
  <2>2. PICK rules \in {branch[q.repo].rules, "failed"} :
          refresh' = [refresh EXCEPT ![f] = [q EXCEPT !.pc = "branch", !.rules = rules]]
    BY <1>1, <1>6 DEF Postured!ReadRules, Postured!Unread, PostureInv
  <2> DEFINE p == [q EXCEPT !.pc = "branch", !.rules = rules]
  <2>3. p \in Progress(R, S) /\ p.pc = "branch" /\ p.rules = rules /\ p.repo = q.repo /\ p.seen
          = q.seen
    BY <1>1, <2>1 DEF Progress
  <2>4. Witnessed(p, R)
    BY <2>1, <2>3 DEF Witnessed, Requires
  <2>5. evidence' = evidence
    BY <1>6 DEF Postured!ReadRules
  <2>6. refresh' = [refresh EXCEPT ![f] = p]
    BY <2>2
  <2> HIDE DEF p
  <2> QED BY <1>4, <2>3, <2>4, <2>5, <2>6
<1>7. ASSUME Postured(R, F, S, U, M)!ReadBranch(f) PROVE PostureInv(R, F, S)'
  <2>1. q.pc = "branch" /\ q.repo \in R
        /\ (Requires(branch[q.repo]) => q.seen) /\ (q.rules = "ours" => q.seen)
    BY <1>1, <1>7 DEF Postured!ReadBranch, Witnessed
  <2>2. PICK classic \in {branch[q.repo].classic, "failed"}, visible \in BOOLEAN :
          refresh' = [refresh EXCEPT ![f].pc = "store",
                        ![f].rules = Postured(R, F, S, U, M)!Classify(q.rules, classic, visible)]
    BY <1>7 DEF Postured!ReadBranch, Postured!Unread
  <2> DEFINE c == Postured(R, F, S, U, M)!Classify(q.rules, classic, visible)
             p == [q EXCEPT !.pc = "store", !.rules = c]
  <2>3. c \in {"required", "not_required", "unknown"}
        /\ (c = "required" => q.rules = "ours" \/ classic = "ours")
    BY DEF Postured!Classify
  <2>4. refresh' = [refresh EXCEPT ![f] = p]
    BY <1>1, <2>2 DEF PostureInv
  <2> HIDE DEF c
  <2>5. p \in Progress(R, S) /\ p.pc = "store" /\ p.rules = c /\ p.repo = q.repo /\ p.seen = q.seen
    BY <1>1, <2>3 DEF Progress
  <2>6. Witnessed(p, R)
    BY <2>1, <2>2, <2>3, <2>5 DEF Witnessed, Requires
  <2>7. evidence' = evidence
    BY <1>7 DEF Postured!ReadBranch
  <2> HIDE DEF p
  <2> QED BY <1>4, <2>4, <2>5, <2>6, <2>7
<1>8. ASSUME Postured(R, F, S, U, M)!Store(f) PROVE PostureInv(R, F, S)'
  BY <1>2, <1>4, <1>8 DEF Postured!Store
<1>9. ASSUME Postured(R, F, S, U, M)!Abandon(f) PROVE PostureInv(R, F, S)'
  BY <1>2, <1>4, <1>9 DEF Postured!Abandon
<1> QED BY <1>5, <1>6, <1>7, <1>8, <1>9

LEMMA PostureWorld ==
  ASSUME NEW CONSTANT R, NEW CONSTANT F, NEW CONSTANT S, NEW CONSTANT U, NEW CONSTANT M,
         PostureInv(R, F, S),
         \/ Postured(R, F, S, U, M)!ChangeInstallation
         \/ \E r \in R : \/ Postured(R, F, S, U, M)!ChangeBranch(r)
                         \/ Postured(R, F, S, U, M)!ChangeAccess(r)
                         \/ Postured(R, F, S, U, M)!ChangeFacts(r)
         \/ UNCHANGED postureVars
  PROVE  PostureInv(R, F, S)'
<1>1. CASE branch' = branch /\ refresh' = refresh
  <2>1. DOMAIN evidence' = R /\ \A r \in R : evidence'[r].status = "required" => evidence'[r].seen
    BY DEF PostureInv, Postured!ChangeInstallation, Postured!ChangeBranch, Postured!ChangeAccess,
           Postured!ChangeFacts, postureVars
  <2>2. listed' \subseteq R
    BY DEF PostureInv, Postured!ChangeInstallation, Postured!ChangeBranch, Postured!ChangeAccess,
           Postured!ChangeFacts, postureVars
  <2>3. \A f \in F : Witnessed(refresh[f], R)'
    BY <1>1 DEF PostureInv, Witnessed
  <2> QED BY <1>1, <2>1, <2>2, <2>3 DEF PostureInv
<1>2. ASSUME NEW r \in R, Postured(R, F, S, U, M)!ChangeBranch(r) PROVE PostureInv(R, F, S)'
  <2>1. PICK rules, classic \in S :
          /\ branch' = [branch EXCEPT ![r] = [rules |-> rules, classic |-> classic]]
          /\ refresh' = [f \in F |->
               IF refresh[f].pc # "idle" /\ refresh[f].repo = r
                 THEN [refresh[f] EXCEPT !.seen = @ \/ "ours" \in {rules, classic}]
                 ELSE refresh[f]]
    BY <1>2 DEF Postured!ChangeBranch
  <2>2. evidence' = evidence /\ listed' = listed
    BY <1>2 DEF Postured!ChangeBranch
  <2>3. branch' \in [R -> [rules: S \cup {"none"}, classic: S \cup {"none"}]]
        /\ branch'[r].rules = rules /\ branch'[r].classic = classic
        /\ \A x \in R \ {r} : branch'[x] = branch[x]
    BY <2>1 DEF PostureInv
  <2>4. ASSUME NEW f \in F
        PROVE  refresh'[f] \in Progress(R, S) /\ Witnessed(refresh[f], R)'
    <3>1. refresh[f] \in Progress(R, S) /\ Witnessed(refresh[f], R)
      BY <2>4 DEF PostureInv
    <3>2. CASE refresh[f].pc # "idle" /\ refresh[f].repo = r
      <4>1. refresh'[f] = [refresh[f] EXCEPT !.seen = @ \/ "ours" \in {rules, classic}]
        BY <2>1, <2>4, <3>2
      <4>2. /\ refresh'[f] \in Progress(R, S)
            /\ refresh'[f].pc = refresh[f].pc /\ refresh'[f].repo = r
            /\ refresh'[f].rules = refresh[f].rules
            /\ refresh'[f].seen = (refresh[f].seen \/ "ours" \in {rules, classic})
        BY <3>1, <3>2, <4>1 DEF Progress
      <4> QED BY <2>3, <3>1, <3>2, <4>2 DEF Witnessed, Requires
    <3>3. CASE ~(refresh[f].pc # "idle" /\ refresh[f].repo = r)
      <4>1. refresh'[f] = refresh[f]
        BY <2>1, <2>4, <3>3
      <4> QED BY <2>3, <3>1, <3>3, <4>1 DEF Witnessed, Requires
    <3> QED BY <3>2, <3>3
  <2>5. refresh' \in [F -> Progress(R, S)]
    BY <2>1, <2>4
  <2> QED BY <2>2, <2>3, <2>4, <2>5 DEF PostureInv
<1> QED BY <1>1, <1>2
    DEF Postured!ChangeInstallation, Postured!ChangeAccess, Postured!ChangeFacts, postureVars

LEMMA PostureStep ==
  ASSUME NEW CONSTANT R, NEW CONSTANT F, NEW CONSTANT S, NEW CONSTANT U, NEW CONSTANT M,
         PostureInv(R, F, S), [Postured(R, F, S, U, M)!Next]_postureVars
  PROVE  PostureInv(R, F, S)'
BY PostureRefresh, PostureWorld DEF Postured!Next

LEMMA PostureInit ==
  ASSUME NEW CONSTANT R, NEW CONSTANT F, NEW CONSTANT S, NEW CONSTANT U, NEW CONSTANT M,
         Postured(R, F, S, U, M)!Init
  PROVE  PostureInv(R, F, S)
<1>1. refresh \in [F -> Progress(R, S)]
  BY DEF Postured!Init, Postured!Idle, Progress, Postured!Unread
<1>2. \A f \in F : Witnessed(refresh[f], R)
  BY DEF Postured!Init, Postured!Idle, Witnessed
<1> QED BY <1>1, <1>2 DEF PostureInv, Postured!Init

\* What an organization that is shown as secure has of each repository
LEMMA PostureEarned ==
  ASSUME NEW CONSTANT R, NEW CONSTANT F, NEW CONSTANT S, NEW CONSTANT U, NEW CONSTANT M,
         PostureInv(R, F, S)
  PROVE  Postured(R, F, S, U, M)!SecureIsEarned
<1> SUFFICES ASSUME Postured(R, F, S, U, M)!OrganizationPosture = "secure"
             PROVE  installation = "active" /\ listed = R /\ \A r \in R : facts[r] = {}
                      /\ evidence[r].seen
  BY DEF Postured!SecureIsEarned
<1>1. /\ R # {}
      /\ Postured(R, F, S, U, M)!With("at_risk") = {}
      /\ Postured(R, F, S, U, M)!With("unknown") = {}
      /\ Postured(R, F, S, U, M)!With("unprotected") = {}
  BY DEF Postured!OrganizationPosture, Postured!Shown
<1>2. ASSUME NEW r \in R
      PROVE  /\ Postured(R, F, S, U, M)!Connection(r) = "connected" /\ facts[r] = {}
             /\ Postured(R, F, S, U, M)!Protection(r) = "protected"
  <2>1. Postured(R, F, S, U, M)!RepositoryPosture(r) \notin {"at_risk", "unknown", "unprotected"}
    BY <1>1, <1>2 DEF Postured!With, Postured!Shown
  <2>2. Postured(R, F, S, U, M)!Connection(r) = "connected"
    BY <2>1 DEF Postured!RepositoryPosture
  <2>3. facts[r] = {}
    BY <2>1, <2>2 DEF Postured!RepositoryPosture
  <2>4. Postured(R, F, S, U, M)!Protection(r) \notin {"unknown", "unprotected"}
    BY <2>1, <2>2, <2>3 DEF Postured!RepositoryPosture
  <2>5. Postured(R, F, S, U, M)!Protection(r) \in {"protected", "unprotected", "unknown"}
    BY <2>2, <2>3 DEF Postured!Protection
  <2> QED BY <2>2, <2>3, <2>4, <2>5
<1>3. ASSUME NEW r \in R PROVE installation = "active" /\ r \in listed /\ evidence[r].status
               = "required"
  BY <1>2, <1>3 DEF Postured!Connection, Postured!Protection
<1> QED BY <1>1, <1>2, <1>3 DEF PostureInv

\* The two organizations of the run are instances of it.
LEMMA OneRepositoryPosture ==
  /\ OneRepository!Init => Postured(FewRepos, Refreshes, {"none", "other", "ours"},
    {"paused", "configuration_error", "policy_error", "critical", "monitor", "high_exception"},
    MaxFacts)!Init
  /\ OneRepository!Next => Postured(FewRepos, Refreshes, {"none", "other", "ours"},
    {"paused", "configuration_error", "policy_error", "critical", "monitor", "high_exception"},
    MaxFacts)!Next
  /\ Postured(FewRepos, Refreshes, {"none", "other", "ours"},
    {"paused", "configuration_error", "policy_error", "critical", "monitor", "high_exception"},
    MaxFacts)!SecureIsEarned
       => OneRepository!SecureIsEarned
<1>1. OneRepository!Init => Postured(FewRepos, Refreshes, {"none", "other", "ours"},
    {"paused", "configuration_error", "policy_error", "critical", "monitor", "high_exception"},
    MaxFacts)!Init
  BY Zenon DEF OneRepository!Init, OneRepository!Idle, OneRepository!Unread, Postured!Init,
       Postured!Idle,
   Postured!Unread
<1>2. OneRepository!Next => Postured(FewRepos, Refreshes, {"none", "other", "ours"},
    {"paused", "configuration_error", "policy_error", "critical", "monitor", "high_exception"},
    MaxFacts)!Next
  BY Zenon DEF
   OneRepository!Next, OneRepository!Begin, OneRepository!ReadRules, OneRepository!ReadBranch,
   OneRepository!Store, OneRepository!Abandon, OneRepository!ChangeInstallation,
   OneRepository!ChangeBranch, OneRepository!ChangeAccess, OneRepository!ChangeFacts,
   OneRepository!Cardinality, OneRepository!IsFiniteSet, OneRepository!Idle,
   OneRepository!Unread, OneRepository!Required, OneRepository!Connection,
   OneRepository!Classify, Postured!Next, Postured!Begin, Postured!ReadRules,
   Postured!ReadBranch, Postured!Store, Postured!Abandon, Postured!ChangeInstallation,
   Postured!ChangeBranch, Postured!ChangeAccess, Postured!ChangeFacts, Postured!Cardinality,
   Postured!IsFiniteSet, Postured!Idle, Postured!Unread, Postured!Required,
   Postured!Connection, Postured!Classify
<1>3. Postured(FewRepos, Refreshes, {"none", "other", "ours"},
    {"paused", "configuration_error", "policy_error", "critical", "monitor", "high_exception"},
    MaxFacts)!SecureIsEarned
        => OneRepository!SecureIsEarned
  BY Zenon DEF
   OneRepository!SecureIsEarned, OneRepository!OrganizationPosture, OneRepository!Shown,
   OneRepository!With, OneRepository!RepositoryPosture, OneRepository!Protection,
   OneRepository!Connection, Postured!SecureIsEarned, Postured!OrganizationPosture,
   Postured!Shown, Postured!With, Postured!RepositoryPosture, Postured!Protection,
   Postured!Connection
<1> QED BY <1>1, <1>2, <1>3

LEMMA TwoRepositoriesPosture ==
  /\ TwoRepositories!Init => Postured(MoreRepos, Refreshes, {"none", "ours"}, {"paused"}, 0)!Init
  /\ TwoRepositories!Next => Postured(MoreRepos, Refreshes, {"none", "ours"}, {"paused"}, 0)!Next
  /\ Postured(MoreRepos, Refreshes, {"none", "ours"}, {"paused"}, 0)!SecureIsEarned
       => TwoRepositories!SecureIsEarned
<1>1. TwoRepositories!Init => Postured(MoreRepos, Refreshes, {"none", "ours"}, {"paused"}, 0)!Init
  BY Zenon DEF TwoRepositories!Init, TwoRepositories!Idle, TwoRepositories!Unread, Postured!Init,
   Postured!Idle, Postured!Unread
<1>2. TwoRepositories!Next => Postured(MoreRepos, Refreshes, {"none", "ours"}, {"paused"}, 0)!Next
  BY Zenon DEF
   TwoRepositories!Next, TwoRepositories!Begin, TwoRepositories!ReadRules,
   TwoRepositories!ReadBranch, TwoRepositories!Store, TwoRepositories!Abandon,
   TwoRepositories!ChangeInstallation, TwoRepositories!ChangeBranch,
   TwoRepositories!ChangeAccess, TwoRepositories!ChangeFacts, TwoRepositories!Cardinality,
   TwoRepositories!IsFiniteSet, TwoRepositories!Idle, TwoRepositories!Unread,
   TwoRepositories!Required, TwoRepositories!Connection, TwoRepositories!Classify,
   Postured!Next, Postured!Begin, Postured!ReadRules, Postured!ReadBranch, Postured!Store,
   Postured!Abandon, Postured!ChangeInstallation, Postured!ChangeBranch, Postured!ChangeAccess,
   Postured!ChangeFacts, Postured!Cardinality, Postured!IsFiniteSet, Postured!Idle,
   Postured!Unread, Postured!Required, Postured!Connection, Postured!Classify
<1>3. Postured(MoreRepos, Refreshes, {"none", "ours"}, {"paused"}, 0)!SecureIsEarned
        => TwoRepositories!SecureIsEarned
  BY Zenon DEF
   TwoRepositories!SecureIsEarned, TwoRepositories!OrganizationPosture, TwoRepositories!Shown,
   TwoRepositories!With, TwoRepositories!RepositoryPosture, TwoRepositories!Protection,
   TwoRepositories!Connection, Postured!SecureIsEarned, Postured!OrganizationPosture,
   Postured!Shown, Postured!With, Postured!RepositoryPosture, Postured!Protection,
   Postured!Connection
<1> QED BY <1>1, <1>2, <1>3

-----------------------------------------------------------------------------
(* The pages of the dashboard, for any repositories, rules, failures and    *)
(* periods of retention.                                                    *)

JobRow(c) ==
  [seq: 1..sequence, repo: c.repos, head: c.heads,
   state: {"queued", "passed", "failed", "error", "cancelled"}, warn: BOOLEAN,
   kind: {"none", "stale"} \cup c.kinds, created: Nat, updated: Nat]
ViolationRow ==
  [status: {"open", "resolved"}, ack: BOOLEAN, action: {"block", "warn"}, updated: Nat, last: Nat,
   closed: BOOLEAN]
RepositoryRow == [known: BOOLEAN, listed: BOOLEAN, removed: Nat \cup {-1}, paused: BOOLEAN]

Period(c) == c.lifetime \in Nat /\ c.retention \in Nat /\ c.lifetime <= c.retention

JobsInv(c) ==
  /\ sequence \in Nat /\ jobs \subseteq JobRow(c)
  /\ \A j, k \in jobs : j.seq = k.seq => j = k

ViolationsInv(c) ==
  /\ DOMAIN violations \subseteq c.repos \X c.rules
  /\ violations \in [DOMAIN violations -> ViolationRow]

\* A repository that a session may show was removed after the session began, if ever, and
\* is known as long as the session lasts.
SessionInv(c) ==
  /\ now \in Nat /\ connection \in [state: {"active", "suspended", "deleted", "gone"}, updated: Nat]
  /\ repos \in [c.repos -> RepositoryRow]
  /\ \A r \in c.repos : repos[r].listed => repos[r].known /\ repos[r].removed = -1
  /\ session.repos \subseteq c.repos /\ session.until \in Nat /\ session.until <= now + c.lifetime
  /\ connection.state # "gone" =>
       \A r \in session.repos :
         /\ now < session.until => repos[r].known
         /\ repos[r].removed = -1 \/ repos[r].removed + c.lifetime >= session.until

\* An open violation has a finding, and a finished scan the findings of its result.
Explained(j) == j.state = "failed" \/ (j.state = "passed" /\ j.warn)
HistoryInv ==
  /\ \A f \in findings : f.at \in Nat
  /\ \A v \in DOMAIN violations : violations[v].status = "open"
       => \E f \in findings : f.violation = v
  /\ connection.state # "gone" =>
       \A j \in jobs : Explained(j) => \E f \in findings : f.seq = j.seq /\ f.at >= j.updated

ViewsInv(c) == JobsInv(c) /\ ViolationsInv(c) /\ SessionInv(c) /\ (~c.reopens => HistoryInv)

LEMMA ViewsInit ==
  ASSUME NEW CONSTANT c, Period(c), Views(c)!Init
  PROVE  ViewsInv(c)
BY DEF ViewsInv, JobsInv, ViolationsInv, SessionInv, HistoryInv, Views!Init, Views!Never, Period,
     RepositoryRow

\* Scans that replace others of the same numbers
LEMMA ReplacedJobs ==
  ASSUME NEW CONSTANT c, JobsInv(c), NEW S \in SUBSET jobs, NEW new,
         \A j \in S : new[j] \in JobRow(c) /\ new[j].seq = j.seq,
         jobs' = (jobs \ S) \cup {new[j] : j \in S}, sequence' = sequence
  PROVE  JobsInv(c)'
BY DEF JobsInv, JobRow

LEMMA CancelledJobs ==
  ASSUME NEW CONSTANT c, JobsInv(c), NEW j \in jobs, NEW kind \in {"none", "stale"}, NEW at \in Nat
  PROVE  /\ Views(c)!Cancelled(j, kind, at) \in JobRow(c)
         /\ Views(c)!Cancelled(j, kind, at).seq = j.seq
         /\ ~Explained(Views(c)!Cancelled(j, kind, at))
BY DEF JobsInv, JobRow, Views!Cancelled, Explained

LEMMA AcceptJobs ==
  ASSUME NEW CONSTANT c, ViewsInv(c), NEW r \in c.repos, NEW head \in c.heads, Views(c)!Accept(r,
           head)
  PROVE  JobsInv(c)'
<1> DEFINE S == Views(c)!Unfinished(r)
           old == {Views(c)!Cancelled(j, "stale", now) : j \in S}
           job == [seq |-> sequence + 1, repo |-> r, head |-> head, state |-> "queued",
                warn |-> FALSE,
                   kind |-> "none", created |-> now, updated |-> now]
<1>1. sequence \in Nat /\ sequence' = sequence + 1 /\ jobs' = (jobs \ S) \cup old \cup {job}
  BY DEF ViewsInv, JobsInv, Views!Accept
<1>2. S \subseteq jobs
  BY DEF Views!Unfinished
<1>3. now \in Nat
  BY DEF ViewsInv, SessionInv
<1>4. \A j \in S : /\ Views(c)!Cancelled(j, "stale", now) \in JobRow(c)
                   /\ Views(c)!Cancelled(j, "stale", now).seq = j.seq
  BY <1>2, <1>3, CancelledJobs DEF ViewsInv
<1>5. \A j \in JobRow(c) : j \in JobRow(c)' /\ j.seq \in 1..sequence
  BY <1>1 DEF JobRow
<1>6. job \in JobRow(c)' /\ job.seq = sequence + 1
  BY <1>1, <1>3 DEF JobRow
<1> HIDE DEF S, job
<1>7. jobs \subseteq JobRow(c) /\ \A j, k \in jobs : j.seq = k.seq => j = k
  BY DEF ViewsInv, JobsInv
<1>8. \A j, k \in (jobs \ S) \cup old : j.seq = k.seq => j = k
  BY <1>2, <1>4, <1>7
<1>9. (jobs \ S) \cup old \subseteq JobRow(c)
  BY <1>2, <1>4, <1>7
<1>10. \A j \in (jobs \ S) \cup old : j.seq # sequence + 1
  BY <1>1, <1>5, <1>9
<1>11. \A j, k \in jobs' : j.seq = k.seq => j = k
  BY <1>1, <1>6, <1>8, <1>10
<1>12. jobs' \subseteq JobRow(c)'
  BY <1>1, <1>5, <1>6, <1>9
<1> QED BY <1>1, <1>11, <1>12 DEF JobsInv

\* Unfinished scans that are cancelled
LEMMA CancelJobs ==
  ASSUME NEW CONSTANT c, JobsInv(c), NEW S \in SUBSET jobs, NEW kind \in {"none", "stale"}, NEW at,
         \A j \in S : at[j] \in Nat,
         jobs' = (jobs \ S) \cup {Views(c)!Cancelled(j, kind, at[j]) : j \in S}, sequence'
              = sequence
  PROVE  JobsInv(c)'
<1> DEFINE new == [j \in S |-> Views(c)!Cancelled(j, kind, at[j])]
<1>1. \A j \in S : new[j] \in JobRow(c) /\ new[j].seq = j.seq
  BY CancelledJobs
<1>2. jobs' = (jobs \ S) \cup {new[j] : j \in S}
  OBVIOUS
<1> HIDE DEF new
<1> QED BY <1>1, <1>2, ReplacedJobs

\* A scan that ends
LEMMA EndedJob ==
  ASSUME NEW CONSTANT c, JobsInv(c), NEW j \in jobs, NEW k \in JobRow(c), k.seq = j.seq,
         jobs' = (jobs \ {j}) \cup {k}, sequence' = sequence
  PROVE  JobsInv(c)'
BY DEF JobsInv, JobRow

LEMMA ScanJobs ==
  ASSUME NEW CONSTANT c, ViewsInv(c), Views(c)!ScanStep
  PROVE  JobsInv(c)'
<1>1. ASSUME NEW r \in c.repos, NEW head \in c.heads, Views(c)!Accept(r, head) PROVE JobsInv(c)'
  BY <1>1, AcceptJobs
<1>2. ASSUME NEW j \in jobs, NEW found \in SUBSET c.rules, NEW action \in {"block", "warn"},
             Views(c)!Complete(j, found, action)
      PROVE JobsInv(c)'
  <2> DEFINE k == [j EXCEPT !.state = IF found # {} /\ action = "block" THEN "failed" ELSE "passed",
                            !.warn = found # {} /\ action = "warn", !.updated = now]
  <2>1. jobs' = (jobs \ {j}) \cup {k} /\ sequence' = sequence
    BY <1>2 DEF Views!Complete
  <2>2. k \in JobRow(c) /\ k.seq = j.seq
    BY DEF ViewsInv, JobsInv, SessionInv, JobRow
  <2> QED BY <2>1, <2>2, EndedJob DEF ViewsInv
<1>3. ASSUME NEW j \in jobs, NEW kind \in c.kinds, Views(c)!Fail(j, kind) PROVE JobsInv(c)'
  <2> DEFINE k == [j EXCEPT !.state = "error", !.kind = kind, !.updated = now]
  <2>1. jobs' = (jobs \ {j}) \cup {k} /\ sequence' = sequence
    BY <1>3 DEF Views!Fail
  <2>2. k \in JobRow(c) /\ k.seq = j.seq
    BY DEF ViewsInv, JobsInv, SessionInv, JobRow
  <2> QED BY <2>1, <2>2, EndedJob DEF ViewsInv
<1> QED BY <1>1, <1>2, <1>3 DEF Views!ScanStep, Views!Actions

LEMMA ChangeJobs ==
  ASSUME NEW CONSTANT c, ViewsInv(c), Views(c)!ChangeStep
  PROVE  JobsInv(c)'
<1>1. ASSUME NEW r \in c.repos, Views(c)!RemoveRepository(r) PROVE JobsInv(c)'
  <2> DEFINE S == Views(c)!Unfinished(r)
             at == [j \in S |-> j.updated]
  <2>1. S \subseteq jobs /\ \A j \in S : at[j] = j.updated /\ at[j] \in Nat
    BY DEF Views!Unfinished, ViewsInv, JobsInv, JobRow
  <2>2. jobs' = (jobs \ S) \cup {Views(c)!Cancelled(j, "none", at[j]) : j \in S} /\ sequence'
          = sequence
    BY <1>1, <2>1 DEF Views!RemoveRepository
  <2> HIDE DEF S, at
  <2> QED BY <2>1, <2>2, CancelJobs DEF ViewsInv
<1>2. ASSUME NEW state, Views(c)!SetInstallation(state) PROVE JobsInv(c)'
  <2> DEFINE S == UNION {Views(c)!Unfinished(r) : r \in c.repos}
             at == [j \in S |-> now]
  <2>1. CASE state = "deleted"
    <3>1. S \subseteq jobs /\ \A j \in S : at[j] = now /\ at[j] \in Nat
      BY DEF Views!Unfinished, ViewsInv, SessionInv
    <3>2. jobs' = (jobs \ S) \cup {Views(c)!Cancelled(j, "none", at[j]) : j \in S} /\ sequence'
            = sequence
      BY <1>2, <2>1, <3>1 DEF Views!SetInstallation
    <3> HIDE DEF S, at
    <3> QED BY <3>1, <3>2, CancelJobs DEF ViewsInv
  <2>2. CASE state # "deleted"
    BY <1>2, <2>2 DEF Views!SetInstallation, ViewsInv, JobsInv, JobRow
  <2> QED BY <2>1, <2>2
<1>3. ASSUME jobs' = jobs, sequence' = sequence PROVE JobsInv(c)'
  BY <1>3 DEF ViewsInv, JobsInv, JobRow
<1>4. ASSUME NEW r \in c.repos,
             \/ Views(c)!ClosePullRequest(r) \/ Views(c)!ReopenPullRequest(r) \/ Views(c)!Pause(r)
             \/ Views(c)!AddRepository(r)
      PROVE JobsInv(c)'
  BY <1>3, <1>4 DEF Views!ClosePullRequest, Views!ReopenPullRequest, Views!Pause,
       Views!AddRepository,
     Views!KeepHistory
<1>5. ASSUME NEW v, Views(c)!Acknowledge(v) PROVE JobsInv(c)'
  BY <1>3, <1>5 DEF Views!Acknowledge
<1>6. ASSUME NEW r, NEW e, Views(c)!RefreshEvidence(r, e) PROVE JobsInv(c)'
  BY <1>3, <1>6 DEF Views!RefreshEvidence, Views!KeepHistory
<1> QED BY <1>1, <1>2, <1>4, <1>5, <1>6 DEF Views!ChangeStep

LEMMA OtherJobs ==
  ASSUME NEW CONSTANT c, ViewsInv(c),
           Views(c)!SignIn \/ Views(c)!Purge \/ Views(c)!Tick \/ UNCHANGED viewVars
  PROVE  JobsInv(c)'
<1>1. sequence' = sequence /\ jobs' \subseteq jobs
  BY DEF Views!SignIn, Views!Purge, Views!Tick, viewVars, Views!KeepHistory, Views!KeptJobs
<1> QED BY <1>1 DEF ViewsInv, JobsInv, JobRow

-----------------------------------------------------------------------------
\* A violation that ends, and one that is open again
LEMMA EndedRow ==
  ASSUME NEW CONSTANT c, ViewsInv(c), NEW v \in DOMAIN violations, NEW closed \in BOOLEAN
  PROVE  /\ Views(c)!Ended(v, closed) \in ViolationRow
         /\ [violations[v] EXCEPT !.status = "open", !.ack = FALSE, !.updated = now, !.closed
              = FALSE]
              \in ViolationRow
<1>1. now \in Nat /\ violations[v] \in ViolationRow
  BY DEF ViewsInv, SessionInv, ViolationsInv
<1> QED BY <1>1 DEF ViolationRow, Views!Ended

LEMMA ScanViolations ==
  ASSUME NEW CONSTANT c, ViewsInv(c), Views(c)!ScanStep
  PROVE  ViolationsInv(c)'
<1>1. ASSUME NEW j \in jobs, NEW found \in SUBSET c.rules, NEW action \in {"block", "warn"},
             Views(c)!Complete(j, found, action)
      PROVE ViolationsInv(c)'
  <2> DEFINE ids == {j.repo} \X found
             D == DOMAIN violations \cup ids
  <2>1. violations' = [v \in D |->
                         IF v \in ids THEN Views(c)!Detected(j, v, action)
                         ELSE IF v[1] = j.repo /\ violations[v].status
                              = "open" THEN Views(c)!Ended(v, FALSE)
                         ELSE violations[v]]
    BY <1>1 DEF Views!Complete
  <2>2. D \subseteq c.repos \X c.rules
    BY DEF ViewsInv, JobsInv, JobRow, ViolationsInv
  <2>3. now \in Nat /\ j.seq \in Nat
    BY DEF ViewsInv, SessionInv, JobsInv, JobRow
  <2>4. ASSUME NEW v \in ids PROVE Views(c)!Detected(j, v, action) \in ViolationRow
    BY <2>3, <2>4 DEF ViewsInv, ViolationsInv, ViolationRow, Views!Detected
  <2>5. ASSUME NEW v \in DOMAIN violations
        PROVE violations[v] \in ViolationRow /\ Views(c)!Ended(v, FALSE) \in ViolationRow
    BY <2>5, EndedRow DEF ViewsInv, ViolationsInv
  <2> HIDE DEF ids
  <2>6. \A v \in D : violations'[v] \in ViolationRow
    BY <2>1, <2>4, <2>5
  <2> QED BY <2>1, <2>2, <2>6 DEF ViolationsInv
<1>2. ASSUME violations' = violations PROVE ViolationsInv(c)'
  BY <1>2 DEF ViewsInv, ViolationsInv
<1> QED BY <1>1, <1>2 DEF Views!ScanStep, Views!Accept, Views!Fail, Views!Actions

LEMMA ChangeViolations ==
  ASSUME NEW CONSTANT c, ViewsInv(c), Views(c)!ChangeStep
  PROVE  ViolationsInv(c)'
<1>0. now \in Nat
  BY DEF ViewsInv, SessionInv
<1>1. ASSUME NEW r, Views(c)!ClosePullRequest(r) PROVE ViolationsInv(c)'
  BY <1>1, EndedRow DEF Views!ClosePullRequest, ViewsInv, ViolationsInv
<1>2. ASSUME NEW r, Views(c)!ReopenPullRequest(r) PROVE ViolationsInv(c)'
  BY <1>2, EndedRow DEF Views!ReopenPullRequest, ViewsInv, ViolationsInv
<1>3. ASSUME NEW v, Views(c)!Acknowledge(v) PROVE ViolationsInv(c)'
  <2> DEFINE row == [violations[v] EXCEPT !.ack = TRUE, !.updated = now]
  <2>1. v \in DOMAIN violations /\ violations' = [violations EXCEPT ![v] = row]
    BY <1>3 DEF Views!Acknowledge, Views!VisibleViolations
  <2>2. violations[v] \in ViolationRow
    BY <2>1 DEF ViewsInv, ViolationsInv
  <2>3. row \in ViolationRow
    BY <1>0, <2>2 DEF ViolationRow
  <2> HIDE DEF row
  <2> QED BY <2>1, <2>3 DEF ViewsInv, ViolationsInv
<1>4. ASSUME violations' = violations PROVE ViolationsInv(c)'
  BY <1>4 DEF ViewsInv, ViolationsInv
<1> QED BY <1>1, <1>2, <1>3, <1>4 DEF Views!ChangeStep, Views!Pause, Views!RemoveRepository,
     Views!AddRepository,
     Views!SetInstallation, Views!RefreshEvidence, Views!KeepHistory

LEMMA OtherViolations ==
  ASSUME NEW CONSTANT c, ViewsInv(c),
           Views(c)!SignIn \/ Views(c)!Purge \/ Views(c)!Tick \/ UNCHANGED viewVars
  PROVE  ViolationsInv(c)'
<1>1. ASSUME Views(c)!Purge PROVE ViolationsInv(c)'
  BY <1>1 DEF Views!Purge, Views!KeptViolations, ViewsInv, ViolationsInv
<1>2. ASSUME violations' = violations PROVE ViolationsInv(c)'
  BY <1>2 DEF ViewsInv, ViolationsInv
<1> QED BY <1>1, <1>2 DEF Views!SignIn, Views!Tick, viewVars, Views!KeepHistory

-----------------------------------------------------------------------------
LEMMA SameSession ==
  ASSUME NEW CONSTANT c, SessionInv(c), UNCHANGED <<now, connection, repos, session>>
  PROVE  SessionInv(c)'
BY DEF SessionInv

LEMMA ScanSession ==
  ASSUME NEW CONSTANT c, ViewsInv(c), Views(c)!ScanStep
  PROVE  SessionInv(c)'
BY SameSession DEF ViewsInv, Views!ScanStep, Views!Accept, Views!Complete, Views!Fail, Views!Keep

LEMMA ChangeSession ==
  ASSUME NEW CONSTANT c, Period(c), ViewsInv(c), Views(c)!ChangeStep
  PROVE  SessionInv(c)'
<1>0. SessionInv(c) /\ now' = now /\ session' = session
  BY DEF ViewsInv, Views!ChangeStep, Views!ClosePullRequest, Views!ReopenPullRequest,
       Views!Acknowledge,
     Views!Pause, Views!RemoveRepository, Views!AddRepository, Views!SetInstallation,
          Views!RefreshEvidence,
     Views!Keep
<1>1. ASSUME NEW r \in c.repos, Views(c)!RemoveRepository(r) PROVE SessionInv(c)'
  <2> DEFINE row == [repos[r] EXCEPT !.listed = FALSE, !.removed = now]
  <2>1. repos' = [repos EXCEPT ![r] = row] /\ connection' = connection /\ repos[r] \in RepositoryRow
    BY <1>0, <1>1 DEF Views!RemoveRepository, SessionInv
  <2>2. /\ row \in RepositoryRow /\ row.known = repos[r].known /\ ~row.listed
        /\ row.removed = now
    <3>1. now \in Nat
      BY <1>0 DEF SessionInv
    <3> QED BY <2>1, <3>1 DEF RepositoryRow
  <2> HIDE DEF row
  <2> QED BY <1>0, <2>1, <2>2 DEF SessionInv, Period
<1>2. ASSUME NEW r \in c.repos, Views(c)!AddRepository(r) PROVE SessionInv(c)'
  <2> DEFINE row == [repos[r] EXCEPT !.known = TRUE, !.listed = TRUE, !.removed = -1]
  <2>1. repos' = [repos EXCEPT ![r] = row] /\ connection' = connection /\ repos[r] \in RepositoryRow
    BY <1>0, <1>2 DEF Views!AddRepository, SessionInv, Views!Never
  <2>2. row \in RepositoryRow /\ row.known /\ row.listed /\ row.removed = -1
    BY <2>1 DEF RepositoryRow
  <2> HIDE DEF row
  <2> QED BY <1>0, <2>1, <2>2 DEF SessionInv
<1>3. ASSUME NEW r \in c.repos, Views(c)!Pause(r) PROVE SessionInv(c)'
  <2> DEFINE row == [repos[r] EXCEPT !.paused = ~@]
  <2>1. repos' = [repos EXCEPT ![r] = row] /\ connection' = connection /\ repos[r] \in RepositoryRow
    BY <1>0, <1>3 DEF Views!Pause, SessionInv
  <2>2. /\ row \in RepositoryRow /\ row.known = repos[r].known /\ row.listed = repos[r].listed
        /\ row.removed = repos[r].removed
    BY <2>1 DEF RepositoryRow
  <2> HIDE DEF row
  <2> QED BY <1>0, <2>1, <2>2 DEF SessionInv
<1>4. ASSUME NEW state \in {"active", "suspended", "deleted"},
               Views(c)!SetInstallation(state) PROVE SessionInv(c)'
  <2>1. connection' = [state |-> state, updated |-> now] /\ connection.state # "gone"
    BY <1>4 DEF Views!SetInstallation
  <2>2. CASE state = "deleted"
    <3> DEFINE row(r) == [repos[r] EXCEPT !.listed = FALSE, !.removed = IF @ = -1 THEN now ELSE @]
    <3>1. repos' = [r \in c.repos |-> row(r)]
      BY <1>4, <2>2 DEF Views!SetInstallation, Views!Never
    <3>2. ASSUME NEW r \in c.repos
          PROVE  /\ row(r) \in RepositoryRow /\ row(r).known = repos[r].known /\ ~row(r).listed
                 /\ row(r).removed = IF repos[r].removed = -1 THEN now ELSE repos[r].removed
      <4>1. repos[r] \in RepositoryRow
        BY <1>0, <3>2 DEF SessionInv
      <4> QED BY <1>0, <4>1 DEF RepositoryRow, SessionInv
    <3> HIDE DEF row
    <3>3. \A r \in c.repos : repos'[r] = row(r)
      BY <3>1
    <3>4. repos' \in [c.repos -> RepositoryRow]
      BY <3>1, <3>2
    <3> QED BY <1>0, <2>1, <3>2, <3>3, <3>4 DEF SessionInv, Period
  <2>3. CASE state # "deleted"
    BY <1>0, <1>4, <2>1, <2>3 DEF Views!SetInstallation, SessionInv
  <2> QED BY <2>2, <2>3
<1>5. ASSUME repos' = repos, connection' = connection PROVE SessionInv(c)'
  BY <1>0, <1>5, SameSession
<1> QED BY <1>1, <1>2, <1>3, <1>4, <1>5
     DEF Views!ChangeStep, Views!ClosePullRequest, Views!ReopenPullRequest, Views!Acknowledge,
          Views!RefreshEvidence

LEMMA OtherSession ==
  ASSUME NEW CONSTANT c, Period(c), ViewsInv(c),
         Views(c)!SignIn \/ Views(c)!Purge \/ Views(c)!Tick \/ UNCHANGED viewVars
  PROVE  SessionInv(c)'
<1>0. SessionInv(c)
  BY DEF ViewsInv
<1>1. ASSUME Views(c)!SignIn PROVE SessionInv(c)'
  <2>1. /\ session' = [repos |-> {r \in c.repos : repos[r].listed}, until |-> now + c.lifetime]
        /\ UNCHANGED <<now, connection, repos>>
    BY <1>1 DEF Views!SignIn
  <2> QED BY <1>0, <2>1 DEF SessionInv, Period, RepositoryRow
<1>2. ASSUME Views(c)!Tick PROVE SessionInv(c)'
  <2>1. now' = now + 1 /\ UNCHANGED <<connection, repos, session>>
    BY <1>2 DEF Views!Tick
  <2> QED BY <1>0, <2>1 DEF SessionInv, Period
<1>3. ASSUME UNCHANGED viewVars PROVE SessionInv(c)'
  BY <1>0, <1>3, SameSession DEF viewVars
<1>4. ASSUME Views(c)!Purge PROVE SessionInv(c)'
  <2> DEFINE cutoff == now - c.retention
             gone == connection.state = "deleted" /\ connection.updated < cutoff
             left == Views(c)!KeptJobs(cutoff)
             forgotten == Views(c)!Forgotten(cutoff, left)
             orphan == gone \/ connection.state = "gone"
             row(r) == IF orphan THEN [repos[r] EXCEPT !.known = FALSE, !.listed = FALSE,
                  !.paused = FALSE]
                       ELSE IF r \in forgotten THEN [repos[r] EXCEPT !.known = FALSE] ELSE repos[r]
  <2>1. /\ connection' = IF gone THEN [connection EXCEPT !.state = "gone"] ELSE connection
        /\ repos' = [r \in c.repos |-> row(r)]
        /\ now' = now /\ session' = session
    BY <1>4 DEF Views!Purge, Views!Keep
  <2>2. connection' \in [state: {"active", "suspended", "deleted", "gone"}, updated: Nat]
    BY <1>0, <2>1 DEF SessionInv
  <2>3. connection'.state = "gone" <=> orphan
    BY <1>0, <2>1 DEF SessionInv
  <2>4. ASSUME NEW r \in c.repos
        PROVE  /\ row(r) \in RepositoryRow /\ row(r).removed = repos[r].removed
               /\ row(r).listed => repos[r].listed
               /\ ~orphan /\ r \notin forgotten => row(r) = repos[r]
               /\ orphan => ~row(r).listed
               /\ r \in forgotten => repos[r].removed # -1 /\ repos[r].removed < cutoff
    <3>1. repos[r] \in RepositoryRow
      BY <1>0, <2>4 DEF SessionInv
    <3> QED BY <3>1 DEF RepositoryRow, Views!Forgotten, Views!Never
  <2> HIDE DEF row, forgotten, left, gone
  <2>5. \A r \in c.repos : repos'[r] = row(r)
    BY <2>1
  <2>6. repos' \in [c.repos -> RepositoryRow]
    BY <2>1, <2>4
  <2>7. ASSUME NEW r \in c.repos, repos'[r].listed PROVE repos'[r].known /\ repos'[r].removed = -1
    <3>1. repos'[r] = row(r) /\ repos[r].listed /\ repos[r].removed = -1 /\ repos[r].known
      BY <1>0, <2>4, <2>5, <2>7 DEF SessionInv
    <3>2. r \notin forgotten
      BY <2>4, <3>1
    <3>3. ~orphan
      BY <2>7, <3>1, <2>4
    <3> QED BY <2>4, <3>1, <3>2, <3>3
  <2>8. ASSUME ~orphan, NEW r \in session.repos, now < session.until PROVE r \notin forgotten
    <3>1. r \in c.repos /\ repos[r] \in RepositoryRow /\ session.until \in Nat /\ now \in Nat
          /\ (repos[r].removed = -1 \/ repos[r].removed + c.lifetime >= session.until)
      BY <1>0, <2>8 DEF SessionInv
    <3>2. repos[r].removed \in Int
      BY <3>1 DEF RepositoryRow
    <3> QED BY <2>4, <2>8, <3>1, <3>2 DEF Period
  <2> QED BY <1>0, <2>1, <2>2, <2>3, <2>4, <2>5, <2>6, <2>7, <2>8 DEF SessionInv
<1> QED BY <1>1, <1>2, <1>3, <1>4

-----------------------------------------------------------------------------
\* Scans that end otherwise than with findings need none
LEMMA SameHistory ==
  ASSUME HistoryInv, findings' = findings, connection.state = "gone" => connection'.state = "gone",
         \A j \in jobs' : Explained(j) => j \in jobs,
         \A v \in DOMAIN violations' : violations'[v].status = "open" =>
           v \in DOMAIN violations /\ violations[v].status = "open"
  PROVE  HistoryInv'
BY DEF HistoryInv, Explained

LEMMA ScanHistory ==
  ASSUME NEW CONSTANT c, ViewsInv(c), HistoryInv, Views(c)!ScanStep
  PROVE  HistoryInv'
<1>0. now \in Nat
  BY DEF ViewsInv, SessionInv
<1>1. ASSUME NEW r \in c.repos, NEW head \in c.heads, Views(c)!Accept(r, head) PROVE HistoryInv'
  <2> DEFINE S == Views(c)!Unfinished(r)
             old == {Views(c)!Cancelled(j, "stale", now) : j \in S}
             job == [seq |-> sequence + 1, repo |-> r, head |-> head, state |-> "queued",
                  warn |-> FALSE,
                     kind |-> "none", created |-> now, updated |-> now]
  <2>1. jobs' = (jobs \ S) \cup old \cup {job} /\ UNCHANGED <<connection, findings, violations>>
    BY <1>1 DEF Views!Accept
  <2>2. \A j \in old : ~Explained(j)
    BY <1>0, CancelledJobs DEF ViewsInv, Views!Unfinished
  <2>3. ~Explained(job)
    BY DEF Explained
  <2> HIDE DEF S, old, job
  <2> QED BY <2>1, <2>2, <2>3, SameHistory
<1>2. ASSUME NEW j \in jobs, NEW found \in SUBSET c.rules, NEW action \in {"block", "warn"},
             Views(c)!Complete(j, found, action)
      PROVE HistoryInv'
  <2> DEFINE ids == {j.repo} \X found
             k == [j EXCEPT !.state = IF found # {} /\ action = "block" THEN "failed" ELSE "passed",
                            !.warn = found # {} /\ action = "warn", !.updated = now]
             new == {[seq |-> j.seq, violation |-> v, at |-> now] : v \in ids}
  <2>1. /\ jobs' = (jobs \ {j}) \cup {k} /\ findings' = findings \cup new /\ connection'
             = connection
        /\ violations' = [v \in DOMAIN violations \cup ids |->
                            IF v \in ids THEN Views(c)!Detected(j, v, action)
                            ELSE IF v[1] = j.repo /\ violations[v].status
                                 = "open" THEN Views(c)!Ended(v, FALSE)
                            ELSE violations[v]]
    BY <1>2 DEF Views!Complete
  <2>2. k.seq = j.seq /\ k.updated = now /\ (Explained(k) => found # {})
    BY DEF ViewsInv, JobsInv, JobRow, Explained
  <2>3. ASSUME NEW v \in ids PROVE \E f \in new : f.violation = v /\ f.seq = j.seq /\ f.at = now
    <3> DEFINE f == [seq |-> j.seq, violation |-> v, at |-> now]
    <3>1. f \in new /\ f.violation = v /\ f.seq = j.seq /\ f.at = now
      BY <2>3
    <3> QED BY <3>1
  <2>4. ASSUME found # {} PROVE \E v : v \in ids
    <3>1. PICK x : x \in found
      BY <2>4
    <3>2. <<j.repo, x>> \in ids
      BY <3>1
    <3> QED BY <3>2
  <2>5. \A f \in new : f.at = now
    OBVIOUS
  <2>6. ASSUME NEW v \in DOMAIN violations, v \notin ids, violations'[v].status = "open"
        PROVE  violations[v].status = "open"
    <3>1. violations[v] \in ViolationRow
      BY <2>6 DEF ViewsInv, ViolationsInv
    <3> QED BY <2>1, <2>6, <3>1 DEF Views!Ended, ViolationRow
  <2> HIDE DEF ids, k, new
  <2>7. DOMAIN violations' = DOMAIN violations \cup ids
    BY <2>1
  <2>8. \A f \in findings' : f.at \in Nat
    BY <1>0, <2>1, <2>5 DEF HistoryInv
  <2>9. ASSUME NEW v \in DOMAIN violations', violations'[v].status = "open"
        PROVE  \E f \in findings' : f.violation = v
    BY <2>1, <2>3, <2>6, <2>7, <2>9 DEF HistoryInv
  <2>10. ASSUME connection.state # "gone", NEW i \in jobs', Explained(i)
         PROVE  \E f \in findings' : f.seq = i.seq /\ f.at >= i.updated
    <3>1. CASE i = k
      <4>1. PICK f \in new : f.seq = j.seq /\ f.at = now
        BY <2>2, <2>3, <2>4, <2>10, <3>1
      <4> QED BY <1>0, <2>1, <2>2, <3>1, <4>1
    <3>2. CASE i \in jobs
      BY <2>1, <2>10, <3>2 DEF HistoryInv
    <3> QED BY <2>1, <3>1, <3>2
  <2> QED BY <2>1, <2>8, <2>9, <2>10 DEF HistoryInv
<1>3. ASSUME NEW j \in jobs, NEW kind \in c.kinds, Views(c)!Fail(j, kind) PROVE HistoryInv'
  <2> DEFINE k == [j EXCEPT !.state = "error", !.kind = kind, !.updated = now]
  <2>1. jobs' = (jobs \ {j}) \cup {k} /\ UNCHANGED <<connection, findings, violations>>
    BY <1>3 DEF Views!Fail
  <2>2. ~Explained(k)
    BY DEF ViewsInv, JobsInv, JobRow, Explained
  <2> HIDE DEF k
  <2> QED BY <2>1, <2>2, SameHistory
<1> QED BY <1>1, <1>2, <1>3 DEF Views!ScanStep, Views!Actions

LEMMA ChangeHistory ==
  ASSUME NEW CONSTANT c, ViewsInv(c), HistoryInv, ~c.reopens, Views(c)!ChangeStep
  PROVE  HistoryInv'
<1>0. now \in Nat /\ \A j \in jobs : j.updated \in Nat
  BY DEF ViewsInv, SessionInv, JobsInv, JobRow
<1>1. ASSUME NEW r \in c.repos, Views(c)!ClosePullRequest(r) PROVE HistoryInv'
  <2>1. /\ violations' = [v \in DOMAIN violations |->
                            IF v[1] = r /\ violations[v].status = "open" THEN Views(c)!Ended(v,
                                 TRUE) ELSE violations[v]]
        /\ UNCHANGED <<connection, findings, jobs>>
    BY <1>1 DEF Views!ClosePullRequest
  <2> QED BY <2>1, SameHistory
<1>2. ASSUME NEW v, Views(c)!Acknowledge(v) PROVE HistoryInv'
  <2>1. /\ v \in DOMAIN violations /\ violations[v].status = "open"
        /\ violations' = [violations EXCEPT ![v].ack = TRUE, ![v].updated = now]
        /\ UNCHANGED <<connection, findings, jobs>>
    BY <1>2 DEF Views!Acknowledge, Views!VisibleViolations
  <2> QED BY <2>1, SameHistory
<1>3. ASSUME NEW r \in c.repos, Views(c)!RemoveRepository(r) PROVE HistoryInv'
  <2> DEFINE S == Views(c)!Unfinished(r)
             old == {Views(c)!Cancelled(j, "none", j.updated) : j \in S}
  <2>1. jobs' = (jobs \ S) \cup old /\ UNCHANGED <<connection, findings, violations>>
    BY <1>3 DEF Views!RemoveRepository
  <2>2. \A j \in old : ~Explained(j)
    BY <1>0, CancelledJobs DEF ViewsInv, Views!Unfinished
  <2> HIDE DEF S, old
  <2> QED BY <2>1, <2>2, SameHistory
<1>4. ASSUME NEW state, Views(c)!SetInstallation(state) PROVE HistoryInv'
  <2> DEFINE S == UNION {Views(c)!Unfinished(r) : r \in c.repos}
             old == {Views(c)!Cancelled(j, "none", now) : j \in S}
  <2>1. /\ jobs' = (jobs \ S) \cup old \/ jobs' = jobs
        /\ connection.state # "gone" /\ UNCHANGED <<findings, violations>>
    BY <1>4 DEF Views!SetInstallation
  <2>2. \A j \in old : ~Explained(j)
    BY <1>0, CancelledJobs DEF ViewsInv, Views!Unfinished
  <2> HIDE DEF S, old
  <2> QED BY <2>1, <2>2, SameHistory
<1>5. ASSUME UNCHANGED <<connection, findings, violations, jobs>> PROVE HistoryInv'
  BY <1>5, SameHistory
<1> QED BY <1>1, <1>2, <1>3, <1>4, <1>5
     DEF Views!ChangeStep, Views!ReopenPullRequest, Views!Pause, Views!AddRepository,
          Views!RefreshEvidence,
     Views!KeepHistory

LEMMA OtherHistory ==
  ASSUME NEW CONSTANT c, Period(c), ViewsInv(c), HistoryInv,
         Views(c)!SignIn \/ Views(c)!Purge \/ Views(c)!Tick \/ UNCHANGED viewVars
  PROVE  HistoryInv'
<1>1. ASSUME Views(c)!Purge PROVE HistoryInv'
  <2> DEFINE cutoff == now - c.retention
             gone == connection.state = "deleted" /\ connection.updated < cutoff
             orphan == gone \/ connection.state = "gone"
  <2>1. /\ connection' = IF gone THEN [connection EXCEPT !.state = "gone"] ELSE connection
        /\ findings' = IF orphan THEN {} ELSE Views(c)!KeptFindings(cutoff)
        /\ violations' = [v \in IF orphan THEN {} ELSE Views(c)!KeptViolations(cutoff) |-> violations[v]]
        /\ jobs' = Views(c)!KeptJobs(cutoff)
    BY <1>1 DEF Views!Purge
  <2>2. CASE orphan
    <3>1. connection'.state = "gone" /\ findings' = {} /\ DOMAIN violations' = {}
      BY <2>1, <2>2 DEF ViewsInv, SessionInv
    <3> QED BY <3>1 DEF HistoryInv
  <2>3. CASE ~orphan
    <3>1. /\ connection' = connection /\ connection.state # "gone"
          /\ findings' = Views(c)!KeptFindings(cutoff)
          /\ violations' = [v \in Views(c)!KeptViolations(cutoff) |-> violations[v]]
      BY <2>1, <2>3
    <3>2. findings' \subseteq findings
      BY <3>1 DEF Views!KeptFindings
    <3>3. ASSUME NEW v \in DOMAIN violations', violations'[v].status = "open"
          PROVE  \E f \in findings' : f.violation = v
      BY <3>1, <3>3 DEF HistoryInv, Views!KeptViolations, Views!KeptFindings
    <3>4. ASSUME NEW j \in jobs', Explained(j) PROVE \E f \in findings' : f.seq = j.seq
                   /\ f.at >= j.updated
      <4>1. j \in jobs /\ j.updated >= cutoff
        BY <2>1, <3>4 DEF Views!KeptJobs, Explained
      <4>2. PICK f \in findings : f.seq = j.seq /\ f.at >= j.updated
        BY <3>1, <3>4, <4>1 DEF HistoryInv
      <4>3. f.at \in Nat /\ j.updated \in Nat /\ cutoff \in Int
        BY <4>1 DEF HistoryInv, ViewsInv, JobsInv, JobRow, SessionInv, Period
      <4>4. f.at >= cutoff
        BY <4>1, <4>2, <4>3
      <4> QED BY <3>1, <4>2, <4>4 DEF Views!KeptFindings
    <3> QED BY <3>2, <3>3, <3>4 DEF HistoryInv
  <2> QED BY <2>2, <2>3
<1>2. ASSUME UNCHANGED <<connection, findings, violations, jobs>> PROVE HistoryInv'
  BY <1>2, SameHistory
<1> QED BY <1>1, <1>2 DEF Views!SignIn, Views!Tick, viewVars, Views!KeepHistory

LEMMA ViewsStep ==
  ASSUME NEW CONSTANT c, Period(c), ViewsInv(c), Views(c)!Next \/ UNCHANGED viewVars
  PROVE  ViewsInv(c)'
<1>1. JobsInv(c)'
  BY ScanJobs, ChangeJobs, OtherJobs DEF Views!Next
<1>2. ViolationsInv(c)'
  BY ScanViolations, ChangeViolations, OtherViolations DEF Views!Next
<1>3. SessionInv(c)'
  BY ScanSession, ChangeSession, OtherSession DEF Views!Next
<1>4. ~c.reopens => HistoryInv'
  BY ScanHistory, ChangeHistory, OtherHistory DEF Views!Next, ViewsInv
<1> QED BY <1>1, <1>2, <1>3, <1>4 DEF ViewsInv

-----------------------------------------------------------------------------
(* Sums over finite sets: no induction theorem is needed where a smallest   *)
(* counterexample can be taken.                                             *)

\* A family of subsets of a finite set has a member that contains no other.
LEMMA SmallestMember ==
  ASSUME NEW S, IsFiniteSet(S), NEW T \in SUBSET SUBSET S, T # {}
  PROVE  \E A \in T : \A B \in T : B \subseteq A => B = A
<1> DEFINE R == StrictSubsetOrdering(S)
<1>1. T \subseteq FiniteSubsetsOf(S)
  BY FS_FiniteSubsetsOfFinite
<1>2. IsWellFoundedOn(R, FiniteSubsetsOf(S))
  BY FS_StrictSubsetOrderingWellFounded
<1> HIDE DEF R
<1>3. PICK A \in T : \A B \in T : ~ (<<B, A>> \in R)
  BY <1>1, <1>2, WFMin
<1>4. ASSUME NEW B \in T, B \subseteq A, B # A PROVE FALSE
  BY <1>3, <1>4 DEF R, StrictSubsetOrdering
<1> QED BY <1>4

Any(s) == CHOOSE x \in s : TRUE
Adds(it, f, S) ==
  it = [s \in SUBSET S |-> IF s = {} THEN 0 ELSE f[Any(s)] + it[s \ {Any(s)}]]

LEMMA AnyMember == ASSUME NEW s, s # {} PROVE Any(s) \in s
BY DEF Any

\* Two partial sums agree
LEMMA SameSums ==
  ASSUME NEW S, IsFiniteSet(S), NEW f, NEW A \in SUBSET S, NEW B \in SUBSET S, NEW g, NEW h,
         Adds(g, f, A), Adds(h, f, B), NEW s \in SUBSET (A \cap B)
  PROVE  g[s] = h[s]
<1> DEFINE Bad == {t \in SUBSET (A \cap B) : g[t] # h[t]}
<1> SUFFICES ASSUME Bad # {} PROVE FALSE
  OBVIOUS
<1>1. Bad \in SUBSET SUBSET S
  OBVIOUS
<1> HIDE DEF Bad
<1>2. PICK t \in Bad : \A u \in Bad : u \subseteq t => u = t
  BY <1>1, SmallestMember
<1> USE DEF Bad
<1>3. t # {}
  BY <1>2 DEF Adds
<1>4. Any(t) \in t /\ t \ {Any(t)} \subseteq t /\ t \ {Any(t)} # t
  BY <1>3, AnyMember
<1>5. g[t \ {Any(t)}] = h[t \ {Any(t)}]
  BY <1>2, <1>4
<1>6. g[t] = f[Any(t)] + g[t \ {Any(t)}] /\ h[t] = f[Any(t)] + h[t \ {Any(t)}]
  BY <1>3, <1>4 DEF Adds
<1> QED BY <1>5, <1>6

\* The sum exists
LEMMA SumExists ==
  ASSUME NEW S, IsFiniteSet(S), NEW f
  PROVE  \E it : Adds(it, f, S)
<1> DEFINE Bad == {A \in SUBSET S : ~ \E it : Adds(it, f, A)}
<1> SUFFICES ASSUME Bad # {} PROVE FALSE
  OBVIOUS
<1>0. Bad \in SUBSET SUBSET S
  OBVIOUS
<1> HIDE DEF Bad
<1>1. PICK A \in Bad : \A B \in Bad : B \subseteq A => B = A
  BY <1>0, SmallestMember
<1> USE DEF Bad
<1>2. ASSUME NEW B \in SUBSET A, B # A PROVE \E it : Adds(it, f, B)
  BY <1>1, <1>2
<1> DEFINE Part(B) == CHOOSE it : Adds(it, f, B)
           it == [s \in SUBSET A |-> IF s = {} THEN 0 ELSE f[Any(s)]
                + Part(s \ {Any(s)})[s \ {Any(s)}]]
<1>3. ASSUME NEW B \in SUBSET A, B # A PROVE Adds(Part(B), f, B)
  BY <1>2, <1>3
<1> HIDE DEF Part
<1>4. ASSUME NEW s \in SUBSET A, s # {} PROVE it[s \ {Any(s)}] = Part(s \ {Any(s)})[s \ {Any(s)}]
  <2> DEFINE u == s \ {Any(s)}
  <2>1. u \subseteq A /\ u # A
    BY <1>4, AnyMember
  <2>2. Adds(Part(u), f, u)
    BY <2>1, <1>3
  <2>3. CASE u = {}
    BY <2>2, <2>3 DEF Adds
  <2>4. CASE u # {}
    <3> DEFINE v == u \ {Any(u)}
    <3>1. v \subseteq A /\ v # A /\ v \subseteq u /\ v # u /\ v \in SUBSET (u \cap v)
      BY <2>1, <2>4, AnyMember
    <3>2. Adds(Part(v), f, v)
      BY <3>1, <1>3
    <3> HIDE DEF u, v, it
    <3>3. Part(u)[v] = Part(v)[v]
      BY <2>1, <3>1, <2>2, <3>2, SameSums
    <3>4. it[u] = f[Any(u)] + Part(v)[v]
      BY <2>1, <2>4 DEF it, v
    <3>5. Part(u)[u] = f[Any(u)] + Part(u)[v]
      BY <2>2, <2>4 DEF Adds, v
    <3> QED BY <3>3, <3>4, <3>5 DEF u
  <2> QED BY <2>3, <2>4
<1>5. Adds(it, f, A)
  <2>1. ASSUME NEW s \in SUBSET A
        PROVE  it[s] = IF s = {} THEN 0 ELSE f[Any(s)] + it[s \ {Any(s)}]
    BY <1>4
  <2> QED BY <2>1 DEF Adds
<1> QED BY <1>1, <1>5

LEMMA CountIs ==
  ASSUME NEW CONSTANT c, NEW S
  PROVE  Views(c)!Count(S) = Cardinality(S)
BY Zenon DEF Views!Count, Views!Cardinality, Views!IsFiniteSet, Cardinality, IsFiniteSet

LEMMA SumIsAdded ==
  ASSUME NEW CONSTANT c, NEW f, IsFiniteSet(DOMAIN f)
  PROVE  \E it : Adds(it, f, DOMAIN f) /\ Views(c)!SumFunction(f) = it[DOMAIN f]
<1> DEFINE G(it) == [s \in SUBSET DOMAIN f |-> IF s = {} THEN 0 ELSE f[Any(s)] + it[s \ {Any(s)}]]
<1>1. Views(c)!SumFunction(f) = (CHOOSE it : it = G(it))[DOMAIN f]
  BY DEF Views!SumFunction, Views!SumFunctionOnSet, Views!FoldFunctionOnSet, Views!MapThenFoldSet,
       Any
<1>2. ASSUME NEW it PROVE Adds(it, f, DOMAIN f) <=> it = G(it)
  BY DEF Adds
<1>3. PICK it : Adds(it, f, DOMAIN f)
  BY SumExists
<1> HIDE DEF G
<1>4. it = G(it)
  BY <1>2, <1>3
<1>5. (CHOOSE x : x = G(x)) = G(CHOOSE x : x = G(x))
  BY <1>4
<1>6. Adds(CHOOSE x : x = G(x), f, DOMAIN f)
  BY <1>2, <1>5
<1> QED BY <1>1, <1>6

\* The rows of a table sum up to the number of the things they count.
LEMMA RowsSum ==
  ASSUME NEW CONSTANT c, NEW W, IsFiniteSet(W), NEW f, IsFiniteSet(DOMAIN f),
         \A v \in W : v[1] \in DOMAIN f,
         \A r \in DOMAIN f : f[r] = Cardinality({v \in W : v[1] = r})
  PROVE  Views(c)!SumFunction(f) = Cardinality(W)
<1> DEFINE S == DOMAIN f
           Of(s) == {v \in W : v[1] \in s}
<1>1. PICK it : Adds(it, f, S) /\ Views(c)!SumFunction(f) = it[S]
  BY SumIsAdded
<1> DEFINE Bad == {s \in SUBSET S : it[s] # Cardinality(Of(s))}
<1>2. Bad = {}
  <2> SUFFICES ASSUME Bad # {} PROVE FALSE
    OBVIOUS
  <2>1. Bad \in SUBSET SUBSET S
    OBVIOUS
  <2> HIDE DEF Bad
  <2>2. PICK s \in Bad : \A u \in Bad : u \subseteq s => u = s
    BY <2>1, SmallestMember
  <2>3. s \in SUBSET S /\ it[s] # Cardinality(Of(s))
    BY <2>2 DEF Bad
  <2>4. CASE s = {}
    <3>1. it[s] = 0 /\ Of(s) = {}
      BY <1>1, <2>3, <2>4 DEF Adds
    <3> QED BY <2>3, <3>1, FS_EmptySet
  <2>5. CASE s # {}
    <3> DEFINE r == Any(s)
               u == s \ {r}
    <3>1. r \in s /\ r \in S /\ u \subseteq s /\ u # s /\ u \in SUBSET S
      BY <2>3, <2>5, AnyMember
    <3>2. u \notin Bad
      BY <2>2, <3>1
    <3>3. it[u] = Cardinality(Of(u))
      BY <3>1, <3>2 DEF Bad
    <3>4. it[s] = f[r] + it[u]
      BY <1>1, <2>3, <2>5 DEF Adds
    <3> DEFINE One == {v \in W : v[1] = r}
    <3>5. Of(s) = One \cup Of(u) /\ One \cap Of(u) = {}
      BY <3>1
    <3>6. IsFiniteSet(One) /\ IsFiniteSet(Of(u))
      BY FS_Subset
    <3>7. f[r] = Cardinality(One)
      BY <3>1
    <3> HIDE DEF r, u, One, Of, S
    <3>8. /\ Cardinality(One) \in Nat /\ Cardinality(Of(u)) \in Nat
          /\ Cardinality(Of(s)) = Cardinality(One) + Cardinality(Of(u)) - Cardinality({})
      BY <3>5, <3>6, FS_Union, FS_CardinalityType
    <3>9. Cardinality({}) = 0
      BY FS_EmptySet
    <3> QED BY <2>3, <3>3, <3>4, <3>7, <3>8, <3>9
  <2> QED BY <2>4, <2>5
<1>3. it[S] = Cardinality(Of(S))
  BY <1>2
<1>4. Of(S) = W
  OBVIOUS
<1> QED BY <1>1, <1>3, <1>4

\* A set of numbers up to a bound has a largest one.
LEMMA LargestNumber ==
  ASSUME NEW n \in Nat, NEW S \in SUBSET (1..n), S # {}
  PROVE  \E m \in S : \A k \in S : k <= m
<1> DEFINE From(m) == {k \in S : k >= m}
           T == {From(m) : m \in S}
           N == 1..n
<1>1. T \in SUBSET SUBSET N /\ T # {}
  OBVIOUS
<1>2. IsFiniteSet(N)
  BY FS_Interval
<1> HIDE DEF T, N
<1>3. PICK A \in T : \A B \in T : B \subseteq A => B = A
  BY <1>1, <1>2, SmallestMember
<1>4. PICK m \in S : A = From(m)
  BY DEF T
<1> USE DEF N
<1>5. ASSUME NEW k \in S, k > m PROVE FALSE
  <2>1. m \in Nat /\ k \in Nat
    OBVIOUS
  <2>2. m \in A /\ m \notin From(k)
    BY <1>4, <1>5, <2>1
  <2>3. From(k) \subseteq A
    <3>1. \A l \in S : l >= k => l >= m
      BY <1>5, <2>1
    <3> QED BY <1>4, <3>1
  <2>4. From(k) \in T
    BY DEF T
  <2> HIDE DEF From
  <2> QED BY <1>3, <2>2, <2>3, <2>4
<1>6. \A k \in S : k \in Int
  OBVIOUS
<1>7. \A k \in S : k <= m
  BY <1>5, <1>6
<1> QED BY <1>7

LEMMA NewestJob ==
  ASSUME NEW CONSTANT c, JobsInv(c), NEW S \in SUBSET jobs, S # {}
  PROVE  Views(c)!Newest(S) \in S
<1> DEFINE T == {j.seq : j \in S}
<1>1. T \in SUBSET (1..sequence) /\ T # {} /\ sequence \in Nat
  BY DEF JobsInv, JobRow
<1>2. PICK m \in T : \A k \in T : k <= m
  BY <1>1, LargestNumber
<1>3. \E j \in S : \A k \in S : k.seq <= j.seq
  BY <1>2
<1> QED BY <1>3 DEF Views!Newest

-----------------------------------------------------------------------------
Showable(c) == IsFiniteSet(c.repos) /\ IsFiniteSet(c.rules) /\ "any" \notin c.repos

\* A repository that a session shows is one of those the overview lists.
LEMMA VisibleListed ==
  ASSUME NEW CONSTANT c, ViewsInv(c)
  PROVE  Views(c)!Listed = Views(c)!Visible /\ Views(c)!Visible \subseteq c.repos
BY DEF ViewsInv, SessionInv, Views!Listed, Views!Visible

LEMMA FiniteViews ==
  ASSUME NEW CONSTANT c, ViewsInv(c), Showable(c)
  PROVE  /\ IsFiniteSet(Views(c)!Listed)
         /\ \A W \in SUBSET DOMAIN violations : IsFiniteSet(W)
<1>1. IsFiniteSet(c.repos \X c.rules)
  BY FS_Product DEF Showable
<1>2. DOMAIN violations \subseteq c.repos \X c.rules
  BY DEF ViewsInv, ViolationsInv
<1>3. \A W \in SUBSET DOMAIN violations : IsFiniteSet(W)
  BY <1>1, <1>2, FS_Subset
<1>4. IsFiniteSet(Views(c)!Listed)
  BY VisibleListed, FS_Subset DEF Showable
<1> QED BY <1>3, <1>4

Open(c) == {v \in Views(c)!VisibleViolations : violations[v].status = "open"}

\* The open violations of the overview are those of the rows.
RowsOf(c, f, W) ==
  /\ W \subseteq Open(c) /\ DOMAIN f = Views(c)!Listed
  /\ \A r \in Views(c)!Listed : f[r] = Cardinality({v \in W : v[1] = r})

LEMMA RowsCount ==
  ASSUME NEW CONSTANT c, ViewsInv(c), Showable(c), NEW W, NEW f, RowsOf(c, f, W)
  PROVE  Views(c)!Count(W) = Views(c)!SumFunction(f)
<1>1. \A v \in W : v[1] \in DOMAIN f
  BY VisibleListed DEF RowsOf, Open, Views!VisibleViolations
<1>2. IsFiniteSet(W) /\ IsFiniteSet(DOMAIN f)
  BY FiniteViews DEF RowsOf, Open, Views!VisibleViolations
<1>3. \A r \in DOMAIN f : f[r] = Cardinality({v \in W : v[1] = r})
  BY DEF RowsOf
<1>4. Views(c)!SumFunction(f) = Cardinality(W)
  BY <1>1, <1>2, <1>3, RowsSum
<1> QED BY <1>4, CountIs

LEMMA ViolationNumbers ==
  ASSUME NEW CONSTANT c, ViewsInv(c), Showable(c)
  PROVE  LET o == Views(c)!Overview(0)
         IN /\ o.violations = Views(c)!Count(Views(c)!ViolationList("open", "block", "any")
                                             \cup Views(c)!ViolationList("acknowledged", "block",
                                                  "any"))
            /\ o.violations = Views(c)!SumFunction([r \in Views(c)!Listed |-> Views(c)!Row(r).violations])
            /\ o.warnings = Views(c)!SumFunction([r \in Views(c)!Listed |-> Views(c)!Row(r).warnings])
            /\ o.critical = Views(c)!SumFunction([r \in Views(c)!Listed |-> Views(c)!Row(r).critical])
<1> DEFINE o == Views(c)!Overview(0)
           blocked == {v \in Open(c) : violations[v].action = "block"}
           warned == {v \in Open(c) : violations[v].action = "warn"}
           critical == {v \in Open(c) : v[2] \in c.critical}
           inRow(W, r) == {v \in W : v[1] = r}
           blockedRows == [r \in Views(c)!Listed |-> Views(c)!Row(r).violations]
           warnedRows == [r \in Views(c)!Listed |-> Views(c)!Row(r).warnings]
           criticalRows == [r \in Views(c)!Listed |-> Views(c)!Row(r).critical]
<1>1. /\ o.violations = Views(c)!Count({v \in Views(c)!VisibleViolations : violations[v].status
           = "open" /\ violations[v].action = "block"})
      /\ o.warnings = Views(c)!Count({v \in Views(c)!VisibleViolations : violations[v].status
           = "open" /\ violations[v].action = "warn"})
      /\ o.critical = Views(c)!Count({v \in Views(c)!VisibleViolations : violations[v].status
           = "open" /\ v[2] \in c.critical})
  BY DEF Views!Overview
<1>2. /\ blocked = {v \in Views(c)!VisibleViolations : violations[v].status = "open"
           /\ violations[v].action = "block"}
      /\ warned = {v \in Views(c)!VisibleViolations : violations[v].status = "open"
           /\ violations[v].action = "warn"}
      /\ critical = {v \in Views(c)!VisibleViolations : violations[v].status = "open"
           /\ v[2] \in c.critical}
  BY DEF Open
<1>3. o.violations = Views(c)!Count(blocked) /\ o.warnings = Views(c)!Count(warned)
        /\ o.critical = Views(c)!Count(critical)
  BY <1>1, <1>2
<1>4. ASSUME NEW r \in Views(c)!Listed
      PROVE  /\ Views(c)!OpenIn(r, "block") = inRow(blocked, r)
             /\ Views(c)!OpenIn(r, "warn") = inRow(warned, r)
             /\ Views(c)!CriticalIn(r) = inRow(critical, r)
  BY <1>4, VisibleListed DEF Views!OpenIn, Views!CriticalIn, Open, Views!VisibleViolations
<1>5. ASSUME NEW r \in Views(c)!Listed
      PROVE  /\ blockedRows[r] = Cardinality(inRow(blocked, r))
             /\ warnedRows[r] = Cardinality(inRow(warned, r))
             /\ criticalRows[r] = Cardinality(inRow(critical, r))
  BY <1>4, <1>5, CountIs DEF Views!Row
<1>6. blocked \subseteq Open(c) /\ warned \subseteq Open(c) /\ critical \subseteq Open(c)
  OBVIOUS
<1>7. Views(c)!ViolationList("open", "block", "any") \cup Views(c)!ViolationList("acknowledged",
        "block", "any") = blocked
  BY DEF Views!ViolationList, Open
<1>8. /\ DOMAIN blockedRows = Views(c)!Listed /\ DOMAIN warnedRows = Views(c)!Listed
      /\ DOMAIN criticalRows = Views(c)!Listed
  OBVIOUS
<1>9. RowsOf(c, blockedRows, blocked) /\ RowsOf(c, warnedRows, warned) /\ RowsOf(c, criticalRows,
        critical)
  BY <1>5, <1>6, <1>8 DEF RowsOf
<1> HIDE DEF o, blocked, warned, critical, blockedRows, warnedRows, criticalRows
<1>90. Views(c)!Count(blocked) = Views(c)!SumFunction(blockedRows)
  BY <1>9, RowsCount
<1>10. Views(c)!Count(warned) = Views(c)!SumFunction(warnedRows)
  BY <1>9, RowsCount
<1>11. Views(c)!Count(critical) = Views(c)!SumFunction(criticalRows)
  BY <1>9, RowsCount
<1> QED BY <1>3, <1>7, <1>90, <1>10, <1>11 DEF o, blockedRows, warnedRows, criticalRows

\* The repositories by their protection
Apart(S, T) == S \cap T = {}

LEMMA DisjointCount ==
  ASSUME NEW CONSTANT c, NEW S, NEW T, IsFiniteSet(S), IsFiniteSet(T), Apart(S, T)
  PROVE  Views(c)!Count(S \cup T) = Views(c)!Count(S) + Views(c)!Count(T)
         /\ IsFiniteSet(S \cup T) /\ Views(c)!Count(S) \in Nat /\ Views(c)!Count(T) \in Nat
         /\ (Views(c)!Count(S) = 0 <=> S = {})
<1>1. Cardinality(S \cup T) = Cardinality(S) + Cardinality(T) - Cardinality({})
        /\ IsFiniteSet(S \cup T)
  BY FS_Union DEF Apart
<1>2. Cardinality(S) \in Nat /\ Cardinality(T) \in Nat /\ Cardinality({}) = 0 /\ (Cardinality(S)
        = 0 <=> S = {})
  BY FS_CardinalityType, FS_EmptySet
<1> QED BY <1>1, <1>2, CountIs

LEMMA ProtectionNumbers ==
  ASSUME NEW CONSTANT c, ViewsInv(c), Showable(c)
  PROVE  LET o == Views(c)!Overview(0)
         IN /\ o.monitored = o.protected + o.unprotected + o.unknown + o.configuration
            /\ Views(c)!Count(Views(c)!Listed) = o.monitored + o.atRisk
            /\ Views(c)!Health(o).merge_protection = "ok"
                 => Views(c)!RepositoryList("protected") = Views(c)!Listed
<1> DEFINE o == Views(c)!Overview(0)
           L == Views(c)!Listed
           M == Views(c)!Monitored
           A(p) == {r \in M : Views(c)!Protection(r) = p}
           R == {r \in L : Views(c)!Protection(r) = "at_risk"}
<1>1. /\ o.monitored = Views(c)!Count(M) /\ o.protected = Views(c)!Count(A("protected"))
      /\ o.unprotected = Views(c)!Count(A("unprotected")) /\ o.unknown = Views(c)!Count(A("unknown"))
      /\ o.configuration = Views(c)!Count(A("configuration_error")) /\ o.atRisk = Views(c)!Count(R)
  BY DEF Views!Overview
<1>2. ASSUME NEW r \in L
      PROVE  /\ Views(c)!Connection(r) # "connected" <=> Views(c)!Protection(r) = "at_risk"
             /\ Views(c)!Protection(r) \in {"at_risk", "protected", "unprotected", "unknown",
                  "configuration_error"}
  BY DEF Views!Protection
<1>3. M = {r \in L : Views(c)!Connection(r) = "connected"}
  BY DEF Views!Monitored
<1>4. L = M \cup R /\ Apart(M, R)
  BY <1>2, <1>3 DEF Apart
<1>5. M = ((A("protected") \cup A("unprotected")) \cup A("unknown")) \cup A("configuration_error")
  BY <1>2, <1>3
<1>6. IsFiniteSet(L)
  BY FiniteViews
<1>7. IsFiniteSet(M) /\ IsFiniteSet(R)
  BY <1>4, <1>6, FS_Subset
<1>8. \A p : IsFiniteSet(A(p))
  BY <1>7, FS_Subset
<1>9. /\ Apart(A("protected"), A("unprotected"))
      /\ Apart(A("protected") \cup A("unprotected"), A("unknown"))
      /\ Apart((A("protected") \cup A("unprotected")) \cup A("unknown"), A("configuration_error"))
  BY DEF Apart
<1>10. Views(c)!RepositoryList("protected") = {r \in L : Views(c)!Protection(r) = "protected"}
  BY DEF Views!RepositoryList
<1>11. Views(c)!Health(o).merge_protection =
         IF o.monitored = 0 THEN "unknown"
         ELSE IF o.atRisk + o.unprotected + o.configuration > 0 THEN "attention"
         ELSE IF o.unknown > 0 THEN "unknown" ELSE "ok"
  BY DEF Views!Health
<1> HIDE DEF o, L, M, A, R
<1>12. /\ Views(c)!Count(L) = Views(c)!Count(M) + Views(c)!Count(R)
       /\ Views(c)!Count(R) \in Nat /\ (Views(c)!Count(R) = 0 <=> R = {})
  <2>1. Views(c)!Count(M \cup R) = Views(c)!Count(M) + Views(c)!Count(R)
    BY <1>4, <1>7, DisjointCount
  <2>2. Apart(R, {}) /\ IsFiniteSet({})
    BY FS_EmptySet DEF Apart
  <2>3. Views(c)!Count(R) \in Nat /\ (Views(c)!Count(R) = 0 <=> R = {})
    BY <1>7, <2>2, DisjointCount
  <2> QED BY <1>4, <2>1, <2>3
<1>13. /\ Views(c)!Count(A("protected") \cup A("unprotected")) = Views(c)!Count(A("protected"))
            + Views(c)!Count(A("unprotected"))
       /\ IsFiniteSet(A("protected") \cup A("unprotected"))
       /\ Views(c)!Count(A("protected")) \in Nat /\ Views(c)!Count(A("unprotected")) \in Nat
  BY <1>8, <1>9, DisjointCount
<1>14. /\ Views(c)!Count((A("protected") \cup A("unprotected")) \cup A("unknown"))
            = Views(c)!Count(A("protected") \cup A("unprotected")) + Views(c)!Count(A("unknown"))
       /\ IsFiniteSet((A("protected") \cup A("unprotected")) \cup A("unknown"))
       /\ Views(c)!Count(A("unknown")) \in Nat
  BY <1>8, <1>9, <1>13, DisjointCount
<1>15. /\ Views(c)!Count(M) = Views(c)!Count((A("protected") \cup A("unprotected"))
            \cup A("unknown"))
                               + Views(c)!Count(A("configuration_error"))
       /\ Views(c)!Count(A("configuration_error")) \in Nat
  BY <1>5, <1>8, <1>9, <1>14, DisjointCount
<1>16. \A p : Views(c)!Count(A(p)) = 0 => A(p) = {}
  <2>1. \A p : IsFiniteSet(A(p)) /\ Apart(A(p), {}) /\ IsFiniteSet({})
    BY <1>8, FS_EmptySet DEF Apart
  <2> QED BY <2>1, DisjointCount
<1>17. Views(c)!Health(o).merge_protection = "ok" => Views(c)!RepositoryList("protected") = L
  <2> SUFFICES ASSUME Views(c)!Health(o).merge_protection = "ok"
      PROVE  Views(c)!RepositoryList("protected") = L
    OBVIOUS
  <2>1. Views(c)!Count(R) = 0 /\ Views(c)!Count(A("unprotected")) = 0
          /\ Views(c)!Count(A("configuration_error")) = 0
        /\ Views(c)!Count(A("unknown")) = 0
    BY <1>1, <1>11, <1>12, <1>13, <1>14, <1>15
  <2>2. R = {} /\ A("unprotected") = {} /\ A("configuration_error") = {} /\ A("unknown") = {}
    BY <1>12, <1>16, <2>1
  <2>3. L = A("protected")
    BY <1>4, <1>5, <2>2
  <2> QED BY <1>4, <1>10, <2>3 DEF A
<1> QED BY <1>1, <1>12, <1>13, <1>14, <1>15, <1>17 DEF o, L

\* A scan is found under its label, and a current one may be run again.
LEMMA ScanLists ==
  ASSUME NEW CONSTANT c, ViewsInv(c)
  PROVE  Views(c)!FiltersMatchLabels /\ Views(c)!RescanIsCurrent
<1>1. ASSUME NEW j \in Views(c)!VisibleJobs
      PROVE  /\ j.state \in {"queued", "passed", "failed", "error", "cancelled"}
                  /\ j.created \in Nat
             /\ j.warn \in BOOLEAN /\ j \in jobs
  BY <1>1 DEF ViewsInv, JobsInv, JobRow, Views!VisibleJobs
<1>2. ASSUME NEW j \in Views(c)!VisibleJobs, NEW result \in Views(c)!Results
      PROVE  j \in Views(c)!ScanList(result, j.repo, 0) <=> result = Views(c)!Label(j)
  <2>1. result # "any"
    BY <1>2 DEF Views!Results
  <2>2. j \in Views(c)!ScanList(result, j.repo, 0) <=> Views(c)!Clause(result, j)
    BY <1>1, <1>2, <2>1 DEF Views!ScanList
  <2>3. Views(c)!Clause(result, j) <=> result = Views(c)!Label(j)
    BY <1>1, <1>2 DEF Views!Clause, Views!Label, Views!Results
  <2> QED BY <2>2, <2>3
<1>3. ASSUME NEW j \in Views(c)!VisibleJobs, Views(c)!CanRescan(j) PROVE Views(c)!Current(j) = j
  <2> DEFINE E == Views(c)!Executions(j)
             n == Views(c)!Newest(E)
  <2>1. j \in E /\ E \subseteq jobs
    BY <1>1 DEF Views!Executions
  <2>2. n = CHOOSE i \in E : \A k \in E : k.seq <= i.seq
    BY DEF Views!Newest
  <2>3. \A k \in E : k.seq <= j.seq
    BY <1>3 DEF Views!CanRescan, Views!Executions
  <2>4. n \in E /\ \A k \in E : k.seq <= n.seq
    BY <2>1, <2>2, <2>3
  <2>5. n.seq \in Int /\ j.seq \in Int
    BY <2>1, <2>4 DEF ViewsInv, JobsInv, JobRow
  <2>6. n.seq = j.seq
    BY <2>1, <2>3, <2>4, <2>5
  <2>7. n = j
    BY <2>1, <2>4, <2>6 DEF ViewsInv, JobsInv
  <2> QED BY <2>7 DEF Views!Current
<1> QED BY <1>2, <1>3 DEF Views!FiltersMatchLabels, Views!RescanIsCurrent

LEMMA DetailPages ==
  ASSUME NEW CONSTANT c, ViewsInv(c), Showable(c)
  PROVE  Views(c)!DetailsAgree
<1>1. ASSUME NEW r \in Views(c)!Listed
      PROVE  LET detail == Views(c)!Detail(r)
             IN /\ detail.open = Views(c)!ViolationList("open", "any", r)
                  \cup Views(c)!ViolationList("acknowledged", "any", r)
                /\ Views(c)!Count(detail.open) = Views(c)!Row(r).violations
                     + Views(c)!Row(r).warnings
                /\ detail.latest \subseteq Views(c)!ScanList("any", r, 0)
                /\ detail.app = "suspended" => Views(c)!Integration = "action_required"
  <2> DEFINE detail == Views(c)!Detail(r)
             open == {v \in DOMAIN violations : v[1] = r /\ violations[v].status = "open"}
             done == {j \in jobs : j.repo = r /\ j.state \in {"passed", "failed"}}
  <2>0. r \in Views(c)!Visible /\ r # "any"
    BY <1>1, VisibleListed DEF Showable
  <2>1. /\ detail.open = open /\ detail.latest = IF done = {} THEN {} ELSE {Views(c)!Newest(done)}
        /\ detail.app = Views(c)!Connection(r)
    BY DEF Views!Detail
  <2>2. open = Views(c)!ViolationList("open", "any", r)
          \cup Views(c)!ViolationList("acknowledged", "any", r)
    BY <2>0 DEF Views!ViolationList, Views!VisibleViolations
  <2>3. Views(c)!Count(open) = Views(c)!Row(r).violations + Views(c)!Row(r).warnings
    <3> DEFINE b == Views(c)!OpenIn(r, "block")
               w == Views(c)!OpenIn(r, "warn")
    <3>1. \A v \in DOMAIN violations : violations[v].action \in {"block", "warn"}
      BY DEF ViewsInv, ViolationsInv, ViolationRow
    <3>2. open = b \cup w /\ Apart(b, w) /\ b \subseteq DOMAIN violations
            /\ w \subseteq DOMAIN violations
      BY <3>1 DEF Views!OpenIn, Apart
    <3>3. IsFiniteSet(b) /\ IsFiniteSet(w)
      BY <3>2, FiniteViews
    <3>4. Views(c)!Row(r).violations = Views(c)!Count(b) /\ Views(c)!Row(r).warnings
            = Views(c)!Count(w)
      BY DEF Views!Row
    <3> HIDE DEF open, b, w
    <3>5. Views(c)!Count(b \cup w) = Views(c)!Count(b) + Views(c)!Count(w)
      BY <3>2, <3>3, DisjointCount
    <3> QED BY <3>2, <3>4, <3>5
  <2>4. detail.latest \subseteq Views(c)!ScanList("any", r, 0)
    <3>1. ASSUME done # {} PROVE Views(c)!Newest(done) \in done
      BY <3>1, NewestJob DEF ViewsInv
    <3>2. \A j \in done : j \in Views(c)!ScanList("any", r, 0)
      BY <2>0 DEF Views!ScanList, Views!VisibleJobs, ViewsInv, JobsInv, JobRow
    <3> QED BY <2>1, <3>1, <3>2
  <2>5. detail.app = "suspended" => Views(c)!Integration = "action_required"
    <3>1. detail.app = "suspended" => connection.state = "suspended"
      BY <2>1 DEF Views!Connection
    <3>2. Views(c)!Installations = {connection.state}
      BY <2>0 DEF Views!Installations, Views!Visible
    <3> QED BY <3>1, <3>2 DEF Views!Integration
  <2> HIDE DEF detail, open
  <2> QED BY <2>1, <2>2, <2>3, <2>4, <2>5 DEF detail
<1>2. ASSUME Views(c)!Monitored # {}
      PROVE  Views(c)!Monitored = Views(c)!ConnectedRepositories
               /\ Views(c)!Health(Views(c)!Overview(0)).integration = "ok"
  <2>1. PICK r \in Views(c)!Listed : Views(c)!Connection(r) = "connected"
    BY <1>2 DEF Views!Monitored
  <2>2. connection.state = "active" /\ r \in Views(c)!Visible
    BY <2>1, VisibleListed DEF Views!Connection, ViewsInv, SessionInv
  <2>3. Views(c)!Installations = {"active"}
    BY <2>2 DEF Views!Installations, Views!Visible
  <2>4. Views(c)!Monitored = Views(c)!ConnectedRepositories
    BY <2>2 DEF Views!Monitored, Views!ConnectedRepositories, Views!Listed, Views!Connection
  <2>5. Views(c)!Integration = "connected"
    BY <2>3 DEF Views!Integration
  <2>6. Views(c)!Health(Views(c)!Overview(0)).integration = IF Views(c)!Integration
          = "connected" THEN "ok" ELSE "attention"
    BY DEF Views!Health
  <2> QED BY <2>4, <2>5, <2>6
<1> QED BY <1>1, <1>2 DEF Views!DetailsAgree

LEMMA ViewsAgree ==
  ASSUME NEW CONSTANT c, ViewsInv(c), Showable(c)
  PROVE  Views(c)!PagesAgree
<1>1. Views(c)!NumbersAgree
  <2>1. Views(c)!Overview(0).scans = Views(c)!Count(Views(c)!ScanList("any", "any", 0))
    BY DEF Views!Overview, Views!ScanList
  <2> QED BY <2>1, ViolationNumbers, ProtectionNumbers DEF Views!NumbersAgree
<1> QED BY <1>1, ScanLists, DetailPages DEF Views!PagesAgree

LEMMA ViewsExplained ==
  ASSUME NEW CONSTANT c, ViewsInv(c), ~c.reopens
  PROVE  Views(c)!HistoryIsExplained
<1>1. HistoryInv
  BY DEF ViewsInv
<1>2. ASSUME NEW v \in DOMAIN violations, violations[v].status = "open"
               PROVE Views(c)!Evidence(v) # {}
  BY <1>1, <1>2 DEF HistoryInv, Views!Evidence
<1>3. ASSUME NEW j \in Views(c)!VisibleJobs, Views(c)!Label(j) \in {"blocked", "warning"}
      PROVE  Views(c)!FindingsOf(j) # {}
  <2>1. j \in jobs /\ connection.state # "gone"
    BY <1>3 DEF Views!VisibleJobs, Views!Visible
  <2>2. Explained(j)
    BY <1>3, <2>1 DEF Views!Label, Explained, ViewsInv, JobsInv, JobRow
  <2> QED BY <1>1, <2>1, <2>2 DEF HistoryInv, Views!FindingsOf
<1> QED BY <1>2, <1>3 DEF Views!HistoryIsExplained

-----------------------------------------------------------------------------
\* A set of numbers has a smallest one.
LEMMA SmallestNumber ==
  ASSUME NEW S \in SUBSET Nat, S # {}
  PROVE  \E m \in S : \A k \in S : m <= k
<1>1. PICK n \in S : TRUE
  OBVIOUS
<1> DEFINE T == {n + 1 - k : k \in {l \in S : l <= n}}
<1>2. n + 1 \in Nat /\ T \in SUBSET (1..n + 1) /\ T # {}
  <2>1. n \in Nat
    OBVIOUS
  <2>2. ASSUME NEW k \in S, k <= n PROVE n + 1 - k \in 1..(n + 1)
    BY <2>1, <2>2
  <2>3. n + 1 - n \in T
    BY <1>1, <2>1
  <2> QED BY <2>1, <2>2, <2>3
<1>3. PICK t \in T : \A u \in T : u <= t
  <2> HIDE DEF T
  <2> QED BY <1>2, LargestNumber
<1>4. PICK m \in S : m <= n /\ t = n + 1 - m
  OBVIOUS
<1>5. ASSUME NEW k \in S PROVE m <= k
  <2>1. n \in Nat /\ m \in Nat /\ k \in Nat
    OBVIOUS
  <2>2. CASE k <= n
    <3>1. n + 1 - k \in T
      BY <2>2
    <3>2. n + 1 - k <= n + 1 - m
      BY <1>3, <1>4, <3>1
    <3> QED BY <2>1, <3>2
  <2> QED BY <1>4, <2>1, <2>2
<1> QED BY <1>5

-----------------------------------------------------------------------------
(* The history of a commit.                                                *)

\* Parents are older than their children.
Acyclic(cs) ==
  Len(cs) \in Nat /\ \A i \in 1..Len(cs) : cs[i].parents \subseteq 1..(i - 1)

Reached(up, cs, n) ==
  up = [c \in 0..n |-> IF c = 0 THEN {} ELSE {c} \cup UNION {up[p] : p \in cs[c].parents}]

LEMMA ReachExists ==
  ASSUME NEW cs, Acyclic(cs)
  PROVE  \A n \in 0..Len(cs) : \E up : Reached(up, cs, n)
<1> DEFINE Bad == {n \in 0..Len(cs) : ~ \E up : Reached(up, cs, n)}
<1> SUFFICES ASSUME Bad # {} PROVE FALSE
  OBVIOUS
<1>0. Len(cs) \in Nat
  BY DEF Acyclic
<1>1. PICK n \in Bad : \A k \in Bad : n <= k
  <2>1. Bad \in SUBSET Nat
    BY <1>0
  <2> HIDE DEF Bad
  <2> QED BY <2>1, SmallestNumber
<1>2. n \in 0..Len(cs) /\ n \in Nat /\ ~ \E up : Reached(up, cs, n)
  BY <1>0
<1>3. CASE n = 0
  <2> DEFINE zero == [c \in 0..0 |-> {}]
  <2>1. Reached(zero, cs, 0)
    <3>1. \A c \in 0..0 : c = 0 /\ zero[c] = {}
      OBVIOUS
    <3>2. zero = [c \in 0..0 |-> zero[c]]
      OBVIOUS
    <3> HIDE DEF zero
    <3>3. ASSUME NEW c \in 0..0
          PROVE  zero[c] = IF c = 0 THEN {} ELSE {c} \cup UNION {zero[p] : p \in cs[c].parents}
      BY <3>1, Zenon
    <3> QED BY <3>2, <3>3 DEF Reached
  <2> QED BY <1>2, <1>3, <2>1
<1>4. CASE n # 0
  <2>1. n - 1 \in 0..Len(cs) /\ n - 1 \notin Bad /\ n \in 1..Len(cs) /\ 0..n = (0..(n - 1)) \cup {n}
    BY <1>0, <1>1, <1>2, <1>4
  <2>2. PICK up : Reached(up, cs, n - 1)
    BY <2>1
  <2> DEFINE new == [c \in 0..n |-> IF c = n THEN {n} \cup UNION {up[p] : p \in cs[n].parents}
                                    ELSE up[c]]
  <2>3. \A c \in 0..(n - 1) : new[c] = up[c]
    BY <1>2
  <2>4. ASSUME NEW c \in 0..n
        PROVE  new[c] = IF c = 0 THEN {} ELSE {c} \cup UNION {new[p] : p \in cs[c].parents}
    <3>1. c \in 1..n => cs[c].parents \subseteq 1..(c - 1)
      BY <1>2 DEF Acyclic
    <3>2. c \in 1..n => cs[c].parents \subseteq 0..(n - 1)
      BY <3>1, <1>2
    <3>3. c \in 1..n => UNION {new[p] : p \in cs[c].parents} = UNION {up[p] : p \in cs[c].parents}
      <4> HIDE DEF new
      <4> QED BY <3>2, <2>3
    <3>4. CASE c = n
      <4>1. new[n] = {n} \cup UNION {up[p] : p \in cs[n].parents}
        BY <1>2
      <4>2. n \in 1..n
        BY <1>2, <1>4
      <4> HIDE DEF new
      <4> QED BY <3>3, <3>4, <1>4, <4>1, <4>2
    <3>5. CASE c # n
      <4>1. c \in 0..(n - 1) /\ new[c] = up[c]
        BY <3>5, <1>2, <2>3
      <4>2. up[c] = IF c = 0 THEN {} ELSE {c} \cup UNION {up[p] : p \in cs[c].parents}
        BY <4>1, <2>2 DEF Reached
      <4>3. c = 0 \/ c \in 1..n
        BY <1>2
      <4> HIDE DEF new
      <4> QED BY <4>1, <4>2, <4>3, <3>3
    <3> QED BY <3>4, <3>5
  <2>5. new = [c \in 0..n |-> new[c]]
    OBVIOUS
  <2>6. Reached(new, cs, n)
    <3> HIDE DEF new
    <3> QED BY <2>4, <2>5 DEF Reached
  <2> QED BY <1>2, <2>6
<1> QED BY <1>3, <1>4

\* The history of a commit is the commit and the histories of its parents.
LEMMA History ==
  ASSUME NEW cs, Acyclic(cs)
  PROVE  /\ Clone!Reach(cs, 0) = {}
         /\ \A c \in 1..Len(cs) :
              Clone!Reach(cs, c) = {c} \cup UNION {Clone!Reach(cs, p) : p \in cs[c].parents}
<1> DEFINE up == CHOOSE up : Reached(up, cs, Len(cs))
<1>1. Len(cs) \in 0..Len(cs) /\ Len(cs) \in Nat
  BY DEF Acyclic
<1>2. Reached(up, cs, Len(cs))
  BY <1>1, ReachExists
<1>3. ASSUME NEW c PROVE Clone!Reach(cs, c) = up[c]
  BY Zenon DEF Clone!Reach, Reached, Clone!None
<1> HIDE DEF up
<1>4. \A c \in 0..Len(cs) : up[c] = IF c = 0 THEN {} ELSE {c} \cup UNION {up[p] : p \in cs[c].parents}
  BY <1>2 DEF Reached
<1>5. up[0] = {} /\ \A c \in 1..Len(cs) : up[c] = {c} \cup UNION {up[p] : p \in cs[c].parents}
  <2>1. \A c \in 1..Len(cs) : c \in 0..Len(cs) /\ c # 0
    BY <1>1
  <2>2. ASSUME NEW c \in 1..Len(cs)
        PROVE  up[c] = {c} \cup UNION {up[p] : p \in cs[c].parents}
    BY <1>4, <2>1, Zenon
  <2>3. 0 \in 0..Len(cs)
    BY <1>1
  <2>4. up[0] = {}
    BY <1>4, <2>3, Zenon
  <2> QED BY <2>2, <2>4
<1>6. ASSUME NEW c \in 1..Len(cs)
      PROVE  Clone!Reach(cs, c) = {c} \cup UNION {Clone!Reach(cs, p) : p \in cs[c].parents}
  <2>1. {Clone!Reach(cs, p) : p \in cs[c].parents} = {up[p] : p \in cs[c].parents}
    BY <1>3
  <2> QED BY <1>3, <1>5, <2>1
<1> QED BY <1>3, <1>5, <1>6

LEMMA HistoryIsOlder ==
  ASSUME NEW cs, Acyclic(cs), NEW c \in 0..Len(cs)
  PROVE  Clone!Reach(cs, c) \subseteq 1..c
<1> DEFINE Bad == {n \in 0..Len(cs) : ~ Clone!Reach(cs, n) \subseteq 1..n}
<1> SUFFICES ASSUME Bad # {} PROVE FALSE
  OBVIOUS
<1>0. Len(cs) \in Nat
  BY DEF Acyclic
<1>1. PICK n \in Bad : \A k \in Bad : n <= k
  <2>1. Bad \in SUBSET Nat
    BY <1>0
  <2> HIDE DEF Bad
  <2> QED BY <2>1, SmallestNumber
<1>2. n # 0 /\ n \in 1..Len(cs) /\ n \in Nat
  BY <1>0, History
<1>3. Clone!Reach(cs, n) = {n} \cup UNION {Clone!Reach(cs, p) : p \in cs[n].parents}
  BY <1>2, History
<1>4. ASSUME NEW p \in cs[n].parents PROVE Clone!Reach(cs, p) \subseteq 1..n
  <2>1. p \in 1..(n - 1)
    BY <1>2 DEF Acyclic
  <2>2. p \in 0..Len(cs) /\ p < n /\ p \in Nat
    BY <1>0, <1>2, <2>1
  <2>3. p \notin Bad
    BY <1>1, <1>2, <2>2
  <2>4. Clone!Reach(cs, p) \subseteq 1..p
    BY <2>2, <2>3
  <2> QED BY <1>2, <2>2, <2>4
<1>5. Clone!Reach(cs, n) \subseteq 1..n
  BY <1>2, <1>3, <1>4
<1> QED BY <1>5

\* What a commit of a history reaches is in the history.
LEMMA HistoryIsClosed ==
  ASSUME NEW cs, Acyclic(cs), NEW c \in 0..Len(cs), NEW d \in Clone!Reach(cs, c)
  PROVE  Clone!Reach(cs, d) \subseteq Clone!Reach(cs, c)
<1> DEFINE Bad == {n \in 0..Len(cs) : d \in Clone!Reach(cs, n) /\ ~ Clone!Reach(cs, d) \subseteq Clone!Reach(cs, n)}
<1> SUFFICES ASSUME Bad # {} PROVE FALSE
  OBVIOUS
<1>0. Len(cs) \in Nat
  BY DEF Acyclic
<1>1. PICK n \in Bad : \A k \in Bad : n <= k
  <2>1. Bad \in SUBSET Nat
    BY <1>0
  <2> HIDE DEF Bad
  <2> QED BY <2>1, SmallestNumber
<1>2. n # 0 /\ n \in 1..Len(cs) /\ n \in Nat /\ d \in Clone!Reach(cs, n)
      /\ ~ Clone!Reach(cs, d) \subseteq Clone!Reach(cs, n)
  BY <1>0, History
<1>3. Clone!Reach(cs, n) = {n} \cup UNION {Clone!Reach(cs, p) : p \in cs[n].parents}
  BY <1>2, History
<1>4. PICK p \in cs[n].parents : d \in Clone!Reach(cs, p)
  BY <1>2, <1>3
<1>5. p \in 1..(n - 1)
  BY <1>2 DEF Acyclic
<1>6. p \in 0..Len(cs) /\ p < n /\ p \in Nat
  BY <1>0, <1>2, <1>5
<1>7. p \notin Bad
  BY <1>1, <1>2, <1>6
<1>8. Clone!Reach(cs, d) \subseteq Clone!Reach(cs, p)
  BY <1>4, <1>6, <1>7
<1>9. Clone!Reach(cs, p) \subseteq Clone!Reach(cs, n)
  BY <1>3
<1> QED BY <1>2, <1>8, <1>9

\* Commits are added, and none is changed.
Grown(cs, more) ==
  /\ Acyclic(cs) /\ Acyclic(more) /\ Len(cs) <= Len(more)
  /\ \A i \in 1..Len(cs) : more[i] = cs[i]

LEMMA KeptHistory ==
  ASSUME NEW cs, NEW more, Grown(cs, more), NEW c \in 0..Len(cs)
  PROVE  Clone!Reach(more, c) = Clone!Reach(cs, c)
<1> DEFINE Bad == {n \in 0..Len(cs) : Clone!Reach(more, n) # Clone!Reach(cs, n)}
<1> SUFFICES ASSUME Bad # {} PROVE FALSE
  OBVIOUS
<1>0. Len(cs) \in Nat /\ Len(more) \in Nat /\ Len(cs) <= Len(more) /\ Acyclic(cs) /\ Acyclic(more)
  BY DEF Acyclic, Grown
<1>1. PICK n \in Bad : \A k \in Bad : n <= k
  <2>1. Bad \in SUBSET Nat
    BY <1>0
  <2> HIDE DEF Bad
  <2> QED BY <2>1, SmallestNumber
<1>2. n # 0 /\ n \in 1..Len(cs) /\ n \in 1..Len(more) /\ n \in Nat
  <2>1. n # 0
    <3>1. Clone!Reach(more, 0) = {} /\ Clone!Reach(cs, 0) = {}
      BY <1>0, History
    <3>2. Clone!Reach(more, n) # Clone!Reach(cs, n)
      OBVIOUS
    <3> QED BY <3>1, <3>2
  <2>2. n \in 0..Len(cs)
    OBVIOUS
  <2> QED BY <1>0, <2>1, <2>2
<1>3. /\ Clone!Reach(cs, n) = {n} \cup UNION {Clone!Reach(cs, p) : p \in cs[n].parents}
      /\ Clone!Reach(more, n) = {n} \cup UNION {Clone!Reach(more, p) : p \in cs[n].parents}
  BY <1>0, <1>2, History DEF Grown
<1>4. ASSUME NEW p \in cs[n].parents PROVE Clone!Reach(more, p) = Clone!Reach(cs, p)
  <2>1. p \in 1..(n - 1)
    BY <1>0, <1>2 DEF Acyclic
  <2>2. p \in 0..Len(cs) /\ p < n /\ p \in Nat
    BY <1>0, <1>2, <2>1
  <2>3. p \notin Bad
    BY <1>1, <1>2, <2>2
  <2> QED BY <2>2, <2>3
<1>5. {Clone!Reach(more, p) : p \in cs[n].parents} = {Clone!Reach(cs, p) : p \in cs[n].parents}
  BY <1>4
<1> QED BY <1>3, <1>5

-----------------------------------------------------------------------------
(* Commits in ascending order.                                             *)

Enumerates(s, k, S) ==
  /\ s \in [1..k -> S] /\ \A x \in S : \E i \in 1..k : s[i] = x
  /\ \A i, j \in 1..k : i < j => s[i] < s[j]

Numbered(S) == \E n \in Nat : S \subseteq 1..n

LEMMA EnumerationExists ==
  ASSUME NEW S, Numbered(S)
  PROVE  \E k \in Nat : \E s : Enumerates(s, k, S)
<1> DEFINE Bad == {A \in SUBSET S : ~ \E k \in Nat : \E s : Enumerates(s, k, A)}
<1> SUFFICES ASSUME Bad # {} PROVE FALSE
  OBVIOUS
<1>a. IsFiniteSet(S)
  <2>1. PICK n \in Nat : S \subseteq 1..n
    BY DEF Numbered
  <2>2. IsFiniteSet(1..n)
    BY FS_Interval
  <2> QED BY <2>1, <2>2, FS_Subset
<1>0. Bad \in SUBSET SUBSET S /\ Bad # {}
  OBVIOUS
<1> HIDE DEF Bad
<1>1. PICK A \in Bad : \A B \in Bad : B \subseteq A => B = A
  BY <1>a, <1>0, SmallestMember
<1> USE DEF Bad
<1>b. PICK n \in Nat : S \subseteq 1..n
  BY DEF Numbered
<1>2. A \in SUBSET (1..n) /\ ~ \E k \in Nat : \E s : Enumerates(s, k, A)
  BY <1>1, <1>b
<1>3. CASE A = {}
  <2>1. Enumerates([i \in 1..0 |-> 0], 0, A)
    BY <1>3 DEF Enumerates
  <2> QED BY <1>2, <2>1
<1>4. CASE A # {}
  <2>1. PICK m \in A : \A x \in A : x <= m
    BY <1>2, <1>4, LargestNumber
  <2> DEFINE B == A \ {m}
  <2>2. B \subseteq A /\ B # A
    BY <2>1
  <2>k. PICK k \in Nat : \E s : Enumerates(s, k, B)
    BY <1>1, <2>2
  <2>3. PICK s : Enumerates(s, k, B)
    BY <2>k
  <2> DEFINE t == [i \in 1..(k + 1) |-> IF i = k + 1 THEN m ELSE s[i]]
  <2>4. \A i \in 1..k : s[i] \in B /\ s[i] < m
    <3>1. ASSUME NEW x \in B PROVE x < m
      <4>1. x \in Int /\ m \in Int /\ x <= m /\ x # m
        BY <1>2, <2>1
      <4> QED BY <4>1
    <3>2. \A i \in 1..k : s[i] \in B
      BY <2>3 DEF Enumerates
    <3> HIDE DEF B
    <3> QED BY <3>1, <3>2
  <2>5. t[k + 1] = m /\ \A i \in 1..k : t[i] = s[i]
    OBVIOUS
  <2>6. \A i \in 1..(k + 1) : i = k + 1 \/ i \in 1..k
    OBVIOUS
  <2>7. t \in [1..(k + 1) -> A]
    BY <2>1, <2>2, <2>4
  <2> HIDE DEF t
  <2>8. \A x \in A : \E i \in 1..(k + 1) : t[i] = x
    <3>1. ASSUME NEW x \in A, x # m PROVE \E i \in 1..(k + 1) : t[i] = x
      BY <3>1, <2>3, <2>5 DEF Enumerates
    <3>2. k + 1 \in 1..(k + 1)
      OBVIOUS
    <3> QED BY <3>1, <3>2, <2>5
  <2>9. ASSUME NEW i \in 1..(k + 1), NEW j \in 1..(k + 1), i < j PROVE t[i] < t[j]
    <3>1. i \in 1..k
      BY <2>9
    <3>2. CASE j = k + 1
      BY <3>1, <3>2, <2>4, <2>5
    <3>3. CASE j # k + 1
      BY <3>1, <3>3, <2>3, <2>5, <2>6, <2>9 DEF Enumerates
    <3> QED BY <3>2, <3>3
  <2>10. Enumerates(t, k + 1, A)
    BY <2>7, <2>8, <2>9 DEF Enumerates
  <2> QED BY <1>2, <2>10
<1> QED BY <1>3, <1>4

LEMMA Ascends ==
  ASSUME NEW n \in Nat, NEW S \in SUBSET (1..n)
  PROVE  \E k \in Nat : Enumerates(Clone!Ascending(S), k, S)
<1>k. PICK k \in Nat : \E s : Enumerates(s, k, S)
  BY EnumerationExists DEF Numbered
<1>1. PICK s : Enumerates(s, k, S)
  BY <1>k
<1>2. \A i, j \in 1..k : s[i] = s[j] => i = j
  <2>1. \A i \in 1..k : s[i] \in Int
    <3>1. \A x \in S : x \in Int
      OBVIOUS
    <3>2. \A i \in 1..k : s[i] \in S
      BY <1>1 DEF Enumerates
    <3> QED BY <3>1, <3>2
  <2>2. ASSUME NEW i \in 1..k, NEW j \in 1..k, s[i] = s[j], i # j PROVE FALSE
    <3>1. i < j \/ j < i
      BY <2>2
    <3> QED BY <1>1, <2>1, <2>2, <3>1 DEF Enumerates
  <2> QED BY <2>2
<1>3. s \in Bijection(1..k, S)
  BY <1>1, <1>2 DEF Enumerates, Bijection, Injection, Surjection, IsInjective
<1>4. Cardinality(S) = k
  BY <1>3, FS_CountingElements DEF ExistsBijection
<1>5. Clone!Cardinality(S) = Cardinality(S)
  BY Zenon DEF Clone!Cardinality, Clone!IsFiniteSet, Cardinality, IsFiniteSet
<1>6. \A t : t \in Clone!Bijection(1..k, S) <=>
              t \in [1..k -> S] /\ (\A i, j \in 1..k : t[i] = t[j] => i = j)
              /\ \A x \in S : \E i \in 1..k : t[i] = x
  BY DEF Clone!Bijection, Clone!Injection, Clone!Surjection, Clone!IsInjective
<1>7. /\ Clone!Ascending(S) \in Clone!Bijection(1..k, S)
      /\ \A i, j \in DOMAIN Clone!Ascending(S) : i < j => Clone!Ascending(S)[i] < Clone!Ascending(S)[j]
  <2>1. s \in Clone!Bijection(1..k, S) /\ \A i, j \in DOMAIN s : i < j => s[i] < s[j]
    BY <1>1, <1>2, <1>6 DEF Enumerates
  <2> QED BY <1>4, <1>5, <2>1 DEF Clone!Ascending
<1> QED BY <1>6, <1>7 DEF Enumerates

-----------------------------------------------------------------------------
(* What is known of the commits, the clone and its pushes.                 *)

CommitRow == [parents: SUBSET Nat, kind: Clone!CommitKinds, work: SUBSET Nat]
Commits(cs) == cs \in Seq(CommitRow) /\ Acyclic(cs)

\* Every blocked commit of a history was pushed past the hook, or by somebody else.
Clean(cs, un, t) == Clone!Blocked(cs, Clone!Reach(cs, t)) \subseteq un

\* The work of one history is in another.
Carries(cs, t, more, u) ==
  Clone!Work(cs, Clone!Reach(cs, t)) \subseteq Clone!Work(more, Clone!Reach(more, u))

SomeRefs == {<<>>} \cup UNION {[bs -> Nat] : bs \in SUBSET CloneBranches}
SomeCommits == {<<>>} \cup UNION {[bs -> SUBSET Nat] : bs \in SUBSET CloneBranches}
PushRecord ==
  [pc: {"idle", "hook", "fix", "move", "send", "sent"}, verify: BOOLEAN, force: BOOLEAN,
   refs: SomeRefs, old: SomeRefs, new: SomeRefs, outgoing: SomeCommits]

\* A push knows where its branches were and, as it goes on, that a branch leads what it
\* brings, that the copies carry the work of the originals, and that what the hook has
\* checked is clean.
PushInv(cs, un, q) ==
  /\ q \in PushRecord
  /\ q.pc # "idle" =>
       /\ DOMAIN q.refs \subseteq CloneBranches
       /\ \A b \in DOMAIN q.refs :
            q.refs[b] \in 1..Len(cs) /\ q.old[b] \in 0..Len(cs) /\ Clean(cs, un, q.old[b])
  /\ q.pc = "fix" =>
       \A b \in DOMAIN q.refs :
         /\ q.outgoing[b] \subseteq Clone!Reach(cs, q.refs[b])
         /\ q.outgoing[b] # {} => q.refs[b] \in q.outgoing[b]
  /\ q.pc = "move" =>
       \A b \in DOMAIN q.new :
         b \in DOMAIN q.refs /\ q.new[b] \in 1..Len(cs) /\ Carries(cs, q.refs[b], cs, q.new[b])
  /\ q.pc = "send" /\ q.verify => \A b \in DOMAIN q.refs : Clean(cs, un, q.refs[b])
  /\ q.pc = "sent" => \A b \in DOMAIN q.new : q.new[b] \in 1..Len(cs) /\ Clean(cs, un, q.new[b])

\* The branches of the remote, as it is or as the clone last saw it, are clean.
CleanRefs(cs, un, refs) ==
  refs \in [CloneBranches -> 0..Len(cs)] /\ \A b \in CloneBranches : Clean(cs, un, refs[b])

\* What no check has analysed, some event still brings; on the default branch, an event of
\* the default branch, whose range nothing but its own past bounds.
Brings(cs, e, x) == x \in Clone!Reach(cs, e.after) /\ x \notin Clone!Reach(cs, e.before)
Awaited(cs, refs, es, done) ==
  \A b \in CloneBranches : \A x \in Clone!Reach(cs, refs[b]) : x \notin done =>
    \E e \in es : Brings(cs, e, x) /\ (b = MainBranch => e.ref = MainBranch)

Events(cs, es) == es \subseteq [ref: CloneBranches, before: 0..Len(cs), after: 0..Len(cs)]

CloneInv ==
  /\ Commits(commits)
  /\ local \in [CloneBranches -> 0..Len(commits)]
  /\ CleanRefs(commits, unchecked, tracking) /\ CleanRefs(commits, unchecked, remote)
  /\ push \in [Pushers -> PushRecord] /\ \A p \in Pushers : PushInv(commits, unchecked, push[p])
  /\ Events(commits, events) /\ Awaited(commits, remote, events, scanned)

-----------------------------------------------------------------------------
\* What is known stays known when commits are added.
LEMMA GrownLength ==
  ASSUME NEW cs, NEW more, Grown(cs, more)
  PROVE  /\ Len(cs) \in Nat /\ Len(more) \in Nat /\ Acyclic(cs) /\ Acyclic(more)
         /\ \A t : t \in 0..Len(cs) => t \in 0..Len(more)
         /\ \A t : t \in 1..Len(cs) => t \in 1..Len(more) /\ t \in 0..Len(cs)
BY DEF Grown, Acyclic

LEMMA GrownReach ==
  ASSUME NEW cs, NEW more, Grown(cs, more), NEW t \in 0..Len(cs)
  PROVE  /\ Clone!Reach(more, t) = Clone!Reach(cs, t)
         /\ \A c \in Clone!Reach(cs, t) : more[c] = cs[c]
<1>1. Clone!Reach(cs, t) \subseteq 1..t
  BY GrownLength, HistoryIsOlder
<1>2. \A c \in 1..t : c \in 1..Len(cs)
  BY GrownLength
<1> QED BY <1>1, <1>2, KeptHistory DEF Grown

LEMMA StaysClean ==
  ASSUME NEW cs, NEW more, Grown(cs, more), NEW un, NEW past, un \subseteq past,
         NEW t \in 0..Len(cs), Clean(cs, un, t)
  PROVE  Clean(more, past, t)
<1>1. Clone!Blocked(more, Clone!Reach(more, t)) = Clone!Blocked(cs, Clone!Reach(cs, t))
  BY GrownReach DEF Clone!Blocked
<1> QED BY <1>1 DEF Clean

LEMMA SameWork ==
  ASSUME NEW cs, NEW more, Grown(cs, more), NEW t \in 0..Len(cs)
  PROVE  Clone!Work(more, Clone!Reach(more, t)) = Clone!Work(cs, Clone!Reach(cs, t))
<1>1. {more[c].work : c \in Clone!Reach(cs, t)} = {cs[c].work : c \in Clone!Reach(cs, t)}
  BY GrownReach
<1> QED BY <1>1, GrownReach DEF Clone!Work

LEMMA StaysCarried ==
  ASSUME NEW cs, NEW more, Grown(cs, more), NEW t \in 0..Len(cs), NEW u \in 0..Len(cs),
         Carries(cs, t, cs, u)
  PROVE  Carries(more, t, more, u)
BY SameWork DEF Carries

LEMMA StaysPushed ==
  ASSUME NEW cs, NEW more, Grown(cs, more), NEW un, NEW past, un \subseteq past,
         NEW q, PushInv(cs, un, q)
  PROVE  PushInv(more, past, q)
<1>1. q.pc # "idle" =>
       /\ DOMAIN q.refs \subseteq CloneBranches
       /\ \A b \in DOMAIN q.refs :
            q.refs[b] \in 1..Len(more) /\ q.old[b] \in 0..Len(more) /\ Clean(more, past, q.old[b])
  BY GrownLength, StaysClean DEF PushInv
<1>2. q.pc = "fix" =>
       \A b \in DOMAIN q.refs :
         /\ q.outgoing[b] \subseteq Clone!Reach(more, q.refs[b])
         /\ q.outgoing[b] # {} => q.refs[b] \in q.outgoing[b]
  BY GrownLength, GrownReach DEF PushInv
<1>3. q.pc = "move" =>
       \A b \in DOMAIN q.new :
         b \in DOMAIN q.refs /\ q.new[b] \in 1..Len(more) /\ Carries(more, q.refs[b], more, q.new[b])
  BY GrownLength, StaysCarried DEF PushInv
<1>4. q.pc = "send" /\ q.verify => \A b \in DOMAIN q.refs : Clean(more, past, q.refs[b])
  BY GrownLength, StaysClean DEF PushInv
<1>5. q.pc = "sent" => \A b \in DOMAIN q.new : q.new[b] \in 1..Len(more) /\ Clean(more, past, q.new[b])
  BY GrownLength, StaysClean DEF PushInv
<1> QED BY <1>1, <1>2, <1>3, <1>4, <1>5 DEF PushInv

LEMMA RefsStayClean ==
  ASSUME NEW cs, NEW more, Grown(cs, more), NEW un, NEW past, un \subseteq past,
         NEW refs, CleanRefs(cs, un, refs)
  PROVE  CleanRefs(more, past, refs)
<1>1. refs \in [CloneBranches -> 0..Len(more)]
  BY GrownLength DEF CleanRefs
<1>2. \A b \in CloneBranches : Clean(more, past, refs[b])
  BY StaysClean DEF CleanRefs
<1> QED BY <1>1, <1>2 DEF CleanRefs

LEMMA StaysAwaited ==
  ASSUME NEW cs, NEW more, Grown(cs, more), NEW refs \in [CloneBranches -> 0..Len(cs)],
         NEW es, Events(cs, es), NEW done, Awaited(cs, refs, es, done)
  PROVE  Events(more, es) /\ Awaited(more, refs, es, done)
<1>1. Events(more, es)
  BY GrownLength DEF Events
<1>2. ASSUME NEW e \in es, NEW x PROVE Brings(more, e, x) <=> Brings(cs, e, x)
  <2>1. e.after \in 0..Len(cs) /\ e.before \in 0..Len(cs)
    BY DEF Events
  <2> QED BY <2>1, GrownReach DEF Brings
<1>3. \A b \in CloneBranches : Clone!Reach(more, refs[b]) = Clone!Reach(cs, refs[b])
  BY GrownReach
<1> QED BY <1>1, <1>2, <1>3 DEF Awaited

\* The clone goes on while the remote stays as it is.
LEMMA CloneGoesOn ==
  ASSUME CloneInv, commits' \in Seq(CommitRow), Grown(commits, commits'),
         UNCHANGED <<remote, unchecked, events, scanned>>,
         local' \in [CloneBranches -> 0..Len(commits')],
         tracking' = tracking \/ CleanRefs(commits', unchecked, tracking'),
         push' \in [Pushers -> PushRecord],
         \A p \in Pushers : push'[p] = push[p] \/ PushInv(commits', unchecked, push'[p])
  PROVE  CloneInv'
<1>1. Commits(commits') /\ Acyclic(commits)
  BY DEF Grown, Commits
<1>2. CleanRefs(commits', unchecked, tracking') /\ CleanRefs(commits', unchecked, remote)
  BY RefsStayClean DEF CloneInv
<1>3. \A p \in Pushers : PushInv(commits', unchecked, push'[p])
  BY StaysPushed DEF CloneInv
<1>4. Events(commits', events) /\ Awaited(commits', remote, events, scanned)
  BY StaysAwaited DEF CloneInv, CleanRefs
<1> QED BY <1>1, <1>2, <1>3, <1>4 DEF CloneInv

-----------------------------------------------------------------------------
(* The developer's work.                                                   *)

LEMMA AddCommit ==
  ASSUME NEW cs, Commits(cs), NEW r \in CommitRow, r.parents \subseteq 1..Len(cs)
  PROVE  /\ Append(cs, r) \in Seq(CommitRow) /\ Grown(cs, Append(cs, r))
         /\ Len(Append(cs, r)) = Len(cs) + 1 /\ Append(cs, r)[Len(cs) + 1] = r
<1> DEFINE more == Append(cs, r)
<1>1. /\ more \in Seq(CommitRow) /\ Len(more) = Len(cs) + 1 /\ more[Len(cs) + 1] = r
      /\ \A i \in 1..Len(cs) : more[i] = cs[i]
      /\ Len(cs) \in Nat /\ Acyclic(cs)
  BY AppendProperties DEF Commits, Acyclic
<1> HIDE DEF more
<1>2. ASSUME NEW i \in 1..Len(more) PROVE more[i].parents \subseteq 1..(i - 1)
  <2>1. CASE i = Len(cs) + 1
    BY <1>1, <2>1
  <2>2. CASE i # Len(cs) + 1
    <3>1. i \in 1..Len(cs)
      BY <1>1, <2>2
    <3> QED BY <1>1, <3>1 DEF Acyclic
  <2> QED BY <2>1, <2>2
<1>3. Acyclic(more) /\ Len(cs) <= Len(more)
  BY <1>1, <1>2 DEF Acyclic
<1>4. Grown(cs, more)
  BY <1>1, <1>3 DEF Grown
<1> QED BY <1>1, <1>4 DEF more

\* Whatever history a commit has as a parent, it carries its work.
LEMMA ParentIsCarried ==
  ASSUME NEW cs, NEW more, Grown(cs, more), NEW n \in 1..Len(more), NEW t \in 0..Len(cs),
         t \in more[n].parents
  PROVE  Carries(cs, t, more, n)
<1>1. Clone!Reach(more, t) \subseteq Clone!Reach(more, n)
  BY GrownLength, History
<1>2. Clone!Work(more, Clone!Reach(more, t)) \subseteq Clone!Work(more, Clone!Reach(more, n))
  BY <1>1 DEF Clone!Work
<1> QED BY <1>2, SameWork DEF Carries

\* A commit that replaces another carries the work of its history.
LEMMA ReplacedIsCarried ==
  ASSUME NEW cs, NEW more, Grown(cs, more), NEW n \in 1..Len(more), NEW t \in 1..Len(cs),
         more[n].parents = cs[t].parents, cs[t].work \subseteq more[n].work
  PROVE  Carries(cs, t, more, n)
<1>1. /\ Clone!Reach(cs, t) = {t} \cup UNION {Clone!Reach(cs, p) : p \in cs[t].parents}
      /\ Clone!Reach(more, n) = {n} \cup UNION {Clone!Reach(more, p) : p \in cs[t].parents}
  BY GrownLength, History
<1>2. ASSUME NEW d \in Clone!Reach(cs, t)
      PROVE  cs[d].work \subseteq Clone!Work(more, Clone!Reach(more, n))
  <2>1. CASE d = t
    BY <1>1, <2>1 DEF Clone!Work
  <2>2. CASE d # t
    <3>1. PICK p \in cs[t].parents : d \in Clone!Reach(cs, p)
      BY <1>1, <2>2
    <3>2. p \in 0..Len(cs)
      <4>1. p \in 1..(t - 1) /\ Len(cs) \in Nat
        BY GrownLength DEF Acyclic
      <4> QED BY <4>1
    <3>3. d \in Clone!Reach(more, n) /\ more[d] = cs[d]
      BY <1>1, <3>1, <3>2, GrownReach
    <3> QED BY <3>3 DEF Clone!Work
  <2> QED BY <2>1, <2>2
<1> QED BY <1>2 DEF Carries, Clone!Work

\* One branch moves to where its work is carried.
LEMMA OneBranchMoves ==
  ASSUME CloneInv, Grown(commits, commits'), NEW b, NEW t,
         local' = [local EXCEPT ![b] = t], b \in CloneBranches => Carries(commits, local[b], commits', t)
  PROVE  Clone!KeepsWork
<1>1. ASSUME NEW o \in CloneBranches PROVE Carries(commits, local[o], commits', local'[o])
  <2>1. local[o] \in 0..Len(commits) /\ local \in [CloneBranches -> 0..Len(commits)]
    BY DEF CloneInv
  <2>2. CASE o = b
    BY <2>1, <2>2
  <2>3. CASE o # b
    BY <2>1, <2>3, SameWork DEF Carries
  <2> QED BY <2>2, <2>3
<1> QED BY <1>1 DEF Clone!KeepsWork, Carries

LEMMA LocalStays ==
  ASSUME CloneInv, Grown(commits, commits'), local' = local
  PROVE  Clone!KeepsWork
<1>1. ASSUME NEW o \in CloneBranches PROVE Carries(commits, local[o], commits', local'[o])
  <2>1. local[o] \in 0..Len(commits)
    BY DEF CloneInv
  <2> QED BY <2>1, SameWork DEF Carries
<1> QED BY <1>1 DEF Clone!KeepsWork, Carries

LEMMA SameCommits ==
  ASSUME CloneInv, commits' = commits
  PROVE  Grown(commits, commits') /\ commits' \in Seq(CommitRow)
BY DEF CloneInv, Commits, Grown, Acyclic

LEMMA NewCommit ==
  ASSUME CloneInv, NEW b \in CloneBranches, NEW parents \in SUBSET (1..Len(commits)),
         NEW kind \in Clone!CommitKinds, NEW work \in SUBSET Nat,
         Clone!New(b, parents, kind, work)
  PROVE  /\ CloneInv' /\ Grown(commits, commits')
         /\ Len(commits) + 1 \in 1..Len(commits')
         /\ local' = [local EXCEPT ![b] = Len(commits) + 1]
         /\ commits'[Len(commits) + 1] = [parents |-> parents, kind |-> kind, work |-> work]
<1> DEFINE r == [parents |-> parents, kind |-> kind, work |-> work]
<1>1. Commits(commits) /\ Len(commits) \in Nat
  BY DEF CloneInv, Commits, Acyclic
<1>2. parents \subseteq Nat
  BY <1>1
<1>3. r \in CommitRow /\ r.parents \subseteq 1..Len(commits)
  BY <1>2 DEF CommitRow
<1>4. /\ commits' = Append(commits, r) /\ local' = [local EXCEPT ![b] = Len(commits) + 1]
      /\ UNCHANGED <<remote, unchecked, events, scanned, tracking, push>>
  BY DEF Clone!New
<1> HIDE DEF r
<1>5. /\ commits' \in Seq(CommitRow) /\ Grown(commits, commits') /\ Len(commits') = Len(commits) + 1
      /\ commits'[Len(commits) + 1] = r
  BY <1>1, <1>3, <1>4, AddCommit
<1>6. Len(commits) + 1 \in 1..Len(commits') /\ Len(commits) + 1 \in 0..Len(commits')
  BY <1>1, <1>5
<1>7. local' \in [CloneBranches -> 0..Len(commits')]
  <2>1. local \in [CloneBranches -> 0..Len(commits')]
    BY <1>5, GrownLength DEF CloneInv
  <2> QED BY <2>1, <1>4, <1>6
<1>8. push' \in [Pushers -> PushRecord] /\ push' = push
  BY <1>4 DEF CloneInv
<1>9. CloneInv'
  BY <1>4, <1>5, <1>7, <1>8, CloneGoesOn
<1> QED BY <1>4, <1>5, <1>6, <1>9 DEF r

LEMMA CommitStep ==
  ASSUME CloneInv, NEW b \in CloneBranches, Clone!Commit(b) \/ Clone!Amend(b)
  PROVE  CloneInv' /\ Clone!KeepsWork
<1>1. /\ local[b] \in 1..Len(commits) /\ commits \in Seq(CommitRow) /\ Acyclic(commits)
      /\ Len(commits) \in Nat /\ local[b] \in 0..Len(commits)
  BY DEF CloneInv, Commits, Acyclic, Clone!Commit, Clone!Amend, Clone!None
<1>2. \A k \in {"line", "identity"} : k \in Clone!CommitKinds
  BY DEF Clone!CommitKinds
<1>3. CASE Clone!Commit(b)
  <2> DEFINE P == {local[b]}
             w == {Len(commits) + 1}
  <2>1. PICK k \in {"line", "identity"} : Clone!New(b, P, k, w)
    BY <1>3 DEF Clone!Commit
  <2>2. P \in SUBSET (1..Len(commits)) /\ w \in SUBSET Nat /\ local[b] \in P
    BY <1>1
  <2> HIDE DEF P, w
  <2>3. /\ CloneInv' /\ Grown(commits, commits') /\ Len(commits) + 1 \in 1..Len(commits')
        /\ local' = [local EXCEPT ![b] = Len(commits) + 1]
        /\ commits'[Len(commits) + 1] = [parents |-> P, kind |-> k, work |-> w]
    BY <1>2, <2>1, <2>2, NewCommit
  <2>4. Carries(commits, local[b], commits', Len(commits) + 1)
    BY <1>1, <2>2, <2>3, ParentIsCarried
  <2> QED BY <2>3, <2>4, OneBranchMoves
<1>4. CASE Clone!Amend(b)
  <2> DEFINE r == commits[local[b]]
             w == r.work \cup {Len(commits) + 1}
  <2>1. PICK k \in {"line", "identity"} : Clone!New(b, r.parents, k, w)
    BY <1>4 DEF Clone!Amend
  <2>2. r \in CommitRow
    BY <1>1, ElementOfSeq
  <2>3. r.parents \subseteq 1..(local[b] - 1)
    BY <1>1 DEF Acyclic
  <2>4. r.parents \in SUBSET (1..Len(commits)) /\ w \in SUBSET Nat /\ r.work \subseteq w
    BY <1>1, <2>2, <2>3 DEF CommitRow
  <2> HIDE DEF r, w
  <2>5. /\ CloneInv' /\ Grown(commits, commits') /\ Len(commits) + 1 \in 1..Len(commits')
        /\ local' = [local EXCEPT ![b] = Len(commits) + 1]
        /\ commits'[Len(commits) + 1] = [parents |-> r.parents, kind |-> k, work |-> w]
    BY <1>2, <2>1, <2>4, NewCommit
  <2>6. Carries(commits, local[b], commits', Len(commits) + 1)
    BY <1>1, <2>4, <2>5, ReplacedIsCarried DEF r
  <2> QED BY <2>5, <2>6, OneBranchMoves
<1> QED BY <1>3, <1>4

LEMMA MergeStep ==
  ASSUME CloneInv, NEW b \in CloneBranches, NEW o \in CloneBranches, Clone!Merge(b, o)
  PROVE  CloneInv' /\ Clone!KeepsWork
<1>1. /\ local[b] \in 1..Len(commits) /\ local[o] \in 1..Len(commits)
      /\ Len(commits) \in Nat /\ local[b] \in 0..Len(commits)
  BY DEF CloneInv, Commits, Acyclic, Clone!Merge, Clone!None
<1> DEFINE P == {local[b], local[o]}
           w == {Len(commits) + 1}
<1>2. "clean" \in Clone!CommitKinds /\ P \in SUBSET (1..Len(commits)) /\ w \in SUBSET Nat /\ local[b] \in P
  BY <1>1 DEF Clone!CommitKinds
<1>3. Clone!New(b, P, "clean", w)
  BY DEF Clone!Merge
<1> HIDE DEF P, w
<1>4. /\ CloneInv' /\ Grown(commits, commits') /\ Len(commits) + 1 \in 1..Len(commits')
      /\ local' = [local EXCEPT ![b] = Len(commits) + 1]
      /\ commits'[Len(commits) + 1] = [parents |-> P, kind |-> "clean", work |-> w]
  BY <1>2, <1>3, NewCommit
<1>5. Carries(commits, local[b], commits', Len(commits) + 1)
  BY <1>1, <1>2, <1>4, ParentIsCarried
<1> QED BY <1>4, <1>5, OneBranchMoves

LEMMA BranchStep ==
  ASSUME CloneInv, NEW b \in CloneBranches, NEW o \in CloneBranches, Clone!Branch(b, o)
  PROVE  CloneInv' /\ Clone!KeepsWork
<1>1. /\ local[b] = 0 /\ local' = [local EXCEPT ![b] = local[o]] /\ commits' = commits
      /\ UNCHANGED <<remote, unchecked, events, scanned, tracking, push>>
  BY DEF Clone!Branch, Clone!None
<1>2. Grown(commits, commits') /\ commits' \in Seq(CommitRow)
  BY <1>1, SameCommits
<1>3. local' \in [CloneBranches -> 0..Len(commits')] /\ push' \in [Pushers -> PushRecord]
  BY <1>1 DEF CloneInv
<1>4. CloneInv'
  BY <1>1, <1>2, <1>3, CloneGoesOn
<1>5. Carries(commits, local[b], commits', local[o])
  BY <1>1, <1>2, GrownLength, History DEF Carries, Clone!Work
<1> QED BY <1>1, <1>2, <1>4, <1>5, OneBranchMoves

LEMMA FetchStep ==
  ASSUME CloneInv, Clone!Fetch
  PROVE  CloneInv' /\ Clone!KeepsWork
<1>1. /\ tracking' = remote /\ commits' = commits
      /\ UNCHANGED <<remote, unchecked, events, scanned, local, push>>
  BY DEF Clone!Fetch
<1>2. Grown(commits, commits') /\ commits' \in Seq(CommitRow)
  BY <1>1, SameCommits
<1>3. /\ local' \in [CloneBranches -> 0..Len(commits')] /\ push' \in [Pushers -> PushRecord]
      /\ CleanRefs(commits', unchecked, tracking')
  BY <1>1 DEF CloneInv
<1> QED BY <1>1, <1>2, <1>3, CloneGoesOn, LocalStays

-----------------------------------------------------------------------------
(* The pushes of the clone.                                                *)

\* One push goes on while the remote stays as it is.
LEMMA PushGoesOn ==
  ASSUME CloneInv, NEW p \in Pushers, NEW q, PushInv(commits', unchecked, q),
         push' = [push EXCEPT ![p] = q],
         commits' \in Seq(CommitRow), Grown(commits, commits'),
         UNCHANGED <<remote, unchecked, events, scanned>>,
         local' \in [CloneBranches -> 0..Len(commits')],
         tracking' = tracking \/ CleanRefs(commits', unchecked, tracking')
  PROVE  CloneInv'
<1>1. q \in PushRecord
  BY DEF PushInv
<1>2. push' \in [Pushers -> PushRecord] /\ \A o \in Pushers : push'[o] = push[o] \/ push'[o] = q
  BY <1>1 DEF CloneInv
<1> QED BY <1>2, CloneGoesOn

\* One push goes on, and nothing else changes.
LEMMA PushAlone ==
  ASSUME CloneInv, NEW p \in Pushers, NEW q, PushInv(commits, unchecked, q),
         push' = [push EXCEPT ![p] = q],
         UNCHANGED <<commits, local, tracking, remote, unchecked, events, scanned>>
  PROVE  CloneInv' /\ Clone!KeepsWork
<1>1. Grown(commits, commits') /\ commits' \in Seq(CommitRow)
  BY SameCommits
<1>2. local' \in [CloneBranches -> 0..Len(commits')]
  BY DEF CloneInv
<1> QED BY <1>1, <1>2, PushGoesOn, LocalStays

LEMMA NoPush == ASSUME NEW cs, NEW un PROVE PushInv(cs, un, Clone!Idle)
<1>1. Clone!Idle \in PushRecord
  BY DEF Clone!Idle, PushRecord, SomeRefs, SomeCommits
<1>2. Clone!Idle.pc = "idle"
  BY DEF Clone!Idle
<1> QED BY <1>1, <1>2 DEF PushInv

LEMMA StopStep ==
  ASSUME CloneInv, NEW p \in Pushers, Clone!Stop(p)
  PROVE  CloneInv' /\ Clone!KeepsWork
<1>1. /\ push' = [push EXCEPT ![p] = Clone!Idle]
      /\ UNCHANGED <<commits, local, tracking, remote, unchecked, events, scanned>>
  BY DEF Clone!Stop
<1> QED BY <1>1, NoPush, PushAlone

LEMMA SomeRefsOf ==
  ASSUME NEW bs \in SUBSET CloneBranches, NEW f, NEW n \in Nat, f \in [bs -> 0..n]
  PROVE  f \in SomeRefs
<1>1. f \in [bs -> Nat]
  OBVIOUS
<1> QED BY <1>1 DEF SomeRefs

LEMMA StartStep ==
  ASSUME CloneInv, NEW p \in Pushers, NEW verify \in BOOLEAN, NEW force \in BOOLEAN,
         Clone!StartPush(p, verify, force)
  PROVE  CloneInv' /\ Clone!KeepsWork
<1>1. PICK bs \in SUBSET {b \in CloneBranches : local[b] \notin {0, remote[b]}} :
        push' = [push EXCEPT ![p] =
            [Clone!Idle EXCEPT !.pc = IF verify THEN "hook" ELSE "send", !.verify = verify,
                         !.force = force,
                         !.refs = [b \in bs |-> local[b]], !.old = [b \in bs |-> remote[b]]]]
  BY DEF Clone!StartPush, Clone!None
<1> DEFINE refs == [b \in bs |-> local[b]]
           old == [b \in bs |-> remote[b]]
           q == [Clone!Idle EXCEPT !.pc = IF verify THEN "hook" ELSE "send", !.verify = verify,
                                   !.force = force, !.refs = refs, !.old = old]
<1>2. push' = [push EXCEPT ![p] = q]
  BY <1>1
<1>3. UNCHANGED <<commits, local, tracking, remote, unchecked, events, scanned>>
  BY DEF Clone!StartPush
<1>4. bs \in SUBSET CloneBranches /\ Len(commits) \in Nat
  BY DEF CloneInv, Commits, Acyclic
<1>5. ASSUME NEW b \in bs
      PROVE  refs[b] \in 1..Len(commits) /\ old[b] \in 0..Len(commits) /\ Clean(commits, unchecked, old[b])
  <2>1. local[b] \in 0..Len(commits) /\ local[b] # 0
    BY <1>4 DEF CloneInv
  <2>2. remote[b] \in 0..Len(commits) /\ Clean(commits, unchecked, remote[b])
    BY <1>4 DEF CloneInv, CleanRefs
  <2>3. local[b] \in 1..Len(commits) /\ refs[b] = local[b] /\ old[b] = remote[b]
    BY <1>4, <2>1
  <2> QED BY <2>2, <2>3
<1>6. DOMAIN refs = bs /\ refs \in [bs -> 0..Len(commits)] /\ old \in [bs -> 0..Len(commits)]
  <2>1. \A b \in bs : local[b] \in 0..Len(commits) /\ remote[b] \in 0..Len(commits)
    BY <1>4 DEF CloneInv, CleanRefs
  <2> QED BY <2>1
<1> HIDE DEF refs, old
<1>7. refs \in SomeRefs /\ old \in SomeRefs
  BY <1>4, <1>6, SomeRefsOf
<1>0. Clone!Idle \in PushRecord
  BY NoPush DEF PushInv
<1>8. q \in PushRecord
  BY <1>7, <1>0 DEF PushRecord
<1>9. /\ q.pc \in {"hook", "send"} /\ (q.pc = "send" => ~q.verify) /\ q.refs = refs /\ q.old = old
  BY <1>0 DEF PushRecord
<1> HIDE DEF q
<1>10. PushInv(commits, unchecked, q)
  BY <1>4, <1>5, <1>6, <1>8, <1>9 DEF PushInv
<1> QED BY <1>2, <1>3, <1>10, PushAlone

\* What an outgoing range leaves out is clean.
LEMMA OutgoingIsAll ==
  ASSUME CloneInv, NEW p \in Pushers, push[p].pc # "idle", NEW b \in DOMAIN push[p].refs
  PROVE  LET tip == push[p].refs[b]
             out == Clone!Outgoing(push[p], b)
         IN  /\ out \subseteq Clone!Reach(commits, tip)
             /\ out # {} => tip \in out
             /\ Clone!Blocked(commits, out) = {} => Clean(commits, unchecked, tip)
<1> DEFINE q == push[p]
           tip == push[p].refs[b]
           out == Clone!Outgoing(push[p], b)
           has == Clone!RemoteHas(push[p], b)
<1>1. PushInv(commits, unchecked, q) /\ Acyclic(commits)
  BY DEF CloneInv, Commits
<1>2. tip \in 1..Len(commits) /\ q.old[b] \in 0..Len(commits) /\ Clean(commits, unchecked, q.old[b])
  BY <1>1 DEF PushInv
<1>3. ASSUME NEW t \in has PROVE t \in 0..Len(commits) /\ Clean(commits, unchecked, t)
  BY <1>2, <1>3 DEF Clone!RemoteHas, Clone!Tips, CloneInv, CleanRefs
<1>4. \A x : x \in out <=> x \in Clone!Reach(commits, tip) /\ \A t \in has : x \notin Clone!Reach(commits, t)
  BY DEF Clone!Outgoing, Clone!Introduced
<1> HIDE DEF out, has, tip, q
<1>5. tip \in Clone!Reach(commits, tip) /\ tip \in 0..Len(commits)
  <2>1. Len(commits) \in Nat
    BY <1>1 DEF Acyclic
  <2>2. tip \in 0..Len(commits)
    BY <1>2, <2>1
  <2> QED BY <1>1, <1>2, <2>2, History
<1>6. out # {} => tip \in out
  <2> SUFFICES ASSUME NEW x \in out, NEW t \in has, tip \in Clone!Reach(commits, t) PROVE FALSE
    BY <1>4, <1>5
  <2>1. Clone!Reach(commits, tip) \subseteq Clone!Reach(commits, t)
    BY <1>1, <1>3, HistoryIsClosed
  <2> QED BY <1>4, <2>1
<1>7. Clone!Blocked(commits, out) = {} => Clean(commits, unchecked, tip)
  <2> SUFFICES ASSUME Clone!Blocked(commits, out) = {}, NEW x \in Clone!Blocked(commits, Clone!Reach(commits, tip))
               PROVE  x \in unchecked
    BY DEF Clean
  <2>1. x \in Clone!Reach(commits, tip) /\ x \notin out /\ commits[x].kind \in {"line", "identity"}
    BY DEF Clone!Blocked
  <2>2. PICK t \in has : x \in Clone!Reach(commits, t)
    BY <1>4, <2>1
  <2> QED BY <1>3, <2>1, <2>2 DEF Clean, Clone!Blocked
<1> QED BY <1>4, <1>6, <1>7 DEF out, tip

LEMMA PlanStep ==
  ASSUME CloneInv, NEW p \in Pushers, Clone!Plan(p)
  PROVE  CloneInv' /\ Clone!KeepsWork
<1> DEFINE q == push[p]
           out == [b \in DOMAIN q.refs |-> Clone!Outgoing(q, b)]
           blocked == Clone!Blocked(commits, UNION {out[b] : b \in DOMAIN out})
<1>1. /\ q.pc = "hook"
      /\ push' = [push EXCEPT ![p] = IF blocked = {} THEN [q EXCEPT !.pc = "send"]
                                     ELSE [q EXCEPT !.pc = "fix", !.outgoing = out]]
      /\ UNCHANGED <<commits, local, tracking, remote, unchecked, events, scanned>>
  BY DEF Clone!Plan
<1>2. PushInv(commits, unchecked, q) /\ q \in PushRecord /\ Acyclic(commits)
  BY DEF CloneInv, Commits, PushInv
<1>3. ASSUME NEW b \in DOMAIN q.refs
      PROVE  /\ out[b] \subseteq Clone!Reach(commits, q.refs[b])
             /\ out[b] # {} => q.refs[b] \in out[b]
             /\ Clone!Blocked(commits, out[b]) = {} => Clean(commits, unchecked, q.refs[b])
  BY <1>1, OutgoingIsAll
<1>4. DOMAIN out = DOMAIN q.refs /\ DOMAIN q.refs \in SUBSET CloneBranches
  BY <1>1, <1>2 DEF PushInv
<1>5. out \in SomeCommits
  <2>1. ASSUME NEW b \in DOMAIN q.refs PROVE Clone!Outgoing(q, b) \in SUBSET Nat
    <3>1. q.refs[b] \in 1..Len(commits) /\ Len(commits) \in Nat
      BY <1>1, <1>2 DEF PushInv, Acyclic
    <3>2. q.refs[b] \in 0..Len(commits) /\ q.refs[b] \in Nat
      BY <3>1
    <3>3. Clone!Reach(commits, q.refs[b]) \subseteq 1..q.refs[b]
      BY <1>2, <3>2, HistoryIsOlder
    <3>4. \A x \in 1..q.refs[b] : x \in Nat
      BY <3>2
    <3> QED BY <1>3, <3>3, <3>4
  <2>2. out \in [DOMAIN q.refs -> SUBSET Nat]
    BY <2>1
  <2> HIDE DEF out
  <2> QED BY <1>4, <2>2 DEF SomeCommits
<1> HIDE DEF out
<1>6. CASE blocked = {}
  <2>1. \A b \in DOMAIN q.refs : Clean(commits, unchecked, q.refs[b])
    BY <1>3, <1>4, <1>6 DEF Clone!Blocked
  <2> DEFINE r == [q EXCEPT !.pc = "send"]
  <2>2. /\ r \in PushRecord /\ r.pc = "send" /\ r.refs = q.refs /\ r.old = q.old
    BY <1>2 DEF PushRecord
  <2>3. push' = [push EXCEPT ![p] = r]
    BY <1>1, <1>6
  <2> HIDE DEF r, q, blocked
  <2>4. PushInv(commits, unchecked, r)
    BY <1>1, <1>2, <2>1, <2>2 DEF PushInv
  <2> QED BY <1>1, <2>3, <2>4, PushAlone
<1>7. CASE blocked # {}
  <2> DEFINE r == [q EXCEPT !.pc = "fix", !.outgoing = out]
  <2>2. /\ r \in PushRecord /\ r.pc = "fix" /\ r.refs = q.refs /\ r.old = q.old /\ r.outgoing = out
    BY <1>2, <1>5 DEF PushRecord
  <2>3. push' = [push EXCEPT ![p] = r]
    BY <1>1, <1>7
  <2> HIDE DEF r, q, blocked
  <2>4. PushInv(commits, unchecked, r)
    BY <1>1, <1>2, <1>3, <2>2 DEF PushInv
  <2> QED BY <1>1, <2>3, <2>4, PushAlone
<1> QED BY <1>6, <1>7

-----------------------------------------------------------------------------
(* The commits that the hook rewrites.                                     *)

LEMMA AddCopies ==
  ASSUME NEW cs, Commits(cs), NEW copies \in Seq(CommitRow), NEW k \in Nat, Len(copies) = k,
         \A i \in 1..k : copies[i].parents \subseteq 1..(Len(cs) + i - 1)
  PROVE  /\ cs \o copies \in Seq(CommitRow) /\ Grown(cs, cs \o copies)
         /\ Len(cs \o copies) = Len(cs) + k
         /\ \A i \in 1..k : (cs \o copies)[Len(cs) + i] = copies[i]
<1> DEFINE more == cs \o copies
<1>1. /\ more \in Seq(CommitRow) /\ Len(more) = Len(cs) + k /\ Len(cs) \in Nat /\ Acyclic(cs)
      /\ \A i \in 1..(Len(cs) + k) : more[i] = IF i <= Len(cs) THEN cs[i] ELSE copies[i - Len(cs)]
  BY ConcatProperties DEF Commits, Acyclic
<1> HIDE DEF more
<1>2. \A i \in 1..Len(cs) : more[i] = cs[i]
  BY <1>1
<1>3. ASSUME NEW i \in 1..k PROVE more[Len(cs) + i] = copies[i]
  <2>1. Len(cs) + i \in 1..(Len(cs) + k) /\ ~(Len(cs) + i <= Len(cs)) /\ (Len(cs) + i) - Len(cs) = i
    BY <1>1
  <2> QED BY <1>1, <2>1
<1>4. ASSUME NEW i \in 1..Len(more) PROVE more[i].parents \subseteq 1..(i - 1)
  <2>1. CASE i <= Len(cs)
    BY <1>1, <1>2, <2>1 DEF Acyclic
  <2>2. CASE ~(i <= Len(cs))
    <3>1. i - Len(cs) \in 1..k /\ Len(cs) + (i - Len(cs)) = i
      BY <1>1, <2>2
    <3>2. more[i] = copies[i - Len(cs)]
      BY <1>3, <3>1
    <3> QED BY <3>1, <3>2
  <2> QED BY <2>1, <2>2
<1>5. Grown(cs, more)
  <2>1. Acyclic(more) /\ Len(cs) <= Len(more)
    BY <1>1, <1>4 DEF Acyclic
  <2> QED BY <1>1, <1>2, <2>1 DEF Grown
<1> QED BY <1>1, <1>3, <1>5 DEF more

\* Copies that keep the parents, or their copies, carry the work of the originals.
LEMMA CopiesCarry ==
  ASSUME NEW cs, NEW more, Grown(cs, more), NEW R, R \subseteq 1..Len(cs),
         NEW copy \in [R -> 1..Len(more)],
         \A c \in R : more[copy[c]].work = cs[c].work,
         \A c \in R : \A d \in cs[c].parents :
           (IF d \in R THEN copy[d] ELSE d) \in more[copy[c]].parents
  PROVE  \A c \in R : Carries(cs, c, more, copy[c])
<1> DEFINE Bad == {c \in R : ~ Carries(cs, c, more, copy[c])}
<1> SUFFICES ASSUME Bad # {} PROVE FALSE
  OBVIOUS
<1>0. Len(cs) \in Nat /\ Len(more) \in Nat /\ Acyclic(cs) /\ Acyclic(more)
  BY GrownLength
<1>1. PICK n \in Bad : \A m \in Bad : n <= m
  <2>1. Bad \in SUBSET Nat
    <3>1. \A x \in 1..Len(cs) : x \in Nat
      BY <1>0
    <3>2. \A x \in R : x \in Nat
      BY <3>1
    <3> QED BY <3>2
  <2> HIDE DEF Bad
  <2> QED BY <2>1, SmallestNumber
<1>2. n \in R /\ n \in 1..Len(cs) /\ copy[n] \in 1..Len(more) /\ ~ Carries(cs, n, more, copy[n])
  OBVIOUS
<1>3. /\ Clone!Reach(cs, n) = {n} \cup UNION {Clone!Reach(cs, p) : p \in cs[n].parents}
      /\ Clone!Reach(more, copy[n])
           = {copy[n]} \cup UNION {Clone!Reach(more, p) : p \in more[copy[n]].parents}
  BY <1>0, <1>2, History
<1>4. ASSUME NEW d \in Clone!Reach(cs, n)
      PROVE  cs[d].work \subseteq Clone!Work(more, Clone!Reach(more, copy[n]))
  <2>1. CASE d = n
    BY <1>2, <1>3, <2>1 DEF Clone!Work
  <2>2. CASE d # n
    <3>1. PICK p \in cs[n].parents : d \in Clone!Reach(cs, p)
      BY <1>3, <2>2
    <3>2. p \in 1..(n - 1)
      BY <1>0, <1>2 DEF Acyclic
    <3>3. p \in 0..Len(cs) /\ p < n /\ p \in Nat
      BY <1>0, <1>2, <3>2
    <3> DEFINE u == IF p \in R THEN copy[p] ELSE p
    <3>4. u \in more[copy[n]].parents
      BY <1>2, <3>1
    <3>5. Carries(cs, p, more, u)
      <4>1. CASE p \in R
        <5>1. p \notin Bad
          BY <1>1, <1>2, <3>3
        <5> QED BY <4>1, <5>1
      <4>2. CASE p \notin R
        BY <3>3, <4>2, SameWork DEF Carries
      <4> QED BY <4>1, <4>2
    <3> HIDE DEF u
    <3>6. Clone!Reach(more, u) \subseteq Clone!Reach(more, copy[n])
      BY <1>3, <3>4
    <3>7. cs[d].work \subseteq Clone!Work(more, Clone!Reach(more, u))
      BY <3>1, <3>5 DEF Carries, Clone!Work
    <3> QED BY <3>6, <3>7 DEF Clone!Work
  <2> QED BY <2>1, <2>2
<1>5. Carries(cs, n, more, copy[n])
  BY <1>4 DEF Carries, Clone!Work
<1> QED BY <1>2, <1>5

\* The commits to rewrite are outgoing; the tips of the branches they block are among them.
LEMMA RewrittenTips ==
  ASSUME CloneInv, NEW p \in Pushers, push[p].pc = "fix"
  PROVE  /\ Clone!Rewritten(push[p]) \subseteq 1..Len(commits)
         /\ \A b \in Clone!Targets(push[p]) :
              b \in DOMAIN push[p].refs /\ push[p].refs[b] \in Clone!Rewritten(push[p])
<1> DEFINE q == push[p]
           within == UNION {q.outgoing[b] : b \in Clone!Targets(q)}
<1>1. PushInv(commits, unchecked, q) /\ Acyclic(commits) /\ Len(commits) \in Nat
  BY DEF CloneInv, Commits, Acyclic
<1>2. ASSUME NEW b \in DOMAIN q.refs
      PROVE  /\ q.outgoing[b] \subseteq Clone!Reach(commits, q.refs[b]) /\ q.refs[b] \in 0..Len(commits)
             /\ q.outgoing[b] \subseteq 1..Len(commits)
             /\ q.outgoing[b] # {} => q.refs[b] \in q.outgoing[b]
  <2>1. q.refs[b] \in 1..Len(commits)
    BY <1>1 DEF PushInv
  <2>2. q.refs[b] \in 0..Len(commits)
    BY <1>1, <2>1
  <2>3. Clone!Reach(commits, q.refs[b]) \subseteq 1..q.refs[b]
    BY <1>1, <2>2, HistoryIsOlder
  <2>4. \A x \in 1..q.refs[b] : x \in 1..Len(commits)
    BY <1>1, <2>2
  <2>5. /\ q.outgoing[b] \subseteq Clone!Reach(commits, q.refs[b])
        /\ q.outgoing[b] # {} => q.refs[b] \in q.outgoing[b]
    BY <1>1 DEF PushInv
  <2> QED BY <2>2, <2>3, <2>4, <2>5
<1>3. \A b \in Clone!Targets(q) : b \in DOMAIN q.refs
  BY DEF Clone!Targets
<1>4. \A c : c \in Clone!Rewritten(q) <=>
              c \in within /\ Clone!Blocked(commits, Clone!Reach(commits, c) \cap within) # {}
  BY DEF Clone!Rewritten
<1>5. ASSUME NEW b \in Clone!Targets(q) PROVE q.refs[b] \in Clone!Rewritten(q)
  <2>1. PICK x \in q.outgoing[b] : commits[x].kind \in {"line", "identity"}
    BY DEF Clone!Targets, Clone!Blocked
  <2>2. q.refs[b] \in within /\ x \in Clone!Reach(commits, q.refs[b]) \cap within
    BY <1>2, <1>3, <2>1
  <2>3. x \in Clone!Blocked(commits, Clone!Reach(commits, q.refs[b]) \cap within)
    BY <2>1, <2>2 DEF Clone!Blocked
  <2> QED BY <1>4, <2>2, <2>3
<1> QED BY <1>2, <1>3, <1>4, <1>5

LEMMA FixStep ==
  ASSUME CloneInv, NEW p \in Pushers, Clone!Fix(p)
  PROVE  CloneInv' /\ Clone!KeepsWork
<1> DEFINE q == push[p]
           R == Clone!Rewritten(q)
           old == Clone!Ascending(R)
           n == Len(commits)
           copy(c) == n + (CHOOSE i \in DOMAIN old : old[i] = c)
           Remapped(c) == {IF d \in R THEN copy(d) ELSE d : d \in commits[c].parents}
           copies == [i \in DOMAIN old |->
              [parents |-> Remapped(old[i]),
               kind |-> IF commits[old[i]].kind = "line" THEN "clean" ELSE commits[old[i]].kind,
               work |-> commits[old[i]].work]]
           new == [b \in Clone!Targets(q) |-> copy(q.refs[b])]
<1>1. /\ q.pc = "fix" /\ commits' = commits \o copies
      /\ push' = [push EXCEPT ![p].pc = "move", ![p].new = new]
      /\ UNCHANGED <<local, tracking, remote, unchecked, events, scanned>>
  BY Zenon DEF Clone!Fix
<1>2. /\ PushInv(commits, unchecked, q) /\ q \in PushRecord /\ Commits(commits) /\ Acyclic(commits)
      /\ n \in Nat /\ commits \in Seq(CommitRow)
  BY DEF CloneInv, Commits, PushInv, Acyclic
<1>3. /\ R \subseteq 1..n
      /\ \A b \in Clone!Targets(q) : b \in DOMAIN q.refs /\ q.refs[b] \in R
  BY <1>1, RewrittenTips
<1> HIDE DEF R
<1>4. PICK k \in Nat : Enumerates(old, k, R)
  BY <1>2, <1>3, Ascends
<1>5. /\ DOMAIN old = 1..k /\ old \in [1..k -> R] /\ \A i \in 1..k : old[i] \in R /\ old[i] \in 1..n
      /\ \A x \in R : \E i \in 1..k : old[i] = x
      /\ \A i, j \in 1..k : i < j => old[i] < old[j]
  BY <1>3, <1>4 DEF Enumerates
<1> HIDE DEF old, n, q
<1> DEFINE place(c) == CHOOSE i \in DOMAIN old : old[i] = c
<1>6. ASSUME NEW c \in R PROVE place(c) \in 1..k /\ old[place(c)] = c
  BY <1>5
<1> HIDE DEF place
<1>7. ASSUME NEW i \in 1..k, NEW d \in R, d < old[i] PROVE place(d) < i
  <2>1. place(d) \in 1..k /\ old[place(d)] = d
    BY <1>6
  <2>2. CASE place(d) = i
    <3>1. old[i] \in 1..n
      BY <1>5
    <3>2. old[i] = d /\ d \in Int
      BY <1>2, <2>1, <2>2, <3>1
    <3> QED BY <1>7, <3>2
  <2>3. CASE i < place(d)
    <3>1. old[i] < d
      BY <1>5, <2>1, <2>3
    <3>2. old[i] \in 1..n /\ d \in 1..n
      BY <1>3, <1>5
    <3>3. old[i] \in Int /\ d \in Int
      BY <1>2, <3>2
    <3> QED BY <1>7, <3>1, <3>3
  <2> QED BY <2>1, <2>2, <2>3
<1>8. ASSUME NEW c \in R PROVE copy(c) = n + place(c)
  BY DEF place
<1> HIDE DEF copy
<1>9. \A i \in 1..k : commits[old[i]] \in CommitRow
  BY <1>2, <1>5, ElementOfSeq DEF n
<1>10. ASSUME NEW i \in 1..k PROVE Remapped(old[i]) \subseteq 1..(n + i - 1)
  <2>1. commits[old[i]].parents \subseteq 1..(old[i] - 1) /\ old[i] \in 1..n
    BY <1>2, <1>5 DEF Acyclic, n
  <2>2. ASSUME NEW d \in commits[old[i]].parents
        PROVE  (IF d \in R THEN copy(d) ELSE d) \in 1..(n + i - 1)
    <3>1. d \in 1..n /\ d < old[i]
      BY <1>2, <2>1
    <3>2. CASE d \in R
      <4>1. copy(d) = n + place(d) /\ place(d) \in 1..k /\ place(d) < i
        BY <1>6, <1>7, <1>8, <3>1, <3>2
      <4>2. n + place(d) \in 1..(n + i - 1)
        BY <1>2, <4>1
      <4> QED BY <3>2, <4>1, <4>2
    <3>3. CASE d \notin R
      BY <1>2, <3>1, <3>3
    <3> QED BY <3>2, <3>3
  <2> QED BY <2>2
<1> HIDE DEF Remapped
<1>11. ASSUME NEW i \in 1..k
       PROVE  /\ copies[i] \in CommitRow /\ copies[i].parents = Remapped(old[i])
              /\ copies[i].work = commits[old[i]].work
  <2>1. Remapped(old[i]) \in SUBSET Nat
    <3>1. \A x \in 1..(n + i - 1) : x \in Nat
      BY <1>2
    <3> QED BY <1>10, <3>1
  <2>2. commits[old[i]].kind \in Clone!CommitKinds /\ commits[old[i]].work \in SUBSET Nat
        /\ "clean" \in Clone!CommitKinds
    BY <1>9 DEF CommitRow, Clone!CommitKinds
  <2> QED BY <1>5, <2>1, <2>2 DEF CommitRow
<1>12. copies \in Seq(CommitRow) /\ Len(copies) = k
  <2>1. copies = [i \in 1..k |-> copies[i]]
    BY <1>5
  <2> HIDE DEF copies
  <2> QED BY <1>11, <2>1
<1> HIDE DEF copies
<1>13. /\ commits' \in Seq(CommitRow) /\ Grown(commits, commits') /\ Len(commits') = n + k
       /\ \A i \in 1..k : commits'[n + i] = copies[i]
  BY <1>1, <1>2, <1>10, <1>11, <1>12, AddCopies DEF n
<1> DEFINE Copy == [c \in R |-> n + place(c)]
<1>14. Copy \in [R -> 1..Len(commits')]
  <2>1. \A c \in R : n + place(c) \in 1..(n + k)
    BY <1>2, <1>6
  <2> QED BY <1>13, <2>1
<1>15. \A c \in R : Carries(commits, c, commits', Copy[c])
  <2>1. ASSUME NEW c \in R
        PROVE  commits'[Copy[c]].work = commits[c].work /\ commits'[Copy[c]].parents = Remapped(c)
    BY <1>6, <1>11, <1>13
  <2>2. ASSUME NEW c \in R, NEW d \in commits[c].parents
        PROVE  (IF d \in R THEN Copy[d] ELSE d) \in commits'[Copy[c]].parents
    <3>1. (IF d \in R THEN copy(d) ELSE d) \in Remapped(c)
      BY DEF Remapped
    <3> QED BY <1>8, <2>1, <3>1
  <2>3. R \subseteq 1..Len(commits)
    BY <1>3 DEF n
  <2> HIDE DEF Copy
  <2> QED BY <1>13, <1>14, <2>1, <2>2, <2>3, CopiesCarry
<1>16. ASSUME NEW b \in Clone!Targets(q)
       PROVE  /\ b \in DOMAIN q.refs /\ new[b] \in 1..Len(commits')
              /\ Carries(commits', q.refs[b], commits', new[b])
  <2>1. q.refs[b] \in R /\ new[b] = Copy[q.refs[b]] /\ b \in DOMAIN q.refs
    BY <1>3, <1>8
  <2>2. q.refs[b] \in 0..Len(commits)
    BY <1>2, <1>3, <2>1 DEF n
  <2> HIDE DEF Copy, new
  <2>3. Carries(commits, q.refs[b], commits', new[b])
    BY <1>15, <2>1
  <2> QED BY <1>13, <1>14, <2>1, <2>2, <2>3, SameWork DEF Carries
<1>17. new \in SomeRefs /\ DOMAIN new = Clone!Targets(q)
  <2>1. Clone!Targets(q) \in SUBSET CloneBranches
    BY <1>1, <1>2, <1>3 DEF PushInv
  <2>2. \A b \in Clone!Targets(q) : new[b] \in Nat
    <3>1. Len(commits') \in Nat
      BY <1>13, GrownLength
    <3> QED BY <1>16, <3>1
  <2>3. new = [b \in Clone!Targets(q) |-> new[b]]
    OBVIOUS
  <2> HIDE DEF new
  <2>4. new \in [Clone!Targets(q) -> Nat]
    BY <2>2, <2>3
  <2> QED BY <2>1, <2>3, <2>4 DEF SomeRefs
<1> HIDE DEF new
<1> DEFINE r == [q EXCEPT !.pc = "move", !.new = new]
<1>18. push' = [push EXCEPT ![p] = r]
  BY <1>1 DEF q, CloneInv
<1>19. r \in PushRecord /\ r.pc = "move" /\ r.refs = q.refs /\ r.old = q.old /\ r.new = new
  BY <1>2, <1>17 DEF PushRecord
<1> HIDE DEF r
<1>20. PushInv(commits', unchecked, q)
  BY <1>2, <1>13, StaysPushed
<1>21. PushInv(commits', unchecked, r)
  BY <1>1, <1>16, <1>17, <1>19, <1>20 DEF PushInv
<1>22. local' \in [CloneBranches -> 0..Len(commits')] /\ local' = local
  BY <1>1, <1>13, GrownLength DEF CloneInv
<1> QED BY <1>1, <1>13, <1>18, <1>21, <1>22, PushGoesOn, LocalStays

\* The branches move to the copies, if all of them are where the push found them.
LEMMA MoveStep ==
  ASSUME CloneInv, NEW p \in Pushers, Clone!Move(p)
  PROVE  CloneInv' /\ Clone!KeepsWork
<1> DEFINE q == push[p]
<1>1. /\ q.pc = "move" /\ push' = [push EXCEPT ![p] = Clone!Idle]
      /\ local' = IF Clone!MayMove(q) THEN [b \in CloneBranches |-> IF b \in DOMAIN q.new THEN q.new[b]
                                                                   ELSE local[b]]
                  ELSE local
      /\ UNCHANGED <<commits, tracking, remote, unchecked, events, scanned>>
  BY DEF Clone!Move
<1>2. PushInv(commits, unchecked, q) /\ local \in [CloneBranches -> 0..Len(commits)]
  BY DEF CloneInv
<1>3. Grown(commits, commits') /\ commits' \in Seq(CommitRow)
  BY <1>1, SameCommits
<1>4. PushInv(commits', unchecked, Clone!Idle)
  BY NoPush
<1> HIDE DEF q
<1>5. CASE Clone!MayMove(q)
  <2>1. ASSUME NEW b \in CloneBranches
        PROVE  local'[b] \in 0..Len(commits') /\ Carries(commits, local[b], commits', local'[b])
    <3>1. CASE b \in DOMAIN q.new
      <4>1. /\ q.refs[b] = local[b] /\ q.new[b] \in 1..Len(commits)
            /\ Carries(commits, q.refs[b], commits, q.new[b])
        BY <1>1, <1>2, <1>5, <3>1 DEF PushInv, Clone!MayMove
      <4>2. local'[b] = q.new[b] /\ q.new[b] \in 0..Len(commits)
        BY <1>1, <1>3, <1>5, <3>1, <4>1, GrownLength
      <4> QED BY <1>1, <4>1, <4>2
    <3>2. CASE b \notin DOMAIN q.new
      <4>1. local'[b] = local[b]
        BY <1>1, <1>5, <3>2
      <4> QED BY <1>1, <1>2, <4>1 DEF Carries
    <3> QED BY <3>1, <3>2
  <2>2. local' \in [CloneBranches -> 0..Len(commits')]
    <3>1. local' = [b \in CloneBranches |-> local'[b]]
      BY <1>1, <1>5
    <3> QED BY <2>1, <3>1
  <2>3. CloneInv'
    BY <1>1, <1>3, <1>4, <2>2, PushGoesOn
  <2> QED BY <2>1, <2>3 DEF Clone!KeepsWork, Carries
<1>6. CASE ~ Clone!MayMove(q)
  BY <1>1, <1>4, <1>6, PushAlone
<1> QED BY <1>5, <1>6

LEMMA TrackStep ==
  ASSUME CloneInv, NEW p \in Pushers, Clone!Track(p)
  PROVE  CloneInv' /\ Clone!KeepsWork
<1> DEFINE q == push[p]
<1>1. /\ q.pc = "sent" /\ push' = [push EXCEPT ![p] = Clone!Idle]
      /\ tracking' = [b \in CloneBranches |-> IF b \in DOMAIN q.new THEN q.new[b] ELSE tracking[b]]
      /\ UNCHANGED <<commits, local, remote, unchecked, events, scanned>>
  BY DEF Clone!Track
<1>2. PushInv(commits, unchecked, q) /\ CleanRefs(commits, unchecked, tracking)
  BY DEF CloneInv
<1>3. Grown(commits, commits') /\ commits' \in Seq(CommitRow) /\ PushInv(commits', unchecked, Clone!Idle)
  BY <1>1, SameCommits, NoPush
<1> HIDE DEF q
<1>4. ASSUME NEW b \in CloneBranches
      PROVE  tracking'[b] \in 0..Len(commits) /\ Clean(commits, unchecked, tracking'[b])
  <2>1. CASE b \in DOMAIN q.new
    <3>1. q.new[b] \in 1..Len(commits) /\ Clean(commits, unchecked, q.new[b]) /\ tracking'[b] = q.new[b]
      BY <1>1, <1>2, <2>1 DEF PushInv
    <3> QED BY <1>3, <3>1, GrownLength
  <2>2. CASE b \notin DOMAIN q.new
    BY <1>1, <1>2, <2>2 DEF CleanRefs
  <2> QED BY <2>1, <2>2
<1>5. CleanRefs(commits', unchecked, tracking')
  <2>1. tracking' = [b \in CloneBranches |-> tracking'[b]]
    BY <1>1
  <2> QED BY <1>1, <1>4, <2>1 DEF CleanRefs
<1>6. local' \in [CloneBranches -> 0..Len(commits')] /\ local' = local
  BY <1>1 DEF CloneInv
<1> QED BY <1>1, <1>3, <1>5, <1>6, PushGoesOn, LocalStays

-----------------------------------------------------------------------------
(* The remote, and the checks of its push events.                          *)

LEMMA RemoteGoesOn ==
  ASSUME CloneInv, commits' \in Seq(CommitRow), Grown(commits, commits'),
         unchecked \subseteq unchecked', UNCHANGED <<local, tracking>>,
         CleanRefs(commits', unchecked', remote'), push' \in [Pushers -> PushRecord],
         \A p \in Pushers : push'[p] = push[p] \/ PushInv(commits', unchecked', push'[p]),
         Events(commits', events'), Awaited(commits', remote', events', scanned')
  PROVE  CloneInv' /\ Clone!KeepsWork
<1>1. Commits(commits') /\ local' \in [CloneBranches -> 0..Len(commits')]
  BY GrownLength DEF Grown, Commits, CloneInv
<1>2. CleanRefs(commits', unchecked', tracking')
  BY RefsStayClean DEF CloneInv
<1>3. \A p \in Pushers : PushInv(commits', unchecked', push'[p])
  BY StaysPushed DEF CloneInv
<1>4. CloneInv'
  BY <1>1, <1>2, <1>3 DEF CloneInv
<1> QED BY <1>4, LocalStays

LEMMA SendStep ==
  ASSUME CloneInv, NEW p \in Pushers, Clone!Send(p)
  PROVE  CloneInv' /\ Clone!KeepsWork
<1> DEFINE q == push[p]
           taken == {b \in DOMAIN q.refs :
                  /\ remote[b] = q.old[b]
                  /\ q.force \/ q.old[b] \in Clone!Reach(commits, q.refs[b]) \cup {0}}
           sent == UNION {Clone!Reach(commits, q.refs[b]) : b \in taken}
           new == [b \in taken |-> q.refs[b]]
<1>1. /\ q.pc = "send"
      /\ remote' = [b \in CloneBranches |-> IF b \in taken THEN q.refs[b] ELSE remote[b]]
      /\ unchecked' = IF q.verify THEN unchecked ELSE unchecked \cup sent
      /\ events' = events \cup {Clone!Event(b, q.old[b], q.refs[b]) : b \in taken}
      /\ push' = [push EXCEPT ![p] = [q EXCEPT !.pc = "sent", !.new = new]]
      /\ UNCHANGED <<commits, local, tracking, scanned>>
  BY DEF Clone!Send, Clone!None
<1>2. /\ PushInv(commits, unchecked, q) /\ q \in PushRecord /\ CleanRefs(commits, unchecked, remote)
      /\ Events(commits, events) /\ Awaited(commits, remote, events, scanned)
      /\ push \in [Pushers -> PushRecord]
  BY DEF CloneInv, PushInv
<1>3. Grown(commits, commits') /\ commits' \in Seq(CommitRow) /\ commits' = commits
      /\ Len(commits) \in Nat
  BY <1>1, SameCommits, GrownLength
<1>4. \A b \in taken : b \in DOMAIN q.refs /\ remote[b] = q.old[b]
  OBVIOUS
<1>5. \A b \in taken : Clone!Reach(commits, q.refs[b]) \subseteq sent
  OBVIOUS
<1> HIDE DEF taken, sent, q
<1>6. \A b \in DOMAIN q.refs : /\ b \in CloneBranches /\ q.refs[b] \in 1..Len(commits)
                               /\ q.old[b] \in 0..Len(commits)
  BY <1>1, <1>2 DEF PushInv
<1>7. unchecked \subseteq unchecked'
  BY <1>1
<1>8. ASSUME NEW b \in taken
      PROVE  /\ b \in CloneBranches /\ q.refs[b] \in 1..Len(commits) /\ q.refs[b] \in 0..Len(commits)
             /\ q.old[b] \in 0..Len(commits) /\ Clean(commits, unchecked', q.refs[b])
  <2>1. b \in CloneBranches /\ q.refs[b] \in 1..Len(commits) /\ q.old[b] \in 0..Len(commits)
    BY <1>4, <1>6
  <2>2. CASE q.verify
    BY <1>1, <1>2, <1>3, <1>4, <2>1, <2>2 DEF PushInv
  <2>3. CASE ~q.verify
    <3>1. Clone!Reach(commits, q.refs[b]) \subseteq unchecked'
      BY <1>1, <1>5, <2>3
    <3>2. Clean(commits, unchecked', q.refs[b])
      BY <3>1 DEF Clean, Clone!Blocked
    <3> QED BY <1>3, <2>1, <3>2
  <2> QED BY <2>2, <2>3
<1>9. CleanRefs(commits', unchecked', remote')
  <2>1. CleanRefs(commits, unchecked', remote)
    BY <1>2, <1>3, <1>7, RefsStayClean
  <2>2. ASSUME NEW b \in CloneBranches
        PROVE  remote'[b] \in 0..Len(commits) /\ Clean(commits, unchecked', remote'[b])
    <3>1. CASE b \in taken
      BY <1>1, <1>8, <3>1
    <3>2. CASE b \notin taken
      BY <1>1, <2>1, <3>2 DEF CleanRefs
    <3> QED BY <3>1, <3>2
  <2>3. remote' = [b \in CloneBranches |-> remote'[b]]
    BY <1>1
  <2> QED BY <1>3, <2>2, <2>3 DEF CleanRefs
<1>10. Events(commits', events')
  <2>1. ASSUME NEW b \in taken
        PROVE  Clone!Event(b, q.old[b], q.refs[b])
                 \in [ref: CloneBranches, before: 0..Len(commits), after: 0..Len(commits)]
    BY <1>8 DEF Clone!Event
  <2> QED BY <1>1, <1>2, <1>3, <2>1 DEF Events
<1>11. Awaited(commits', remote', events', scanned')
  <2> SUFFICES ASSUME NEW b \in CloneBranches, NEW x \in Clone!Reach(commits, remote'[b]), x \notin scanned
               PROVE  \E e \in events' : Brings(commits, e, x) /\ (b = MainBranch => e.ref = MainBranch)
    BY <1>1 DEF Awaited
  <2>1. CASE x \in Clone!Reach(commits, remote[b])
    <3>1. PICK e \in events : Brings(commits, e, x) /\ (b = MainBranch => e.ref = MainBranch)
      BY <1>2, <2>1 DEF Awaited
    <3> QED BY <1>1, <3>1
  <2>2. CASE x \notin Clone!Reach(commits, remote[b])
    <3>1. b \in taken /\ remote'[b] = q.refs[b] /\ remote[b] = q.old[b]
      BY <1>1, <1>4, <2>2
    <3> DEFINE e == Clone!Event(b, q.old[b], q.refs[b])
    <3>2. e \in events'
      BY <1>1, <3>1
    <3>3. e.ref = b /\ e.before = remote[b] /\ e.after = remote'[b]
      BY <3>1 DEF Clone!Event
    <3> HIDE DEF e
    <3> QED BY <2>2, <3>2, <3>3 DEF Brings
  <2> QED BY <2>1, <2>2
<1> DEFINE r == [q EXCEPT !.pc = "sent", !.new = new]
<1>12. new \in SomeRefs /\ DOMAIN new = taken /\ \A b \in taken : new[b] = q.refs[b]
  <2>1. taken \in SUBSET CloneBranches /\ new \in [taken -> 0..Len(commits)]
    BY <1>8
  <2>2. new \in SomeRefs
    <3> HIDE DEF new
    <3> QED BY <1>3, <2>1, SomeRefsOf
  <2> QED BY <2>2
<1> HIDE DEF new
<1>13. r \in PushRecord /\ r.pc = "sent" /\ r.refs = q.refs /\ r.old = q.old /\ r.new = new
  BY <1>2, <1>12 DEF PushRecord
<1>14. push' = [push EXCEPT ![p] = r]
  BY <1>1
<1> HIDE DEF r
<1>15. PushInv(commits, unchecked', q)
  BY <1>2, <1>3, <1>7, StaysPushed
<1>16. PushInv(commits', unchecked', r)
  BY <1>1, <1>3, <1>8, <1>12, <1>13, <1>15 DEF PushInv
<1>17. /\ push' \in [Pushers -> PushRecord]
       /\ \A o \in Pushers : push'[o] = push[o] \/ PushInv(commits', unchecked', push'[o])
  BY <1>2, <1>13, <1>14, <1>16
<1> QED BY <1>1, <1>3, <1>7, <1>9, <1>10, <1>11, <1>17, RemoteGoesOn

LEMMA OthersStep ==
  ASSUME CloneInv, NEW b \in CloneBranches, Clone!OthersPush(b)
  PROVE  CloneInv' /\ Clone!KeepsWork
<1> DEFINE id == Len(commits) + 1
           base == IF remote[b] = 0 THEN remote[MainBranch] ELSE remote[b]
           P == {base}
           w == {id}
           e == Clone!Event(b, remote[b], id)
<1>1. PICK k \in {"line", "identity"} : commits' = Append(commits, [parents |-> P, kind |-> k, work |-> w])
  BY DEF Clone!OthersPush, Clone!None
<1>2. /\ base # 0 /\ remote' = [remote EXCEPT ![b] = id] /\ unchecked' = unchecked \cup {id}
      /\ events' = events \cup {e}
      /\ UNCHANGED <<local, tracking, push, scanned>>
  BY DEF Clone!OthersPush, Clone!None
<1>3. /\ Commits(commits) /\ Acyclic(commits) /\ Len(commits) \in Nat /\ CleanRefs(commits, unchecked, remote)
      /\ remote \in [CloneBranches -> 0..Len(commits)] /\ MainBranch \in CloneBranches
      /\ Events(commits, events) /\ Awaited(commits, remote, events, scanned)
  BY FirstCommit DEF CloneInv, Commits, Acyclic, CleanRefs
<1>4. base \in 1..Len(commits) /\ base \in 0..Len(commits)
  BY <1>2, <1>3
<1>0. \E o \in CloneBranches : base = remote[o] /\ (b = MainBranch => o = MainBranch)
  BY <1>2, <1>3
<1> DEFINE r == [parents |-> P, kind |-> k, work |-> w]
<1>5. r \in CommitRow /\ r.parents \subseteq 1..Len(commits) /\ r.parents = {base}
  <2>1. k \in Clone!CommitKinds
    BY DEF Clone!CommitKinds
  <2>2. P \in SUBSET Nat /\ w \in SUBSET Nat /\ P \subseteq 1..Len(commits)
    BY <1>3, <1>4
  <2> HIDE DEF P, w
  <2>3. r \in CommitRow /\ r.parents = P
    BY <2>1, <2>2 DEF CommitRow
  <2> QED BY <2>2, <2>3 DEF P
<1> HIDE DEF r
<1>6. /\ commits' \in Seq(CommitRow) /\ Grown(commits, commits') /\ Len(commits') = id /\ commits'[id] = r
      /\ id \in 1..Len(commits') /\ id \in 0..Len(commits')
  <2>1. commits' = Append(commits, r)
    BY <1>1 DEF r
  <2>2. /\ commits' \in Seq(CommitRow) /\ Grown(commits, commits') /\ Len(commits') = id
        /\ commits'[id] = r
    BY <1>3, <1>5, <2>1, AddCommit
  <2> QED BY <1>3, <2>2
<1>7. Clone!Reach(commits', id) = {id} \cup Clone!Reach(commits, base)
  <2>1. Clone!Reach(commits', id) = {id} \cup UNION {Clone!Reach(commits', d) : d \in {base}}
    BY <1>5, <1>6, GrownLength, History
  <2>2. Clone!Reach(commits', base) = Clone!Reach(commits, base)
    BY <1>4, <1>6, KeptHistory
  <2> QED BY <2>1, <2>2
<1>8. id \notin Clone!Reach(commits', remote[b])
  <2>1. remote[b] \in 0..Len(commits) /\ remote[b] \in Nat /\ remote[b] \in 0..Len(commits')
    BY <1>3, <1>6
  <2>2. Clone!Reach(commits', remote[b]) \subseteq 1..remote[b]
    BY <1>6, <2>1, HistoryIsOlder, GrownLength
  <2>3. id \notin 1..remote[b]
    BY <1>3, <2>1
  <2> QED BY <2>2, <2>3
<1> HIDE DEF id
<1>9. unchecked \subseteq unchecked' /\ id \in unchecked'
  BY <1>2
<1> HIDE DEF base
<1>10. CleanRefs(commits', unchecked', remote)
  BY <1>3, <1>6, <1>9, RefsStayClean
<1>11. Clean(commits', unchecked', id)
  <2>1. Clean(commits', unchecked', base)
    BY <1>10, <1>0 DEF CleanRefs
  <2>2. Clone!Reach(commits', base) = Clone!Reach(commits, base)
    BY <1>4, <1>6, KeptHistory
  <2> QED BY <1>7, <1>9, <2>1, <2>2 DEF Clean, Clone!Blocked
<1>12. CleanRefs(commits', unchecked', remote')
  <2>1. remote' \in [CloneBranches -> 0..Len(commits')]
    BY <1>2, <1>6, <1>10 DEF CleanRefs
  <2>2. ASSUME NEW o \in CloneBranches PROVE Clean(commits', unchecked', remote'[o])
    <3>1. CASE o = b
      BY <1>2, <1>3, <1>11, <3>1
    <3>2. CASE o # b
      BY <1>2, <1>3, <1>10, <3>2 DEF CleanRefs
    <3> QED BY <3>1, <3>2
  <2> QED BY <2>1, <2>2 DEF CleanRefs
<1>13. Events(commits', events) /\ Awaited(commits', remote, events, scanned)
  BY <1>3, <1>6, StaysAwaited
<1>14. e.ref = b /\ e.before = remote[b] /\ e.after = id
       /\ e \in [ref: CloneBranches, before: 0..Len(commits'), after: 0..Len(commits')]
  <2>1. remote[b] \in 0..Len(commits')
    BY <1>10 DEF CleanRefs
  <2> QED BY <1>6, <2>1 DEF Clone!Event
<1> HIDE DEF e
<1>15. Events(commits', events')
  BY <1>2, <1>13, <1>14 DEF Events
<1>16. Awaited(commits', remote', events', scanned')
  <2> SUFFICES ASSUME NEW o \in CloneBranches, NEW x \in Clone!Reach(commits', remote'[o]), x \notin scanned
               PROVE  \E f \in events' : Brings(commits', f, x) /\ (o = MainBranch => f.ref = MainBranch)
    BY <1>2 DEF Awaited
  <2>1. CASE o # b
    <3>1. remote'[o] = remote[o]
      BY <1>2, <1>3, <2>1
    <3> QED BY <1>2, <1>13, <3>1 DEF Awaited
  <2>2. CASE o = b /\ x = id
    BY <1>2, <1>7, <1>8, <1>14, <2>2 DEF Brings
  <2>3. CASE o = b /\ x # id
    <3>1. remote'[o] = id
      BY <1>2, <1>3, <2>3
    <3>2. x \in Clone!Reach(commits, base)
      BY <1>7, <2>3, <3>1
    <3>3. PICK c \in CloneBranches : base = remote[c] /\ (b = MainBranch => c = MainBranch)
      BY <1>0
    <3>4. x \in Clone!Reach(commits', remote[c])
      BY <1>4, <1>6, <3>2, <3>3, KeptHistory
    <3>5. PICK f \in events : Brings(commits', f, x) /\ (c = MainBranch => f.ref = MainBranch)
      BY <1>13, <3>4 DEF Awaited
    <3> QED BY <1>2, <2>3, <3>3, <3>5
  <2> QED BY <2>1, <2>2, <2>3
<1>17. push' \in [Pushers -> PushRecord] /\ push' = push
  BY <1>2 DEF CloneInv
<1> QED BY <1>2, <1>6, <1>9, <1>12, <1>15, <1>16, <1>17, RemoteGoesOn

LEMMA DeleteStep ==
  ASSUME CloneInv, NEW b \in CloneBranches, Clone!DeleteRemote(b)
  PROVE  CloneInv' /\ Clone!KeepsWork
<1>1. /\ remote' = [remote EXCEPT ![b] = 0]
      /\ UNCHANGED <<commits, local, tracking, push, unchecked, events, scanned>>
  BY DEF Clone!DeleteRemote, Clone!None
<1>2. /\ CleanRefs(commits, unchecked, remote) /\ Events(commits, events)
      /\ Awaited(commits, remote, events, scanned) /\ push \in [Pushers -> PushRecord]
      /\ remote \in [CloneBranches -> 0..Len(commits)]
  BY DEF CloneInv, CleanRefs
<1>3. Grown(commits, commits') /\ commits' \in Seq(CommitRow) /\ Len(commits) \in Nat /\ Acyclic(commits)
  BY <1>1, SameCommits, GrownLength
<1>4. Clone!Reach(commits, 0) = {}
  BY <1>3, History
<1>5. \A o \in CloneBranches : remote'[o] = remote[o] \/ remote'[o] = 0
  BY <1>1, <1>2
<1>6. CleanRefs(commits', unchecked', remote')
  <2>1. remote' \in [CloneBranches -> 0..Len(commits')]
    BY <1>1, <1>2, <1>3
  <2>2. Clean(commits, unchecked, 0)
    BY <1>4 DEF Clean, Clone!Blocked
  <2> QED BY <1>1, <1>2, <1>5, <2>1, <2>2 DEF CleanRefs
<1>7. Awaited(commits', remote', events', scanned')
  BY <1>1, <1>2, <1>4, <1>5 DEF Awaited
<1> QED BY <1>1, <1>2, <1>3, <1>6, <1>7, RemoteGoesOn DEF Events

\* The check of an event analyses what the event brings, unless another event of the default
\* branch brings it too.
LEMMA CheckStep ==
  ASSUME CloneInv, NEW e \in events, Clone!RunCheck(e)
  PROVE  CloneInv' /\ Clone!KeepsWork
<1> DEFINE by == Clone!Trusted(e)
           range == Clone!Analysed(e)
<1>1. /\ scanned' = scanned \cup range /\ events' = events \ {e}
      /\ UNCHANGED <<commits, local, tracking, remote, push, unchecked>>
  BY DEF Clone!RunCheck
<1>2. by = e.before \/ (e.ref # MainBranch /\ by = remote[MainBranch]) \/ by = 0
  BY DEF Clone!Trusted, Clone!None
<1>3. \A x : x \in range <=> x \in Clone!Reach(commits, e.after) /\ x \notin Clone!Reach(commits, by)
  BY DEF Clone!Analysed, Clone!Introduced
<1> HIDE DEF by, range
<1>4. /\ CleanRefs(commits, unchecked, remote) /\ Events(commits, events)
      /\ Awaited(commits, remote, events, scanned) /\ push \in [Pushers -> PushRecord]
  BY DEF CloneInv
<1>5. Grown(commits, commits') /\ commits' \in Seq(CommitRow) /\ Acyclic(commits) /\ MainBranch \in CloneBranches
  BY <1>1, SameCommits, GrownLength, FirstCommit
<1>6. Clone!Reach(commits, 0) = {}
  BY <1>5, History
<1>7. ASSUME NEW x, x \notin scanned', Brings(commits, e, x)
      PROVE  e.ref # MainBranch /\ x \in Clone!Reach(commits, remote[MainBranch])
  <2>1. x \in Clone!Reach(commits, by)
    BY <1>1, <1>3, <1>7 DEF Brings
  <2> QED BY <1>2, <1>6, <1>7, <2>1 DEF Brings
<1>8. Awaited(commits, remote, events', scanned')
  <2> SUFFICES ASSUME NEW b \in CloneBranches, NEW x \in Clone!Reach(commits, remote[b]), x \notin scanned'
               PROVE  \E f \in events' : Brings(commits, f, x) /\ (b = MainBranch => f.ref = MainBranch)
    BY DEF Awaited
  <2>1. x \notin scanned
    BY <1>1
  <2>2. PICK f \in events : Brings(commits, f, x) /\ (b = MainBranch => f.ref = MainBranch)
    BY <1>4, <2>1 DEF Awaited
  <2>3. CASE f # e
    BY <1>1, <2>2, <2>3
  <2>4. CASE f = e
    <3>1. e.ref # MainBranch /\ x \in Clone!Reach(commits, remote[MainBranch])
      BY <1>7, <2>2, <2>4
    <3>2. PICK g \in events : Brings(commits, g, x) /\ g.ref = MainBranch
      BY <1>4, <1>5, <2>1, <3>1 DEF Awaited
    <3>3. g \in events'
      BY <1>1, <3>1, <3>2
    <3> QED BY <3>2, <3>3
  <2> QED BY <2>3, <2>4
<1>9. Events(commits', events')
  BY <1>1, <1>4 DEF Events
<1> QED BY <1>1, <1>4, <1>5, <1>8, <1>9, RemoteGoesOn

LEMMA CloneInit == AllInit => CloneInv
<1> SUFFICES ASSUME Clone!Init PROVE CloneInv
  BY DEF AllInit
<1> DEFINE r == [parents |-> {}, kind |-> "clean", work |-> {1}]
           main == [b \in CloneBranches |-> IF b = MainBranch THEN 1 ELSE 0]
<1>1. /\ commits = <<r>> /\ local = main /\ tracking = main /\ remote = main
      /\ push = [p \in Pushers |-> Clone!Idle] /\ events = {} /\ scanned = {1}
  BY DEF Clone!Init, Clone!None
<1>2. r \in CommitRow /\ r.parents = {} /\ r.kind = "clean"
  BY DEF CommitRow, Clone!CommitKinds
<1> HIDE DEF r
<1>3. commits \in Seq(CommitRow) /\ Len(commits) = 1 /\ commits[1] = r
  BY <1>1, <1>2
<1> USE DEF r
<1>4. Acyclic(commits) /\ Commits(commits)
  <2>1. \A i \in 1..Len(commits) : i = 1 /\ commits[i].parents = {}
    BY <1>2, <1>3
  <2> QED BY <1>3, <2>1 DEF Acyclic, Commits
<1> HIDE DEF r
<1>5. Clone!Reach(commits, 0) = {} /\ Clone!Reach(commits, 1) = {1}
  <2>1. 1 \in 1..Len(commits) /\ commits[1].parents = {}
    BY <1>2, <1>3
  <2>2. Clone!Reach(commits, 1) = {1} \cup UNION {Clone!Reach(commits, p) : p \in {}}
    BY <1>4, <2>1, History
  <2> QED BY <1>4, <2>2, History
<1>6. main \in [CloneBranches -> 0..Len(commits)] /\ \A b \in CloneBranches : main[b] \in {0, 1}
  BY <1>3
<1> HIDE DEF main
<1>7. CleanRefs(commits, unchecked, main)
  <2>1. Clean(commits, unchecked, 0) /\ Clean(commits, unchecked, 1)
    BY <1>2, <1>3, <1>5 DEF Clean, Clone!Blocked
  <2> QED BY <1>6, <2>1 DEF CleanRefs
<1>8. Events(commits, events) /\ Awaited(commits, remote, events, scanned)
  BY <1>1, <1>5, <1>6 DEF Events, Awaited
<1>9. push \in [Pushers -> PushRecord] /\ \A p \in Pushers : PushInv(commits, unchecked, push[p])
  BY <1>1, NoPush DEF PushInv
<1> QED BY <1>1, <1>4, <1>6, <1>7, <1>8, <1>9 DEF CloneInv

LEMMA CloneSame == ASSUME CloneInv, UNCHANGED commitVars PROVE CloneInv' /\ Clone!KeepsWork
<1>1. UNCHANGED <<commits, local, tracking, remote, push, unchecked, events, scanned>>
  BY DEF commitVars
<1>2. Grown(commits, commits') /\ commits' \in Seq(CommitRow)
  BY <1>1, SameCommits
<1>3. push' \in [Pushers -> PushRecord] /\ local' \in [CloneBranches -> 0..Len(commits')]
  BY <1>1 DEF CloneInv
<1> QED BY <1>1, <1>2, <1>3, CloneGoesOn, LocalStays

LEMMA CloneStep ==
  ASSUME CloneInv, Clone!Next \/ UNCHANGED commitVars
  PROVE  CloneInv' /\ Clone!KeepsWork
<1>1. CASE Clone!Developer
  BY <1>1, CommitStep, MergeStep, BranchStep, FetchStep, StartStep, PlanStep, StopStep, FixStep,
     MoveStep, SendStep, TrackStep DEF Clone!Developer
<1>2. CASE Clone!Host
  BY <1>2, OthersStep, DeleteStep, CheckStep DEF Clone!Host
<1> QED BY <1>1, <1>2, CloneSame DEF Clone!Next

\* The ranges of the hook and of the checks have no hole.
LEMMA CloneChecked == CloneInv => NothingUnchecked
<1> SUFFICES ASSUME CloneInv PROVE NothingUnchecked
  OBVIOUS
<1>1. CleanRefs(commits, unchecked, remote) /\ Awaited(commits, remote, events, scanned)
  BY DEF CloneInv
<1>2. \A t \in Clone!Tips(remote) : \E b \in CloneBranches : t = remote[b]
  BY DEF Clone!Tips
<1>3. Clone!CheckedBeforePublished
  BY <1>1, <1>2 DEF Clone!CheckedBeforePublished, CleanRefs, Clean
<1>4. Clone!EverythingScanned
  BY <1>1, <1>2 DEF Clone!EverythingScanned, Awaited
<1> QED BY <1>3, <1>4 DEF NothingUnchecked

-----------------------------------------------------------------------------
(* Hooks, commits, posture and pages in the behaviours of MCScans.         *)

\* A step of another component leaves the hooks, the clone and the repositories alone.
LEMMA OtherComponents ==
  ASSUME [AllNext]_allVars
  PROVE  /\ part' = part
         /\ HooksStep \/ UNCHANGED hookVars
         /\ PushedStep \/ RewrittenStep \/ UNCHANGED commitVars
         /\ OneRepositoryStep \/ TwoRepositoriesStep \/ UNCHANGED postureVars
         /\ AgingStep \/ ListedStep \/ ReopenedStep \/ UNCHANGED viewVars
<1>1. CASE ViolationsStep \/ HooksStep \/ ResolvedStep
  BY <1>1 DEF ViolationsStep, HooksStep, ResolvedStep
<1>2. CASE PushedStep \/ RewrittenStep
  BY <1>2 DEF PushedStep, RewrittenStep, CommitsOnly
<1>3. CASE OneRepositoryStep \/ TwoRepositoriesStep
  BY <1>3 DEF OneRepositoryStep, TwoRepositoriesStep, PostureOnly
<1>4. CASE AgingStep \/ ListedStep \/ ReopenedStep
  BY <1>4 DEF AgingStep, ListedStep, ReopenedStep, ViewsOnly
<1>5. CASE UNCHANGED allVars
  BY <1>5 DEF allVars
<1> QED BY <1>1, <1>2, <1>3, <1>4, <1>5 DEF AllNext

\* install_hooks and uninstall_hooks, killed at any step and run again, in any order, never
\* lose a hook the user wrote: it is in place, or preserved beside the managed one. It holds
\* as long as nobody writes a hook file while an operation runs.
THEOREM HooksAreKept == AllSpec => []NothingLost
<1>1. AllInit => HooksInv
  BY HookInit DEF AllInit
<1>2. HooksInv /\ [AllNext]_allVars => HooksInv'
  BY OtherComponents, HookStep DEF HooksStep
<1>3. HooksInv => NothingLost
  BY DEF HooksInv, NothingLost, Hooks!NothingLost
<1> QED BY <1>1, <1>2, <1>3, PTL DEF AllSpec

LEMMA CloneOrOthers ==
  ASSUME [AllNext]_allVars
  PROVE  Clone!Next \/ UNCHANGED commitVars
BY OtherComponents DEF PushedStep, RewrittenStep

\* A commit that a rule blocks is on the remote only if it was pushed past the hook or by
\* somebody else, and when every push event was handled, in whatever order, every commit of
\* every branch was analysed: for any branches, commits and pushers, whatever is fetched,
\* forced, deleted or pushed by others in between.
THEOREM NothingIsUnchecked == AllSpec => []NothingUnchecked
<1>1. AllInit => CloneInv
  BY CloneInit
<1>2. CloneInv /\ [AllNext]_allVars => CloneInv'
  BY CloneOrOthers, CloneStep
<1>3. CloneInv => NothingUnchecked
  BY CloneChecked
<1> QED BY <1>1, <1>2, <1>3, PTL DEF AllSpec

\* Whatever moves a branch of the clone (a commit, an amended one, a merge, or fix_outgoing_commits
\* replacing the blocked commits of a push), the work of its history is still in its history.
THEOREM WorkStaysKept == AllSpec => WorkIsKept
<1>1. AllInit => CloneInv
  BY CloneInit
<1>2. CloneInv /\ [AllNext]_allVars => CloneInv'
  BY CloneOrOthers, CloneStep
<1>3. CloneInv /\ [AllNext]_allVars => [Clone!KeepsWork]_(Clone!vars)
  BY CloneOrOthers, CloneStep
<1> QED BY <1>1, <1>2, <1>3, PTL DEF AllSpec, WorkIsKept, Clone!WorkIsKept

\* What is known of the repositories of the organization that is shown
ShownInv ==
  IF part = "two_repositories" THEN PostureInv(MoreRepos, Refreshes, {"none", "ours"})
  ELSE PostureInv(FewRepos, Refreshes, {"none", "other", "ours"})

\* An organization whose posture is derived as "secure" has an active installation, has given
\* access to every repository and has nothing known against any of them, and a CommitGuard
\* check was required of each while the evidence of it was read: for any repositories and
\* concurrent refreshes, whose two requests see the branch at different moments.
THEOREM SecureIsAlwaysEarned == AllSpec => []SecureIsEarned
<1>1. AllInit => ShownInv
  BY OneRepositoryPosture, TwoRepositoriesPosture, PostureInit DEF AllInit, ShownInv
<1>2. ShownInv /\ [AllNext]_allVars => ShownInv'
  <2> SUFFICES ASSUME ShownInv, [AllNext]_allVars PROVE ShownInv'
    OBVIOUS
  <2>1. CASE part = "two_repositories"
    <3>1. [Postured(MoreRepos, Refreshes, {"none", "ours"}, {"paused"}, 0)!Next]_postureVars
      BY <2>1, OtherComponents, TwoRepositoriesPosture DEF OneRepositoryStep, TwoRepositoriesStep
    <3> QED BY <2>1, <3>1, OtherComponents, PostureStep DEF ShownInv
  <2>2. CASE part # "two_repositories"
    <3>1. [Postured(FewRepos, Refreshes, {"none", "other", "ours"},
          {"paused", "configuration_error", "policy_error", "critical", "monitor",
               "high_exception"},
          MaxFacts)!Next]_postureVars
      BY <2>2, OtherComponents, OneRepositoryPosture DEF OneRepositoryStep, TwoRepositoriesStep
    <3> QED BY <2>2, <3>1, OtherComponents, PostureStep DEF ShownInv
  <2> QED BY <2>1, <2>2
<1>3. ShownInv => SecureIsEarned
  BY OneRepositoryPosture, TwoRepositoriesPosture, PostureEarned DEF ShownInv, SecureIsEarned
<1> QED BY <1>1, <1>2, <1>3, PTL DEF AllSpec

\* What is known of the installation that is shown
PagesInv ==
  CASE part = "listed" -> ViewsInv(ListedPages)
    [] part = "reopened" -> ViewsInv(ReopenedPages)
    [] OTHER -> ViewsInv(AgedPages)

\* Every number of the overview is the length of its list and the sum of the rows, filters
\* find what labels say, a page shows what can be opened, and what is shown is explained by
\* findings, whatever purge_expired has deleted: for any repositories, scans, retention and
\* order of changes, since a session ends before a repository it lists can be forgotten. A
\* violation whose pull request was opened again may have lost its finding.
THEOREM PagesAlwaysAgree == AllSpec => []PagesAgree
<1>0. /\ Period(AgedPages) /\ Period(ListedPages) /\ Period(ReopenedPages)
      /\ Showable(AgedPages) /\ Showable(ListedPages) /\ Showable(ReopenedPages)
      /\ ~AgedPages.reopens /\ ~ListedPages.reopens
  BY ShownInstallations DEF Period, Showable
<1>1. AllInit => PagesInv
  BY <1>0, ViewsInit DEF AllInit, PagesInv
<1>2. PagesInv /\ [AllNext]_allVars => PagesInv'
  <2> SUFFICES ASSUME PagesInv, [AllNext]_allVars PROVE PagesInv'
    OBVIOUS
  <2>1. CASE part = "listed"
    <3>1. Views(ListedPages)!Next \/ UNCHANGED viewVars
      BY <2>1, OtherComponents DEF AgingStep, ListedStep, ReopenedStep
    <3> QED BY <1>0, <2>1, <3>1, OtherComponents, ViewsStep DEF PagesInv
  <2>2. CASE part = "reopened"
    <3>1. Views(ReopenedPages)!Next \/ UNCHANGED viewVars
      BY <2>2, OtherComponents DEF AgingStep, ListedStep, ReopenedStep
    <3> QED BY <1>0, <2>2, <3>1, OtherComponents, ViewsStep DEF PagesInv
  <2>3. CASE part \notin {"listed", "reopened"}
    <3>1. Views(AgedPages)!Next \/ UNCHANGED viewVars
      BY <2>3, OtherComponents DEF AgingStep, ListedStep, ReopenedStep
    <3> QED BY <1>0, <2>3, <3>1, OtherComponents, ViewsStep DEF PagesInv
  <2> QED BY <2>1, <2>2, <2>3
<1>3. PagesInv => PagesAgree
  BY <1>0, ViewsAgree, ViewsExplained DEF PagesInv, PagesAgree
<1> QED BY <1>1, <1>2, <1>3, PTL DEF AllSpec

-----------------------------------------------------------------------------
(* Types of the hooks.                                                     *)

HookTypes == HooksInv /\ setting \in Hooks!Settings /\ writes \in 0..MaxWrites

LEMMA HookTypesInit == Hooks!Init => HookTypes
BY HookInit, CountedBounds DEF HookTypes, Hooks!Init, Hooks!Settings

LEMMA HookTypesStep ==
  ASSUME HookTypes, [Hooks!Next]_hookVars
  PROVE  HookTypes'
<1>1. HooksInv'
  BY HookStep DEF HookTypes
<1>2. setting' \in Hooks!Settings
  <2>1. CASE Hooks!Configure
    BY <2>1 DEF Hooks!Configure, Hooks!NewSetting, Hooks!Settings, HookTypes
  <2>2. CASE ~Hooks!Configure
    BY <2>2 DEF HookTypes, Hooks!Next, hookVars, Hooks!BeginInstall, Hooks!BeginUninstall, Hooks!Begin,
       Hooks!ReadHook, Hooks!InstallNew, Hooks!InstallOver, Hooks!Preserve, Hooks!Wrap, Hooks!Uninstall,
       Hooks!Die, Hooks!EditBlock, Hooks!WriteOwn
  <2> QED BY <2>1, <2>2
<1>3. writes' = writes \/ (writes < MaxWrites /\ writes' = writes + 1)
  BY DEF Hooks!Next, hookVars, Hooks!BeginInstall, Hooks!BeginUninstall, Hooks!Begin,
       Hooks!ReadHook, Hooks!InstallNew, Hooks!InstallOver, Hooks!Preserve, Hooks!Wrap, Hooks!Uninstall,
       Hooks!Configure, Hooks!Die, Hooks!EditBlock, Hooks!WriteOwn, Hooks!MayWrite
<1>4. writes' \in 0..MaxWrites
  BY <1>3, CountedBounds DEF HookTypes
<1> QED BY <1>1, <1>2, <1>4 DEF HookTypes

LEMMA HookTypesHold == HookTypes => Hooks!TypeOK
<1> SUFFICES ASSUME HookTypes PROVE Hooks!TypeOK
  OBVIOUS
<1>1. \A d \in Hooks!Dirs : path[d] \in HookFile /\ chained[d] \in HookFile
  BY DEF HookTypes, HooksInv
<1> QED BY <1>1 DEF HookTypes, HooksInv, HookFile, Hooks!TypeOK

-----------------------------------------------------------------------------
(* Types of the posture.                                                   *)

\* What a refresh is about to store is a status.
PostureTypes(R, F, S, U, M) ==
  /\ PostureInv(R, F, S) /\ Postured(R, F, S, U, M)!TypeOK
  /\ \A f \in F : refresh[f].pc = "store" =>
       refresh[f].rules \in {"required", "not_required", "unknown"}

LEMMA PostureTypesInit ==
  ASSUME NEW CONSTANT R, NEW CONSTANT F, NEW CONSTANT S, NEW CONSTANT U, NEW CONSTANT M,
         "none" \in S, Postured(R, F, S, U, M)!Init
  PROVE  PostureTypes(R, F, S, U, M)
<1>1. PostureInv(R, F, S)
  BY PostureInit
<1>2. Postured(R, F, S, U, M)!TypeOK
  BY DEF Postured!TypeOK, Postured!Init, Postured!Evidence
<1>3. \A f \in F : refresh[f].pc = "idle"
  BY DEF Postured!Init, Postured!Idle
<1> QED BY <1>1, <1>2, <1>3 DEF PostureTypes

LEMMA StoredStatus ==
  ASSUME NEW CONSTANT R, NEW CONSTANT F, NEW CONSTANT S, NEW CONSTANT U, NEW CONSTANT M,
         PostureTypes(R, F, S, U, M), [Postured(R, F, S, U, M)!Next]_postureVars, NEW f \in F,
         refresh'[f].pc = "store"
  PROVE  refresh'[f].rules \in {"required", "not_required", "unknown"}
<1>0. /\ refresh \in [F -> Progress(R, S)]
      /\ refresh[f].pc = "store" => refresh[f].rules \in {"required", "not_required", "unknown"}
      /\ refresh[f] \in Progress(R, S)
  BY DEF PostureTypes, PostureInv
<1>1. CASE refresh' = refresh
  BY <1>0, <1>1
<1>2. ASSUME NEW g \in F, NEW q, refresh' = [refresh EXCEPT ![g] = q],
             q.pc = "store" => q.rules \in {"required", "not_required", "unknown"}
      PROVE  refresh'[f].rules \in {"required", "not_required", "unknown"}
  BY <1>0, <1>2
<1>3. ASSUME NEW g \in F, NEW r \in R, Postured(R, F, S, U, M)!Begin(g, r)
      PROVE  refresh'[f].rules \in {"required", "not_required", "unknown"}
  <2> DEFINE q == [Postured(R, F, S, U, M)!Idle EXCEPT !.pc = "rules", !.repo = r,
                     !.seen = Postured(R, F, S, U, M)!Required(branch[r])]
  <2>1. refresh' = [refresh EXCEPT ![g] = q] /\ q.pc = "rules"
    BY <1>3 DEF Postured!Begin, Postured!Idle
  <2> HIDE DEF q
  <2> QED BY <1>2, <2>1
<1>4. ASSUME NEW g \in F, Postured(R, F, S, U, M)!ReadRules(g)
      PROVE  refresh'[f].rules \in {"required", "not_required", "unknown"}
  <2>1. PICK rules : refresh' = [refresh EXCEPT ![g].pc = "branch", ![g].rules = rules]
    BY <1>4 DEF Postured!ReadRules
  <2>2. g = f => refresh'[f].pc = "branch"
    BY <1>0, <2>1 DEF Progress
  <2>3. g # f => refresh'[f] = refresh[f]
    BY <1>0, <2>1
  <2> QED BY <1>0, <2>2, <2>3
<1>5. ASSUME NEW g \in F, Postured(R, F, S, U, M)!ReadBranch(g)
      PROVE  refresh'[f].rules \in {"required", "not_required", "unknown"}
  <2>1. PICK rules \in {"required", "not_required", "unknown"} :
          refresh' = [refresh EXCEPT ![g].pc = "store", ![g].rules = rules]
    BY <1>5 DEF Postured!ReadBranch, Postured!Classify
  <2>2. g = f => refresh'[f].rules = rules
    BY <1>0, <2>1 DEF Progress
  <2>3. g # f => refresh'[f] = refresh[f]
    BY <1>0, <2>1
  <2> QED BY <1>0, <2>2, <2>3
<1>6. ASSUME NEW g \in F, Postured(R, F, S, U, M)!Store(g) \/ Postured(R, F, S, U, M)!Abandon(g)
      PROVE  refresh'[f].rules \in {"required", "not_required", "unknown"}
  <2>1. /\ refresh' = [refresh EXCEPT ![g] = Postured(R, F, S, U, M)!Idle]
        /\ Postured(R, F, S, U, M)!Idle.pc = "idle"
    BY <1>6 DEF Postured!Store, Postured!Abandon, Postured!Idle
  <2> QED BY <1>2, <2>1
<1>7. ASSUME NEW r \in R, Postured(R, F, S, U, M)!ChangeBranch(r)
      PROVE  refresh'[f].rules \in {"required", "not_required", "unknown"}
  <2>1. refresh'[f].pc = refresh[f].pc /\ refresh'[f].rules = refresh[f].rules
    BY <1>0, <1>7 DEF Postured!ChangeBranch, Progress
  <2> QED BY <1>0, <2>1
<1>8. ASSUME NEW r \in R, Postured(R, F, S, U, M)!ChangeAccess(r) \/ Postured(R, F, S, U, M)!ChangeFacts(r)
      PROVE  refresh' = refresh
  BY <1>8 DEF Postured!ChangeAccess, Postured!ChangeFacts
<1>9. CASE Postured(R, F, S, U, M)!ChangeInstallation \/ UNCHANGED postureVars
  BY <1>1, <1>9 DEF Postured!ChangeInstallation, postureVars
<1> QED BY <1>1, <1>3, <1>4, <1>5, <1>6, <1>7, <1>8, <1>9 DEF Postured!Next

LEMMA PostureTypesStep ==
  ASSUME NEW CONSTANT R, NEW CONSTANT F, NEW CONSTANT S, NEW CONSTANT U, NEW CONSTANT M,
         "none" \in S,
         PostureTypes(R, F, S, U, M), [Postured(R, F, S, U, M)!Next]_postureVars
  PROVE  PostureTypes(R, F, S, U, M)'
<1>0. PostureInv(R, F, S) /\ Postured(R, F, S, U, M)!TypeOK
  BY DEF PostureTypes
<1>1. PostureInv(R, F, S)'
  BY <1>0, PostureStep
<1>2. branch' \in [R -> [rules: S, classic: S]]
  <2>1. \A r \in R : branch'[r] \in [rules: S \cup {"none"}, classic: S \cup {"none"}]
    BY <1>1 DEF PostureInv
  <2>2. S \cup {"none"} = S
    OBVIOUS
  <2> QED BY <1>1, <2>2 DEF PostureInv
<1>3. evidence' \in [R -> Postured(R, F, S, U, M)!Evidence]
  <2>1. ASSUME NEW f \in F, Postured(R, F, S, U, M)!Store(f) PROVE evidence'
               \in [R -> Postured(R, F, S, U, M)!Evidence]
    <3> DEFINE e == [status |-> refresh[f].rules, seen |-> refresh[f].seen]
    <3>1. /\ evidence' = [evidence EXCEPT ![refresh[f].repo] = e]
          /\ refresh[f].rules \in {"required", "not_required", "unknown"}
      BY <2>1 DEF Postured!Store, PostureTypes
    <3>2. refresh[f].seen \in BOOLEAN
      BY <1>0 DEF PostureInv, Progress
    <3>3. e \in Postured(R, F, S, U, M)!Evidence
      BY <3>1, <3>2 DEF Postured!Evidence
    <3> HIDE DEF e
    <3> QED BY <1>0, <3>1, <3>3 DEF Postured!TypeOK
  <2>2. CASE Postured(R, F, S, U, M)!ChangeInstallation
    BY <1>0, <2>2 DEF Postured!ChangeInstallation, Postured!TypeOK, Postured!Evidence
  <2>3. CASE evidence' = evidence
    BY <1>0, <2>3 DEF Postured!TypeOK
  <2> QED BY <2>1, <2>2, <2>3 DEF Postured!Next, Postured!Begin, Postured!ReadRules,
     Postured!ReadBranch, Postured!Abandon, Postured!ChangeBranch, Postured!ChangeAccess,
     Postured!ChangeFacts, postureVars
<1>4. installation' \in {"active", "suspended", "deleted"}
  BY <1>0 DEF Postured!TypeOK, Postured!Next, Postured!Begin, Postured!ReadRules,
     Postured!ReadBranch, Postured!Store, Postured!Abandon, Postured!ChangeBranch,
     Postured!ChangeAccess, Postured!ChangeFacts, Postured!ChangeInstallation, postureVars
<1>5. facts' \in [R -> SUBSET U]
  <2>1. ASSUME NEW r \in R, Postured(R, F, S, U, M)!ChangeFacts(r) PROVE facts' \in [R -> SUBSET U]
    BY <1>0, <2>1 DEF Postured!ChangeFacts, Postured!TypeOK
  <2>2. CASE facts' = facts
    BY <1>0, <2>2 DEF Postured!TypeOK
  <2> QED BY <2>1, <2>2 DEF Postured!Next, Postured!Begin, Postured!ReadRules,
     Postured!ReadBranch, Postured!Store, Postured!Abandon, Postured!ChangeBranch,
     Postured!ChangeAccess, Postured!ChangeInstallation, postureVars
<1>6. \A f \in F : refresh'[f].pc = "store" =>
        refresh'[f].rules \in {"required", "not_required", "unknown"}
  BY StoredStatus
<1>7. Postured(R, F, S, U, M)!TypeOK'
  BY <1>1, <1>2, <1>3, <1>4, <1>5 DEF Postured!TypeOK, PostureInv, Postured!Evidence
<1> QED BY <1>1, <1>6, <1>7 DEF PostureTypes

LEMMA PostureTypesHold ==
  /\ Postured(FewRepos, Refreshes, {"none", "other", "ours"},
       {"paused", "configuration_error", "policy_error", "critical", "monitor", "high_exception"},
       MaxFacts)!TypeOK
     => OneRepository!TypeOK
  /\ Postured(MoreRepos, Refreshes, {"none", "ours"}, {"paused"}, 0)!TypeOK => TwoRepositories!TypeOK
BY Zenon DEF Postured!TypeOK, Postured!Evidence, OneRepository!TypeOK, OneRepository!Evidence,
   TwoRepositories!TypeOK, TwoRepositories!Evidence

-----------------------------------------------------------------------------
(* Types of the pages.                                                     *)

Counted(c) ==
  /\ c.kinds \subseteq {"configuration", "other"} /\ c.scans \in Nat /\ c.time \in Nat
  /\ c.lifetime \in Nat /\ c.retention \in Nat

ViewTypes(c) == Views(c)!TypeOK /\ sequence \in 0..c.scans

LEMMA ViewTypesInit ==
  ASSUME NEW CONSTANT c, Counted(c), Views(c)!Init
  PROVE  ViewTypes(c)
BY DEF Counted, ViewTypes, Views!Init, Views!TypeOK, Views!Times, Views!Never, Views!Ids

LEMMA ScanJobTypes ==
  ASSUME NEW CONSTANT c, Counted(c), ViewTypes(c), Views(c)!ScanStep
  PROVE  jobs' \subseteq Views(c)!Job /\ findings' \subseteq Views(c)!Finding /\ sequence' \in 0..c.scans
<1>0. /\ jobs \subseteq Views(c)!Job /\ findings \subseteq Views(c)!Finding /\ sequence \in 0..c.scans
      /\ now \in Views(c)!Times
  BY DEF ViewTypes, Views!TypeOK
<1>1. ASSUME NEW r \in c.repos, NEW head \in c.heads, Views(c)!Accept(r, head)
      PROVE  jobs' \subseteq Views(c)!Job /\ findings' = findings /\ sequence' \in 0..c.scans
  <2> DEFINE new == [seq |-> sequence + 1, repo |-> r, head |-> head, state |-> "queued", warn |-> FALSE,
                     kind |-> "none", created |-> now, updated |-> now]
             U == Views(c)!Unfinished(r)
  <2>1. /\ jobs' = (jobs \ U) \cup {Views(c)!Cancelled(j, "stale", now) : j \in U} \cup {new}
        /\ sequence < c.scans /\ sequence' = sequence + 1 /\ findings' = findings
    BY <1>1 DEF Views!Accept
  <2>2. sequence + 1 \in 1..c.scans
    BY <1>0, <2>1 DEF Counted
  <2>3. new \in Views(c)!Job
    BY <1>0, <2>2 DEF Views!Job
  <2>4. \A j \in U : Views(c)!Cancelled(j, "stale", now) \in Views(c)!Job
    BY <1>0 DEF Views!Cancelled, Views!Unfinished, Views!Job
  <2> HIDE DEF new, U
  <2> QED BY <1>0, <2>1, <2>2, <2>3, <2>4
<1>2. ASSUME NEW j \in jobs, NEW found \in SUBSET c.rules, NEW action \in Views(c)!Actions,
             Views(c)!Complete(j, found, action)
      PROVE  jobs' \subseteq Views(c)!Job /\ findings' \subseteq Views(c)!Finding /\ sequence' = sequence
  <2> DEFINE done == [j EXCEPT !.state = IF found # {} /\ action = "block" THEN "failed" ELSE "passed",
                               !.warn = found # {} /\ action = "warn", !.updated = now]
             more == {[seq |-> j.seq, violation |-> v, at |-> now] : v \in {j.repo} \X found}
  <2>1. jobs' = (jobs \ {j}) \cup {done} /\ findings' = findings \cup more /\ sequence' = sequence
    BY <1>2 DEF Views!Complete
  <2>2. j \in Views(c)!Job
    BY <1>0
  <2>3. done \in Views(c)!Job
    BY <1>0, <2>2 DEF Views!Job
  <2>4. {j.repo} \X found \subseteq Views(c)!Ids /\ j.seq \in 1..c.scans
    BY <2>2 DEF Views!Job, Views!Ids
  <2>5. more \subseteq Views(c)!Finding
    BY <1>0, <2>4 DEF Views!Finding
  <2> HIDE DEF done, more
  <2> QED BY <1>0, <2>1, <2>3, <2>5
<1>3. ASSUME NEW j \in jobs, NEW kind \in c.kinds, Views(c)!Fail(j, kind)
      PROVE  jobs' \subseteq Views(c)!Job /\ findings' = findings /\ sequence' = sequence
  <2> DEFINE done == [j EXCEPT !.state = "error", !.kind = kind, !.updated = now]
  <2>1. jobs' = (jobs \ {j}) \cup {done} /\ findings' = findings /\ sequence' = sequence
    BY <1>3 DEF Views!Fail
  <2>2. done \in Views(c)!Job
    BY <1>0 DEF Views!Job, Counted
  <2> HIDE DEF done
  <2> QED BY <1>0, <2>1, <2>2
<1> QED BY <1>0, <1>1, <1>2, <1>3 DEF Views!ScanStep

LEMMA OtherJobTypes ==
  ASSUME NEW CONSTANT c, Counted(c), ViewTypes(c),
         \/ Views(c)!ChangeStep \/ Views(c)!SignIn \/ Views(c)!Purge \/ Views(c)!Tick
         \/ UNCHANGED viewVars
  PROVE  jobs' \subseteq Views(c)!Job /\ findings' \subseteq Views(c)!Finding /\ sequence' \in 0..c.scans
<1>0. /\ jobs \subseteq Views(c)!Job /\ findings \subseteq Views(c)!Finding /\ sequence \in 0..c.scans
      /\ now \in Views(c)!Times
  BY DEF ViewTypes, Views!TypeOK
<1>1. ASSUME NEW j \in Views(c)!Job, NEW at \in Views(c)!Times
      PROVE  Views(c)!Cancelled(j, "none", at) \in Views(c)!Job /\ j.updated \in Views(c)!Times
  BY <1>1 DEF Views!Cancelled, Views!Job
<1>2. ASSUME NEW r \in c.repos, Views(c)!RemoveRepository(r)
      PROVE  jobs' \subseteq Views(c)!Job /\ findings' = findings /\ sequence' = sequence
  <2> DEFINE U == Views(c)!Unfinished(r)
  <2>1. U \subseteq jobs
    BY DEF Views!Unfinished
  <2> HIDE DEF U
  <2>2. /\ jobs' = (jobs \ U) \cup {Views(c)!Cancelled(j, "none", j.updated) : j \in U}
        /\ findings' = findings /\ sequence' = sequence
    BY <1>2 DEF Views!RemoveRepository, U
  <2> QED BY <1>0, <1>1, <2>1, <2>2
<1>3. ASSUME NEW state \in {"active", "suspended", "deleted"}, Views(c)!SetInstallation(state)
      PROVE  jobs' \subseteq Views(c)!Job /\ findings' = findings /\ sequence' = sequence
  <2> DEFINE U == UNION {Views(c)!Unfinished(r) : r \in c.repos}
  <2>1. U \subseteq jobs
    BY DEF Views!Unfinished
  <2> HIDE DEF U
  <2>2. /\ jobs' = jobs \/ jobs' = (jobs \ U) \cup {Views(c)!Cancelled(j, "none", now) : j \in U}
        /\ findings' = findings /\ sequence' = sequence
    BY <1>3 DEF Views!SetInstallation, U
  <2> QED BY <1>0, <1>1, <2>1, <2>2
<1>4. CASE Views(c)!Purge
  BY <1>0, <1>4 DEF Views!Purge, Views!KeptJobs, Views!KeptFindings
<1>5. CASE UNCHANGED <<jobs, findings, sequence>>
  BY <1>0, <1>5
<1> QED BY <1>0, <1>2, <1>3, <1>4, <1>5 DEF Views!ChangeStep, Views!SignIn, Views!Tick, viewVars,
     Views!KeepHistory, Views!ClosePullRequest, Views!ReopenPullRequest, Views!Pause,
     Views!AddRepository, Views!Acknowledge, Views!RefreshEvidence

LEMMA ViolationTypes ==
  ASSUME NEW CONSTANT c, Counted(c), ViewTypes(c), Views(c)!Next \/ UNCHANGED viewVars
  PROVE  DOMAIN violations' \subseteq Views(c)!Ids /\ violations' \in [DOMAIN violations' -> Views(c)!Violation]
<1> DEFINE Sound(f) == DOMAIN f \subseteq Views(c)!Ids /\ f \in [DOMAIN f -> Views(c)!Violation]
<1>0. Sound(violations) /\ now \in Views(c)!Times /\ jobs \subseteq Views(c)!Job
  BY DEF ViewTypes, Views!TypeOK
<1>1. ASSUME NEW v \in DOMAIN violations, NEW closed \in BOOLEAN
      PROVE  /\ violations[v] \in Views(c)!Violation
             /\ Views(c)!Ended(v, closed) \in Views(c)!Violation
             /\ [violations[v] EXCEPT !.status = "open", !.ack = FALSE, !.updated = now,
                                      !.closed = FALSE] \in Views(c)!Violation
             /\ [violations[v] EXCEPT !.ack = TRUE, !.updated = now] \in Views(c)!Violation
  BY <1>0, <1>1 DEF Views!Ended, Views!Violation
<1>2. ASSUME NEW j \in jobs, NEW found \in SUBSET c.rules, NEW action \in Views(c)!Actions,
             Views(c)!Complete(j, found, action)
      PROVE  Sound(violations')
  <2> DEFINE ids == {j.repo} \X found
  <2>1. violations' = [v \in DOMAIN violations \cup ids |->
                         IF v \in ids THEN Views(c)!Detected(j, v, action)
                         ELSE IF v[1] = j.repo /\ violations[v].status = "open" THEN Views(c)!Ended(v, FALSE)
                         ELSE violations[v]]
    BY <1>2 DEF Views!Complete
  <2>2. j \in Views(c)!Job
    BY <1>0
  <2>3. ids \subseteq Views(c)!Ids /\ j.seq \in 1..c.scans
    BY <2>2 DEF Views!Job, Views!Ids
  <2>4. \A v \in ids : Views(c)!Detected(j, v, action) \in Views(c)!Violation
    <3>1. \A v \in DOMAIN violations : violations[v].ack \in BOOLEAN
      BY <1>1 DEF Views!Violation
    <3> QED BY <1>0, <2>3, <3>1 DEF Views!Detected, Views!Violation, Views!Actions
  <2> HIDE DEF ids
  <2> QED BY <1>0, <1>1, <2>1, <2>3, <2>4
<1>3. ASSUME NEW r \in c.repos, Views(c)!ClosePullRequest(r) \/ Views(c)!ReopenPullRequest(r)
      PROVE  Sound(violations')
  <2>1. CASE Views(c)!ClosePullRequest(r)
    <3>1. violations' = [v \in DOMAIN violations |->
             IF v[1] = r /\ violations[v].status = "open" THEN Views(c)!Ended(v, TRUE) ELSE violations[v]]
      BY <2>1 DEF Views!ClosePullRequest
    <3> QED BY <1>0, <1>1, <3>1
  <2>2. CASE Views(c)!ReopenPullRequest(r)
    <3>1. violations' = [v \in DOMAIN violations |->
             IF v[1] = r /\ violations[v].closed
               THEN [violations[v] EXCEPT !.status = "open", !.ack = FALSE, !.updated = now, !.closed = FALSE]
               ELSE violations[v]]
      BY <2>2 DEF Views!ReopenPullRequest
    <3> QED BY <1>0, <1>1, <3>1
  <2> QED BY <1>3, <2>1, <2>2
<1>4. ASSUME NEW v \in Views(c)!Ids, Views(c)!Acknowledge(v)
      PROVE  Sound(violations')
  <2>1. violations' = [violations EXCEPT ![v].ack = TRUE, ![v].updated = now] /\ v \in DOMAIN violations
    BY <1>4 DEF Views!Acknowledge, Views!VisibleViolations
  <2>2. violations' = [violations EXCEPT ![v] = [violations[v] EXCEPT !.ack = TRUE, !.updated = now]]
    BY <2>1
  <2> QED BY <1>0, <1>1, <2>1, <2>2
<1>5. CASE Views(c)!Purge
  <2>1. PICK S : S \subseteq DOMAIN violations /\ violations' = [v \in S |-> violations[v]]
    BY <1>5 DEF Views!Purge, Views!KeptViolations
  <2> QED BY <1>0, <1>1, <2>1
<1>6. CASE violations' = violations
  BY <1>0, <1>6
<1> QED BY <1>2, <1>3, <1>4, <1>5, <1>6 DEF Views!Next, Views!ScanStep, Views!ChangeStep, Views!SignIn,
     Views!Tick, viewVars, Views!KeepHistory, Views!Accept, Views!Fail, Views!Pause, Views!RemoveRepository,
     Views!AddRepository, Views!SetInstallation, Views!RefreshEvidence

LEMMA RepositoryTypes ==
  ASSUME NEW CONSTANT c, Counted(c), ViewTypes(c), Views(c)!Next \/ UNCHANGED viewVars
  PROVE  repos' \in [c.repos -> [known: BOOLEAN, listed: BOOLEAN,
                                 removed: Views(c)!Times \cup {-1}, paused: BOOLEAN]]
<1> DEFINE Row == [known: BOOLEAN, listed: BOOLEAN, removed: Views(c)!Times \cup {-1}, paused: BOOLEAN]
<1>0. repos \in [c.repos -> Row] /\ now \in Views(c)!Times
  BY DEF ViewTypes, Views!TypeOK, Views!Never
<1>1. ASSUME NEW r \in c.repos
      PROVE  /\ repos[r] \in Row
             /\ [repos[r] EXCEPT !.listed = FALSE, !.removed = now] \in Row
             /\ [repos[r] EXCEPT !.known = TRUE, !.listed = TRUE, !.removed = -1] \in Row
             /\ [repos[r] EXCEPT !.paused = ~@] \in Row
             /\ [repos[r] EXCEPT !.listed = FALSE, !.removed = IF @ = -1 THEN now ELSE @] \in Row
             /\ [repos[r] EXCEPT !.known = FALSE, !.listed = FALSE, !.paused = FALSE] \in Row
             /\ [repos[r] EXCEPT !.known = FALSE] \in Row
  BY <1>0, <1>1
<1>2. ASSUME NEW r \in c.repos, NEW row \in Row, repos' = [repos EXCEPT ![r] = row]
      PROVE  repos' \in [c.repos -> Row]
  BY <1>0, <1>2
<1> HIDE DEF Row
<1>3. ASSUME NEW r \in c.repos, Views(c)!RemoveRepository(r)
      PROVE  repos' \in [c.repos -> Row]
  <2>1. repos' = [repos EXCEPT ![r] = [repos[r] EXCEPT !.listed = FALSE, !.removed = now]]
    BY <1>3 DEF Views!RemoveRepository
  <2> QED BY <1>1, <1>2, <2>1
<1>4. ASSUME NEW r \in c.repos, Views(c)!AddRepository(r)
      PROVE  repos' \in [c.repos -> Row]
  <2>1. repos' = [repos EXCEPT ![r] = [repos[r] EXCEPT !.known = TRUE, !.listed = TRUE, !.removed = -1]]
    BY <1>4 DEF Views!AddRepository, Views!Never
  <2> QED BY <1>1, <1>2, <2>1
<1>5. ASSUME NEW r \in c.repos, Views(c)!Pause(r)
      PROVE  repos' \in [c.repos -> Row]
  <2>1. repos' = [repos EXCEPT ![r] = [repos[r] EXCEPT !.paused = ~@]]
    BY <1>5 DEF Views!Pause
  <2> QED BY <1>1, <1>2, <2>1
<1>6. ASSUME NEW state \in {"active", "suspended", "deleted"}, Views(c)!SetInstallation(state)
      PROVE  repos' \in [c.repos -> Row]
  <2>1. \/ repos' = repos
        \/ repos' = [r \in c.repos |-> [repos[r] EXCEPT !.listed = FALSE, !.removed = IF @ = -1 THEN now ELSE @]]
    BY <1>6 DEF Views!SetInstallation, Views!Never
  <2> QED BY <1>0, <1>1, <2>1
<1>7. ASSUME Views(c)!Purge PROVE repos' \in [c.repos -> Row]
  <2> DEFINE cutoff == now - c.retention
             orphan == (connection.state = "deleted" /\ connection.updated < cutoff) \/ connection.state = "gone"
             forgotten == Views(c)!Forgotten(cutoff, Views(c)!KeptJobs(cutoff))
  <2>1. repos' = [r \in c.repos |-> IF orphan THEN [repos[r] EXCEPT !.known = FALSE, !.listed = FALSE,
                                                     !.paused = FALSE]
                                    ELSE IF r \in forgotten THEN [repos[r] EXCEPT !.known = FALSE]
                                    ELSE repos[r]]
    BY <1>7 DEF Views!Purge
  <2> HIDE DEF orphan, forgotten
  <2> QED BY <1>1, <2>1
<1>8. ASSUME repos' = repos PROVE repos' \in [c.repos -> Row]
  BY <1>0, <1>8
<1>9. repos' \in [c.repos -> Row]
  BY <1>3, <1>4, <1>5, <1>6, <1>7, <1>8 DEF Views!Next, Views!ScanStep, Views!ChangeStep, Views!SignIn,
     Views!Tick, viewVars, Views!Accept, Views!Complete, Views!Fail,
     Views!ClosePullRequest, Views!ReopenPullRequest, Views!Acknowledge, Views!RefreshEvidence
<1> QED BY <1>9 DEF Row

LEMMA ConnectionTypes ==
  ASSUME NEW CONSTANT c, Counted(c), ViewTypes(c), Views(c)!Next \/ UNCHANGED viewVars
  PROVE  /\ now' \in Views(c)!Times
         /\ connection' \in [state: {"active", "suspended", "deleted", "gone"}, updated: Views(c)!Times]
         /\ required' \in [c.repos -> {"unknown", "required", "not_required"}]
         /\ session' \in [repos: SUBSET c.repos,
                          until: Views(c)!Times \cup (c.time..c.time + c.lifetime)]
<1>0. /\ now \in Views(c)!Times
      /\ connection \in [state: {"active", "suspended", "deleted", "gone"}, updated: Views(c)!Times]
      /\ required \in [c.repos -> {"unknown", "required", "not_required"}]
      /\ session \in [repos: SUBSET c.repos, until: Views(c)!Times \cup (c.time..c.time + c.lifetime)]
  BY DEF ViewTypes, Views!TypeOK
<1>1. CASE Views(c)!SignIn
  <2>1. /\ session' = [repos |-> {r \in c.repos : repos[r].listed}, until |-> now + c.lifetime]
        /\ UNCHANGED <<now, connection, required>>
    BY <1>1 DEF Views!SignIn
  <2>2. now + c.lifetime \in Views(c)!Times \cup (c.time..c.time + c.lifetime)
    BY <1>0 DEF Counted, Views!Times
  <2> QED BY <1>0, <2>1, <2>2
<1>2. CASE Views(c)!Tick
  BY <1>0, <1>2 DEF Views!Tick, Views!Times, Counted
<1>3. CASE Views(c)!Purge
  <2>1. connection' = connection \/ connection' = [connection EXCEPT !.state = "gone"]
    BY <1>3 DEF Views!Purge
  <2>2. connection' \in [state: {"active", "suspended", "deleted", "gone"}, updated: Views(c)!Times]
    BY <1>0, <2>1
  <2>3. required' = required \/ required' = [r \in c.repos |-> "unknown"]
    BY <1>3 DEF Views!Purge
  <2>4. UNCHANGED <<now, session>>
    BY <1>3 DEF Views!Purge, Views!Keep
  <2> QED BY <1>0, <2>2, <2>3, <2>4
<1>4. ASSUME NEW state \in {"active", "suspended", "deleted"}, Views(c)!SetInstallation(state)
      PROVE  /\ connection' \in [state: {"active", "suspended", "deleted", "gone"}, updated: Views(c)!Times]
             /\ UNCHANGED <<now, required, session>>
  BY <1>0, <1>4 DEF Views!SetInstallation, Views!Keep
<1>5. ASSUME NEW r \in c.repos, NEW e \in {"unknown", "required", "not_required"}, Views(c)!RefreshEvidence(r, e)
      PROVE  /\ required' \in [c.repos -> {"unknown", "required", "not_required"}]
             /\ UNCHANGED <<now, connection, session>>
  BY <1>0, <1>5 DEF Views!RefreshEvidence, Views!Keep
<1>6. CASE UNCHANGED <<now, connection, required, session>>
  BY <1>0, <1>6
<1> QED BY <1>0, <1>1, <1>2, <1>3, <1>4, <1>5, <1>6 DEF Views!Next, Views!ScanStep, Views!ChangeStep,
     viewVars, Views!Accept, Views!Complete, Views!Fail, Views!Pause, Views!RemoveRepository,
     Views!AddRepository, Views!ClosePullRequest, Views!ReopenPullRequest, Views!Acknowledge, Views!Keep

LEMMA ViewTypesStep ==
  ASSUME NEW CONSTANT c, Counted(c), ViewTypes(c), Views(c)!Next \/ UNCHANGED viewVars
  PROVE  ViewTypes(c)'
<1>1. jobs' \subseteq Views(c)!Job /\ findings' \subseteq Views(c)!Finding /\ sequence' \in 0..c.scans
  BY ScanJobTypes, OtherJobTypes DEF Views!Next
<1> QED BY <1>1, ViolationTypes, RepositoryTypes, ConnectionTypes DEF ViewTypes, Views!TypeOK, Views!Never,
     Views!Times, Views!Ids, Views!Job, Views!Finding, Views!Violation, Views!Actions

-----------------------------------------------------------------------------
(* Types of the clone.                                                     *)

\* The commits are bounded, and the work they carry is work of commits.
WorkIsKnown(cs) ==
  Len(cs) <= MaxCommits /\ \A c \in 1..Len(cs) : cs[c].work \subseteq 1..Len(cs)

CloneTypes ==
  /\ CloneInv /\ WorkIsKnown(commits)
  /\ push \in [Pushers -> Clone!Push]
  /\ known \cup unchecked \cup scanned \cup accepted \subseteq 1..Len(commits)
  /\ pushes \in 0..MaxPushes

LEMMA RefsOf ==
  ASSUME NEW bs \in SUBSET CloneBranches, NEW f, NEW n \in Nat, n <= MaxCommits, f \in [bs -> 0..n]
  PROVE  f \in Clone!Refs
<1>1. f \in [bs -> 0..MaxCommits]
  <2>1. \A x \in 0..n : x \in 0..MaxCommits
    BY FirstCommit
  <2> QED BY <2>1
<1> QED BY <1>1 DEF Clone!Refs

LEMMA NoRefs ==
  <<>> \in Clone!Refs /\ <<>> \in UNION {[bs -> SUBSET (1..MaxCommits)] : bs \in SUBSET CloneBranches}
<1>1. ASSUME NEW S PROVE <<>> \in UNION {[bs -> S] : bs \in SUBSET CloneBranches}
  <2>1. <<>> \in [1..0 -> S]
    BY EmptySeq, LenProperties
  <2>2. 1..0 = {} /\ {} \in SUBSET CloneBranches
    OBVIOUS
  <2> QED BY <2>1, <2>2
<1> QED BY <1>1 DEF Clone!Refs

LEMMA NoPushType == Clone!Idle \in Clone!Push /\ Clone!Idle.refs = <<>>
BY NoRefs DEF Clone!Idle, Clone!Push

LEMMA HistoryIsCounted ==
  ASSUME CloneInv, NEW t \in 0..Len(commits)
  PROVE  Clone!Reach(commits, t) \subseteq 1..Len(commits)
<1>1. Acyclic(commits) /\ Len(commits) \in Nat
  BY DEF CloneInv, Commits, Acyclic
<1>2. Clone!Reach(commits, t) \subseteq 1..t
  BY <1>1, HistoryIsOlder
<1> QED BY <1>1, <1>2

\* A commit is added, with its own work and that of the commit it replaces.
LEMMA AddedWork ==
  ASSUME CloneInv, WorkIsKnown(commits), NEW r \in CommitRow, r.work \subseteq 1..(Len(commits) + 1),
         r.parents \subseteq 1..Len(commits),
         Len(commits) < MaxCommits, commits' = Append(commits, r)
  PROVE  WorkIsKnown(commits') /\ Len(commits') = Len(commits) + 1 /\ Len(commits) \in Nat
<1>1. /\ Len(commits') = Len(commits) + 1 /\ commits'[Len(commits) + 1] = r
      /\ \A i \in 1..Len(commits) : commits'[i] = commits[i]
      /\ Len(commits) \in Nat
  BY AddCommit DEF CloneInv, Commits, Grown, Acyclic
<1>2. ASSUME NEW c \in 1..Len(commits') PROVE commits'[c].work \subseteq 1..Len(commits')
  <2>1. CASE c = Len(commits) + 1
    BY <1>1, <2>1
  <2>2. CASE c # Len(commits) + 1
    <3>1. c \in 1..Len(commits) /\ commits'[c] = commits[c]
      BY <1>1, <2>2
    <3>2. commits[c].work \subseteq 1..Len(commits)
      BY <3>1 DEF WorkIsKnown
    <3>3. \A x \in 1..Len(commits) : x \in 1..Len(commits')
      BY <1>1
    <3> QED BY <3>1, <3>2, <3>3
  <2> QED BY <2>1, <2>2
<1> QED BY <1>1, <1>2, FirstCommit DEF WorkIsKnown

\* More commits are known as commits are added.
LEMMA StaysCounted ==
  ASSUME CloneTypes, Len(commits') \in Nat, Len(commits) <= Len(commits'),
         NEW S, S \subseteq 1..Len(commits'),
         known' \subseteq known \cup S, unchecked' \subseteq unchecked \cup S,
         scanned' \subseteq scanned \cup S, accepted' \subseteq accepted \cup S
  PROVE  known' \cup unchecked' \cup scanned' \cup accepted' \subseteq 1..Len(commits')
<1>1. Len(commits) \in Nat
  BY DEF CloneTypes, CloneInv, Commits, Acyclic
<1>2. 1..Len(commits) \subseteq 1..Len(commits')
  BY <1>1
<1> QED BY <1>2 DEF CloneTypes

Grows ==
  /\ WorkIsKnown(commits')
  /\ push' \in [Pushers -> Clone!Push]
  /\ known' \cup unchecked' \cup scanned' \cup accepted' \subseteq 1..Len(commits')

LEMMA NewTypes ==
  ASSUME CloneTypes, NEW b \in CloneBranches, NEW parents \in SUBSET (1..Len(commits)),
         NEW kind \in Clone!CommitKinds, NEW work \in SUBSET (1..(Len(commits) + 1)),
         Clone!New(b, parents, kind, work)
  PROVE  Grows
<1> DEFINE r == [parents |-> parents, kind |-> kind, work |-> work]
<1>1. CloneInv /\ WorkIsKnown(commits) /\ Len(commits) \in Nat
  BY DEF CloneTypes, CloneInv, Commits, Acyclic
<1>2. /\ commits' = Append(commits, r) /\ Len(commits) < MaxCommits
      /\ known' = known \cup {Len(commits) + 1} /\ UNCHANGED <<push, unchecked, scanned, accepted>>
  BY DEF Clone!New
<1>3. r \in CommitRow /\ r.work \subseteq 1..(Len(commits) + 1) /\ r.parents \subseteq 1..Len(commits)
  <2>1. parents \in SUBSET Nat /\ work \in SUBSET Nat
    BY <1>1
  <2> QED BY <2>1 DEF CommitRow
<1> HIDE DEF r
<1>4. WorkIsKnown(commits') /\ Len(commits') = Len(commits) + 1
  BY <1>1, <1>2, <1>3, AddedWork
<1>5. known' \cup unchecked' \cup scanned' \cup accepted' \subseteq 1..Len(commits')
  <2>1. {Len(commits) + 1} \subseteq 1..Len(commits') /\ Len(commits') \in Nat /\ Len(commits) <= Len(commits')
    BY <1>1, <1>4
  <2> QED BY <1>2, <2>1, StaysCounted
<1> QED BY <1>2, <1>4, <1>5 DEF Grows, CloneTypes

LEMMA WorkTypes ==
  ASSUME CloneTypes, NEW b \in CloneBranches, NEW o \in CloneBranches,
         Clone!Commit(b) \/ Clone!Amend(b) \/ Clone!Merge(b, o)
  PROVE  Grows
<1>1. /\ local[b] \in 0..Len(commits) /\ local[o] \in 0..Len(commits)
      /\ Len(commits) \in Nat /\ WorkIsKnown(commits) /\ Commits(commits)
  BY DEF CloneTypes, CloneInv, Commits, Acyclic
<1>2. {"line", "identity", "clean"} \subseteq Clone!CommitKinds
  BY DEF Clone!CommitKinds
<1>3. {Len(commits) + 1} \in SUBSET (1..(Len(commits) + 1))
  BY <1>1
<1>4. CASE Clone!Commit(b)
  <2>1. PICK k \in {"line", "identity"} : Clone!New(b, {local[b]}, k, {Len(commits) + 1})
    BY <1>4 DEF Clone!Commit
  <2>2. {local[b]} \in SUBSET (1..Len(commits))
    BY <1>1, <1>4 DEF Clone!Commit, Clone!None
  <2> QED BY <1>2, <1>3, <2>1, <2>2, NewTypes
<1>5. CASE Clone!Amend(b)
  <2> DEFINE P == commits[local[b]].parents
             w == commits[local[b]].work \cup {Len(commits) + 1}
  <2>1. PICK k \in {"line", "identity"} : Clone!New(b, P, k, w)
    BY <1>5 DEF Clone!Amend
  <2>2. local[b] \in 1..Len(commits)
    BY <1>1, <1>5 DEF Clone!Amend, Clone!None
  <2>3. P \subseteq 1..(local[b] - 1) /\ commits[local[b]].work \subseteq 1..Len(commits)
    BY <1>1, <2>2 DEF Commits, Acyclic, WorkIsKnown
  <2>4. P \in SUBSET (1..Len(commits)) /\ w \in SUBSET (1..(Len(commits) + 1))
    BY <1>1, <2>2, <2>3
  <2> HIDE DEF P, w
  <2> QED BY <1>2, <2>1, <2>4, NewTypes
<1>6. CASE Clone!Merge(b, o)
  <2>1. Clone!New(b, {local[b], local[o]}, "clean", {Len(commits) + 1})
    BY <1>6 DEF Clone!Merge
  <2>2. {local[b], local[o]} \in SUBSET (1..Len(commits))
    BY <1>1, <1>6 DEF Clone!Merge, Clone!None
  <2> QED BY <1>2, <1>3, <2>1, <2>2, NewTypes
<1> QED BY <1>4, <1>5, <1>6

\* Commits that are fetched, sent or analysed are part of some history.
LEMMA SeenTypes ==
  ASSUME CloneTypes, commits' = commits, push' \in [Pushers -> Clone!Push],
         NEW S, S \subseteq 1..Len(commits),
         known' \subseteq known \cup S, unchecked' \subseteq unchecked \cup S,
         scanned' \subseteq scanned \cup S, accepted' \subseteq accepted \cup S
  PROVE  Grows
<1>1. Len(commits') \in Nat /\ Len(commits) <= Len(commits') /\ S \subseteq 1..Len(commits')
  BY DEF CloneTypes, CloneInv, Commits, Acyclic
<1>2. known' \cup unchecked' \cup scanned' \cup accepted' \subseteq 1..Len(commits')
  BY <1>1, StaysCounted
<1> QED BY <1>2 DEF Grows, CloneTypes

LEMMA OnePushTypes ==
  ASSUME CloneTypes, NEW p \in Pushers, NEW q \in Clone!Push, push' = [push EXCEPT ![p] = q]
  PROVE  push' \in [Pushers -> Clone!Push]
BY DEF CloneTypes

LEMMA StartTypes ==
  ASSUME CloneTypes, NEW p \in Pushers, NEW verify \in BOOLEAN, NEW force \in BOOLEAN,
         Clone!StartPush(p, verify, force)
  PROVE  Grows
<1>1. PICK bs \in SUBSET CloneBranches :
        push' = [push EXCEPT ![p] =
            [Clone!Idle EXCEPT !.pc = IF verify THEN "hook" ELSE "send", !.verify = verify,
                         !.force = force,
                         !.refs = [b \in bs |-> local[b]], !.old = [b \in bs |-> remote[b]]]]
  BY DEF Clone!StartPush
<1> DEFINE refs == [b \in bs |-> local[b]]
           old == [b \in bs |-> remote[b]]
           q == [Clone!Idle EXCEPT !.pc = IF verify THEN "hook" ELSE "send", !.verify = verify,
                                   !.force = force, !.refs = refs, !.old = old]
<1>2. refs \in [bs -> 0..Len(commits)] /\ old \in [bs -> 0..Len(commits)]
  BY DEF CloneTypes, CloneInv, CleanRefs
<1>3. push' = [push EXCEPT ![p] = q]
  BY <1>1
<1> HIDE DEF refs, old
<1>4. refs \in Clone!Refs /\ old \in Clone!Refs
  BY <1>2, RefsOf DEF CloneTypes, CloneInv, Commits, Acyclic, WorkIsKnown
<1>5. q \in Clone!Push
  BY <1>4, NoPushType DEF Clone!Push
<1> HIDE DEF q
<1>6. push' \in [Pushers -> Clone!Push]
  BY <1>3, <1>5, OnePushTypes
<1> QED BY <1>6, SeenTypes DEF Clone!StartPush

LEMMA PlanTypes ==
  ASSUME CloneTypes, NEW p \in Pushers, Clone!Plan(p)
  PROVE  Grows
<1> DEFINE q == push[p]
           out == [b \in DOMAIN q.refs |-> Clone!Outgoing(q, b)]
<1>1. /\ q.pc = "hook"
      /\ \/ push' = [push EXCEPT ![p] = [q EXCEPT !.pc = "send"]]
         \/ push' = [push EXCEPT ![p] = [q EXCEPT !.pc = "fix", !.outgoing = out]]
      /\ UNCHANGED <<commits, known, unchecked, scanned, accepted>>
  BY DEF Clone!Plan
<1>2. q \in Clone!Push /\ PushInv(commits, unchecked, q) /\ CloneInv /\ Len(commits) \in Nat
  BY DEF CloneTypes, CloneInv, Commits, Acyclic
<1>3. ASSUME NEW b \in DOMAIN q.refs PROVE Clone!Outgoing(q, b) \in SUBSET (1..MaxCommits)
  <2>1. Clone!Outgoing(q, b) \subseteq Clone!Reach(commits, q.refs[b])
    BY <1>1, <1>2, OutgoingIsAll
  <2>2. q.refs[b] \in 0..Len(commits)
    BY <1>1, <1>2 DEF PushInv
  <2>3. Clone!Reach(commits, q.refs[b]) \subseteq 1..Len(commits)
    BY <1>2, <2>2, HistoryIsCounted
  <2>4. \A x \in 1..Len(commits) : x \in 1..MaxCommits
    BY <1>2, FirstCommit DEF CloneTypes, WorkIsKnown
  <2> QED BY <2>1, <2>3, <2>4
<1>4. out \in UNION {[bs -> SUBSET (1..MaxCommits)] : bs \in SUBSET CloneBranches}
  <2>1. DOMAIN q.refs \in SUBSET CloneBranches
    BY <1>1, <1>2 DEF PushInv
  <2>2. out \in [DOMAIN q.refs -> SUBSET (1..MaxCommits)]
    BY <1>3
  <2> HIDE DEF out, q
  <2> QED BY <2>1, <2>2
<1> HIDE DEF out, q
<1>5. [q EXCEPT !.pc = "send"] \in Clone!Push /\ [q EXCEPT !.pc = "fix", !.outgoing = out] \in Clone!Push
  BY <1>2, <1>4 DEF Clone!Push
<1>6. push' \in [Pushers -> Clone!Push]
  BY <1>1, <1>5, OnePushTypes
<1> QED BY <1>1, <1>6, SeenTypes

LEMMA SendTypes ==
  ASSUME CloneTypes, NEW p \in Pushers, Clone!Send(p)
  PROVE  Grows
<1> DEFINE q == push[p]
<1>1. PICK taken \in SUBSET DOMAIN q.refs :
        /\ unchecked' = IF q.verify THEN unchecked
                        ELSE unchecked \cup UNION {Clone!Reach(commits, q.refs[b]) : b \in taken}
        /\ push' = [push EXCEPT ![p] = [q EXCEPT !.pc = "sent", !.new = [b \in taken |-> q.refs[b]]]]
  BY DEF Clone!Send
<1>2. q.pc = "send" /\ UNCHANGED <<commits, known, scanned, accepted>>
  BY DEF Clone!Send
<1>3. q \in Clone!Push /\ PushInv(commits, unchecked, q) /\ CloneInv /\ Len(commits) \in Nat
      /\ Len(commits) <= MaxCommits
  BY DEF CloneTypes, CloneInv, Commits, Acyclic, WorkIsKnown
<1> DEFINE new == [b \in taken |-> q.refs[b]]
           S == UNION {Clone!Reach(commits, q.refs[b]) : b \in taken}
<1>4. taken \in SUBSET CloneBranches /\ \A b \in taken : q.refs[b] \in 0..Len(commits)
  BY <1>2, <1>3 DEF PushInv
<1>5. new \in [taken -> 0..Len(commits)]
  BY <1>4
<1>6. S \subseteq 1..Len(commits)
  BY <1>3, <1>4, HistoryIsCounted
<1>7. push' = [push EXCEPT ![p] = [q EXCEPT !.pc = "sent", !.new = new]]
  BY <1>1
<1>8. unchecked' \subseteq unchecked \cup S
  BY <1>1
<1> HIDE DEF new, S, q
<1>9. new \in Clone!Refs
  BY <1>3, <1>4, <1>5, RefsOf
<1>10. [q EXCEPT !.pc = "sent", !.new = new] \in Clone!Push
  BY <1>3, <1>9 DEF Clone!Push
<1>11. push' \in [Pushers -> Clone!Push]
  BY <1>7, <1>10, OnePushTypes
<1> QED BY <1>2, <1>6, <1>8, <1>11, SeenTypes

LEMMA OthersTypes ==
  ASSUME CloneTypes, NEW b \in CloneBranches, Clone!OthersPush(b)
  PROVE  Grows
<1> DEFINE id == Len(commits) + 1
           base == IF remote[b] = 0 THEN remote[MainBranch] ELSE remote[b]
<1>1. PICK k \in {"line", "identity"} :
        commits' = Append(commits, [parents |-> {base}, kind |-> k, work |-> {id}])
  BY DEF Clone!OthersPush, Clone!None
<1> DEFINE r == [parents |-> {base}, kind |-> k, work |-> {id}]
<1>2. /\ base # 0 /\ Len(commits) < MaxCommits /\ commits' = Append(commits, r)
      /\ unchecked' = unchecked \cup {id} /\ UNCHANGED <<known, push, scanned, accepted>>
  BY <1>1 DEF Clone!OthersPush, Clone!None
<1>3. CloneInv /\ WorkIsKnown(commits) /\ Len(commits) \in Nat
  BY DEF CloneTypes, CloneInv, Commits, Acyclic
<1>4. base \in 1..Len(commits)
  <2>1. remote[b] \in 0..Len(commits) /\ remote[MainBranch] \in 0..Len(commits)
    BY <1>3, FirstCommit DEF CloneInv, CleanRefs
  <2> QED BY <1>2, <1>3, <2>1
<1>5. r \in CommitRow /\ r.work \subseteq 1..id /\ r.parents \subseteq 1..Len(commits)
  BY <1>3, <1>4 DEF CommitRow, Clone!CommitKinds
<1> HIDE DEF r, base
<1>6. WorkIsKnown(commits') /\ Len(commits') = id
  BY <1>2, <1>3, <1>5, AddedWork
<1>7. known' \cup unchecked' \cup scanned' \cup accepted' \subseteq 1..Len(commits')
  <2>1. {id} \subseteq 1..Len(commits') /\ Len(commits') \in Nat /\ Len(commits) <= Len(commits')
    BY <1>3, <1>6
  <2> QED BY <1>2, <2>1, StaysCounted
<1> QED BY <1>2, <1>6, <1>7 DEF Grows, CloneTypes

LEMMA CheckTypes ==
  ASSUME CloneTypes, NEW e \in events, Clone!RunCheck(e)
  PROVE  Grows
<1> DEFINE S == Clone!Reach(commits, e.after)
<1>1. CloneInv /\ e.after \in 0..Len(commits)
  BY DEF CloneTypes, CloneInv, Events
<1>2. Clone!Analysed(e) \subseteq S /\ Clone!LetPass(e) \subseteq S
  BY DEF Clone!Analysed, Clone!Introduced, Clone!LetPass, Clone!Blocked
<1>3. /\ scanned' \subseteq scanned \cup S /\ accepted' \subseteq accepted \cup S
      /\ UNCHANGED <<commits, known, push, unchecked>>
  BY <1>2 DEF Clone!RunCheck
<1>4. S \subseteq 1..Len(commits)
  BY <1>1, HistoryIsCounted
<1> HIDE DEF S
<1>5. push' \in [Pushers -> Clone!Push]
  BY <1>3 DEF CloneTypes
<1> QED BY <1>3, <1>4, <1>5, SeenTypes

LEMMA FetchTypes ==
  ASSUME CloneTypes, Clone!Fetch
  PROVE  Grows
<1> DEFINE S == UNION {Clone!Reach(commits, t) : t \in Clone!Tips(remote)}
<1>1. CloneInv /\ \A t \in Clone!Tips(remote) : t \in 0..Len(commits)
  BY DEF CloneTypes, CloneInv, CleanRefs, Clone!Tips
<1>2. S \subseteq 1..Len(commits)
  BY <1>1, HistoryIsCounted
<1>3. known' = known \cup S /\ UNCHANGED <<commits, push, unchecked, scanned, accepted>>
  BY DEF Clone!Fetch
<1> HIDE DEF S
<1>4. push' \in [Pushers -> Clone!Push]
  BY <1>3 DEF CloneTypes
<1> QED BY <1>2, <1>3, <1>4, SeenTypes

LEMMA IdleTypes ==
  ASSUME CloneTypes, UNCHANGED <<commits, known, unchecked, scanned, accepted>>,
         push' = push \/ \E p \in Pushers : push' = [push EXCEPT ![p] = Clone!Idle]
  PROVE  Grows
<1>1. push' \in [Pushers -> Clone!Push]
  BY NoPushType, OnePushTypes DEF CloneTypes
<1> QED BY <1>1, SeenTypes

\* What the hook rewrites is copied behind the other commits; copies carry the same work.
LEMMA FixTypes ==
  ASSUME CloneTypes, NEW p \in Pushers, Clone!Fix(p)
  PROVE  Grows
<1> DEFINE q == push[p]
           R == Clone!Rewritten(q)
           old == Clone!Ascending(R)
           n == Len(commits)
           copy(c) == n + (CHOOSE i \in DOMAIN old : old[i] = c)
           Remapped(c) == {IF d \in R THEN copy(d) ELSE d : d \in commits[c].parents}
           copies == [i \in DOMAIN old |->
              [parents |-> Remapped(old[i]),
               kind |-> IF commits[old[i]].kind = "line" THEN "clean" ELSE commits[old[i]].kind,
               work |-> commits[old[i]].work]]
           new == [b \in Clone!Targets(q) |-> copy(q.refs[b])]
           C == {copy(c) : c \in R}
<1>1. /\ q.pc = "fix" /\ commits' = commits \o copies /\ Len(commits) + Len(old) <= MaxCommits
      /\ push' = [push EXCEPT ![p].pc = "move", ![p].new = new]
      /\ known' = known \cup C
      /\ UNCHANGED <<unchecked, scanned, accepted>>
  BY Zenon DEF Clone!Fix
<1>2. /\ PushInv(commits, unchecked, q) /\ q \in Clone!Push /\ CloneInv /\ WorkIsKnown(commits)
      /\ n \in Nat /\ commits \in Seq(CommitRow) /\ n <= MaxCommits
  BY DEF CloneTypes, CloneInv, Commits, Acyclic, WorkIsKnown
<1>3. /\ R \subseteq 1..n
      /\ \A b \in Clone!Targets(q) : b \in DOMAIN q.refs /\ q.refs[b] \in R
  BY <1>1, <1>2, RewrittenTips
<1> HIDE DEF R
<1>4. PICK k \in Nat : Enumerates(old, k, R)
  BY <1>2, <1>3, Ascends
<1>5. /\ DOMAIN old = 1..k /\ old \in [1..k -> R] /\ \A i \in 1..k : old[i] \in 1..n
      /\ \A x \in R : \E i \in 1..k : old[i] = x
  BY <1>3, <1>4 DEF Enumerates
<1>6. Len(old) = k
  <2>1. old \in Seq(R)
    BY <1>5
  <2> HIDE DEF old
  <2> QED BY <1>5, <2>1, LenProperties
<1> HIDE DEF old, q
<1>7. ASSUME NEW c \in R PROVE copy(c) \in (n + 1)..(n + k)
  <2>1. (CHOOSE i \in DOMAIN old : old[i] = c) \in 1..k
    BY <1>5
  <2> QED BY <1>2, <2>1
<1> HIDE DEF copy
<1> HIDE DEF Remapped
<1>8. /\ Len(commits') = n + k
      /\ \A i \in 1..(n + k) : commits'[i] = IF i <= n THEN commits[i] ELSE copies[i - n]
  <2> DEFINE S == CommitRow \cup {copies[i] : i \in 1..k}
  <2>1. DOMAIN copies = 1..k /\ copies = [i \in 1..k |-> copies[i]]
    BY <1>5
  <2> HIDE DEF copies
  <2>2. copies \in Seq(S) /\ Len(copies) = k
    BY <2>1
  <2>3. commits \in Seq(S)
    <3>1. \A i \in 1..n : commits[i] \in S
      BY <1>2, ElementOfSeq
    <3>2. commits \in [1..n -> CommitRow]
      BY <1>2, LenProperties
    <3>3. commits = [i \in 1..n |-> commits[i]]
      BY <3>2
    <3> HIDE DEF S, n
    <3> QED BY <1>2, <3>1, <3>3
  <2> HIDE DEF S
  <2> QED BY <1>1, <2>2, <2>3, ConcatProperties
<1>9. \A i \in 1..k : copies[i].work = commits[old[i]].work
  BY <1>5
<1> HIDE DEF copies
<1>10. WorkIsKnown(commits')
  <2>1. ASSUME NEW c \in 1..(n + k) PROVE commits'[c].work \subseteq 1..(n + k)
    <3>1. \E d \in 1..n : commits'[c].work = commits[d].work
      <4>1. CASE c <= n
        <5>1. c \in 1..n
          BY <1>2, <4>1
        <5> QED BY <1>8, <4>1, <5>1
      <4>2. CASE ~(c <= n)
        <5>1. c - n \in 1..k
          BY <1>2, <4>2
        <5>2. commits'[c] = copies[c - n]
          BY <1>8, <4>2
        <5>3. copies[c - n].work = commits[old[c - n]].work /\ old[c - n] \in 1..n
          BY <1>5, <1>9, <5>1
        <5> QED BY <5>2, <5>3
      <4> QED BY <4>1, <4>2
    <3>2. \A d \in 1..n : commits[d].work \subseteq 1..n
      BY <1>2 DEF WorkIsKnown
    <3>3. \A x \in 1..n : x \in 1..(n + k)
      BY <1>2
    <3> QED BY <3>1, <3>2, <3>3
  <2> QED BY <1>1, <1>6, <1>8, <2>1 DEF WorkIsKnown
<1>11. C \subseteq 1..Len(commits') /\ Len(commits') \in Nat /\ Len(commits) <= Len(commits')
  <2>1. \A x \in (n + 1)..(n + k) : x \in 1..(n + k)
    BY <1>2
  <2> QED BY <1>2, <1>7, <1>8, <2>1
<1>12. known' \cup unchecked' \cup scanned' \cup accepted' \subseteq 1..Len(commits')
  <2> HIDE DEF C
  <2> QED BY <1>1, <1>11, StaysCounted
<1>13. new \in Clone!Refs
  <2>1. Clone!Targets(q) \in SUBSET CloneBranches
    BY <1>1, <1>2, <1>3 DEF PushInv
  <2>2. \A b \in Clone!Targets(q) : new[b] \in 0..(n + k)
    <3>1. \A x \in (n + 1)..(n + k) : x \in 0..(n + k)
      BY <1>2
    <3> QED BY <1>3, <1>7, <3>1
  <2>3. new \in [Clone!Targets(q) -> 0..(n + k)]
    BY <2>2
  <2>4. n + k \in Nat /\ n + k <= MaxCommits
    BY <1>1, <1>2, <1>6
  <2> HIDE DEF new, n
  <2> QED BY <2>1, <2>3, <2>4, RefsOf
<1> HIDE DEF new
<1>14. [q EXCEPT !.pc = "move", !.new = new] \in Clone!Push
  BY <1>2, <1>13 DEF Clone!Push
<1>15. push' = [push EXCEPT ![p] = [q EXCEPT !.pc = "move", !.new = new]]
  BY <1>1 DEF q, CloneTypes
<1>16. push' \in [Pushers -> Clone!Push]
  BY <1>14, <1>15, OnePushTypes
<1> QED BY <1>10, <1>12, <1>16 DEF Grows

LEMMA CloneTypesStep ==
  ASSUME CloneTypes, Clone!Next \/ UNCHANGED commitVars
  PROVE  CloneTypes'
<1>1. CloneInv'
  BY CloneStep DEF CloneTypes
<1>2. Grows
  <2>1. CASE Clone!Developer
    <3>1. ASSUME NEW p \in Pushers, Clone!Stop(p) \/ Clone!Move(p) \/ Clone!Track(p) PROVE Grows
      BY <3>1, IdleTypes DEF Clone!Stop, Clone!Move, Clone!Track
    <3>2. ASSUME NEW b \in CloneBranches, NEW o \in CloneBranches, Clone!Branch(b, o) PROVE Grows
      BY <3>2, IdleTypes DEF Clone!Branch
    <3> QED BY <2>1, <3>1, <3>2, WorkTypes, FetchTypes, StartTypes, PlanTypes, FixTypes, SendTypes
         DEF Clone!Developer
  <2>2. CASE Clone!Host
    <3>1. ASSUME NEW b \in CloneBranches, Clone!DeleteRemote(b) PROVE Grows
      BY <3>1, IdleTypes DEF Clone!DeleteRemote
    <3> QED BY <2>2, <3>1, OthersTypes, CheckTypes DEF Clone!Host
  <2>3. CASE UNCHANGED commitVars
    BY <2>3, IdleTypes DEF commitVars
  <2> QED BY <2>1, <2>2, <2>3 DEF Clone!Next
<1>3. pushes' = pushes \/ (pushes < MaxPushes /\ pushes' = pushes + 1)
  BY DEF Clone!Next, Clone!Developer, Clone!Host, commitVars, Clone!Commit, Clone!Amend, Clone!Merge,
     Clone!New, Clone!Branch, Clone!Fetch, Clone!StartPush, Clone!Plan, Clone!Stop, Clone!Fix, Clone!Move,
     Clone!Send, Clone!Track, Clone!OthersPush, Clone!DeleteRemote, Clone!RunCheck
<1>4. pushes' \in 0..MaxPushes
  BY <1>3, CountedBounds DEF CloneTypes
<1> QED BY <1>1, <1>2, <1>4 DEF CloneTypes, Grows

LEMMA CloneTypesInit == AllInit => CloneTypes
<1> SUFFICES ASSUME AllInit PROVE CloneTypes
  OBVIOUS
<1>1. Clone!Init /\ CloneInv
  BY CloneInit DEF AllInit
<1>2. /\ Len(commits) = 1 /\ commits[1].work = {1}
  BY <1>1 DEF Clone!Init
<1>3. WorkIsKnown(commits)
  BY <1>2, FirstCommit DEF WorkIsKnown
<1>4. /\ known = {1} /\ unchecked = {} /\ scanned = {1} /\ accepted = {} /\ pushes = 0
      /\ push = [p \in Pushers |-> Clone!Idle]
  BY <1>1 DEF Clone!Init
<1>5. push \in [Pushers -> Clone!Push]
  BY <1>4, NoPushType
<1> QED BY <1>1, <1>2, <1>3, <1>4, <1>5, CountedBounds DEF CloneTypes

LEMMA CloneTypesHold == CloneTypes => Clone!TypeOK
<1> SUFFICES ASSUME CloneTypes PROVE Clone!TypeOK
  OBVIOUS
<1>1. CloneInv /\ WorkIsKnown(commits) /\ Commits(commits) /\ Len(commits) \in Nat
  BY DEF CloneTypes, CloneInv, Commits, Acyclic
<1>2. ASSUME NEW c \in 1..Len(commits)
      PROVE  commits[c] \in Clone!CommitRecord /\ commits[c].parents \subseteq 1..Len(commits)
  <2>1. commits[c] \in CommitRow
    BY <1>1, ElementOfSeq DEF Commits
  <2>2. commits[c].parents \subseteq 1..Len(commits)
    <3>1. commits[c].parents \subseteq 1..(c - 1)
      BY <1>1 DEF Commits, Acyclic
    <3>2. \A x \in 1..(c - 1) : x \in 1..Len(commits)
      BY <1>1
    <3> QED BY <3>1, <3>2
  <2>3. commits[c].work \subseteq 1..Len(commits)
    BY <1>1 DEF WorkIsKnown
  <2>4. \A x \in 1..Len(commits) : x \in 1..MaxCommits
    BY <1>1, FirstCommit DEF WorkIsKnown
  <2>5. commits[c].parents \in SUBSET (1..MaxCommits) /\ commits[c].work \in SUBSET (1..MaxCommits)
    BY <2>2, <2>3, <2>4
  <2> QED BY <2>1, <2>2, <2>5 DEF CommitRow, Clone!CommitRecord
<1>3. UNION {known, unchecked, scanned, accepted} \subseteq 1..Len(commits)
  BY DEF CloneTypes
<1>4. \A refs \in {local, tracking, remote} : refs \in [CloneBranches -> 0..Len(commits)]
  BY <1>1 DEF CloneInv, CleanRefs
<1>5. push \in [Pushers -> Clone!Push] /\ pushes \in 0..MaxPushes
  BY DEF CloneTypes
<1> QED BY <1>2, <1>3, <1>4, <1>5, Zenon DEF Clone!TypeOK, Clone!Ids

-----------------------------------------------------------------------------
(* Types in the behaviours of MCScans.                                     *)

ShownTypes ==
  IF part = "two_repositories"
    THEN PostureTypes(MoreRepos, Refreshes, {"none", "ours"}, {"paused"}, 0)
    ELSE PostureTypes(FewRepos, Refreshes, {"none", "other", "ours"},
           {"paused", "configuration_error", "policy_error", "critical", "monitor", "high_exception"},
           MaxFacts)

PageTypes ==
  CASE part = "listed" -> ViewTypes(ListedPages)
    [] part = "reopened" -> ViewTypes(ReopenedPages)
    [] OTHER -> ViewTypes(AgedPages)

ScanTypes == Inv /\ CloneTypes /\ HookTypes /\ ShownTypes /\ PageTypes /\ part \in Parts

LEMMA PagesAreCounted == Counted(AgedPages) /\ Counted(ListedPages) /\ Counted(ReopenedPages)
BY ShownInstallations DEF Counted

LEMMA ScanTypesInit == AllInit => ScanTypes
<1> SUFFICES ASSUME AllInit PROVE ScanTypes
  OBVIOUS
<1>1. Inv /\ CloneTypes /\ HookTypes
  BY InvInit, CloneTypesInit, HookTypesInit DEF AllInit
<1>2. ShownTypes
  BY OneRepositoryPosture, TwoRepositoriesPosture, PostureTypesInit DEF AllInit, ShownTypes
<1>3. PageTypes
  BY PagesAreCounted, ViewTypesInit DEF AllInit, PageTypes
<1> QED BY <1>1, <1>2, <1>3 DEF ScanTypes, AllInit

LEMMA ScanTypesStep ==
  ASSUME ScanTypes, [AllNext]_allVars
  PROVE  ScanTypes'
<1>0. /\ part' = part
      /\ ViolationsStep \/ UNCHANGED violationVars
  BY DEF AllNext, allVars, ViolationsStep, PushedStep, RewrittenStep, HooksStep, CommitsOnly,
     OneRepositoryStep, TwoRepositoriesStep, PostureOnly, AgingStep, ListedStep, ReopenedStep,
     ViewsOnly, ResolvedStep
<1>1. Inv'
  BY <1>0, InvStep DEF ScanTypes, ViolationsStep, violationVars
<1>2. CloneTypes' /\ HookTypes'
  BY OtherComponents, CloneOrOthers, CloneTypesStep, HookTypesStep DEF ScanTypes, HooksStep
<1>3. ShownTypes'
  <2>1. CASE part = "two_repositories"
    <3>1. [Postured(MoreRepos, Refreshes, {"none", "ours"}, {"paused"}, 0)!Next]_postureVars
      BY <2>1, OtherComponents, TwoRepositoriesPosture DEF OneRepositoryStep, TwoRepositoriesStep
    <3> QED BY <1>0, <2>1, <3>1, PostureTypesStep DEF ScanTypes, ShownTypes
  <2>2. CASE part # "two_repositories"
    <3>1. [Postured(FewRepos, Refreshes, {"none", "other", "ours"},
          {"paused", "configuration_error", "policy_error", "critical", "monitor",
               "high_exception"},
          MaxFacts)!Next]_postureVars
      BY <2>2, OtherComponents, OneRepositoryPosture DEF OneRepositoryStep, TwoRepositoriesStep
    <3> QED BY <1>0, <2>2, <3>1, PostureTypesStep DEF ScanTypes, ShownTypes
  <2> QED BY <2>1, <2>2
<1>4. PageTypes'
  <2>1. CASE part = "listed"
    <3>1. Views(ListedPages)!Next \/ UNCHANGED viewVars
      BY <2>1, OtherComponents DEF AgingStep, ListedStep, ReopenedStep
    <3> QED BY <1>0, <2>1, <3>1, PagesAreCounted, ViewTypesStep DEF ScanTypes, PageTypes
  <2>2. CASE part = "reopened"
    <3>1. Views(ReopenedPages)!Next \/ UNCHANGED viewVars
      BY <2>2, OtherComponents DEF AgingStep, ListedStep, ReopenedStep
    <3> QED BY <1>0, <2>2, <3>1, PagesAreCounted, ViewTypesStep DEF ScanTypes, PageTypes
  <2>3. CASE part \notin {"listed", "reopened"}
    <3>1. Views(AgedPages)!Next \/ UNCHANGED viewVars
      BY <2>3, OtherComponents DEF AgingStep, ListedStep, ReopenedStep
    <3> QED BY <1>0, <2>3, <3>1, PagesAreCounted, ViewTypesStep DEF ScanTypes, PageTypes
  <2> QED BY <2>1, <2>2, <2>3
<1> QED BY <1>0, <1>1, <1>2, <1>3, <1>4 DEF ScanTypes

\* The variables of every component that a behaviour is one of have their types: what is
\* counted stays within its bounds, what a refresh stores is a status, the records of a push
\* name commits that exist, and no page lists a scan, a finding or a repository that the
\* tables cannot hold.
THEOREM ScansTyped == AllSpec => []Types
<1>1. AllInit => ScanTypes
  BY ScanTypesInit
<1>2. ScanTypes /\ [AllNext]_allVars => ScanTypes'
  BY ScanTypesStep
<1>3. ScanTypes /\ Resolved!TypeOK => Types
  <2> SUFFICES ASSUME ScanTypes, Resolved!TypeOK PROVE Types
    OBVIOUS
  <2>1. TypeOK /\ Clone!TypeOK /\ Hooks!TypeOK
    BY CloneTypesHold, HookTypesHold DEF ScanTypes, Inv
  <2>2. /\ part = "two_repositories" => TwoRepositories!TypeOK
        /\ part # "two_repositories" => OneRepository!TypeOK
    BY PostureTypesHold DEF ScanTypes, ShownTypes, PostureTypes
  <2>3. /\ part = "listed" => Views(ListedPages)!TypeOK
        /\ part = "reopened" => Views(ReopenedPages)!TypeOK
        /\ part \notin {"listed", "reopened"} => Views(AgedPages)!TypeOK
    BY DEF ScanTypes, PageTypes, ViewTypes
  <2> QED BY <2>1, <2>2, <2>3 DEF Types, ScanTypes, Parts
<1> QED BY <1>1, <1>2, <1>3, Resolution, ResolvedTypes, PTL DEF AllSpec
=============================================================================
