------------------------------ MODULE Violations ------------------------------
(***************************************************************************)
(* The violation lifecycle of one repository (controlplane/results.py):    *)
(* where every tracked finding is exposed, and whether the violation is    *)
(* open or resolved.  Scans complete in any order; GitHub's lifecycle      *)
(* events (close, merge, reopen, delete, destroy) arrive in between.       *)
(*                                                                         *)
(* A violation stands for the finding and the commit that carries it.  A   *)
(* scan is its sequence number.  Its head is abstracted to the violations  *)
(* whose commits the head contains, its range to those it reports.         *)
(***************************************************************************)
EXTENDS Integers, Sequences

CONSTANTS
  Findings,      \* fingerprints of tracked findings (action block or warn)
  PullRequests, Branches, MergeGroups,   \* the groups of scans
  MaxScans,      \* bound: scans
  Acknowledging  \* do security managers acknowledge violations?

Groups == PullRequests \cup Branches \cup MergeGroups

ASSUME GroupsAssumption ==
  /\ PullRequests \cap Branches = {}
  /\ MergeGroups \cap (PullRequests \cup Branches) = {}
  /\ MaxScans \in Nat
  /\ Acknowledging \in BOOLEAN

VARIABLES
  scans,     \* scan jobs whose worker has started, in sequence order
  exposure,  \* table violation_exposures: active, or the reason it was closed
  status,    \* violations.status; "none" before the violation is stored
  ack,       \* violations.acknowledged_at is set
  group      \* has the pull request, branch or merge group ended?

vars == <<scans, exposure, status, ack, group>>

-----------------------------------------------------------------------------
Scan == [group : Groups,
         head  : SUBSET Findings,   \* whose commits are reachable from the head
         finds : SUBSET Findings,   \* whose commits are in the scanned range
         gone  : SUBSET Findings,   \* found unreachable before the transaction
         state : {"running", "recording", "completed", "ended"}]

ExposureState == {"none", "active", "absent", "closed", "ended"}

TypeOK ==
  /\ scans \in Seq(Scan) /\ Len(scans) <= MaxScans
  /\ exposure \in [Findings -> [Groups -> ExposureState]]
  /\ status \in [Findings -> {"none", "open", "resolved"}]
  /\ ack \in [Findings -> BOOLEAN]
  /\ group \in [Groups -> {"open", "closed", "ended"}]

Init ==
  /\ scans = <<>>
  /\ exposure = [v \in Findings |-> [g \in Groups |-> "none"]]
  /\ status = [v \in Findings |-> "none"]
  /\ ack = [v \in Findings |-> FALSE]
  /\ group = [g \in Groups |-> "open"]

ScanIds == DOMAIN scans

Active(v, g) == exposure[v][g] = "active"
Exposed(v, e) == \E g \in Groups : e[v][g] = "active"

-----------------------------------------------------------------------------
(* Status of violations.                                                   *)

\* Mutant: only violations without any exposure left are looked at.
RefreshResolvedOnly(st, e, touched) ==
  [v \in Findings |-> IF v \in touched /\ ~Exposed(v, e) /\ st[v] = "open"
                        THEN "resolved" ELSE st[v]]

\* Mutant: the displayed status "acknowledged" is stored.
RefreshDisplayed(st, e, touched) ==
  [v \in Findings |-> IF v \in touched /\ ~Exposed(v, e) /\ st[v] = "open" THEN "resolved"
                      ELSE IF v \in touched /\ Exposed(v, e) /\ ack[v] THEN "acknowledged"
                      ELSE st[v]]

\* _refresh_statuses: the status that follows from the exposures e.
Refresh(st, e, touched) ==
  [v \in Findings |->
     IF v \in touched /\ ~Exposed(v, e) /\ st[v] = "open" THEN "resolved"
     ELSE IF v \in touched /\ Exposed(v, e) /\ st[v] = "resolved" THEN "open"
     ELSE st[v]]

\* Reopening clears the acknowledgement (_refresh_statuses, _upsert_violation).
ClearReopened(old, new) ==
  [v \in Findings |-> ack[v] /\ ~(old[v] = "resolved" /\ new[v] = "open")]

\* The new exposures e, and the statuses and acknowledgements they lead to.
Update(e, touched) ==
  /\ exposure' = e
  /\ status' = Refresh(status, e, touched)
  /\ ack' = ClearReopened(status, Refresh(status, e, touched))

-----------------------------------------------------------------------------
(* Scans.                                                                  *)

IsLast(i) == \A j \in ScanIds : scans[j].group = scans[i].group => j <= i

\* What the newest earlier push to a branch contained (its before commit).
Before(g) == UNION {scans[i].head : i \in {i \in ScanIds : scans[i].group = g /\ IsLast(i)}}

AddScan(g, head) ==
  /\ Len(scans) < MaxScans
  /\ scans' = Append(scans, [group |-> g, head |-> head, gone |-> {}, state |-> "running",
                             finds |-> IF g \in Branches THEN head \ Before(g) ELSE head])

\* A worker starts a scan of a group that has not ended.  Pull request scans
\* cover base..head, push scans only the commits that are new on the branch.
StartScan(g, head) ==
  /\ group[g] = "open"
  /\ AddScan(g, head)
  /\ UNCHANGED <<exposure, status, ack, group>>

\* _unreachable_branch_exposures: reads the active exposures of a branch and
\* asks Git, outside of the transaction; what Git cannot tell stays active.
CheckReachable(i) ==
  LET s == scans[i]
      absent == {v \in Findings : Active(v, s.group) /\ v \notin s.finds \cup s.head}
  IN /\ s.state = "running"
     /\ \E gone \in (IF s.group \in Branches THEN SUBSET absent ELSE {{}}) :
          scans' = [scans EXCEPT ![i].state = "recording", ![i].gone = gone]
     /\ UNCHANGED <<exposure, status, ack, group>>

\* Mutant: scans of the group that completed before are not looked at.
NeverStale(i) == FALSE

\* _newer_scan_completed
Stale(i) == \E j \in ScanIds : /\ j > i /\ scans[j].group = scans[i].group
                               /\ scans[j].state = "completed"

\* Mutant: absence from a scan ends the exposure in any group.
ClosedByAlways(s) == {v \in Findings : Active(v, s.group) /\ v \notin s.finds}

\* _close_absent_exposures: what a scan ends in its group.
ClosedBy(s) ==
  {v \in Findings : /\ Active(v, s.group) /\ v \notin s.finds
                    /\ s.group \in PullRequests \/ v \in s.gone}

\* _upsert_violation: the status of a stored finding before the refresh.
Upsert(s, stale) ==
  [v \in Findings |->
     IF v \in s.finds /\ (status[v] = "none" \/ (status[v] = "resolved" /\ ~stale))
       THEN "open" ELSE status[v]]

\* record_completed: findings, exposures and statuses in one transaction.
RecordCompleted(i) ==
  LET s == scans[i]
      stale == Stale(i)
      e == [v \in Findings |-> [g \in Groups |->
              IF stale \/ g # s.group THEN exposure[v][g]
              ELSE IF v \in s.finds THEN "active"
              ELSE IF v \in ClosedBy(s) THEN "absent" ELSE exposure[v][g]]]
      touched == s.finds \cup IF stale THEN {} ELSE ClosedBy(s)
      upserted == Upsert(s, stale)
  IN /\ s.state = "recording"
     /\ scans' = [scans EXCEPT ![i].state = "completed"]
     /\ exposure' = e
     /\ status' = Refresh(upserted, e, touched)
     /\ ack' = ClearReopened(status, upserted)
     /\ UNCHANGED group

\* The scan is cancelled or fails: it changes no violation.
ScanEnds(i) ==
  /\ scans[i].state \in {"running", "recording"}
  /\ scans' = [scans EXCEPT ![i].state = "ended"]
  /\ UNCHANGED <<exposure, status, ack, group>>

-----------------------------------------------------------------------------
(* GitHub's lifecycle events.                                              *)

ActiveIn(g) == {v \in Findings : Active(v, g)}

\* Every active exposure in g is closed; if the group was merged, its
\* violations are exposed on the base branch (_activate_exposure_row).
EndedExposure(g, reason, bases) ==
  [v \in Findings |-> [h \in Groups |->
     IF v \in ActiveIn(g) /\ h \in bases THEN "active"
     ELSE IF v \in ActiveIn(g) /\ h = g THEN reason
     ELSE exposure[v][h]]]

EndGroup(g, state, reason, bases) ==
  /\ group' = [group EXCEPT ![g] = state]
  /\ Update(EndedExposure(g, reason, bases), ActiveIn(g))
  /\ UNCHANGED scans

\* pull_request_closed(merged=False)
PullRequestClosed(g) ==
  /\ g \in PullRequests /\ group[g] = "open"
  /\ EndGroup(g, "closed", "closed", {})

\* pull_request_closed(merged=True)
PullRequestMerged(g, base) ==
  /\ g \in PullRequests /\ group[g] = "open"
  /\ EndGroup(g, "ended", "ended", {base})

\* merge_group_destroyed, merged into a branch or not
MergeGroupDestroyed(g, bases) ==
  /\ g \in MergeGroups /\ group[g] = "open"
  /\ EndGroup(g, "ended", "ended", bases)

\* branch_deleted
BranchDeleted(g) ==
  /\ g \in Branches /\ group[g] = "open"
  /\ EndGroup(g, "ended", "ended", {})

\* pull_request_reopened: the commits are those of the newest scan, so nothing
\* is scanned again and what closing the pull request ended is restored.
Restored(g) == {v \in Findings : exposure[v][g] = "closed"}

PullRequestReopened(g) ==
  /\ g \in PullRequests /\ group[g] = "closed"
  /\ \E i \in ScanIds : scans[i].group = g /\ IsLast(i) /\ scans[i].state # "ended"
  /\ group' = [group EXCEPT ![g] = "open"]
  /\ Update([v \in Findings |-> [h \in Groups |->
               IF h = g /\ v \in Restored(g) THEN "active" ELSE exposure[v][h]]],
            Restored(g))
  /\ UNCHANGED scans

\* A pull request is reopened with another head or base: it is scanned.
ReopenedChanged(g, head) ==
  /\ g \in PullRequests /\ group[g] = "closed"
  /\ group' = [group EXCEPT ![g] = "open"]
  /\ AddScan(g, head)
  /\ UNCHANGED <<exposure, status, ack>>

-----------------------------------------------------------------------------
(* Commands of security managers (controlplane/commands.py).               *)

Acknowledge(v) ==
  /\ Acknowledging
  /\ status[v] = "open"
  /\ ack' = [ack EXCEPT ![v] = TRUE]
  /\ UNCHANGED <<scans, exposure, status, group>>

RemoveAcknowledgement(v) ==
  /\ ack[v]
  /\ ack' = [ack EXCEPT ![v] = FALSE]
  /\ UNCHANGED <<scans, exposure, status, group>>

-----------------------------------------------------------------------------
GroupEvent(g) ==
  \/ PullRequestClosed(g) \/ BranchDeleted(g) \/ PullRequestReopened(g)
  \/ MergeGroupDestroyed(g, {})
  \/ \E base \in Branches : PullRequestMerged(g, base) \/ MergeGroupDestroyed(g, {base})
  \/ \E head \in SUBSET Findings : StartScan(g, head) \/ ReopenedChanged(g, head)

Next ==
  \/ \E g \in Groups : GroupEvent(g)
  \/ \E i \in ScanIds : CheckReachable(i) \/ RecordCompleted(i) \/ ScanEnds(i)
  \/ \E v \in Findings : Acknowledge(v) \/ RemoveAcknowledgement(v)

Spec == Init /\ [][Next]_vars

-----------------------------------------------------------------------------
(* Safety.                                                                 *)

\* A stored violation is open exactly while it is exposed somewhere, although
\* statuses are refreshed only for the violations a transaction touched.
StatusMatchesExposures ==
  \A v \in Findings : (status[v] = "open") <=> Exposed(v, exposure)

\* A violation that comes back is reviewed again: whatever reopens it clears
\* its acknowledgement (record_completed, pull_request_reopened, a merge).
ReopenClearsAck ==
  [][\A v \in Findings : status[v] = "resolved" /\ status'[v] = "open" => ~ack'[v]]_vars

Completed(g) == {i \in ScanIds : scans[i].group = g /\ scans[i].state = "completed"}
IsNewest(i) == i \in Completed(scans[i].group) /\ ~Stale(i)

\* What the newest completed scan of a pull request or merge group reports is
\* exposed there, unless the group was closed, merged or destroyed: an older
\* scan that completes later takes nothing back.
NewestScanStands ==
  \A i \in ScanIds : (IsNewest(i) /\ scans[i].group \notin Branches) =>
    \A v \in scans[i].finds : exposure[v][scans[i].group] \in {"active", "closed", "ended"}

\* An exposure on a branch ends only with the branch, or when a scan completes
\* that no newer one precedes and whose head does not contain the commit,
\* although reachability was asked before the transaction.
BranchExposureKept ==
  [][\A g \in Branches, v \in Findings : Active(v, g) /\ ~Active(v, g)' =>
       \/ group'[g] = "ended"
       \/ \E i \in ScanIds : /\ IsNewest(i)' /\ ~IsNewest(i)
                             /\ scans[i].group = g /\ v \notin scans[i].head]_vars

\* A finding of a push scan stays open until its commit leaves the branch.
PushedFindingIsExposed ==
  \A g \in Branches : group[g] = "open" =>
    \A i, n \in Completed(g) : IsNewest(n) =>
      \A v \in scans[i].finds \cap scans[n].head : Active(v, g)
=============================================================================
