---------------------------- MODULE MCScanPipeline ----------------------------
(***************************************************************************)
(* Small instances of ScanPipeline: a pull request with an old and a new   *)
(* head commit, two branches that were pushed to that new commit (whose    *)
(* scans and the pull request's share a Check Run), and a merge group.  A  *)
(* configuration chooses which of these logical scans occur.               *)
(***************************************************************************)
EXTENDS ScanPipeline, TLC

MCGroupOf == [k \in ScanKeys |->
  CASE k \in {"pr_old", "pr_new"} -> "pr"
    [] k = "push_main" -> "main"
    [] k = "push_dev" -> "dev"
    [] k = "merge" -> "mg"]

MCSlotOf == [k \in ScanKeys |->
  CASE k = "pr_old" -> "old_head"
    [] k \in {"pr_new", "push_main", "push_dev"} -> "new_head"
    [] k = "merge" -> "merge_commit"]

MCGroups == {GroupOf[k] : k \in ScanKeys}
MCSlots == {SlotOf[k] : k \in ScanKeys}
MCPullRequests == {"pr"} \cap Groups
MCMergeGroups == {"mg"} \cap Groups

\* Worker threads are interchangeable (used by the safety runs only).
WorkerSymmetry == Permutations(Workers)

Outlived == {j \in JobIds : jobs[j].overrun}

\* Bound: at most one job's lease is outlived, in a process that does not die and while
\* the groups are open and nothing is repeated; API calls and the store may fail.
OneOutlivedLease ==
  Outlived # {} =>
    /\ Cardinality(Outlived) = 1
    /\ crashes = 0 /\ rerun = 0 /\ maint = 0
    /\ \A g \in Groups : group[g] = "open"

\* Two workers that share a Check Run while the installation keeps its access and is
\* monitored; MCPipelineLive has one worker and access that is lost and restored.
ScanStep ==
  \/ \E k \in ScanKeys : ScanEvent(k)
  \/ \E j \in JobIds : Recover(j) \/ ExpireLease(j) \/ \E w \in Workers : Claim(w, j)
  \/ \E w \in Workers : WorkerStep(w)

OtherStep ==
  \/ \E j \in JobIds : RequestRerun(j) \/ SelectRetry(j)
  \/ \E g \in Groups : GroupStep(g)
  \/ CreateRerun \/ CreateRetry \/ Crash

SharedNext ==
  \/ ScanStep /\ OneOutlivedLease'
  \/ Outlived = {} /\ OtherStep

SharedSpec == Init /\ [][SharedNext]_vars
=============================================================================
