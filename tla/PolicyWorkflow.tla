---------------------------- MODULE PolicyWorkflow ----------------------------
(***************************************************************************)
(* The policy of one target (an organization, a group or a repository):    *)
(* its immutable versions (controlplane/policies.py) and the drafts that   *)
(* propose new ones (governance/workflow.py).  Every request first reads   *)
(* the draft or the current version and checks it, and writes in a later   *)
(* transaction, so that requests of several administrators interleave.     *)
(*                                                                         *)
(* A document is the strictness of its only rule; a fingerprint is the     *)
(* document it was computed from.                                          *)
(***************************************************************************)
EXTENDS Integers, Sequences, FiniteSets

CONSTANTS
  Drafts,            \* draft IDs
  Users,             \* administrators
  Threads,           \* request threads
  Docs,              \* policy documents, a set of positive integers
  RequireApproval,   \* setting require_policy_approval
  SeparateApprover,  \* setting require_separate_approver
  MaxOpenDrafts,     \* MAX_OPEN_DRAFTS (50)
  MaxVersions,       \* bound: published versions
  MaxRevisions       \* bound: edits of a draft

VARIABLES
  versions,   \* organization_policy_versions or scoped_policy_versions
  draft,      \* policy_drafts
  approvals,  \* policy_approvals of every draft, in the order of their requests
  thread      \* what every request thread has read and is about to write

vars == <<versions, draft, approvals, thread>>

-----------------------------------------------------------------------------
NoDraft == "none"
NoUser == "nobody"

ASSUME WorkflowAssumption ==
  /\ NoDraft \notin Drafts /\ NoUser \notin Users
  /\ Docs \subseteq Nat \ {0}
  /\ MaxVersions \in Nat /\ MaxRevisions \in Nat \ {0}

DraftState == {"absent", "draft", "pending_approval", "approved", "rejected", "cancelled",
               "published"}
Open == {"draft", "pending_approval", "approved"}
Editable == {"draft", "approved", "rejected"}

Draft == [state: DraftState, doc: Docs \cup {0}, base: 0..MaxVersions,
          revision: 0..MaxRevisions, creator: Users \cup {NoUser},
          submitter: Users \cup {NoUser}, version: 0..MaxVersions]

\* kind, document and draft of a version, and whether its audit event and its
\* notification say that it weakens the policy.
Version == [kind: {"change", "rollback"}, doc: Docs, draft: Drafts \cup {NoDraft},
            emergency: BOOLEAN, weakening: BOOLEAN]

Approval == [doc: Docs, requester: Users, status: {"pending", "approved", "rejected", "cancelled"},
             decider: Users \cup {NoUser}]

Idle == [step |-> "idle"]
DraftRequest ==
  [step: {"update"}, id: Drafts, doc: Docs, base: 0..MaxVersions, revision: 1..MaxRevisions]
    \cup [step: {"submit", "approve", "reject"}, id: Drafts, user: Users, doc: Docs]
    \cup [step: {"cancel"}, id: Drafts]
Publication == [step: {"check", "commit"}, kind: {"change", "rollback"},
                id: Drafts \cup {NoDraft}, doc: Docs, expected: 0..MaxVersions,
                emergency: BOOLEAN, weakening: BOOLEAN]

TypeOK ==
  /\ versions \in Seq(Version) /\ Len(versions) <= MaxVersions
  /\ draft \in [Drafts -> Draft]
  /\ approvals \in [Drafts -> Seq(Approval)]
  /\ thread \in [Threads -> {Idle} \cup DraftRequest \cup Publication]

Init ==
  /\ versions = <<>>
  /\ draft = [d \in Drafts |-> [state |-> "absent", doc |-> 0, base |-> 0, revision |-> 0,
                                creator |-> NoUser, submitter |-> NoUser, version |-> 0]]
  /\ approvals = [d \in Drafts |-> <<>>]
  /\ thread = [t \in Threads |-> Idle]

Latest == Len(versions)
DocOf(n) == IF n = 0 THEN 0 ELSE versions[n].doc

\* policy_changes: lowering or dropping a mandatory action weakens enforcement.
Weakens(old, new) == new < old

Ready(t) == thread[t] = Idle
Begin(t, request) == thread' = [thread EXCEPT ![t] = request]
End(t) == thread' = [thread EXCEPT ![t] = Idle]

\* The unanswered request for approval of a draft.
Pending(d) == {i \in DOMAIN approvals[d] : approvals[d][i].status = "pending"}

\* Approvals of a draft that have one of these statuses are cancelled.
CancelApprovals(d, statuses) ==
  approvals' = [approvals EXCEPT ![d] =
    [i \in DOMAIN @ |-> IF @[i].status \in statuses
                          THEN [@[i] EXCEPT !.status = "cancelled"] ELSE @[i]]]

-----------------------------------------------------------------------------
(* Drafts: what the handlers check before their transactions.              *)

\* create: the version a draft is based on was current at some earlier moment.
Create(d, u, doc) ==
  /\ draft[d].state = "absent"
  /\ Cardinality({e \in Drafts : draft[e].state \in Open}) < MaxOpenDrafts
  /\ \E base \in 0..Latest :
       draft' = [draft EXCEPT ![d] = [@ EXCEPT !.state = "draft", !.doc = doc, !.base = base,
                                               !.revision = 1, !.creator = u]]
  /\ UNCHANGED <<versions, approvals, thread>>

Read(t, request) ==
  /\ Ready(t)
  /\ Begin(t, request)
  /\ UNCHANGED <<versions, draft, approvals>>

\* update, up to its transaction; rebase takes the version that is current.
ReadUpdate(t, d, doc, rebase) ==
  /\ draft[d].state \in Editable
  /\ draft[d].revision < MaxRevisions
  /\ Read(t, [step |-> "update", id |-> d, doc |-> doc, revision |-> draft[d].revision,
              base |-> IF rebase THEN Latest ELSE draft[d].base])

\* submit, up to its transaction
ReadSubmit(t, d, u) ==
  /\ draft[d].state = "draft"
  /\ Read(t, [step |-> "submit", id |-> d, user |-> u, doc |-> draft[d].doc])

\* decide, up to its transaction: the author of a draft does not approve it.
ReadDecide(t, d, u, step) ==
  /\ draft[d].state = "pending_approval"
  /\ SeparateApprover => u \notin {draft[d].creator, draft[d].submitter}
  /\ Read(t, [step |-> step, id |-> d, user |-> u, doc |-> draft[d].doc])

\* cancel, up to its transaction
ReadCancel(t, d) ==
  /\ draft[d].state \notin {"absent", "published", "cancelled"}
  /\ Read(t, [step |-> "cancel", id |-> d])

-----------------------------------------------------------------------------
(* Drafts: the transactions.  A request that comes too late changes        *)
(* nothing and is answered with a conflict.                                *)

\* An edited draft loses its approval.
Update(t) ==
  LET q == thread[t]
      current == draft[q.id].revision = q.revision /\ draft[q.id].state \in Editable
  IN /\ q.step = "update"
     /\ IF current
          THEN /\ draft' = [draft EXCEPT ![q.id] = [@ EXCEPT !.state = "draft", !.doc = q.doc,
                                !.base = q.base, !.revision = q.revision + 1]]
               /\ CancelApprovals(q.id, {"pending", "approved"})
          ELSE UNCHANGED <<draft, approvals>>
     /\ End(t)
     /\ UNCHANGED versions

\* The approval is requested for the document that was read before.
Submit(t) ==
  LET q == thread[t]
  IN /\ q.step = "submit"
     /\ IF draft[q.id].state = "draft"
          THEN /\ draft' = [draft EXCEPT ![q.id] = [@ EXCEPT !.state = "pending_approval",
                                                            !.submitter = q.user]]
               /\ approvals' = [approvals EXCEPT ![q.id] =
                    Append(@, [doc |-> q.doc, requester |-> q.user, status |-> "pending",
                               decider |-> NoUser])]
          ELSE UNCHANGED <<draft, approvals>>
     /\ End(t)
     /\ UNCHANGED versions

\* decide: only for the document that was read, whatever the row says now.
Decide(t) ==
  LET q == thread[t]
      verdict == IF q.step = "approve" THEN "approved" ELSE "rejected"
      request == {i \in Pending(q.id) : approvals[q.id][i].doc = q.doc}
  IN /\ q.step \in {"approve", "reject"}
     /\ IF request # {}
          THEN /\ approvals' = [approvals EXCEPT ![q.id] =
                    [i \in DOMAIN @ |-> IF i \in request
                       THEN [@[i] EXCEPT !.status = verdict, !.decider = q.user] ELSE @[i]]]
               /\ draft' = [draft EXCEPT ![q.id].state =
                              IF @ = "pending_approval" THEN verdict ELSE @]
          ELSE UNCHANGED <<draft, approvals>>
     /\ End(t)
     /\ UNCHANGED versions

Cancel(t) ==
  /\ thread[t].step = "cancel"
  /\ draft' = [draft EXCEPT ![thread[t].id].state = IF @ = "published" THEN @ ELSE "cancelled"]
  /\ CancelApprovals(thread[t].id, {"pending"})
  /\ End(t)
  /\ UNCHANGED versions

-----------------------------------------------------------------------------
(* Publication.                                                            *)

Publish(t, kind, d, doc, expected, emergency) ==
  /\ expected < MaxVersions
  /\ Read(t, [step |-> "check", kind |-> kind, id |-> d, doc |-> doc, expected |-> expected,
              emergency |-> emergency, weakening |-> FALSE])

\* publish: state and document of the draft are read here.
PublishDraft(t, d, emergency) ==
  /\ draft[d].state \in Open
  /\ RequireApproval /\ ~emergency => draft[d].state = "approved"
  /\ Publish(t, "change", d, draft[d].doc, draft[d].base, emergency)

\* put_policy: saving directly is refused while approval is required.  The version
\* the administrator saw was current when the request, or the page, was opened.
SavePolicy(t, doc) ==
  /\ ~RequireApproval
  /\ Publish(t, "change", NoDraft, doc, Latest, FALSE)

\* rollback_policy, policy_target_rollback: restores the document of an older version.
RollBack(t, old) ==
  /\ old < Latest
  /\ Publish(t, "rollback", NoDraft, DocOf(old), Latest, FALSE)

\* The first half of update and _rollback: what would change is computed against
\* the version that is current now; weakening and rolling back must be confirmed.
CheckPublication(t, confirm) ==
  LET q == thread[t]
      weakening == Weakens(DocOf(Latest), q.doc)
  IN /\ q.step = "check"
     /\ IF Latest = q.expected /\ q.doc # DocOf(Latest)
             /\ (weakening \/ q.kind = "rollback" => confirm)
          THEN Begin(t, [q EXCEPT !.step = "commit", !.weakening = weakening])
          ELSE End(t)
     /\ UNCHANGED <<versions, draft, approvals>>

\* _insert_version
InsertVersion(q) ==
  versions' = Append(versions, [kind |-> q.kind, doc |-> q.doc, draft |-> q.id,
                                emergency |-> q.emergency, weakening |-> q.weakening])

\* mark_published, in the publishing transaction
MarkPublished(d, n) ==
  draft' = IF d = NoDraft THEN draft
           ELSE [draft EXCEPT ![d].state = "published", ![d].version = n]

\* Mutant: the version that is replaced is not compared again.
CommitUnchecked(t) ==
  /\ thread[t].step = "commit"
  /\ InsertVersion(thread[t])
  /\ MarkPublished(thread[t].id, Latest + 1)
  /\ End(t)
  /\ UNCHANGED approvals

\* The transaction of update and _rollback
CommitPublication(t) ==
  LET q == thread[t]
  IN /\ q.step = "commit"
     /\ IF Latest = q.expected
          THEN InsertVersion(q) /\ MarkPublished(q.id, Latest + 1)
          ELSE UNCHANGED <<versions, draft>>
     /\ End(t)
     /\ UNCHANGED approvals

-----------------------------------------------------------------------------
Next ==
  \/ \E d \in Drafts, u \in Users, doc \in Docs : Create(d, u, doc)
  \/ \E t \in Threads, d \in Drafts :
       \/ \E doc \in Docs, rebase \in BOOLEAN : ReadUpdate(t, d, doc, rebase)
       \/ \E u \in Users : ReadSubmit(t, d, u)
       \/ \E u \in Users, step \in {"approve", "reject"} : ReadDecide(t, d, u, step)
       \/ ReadCancel(t, d)
       \/ \E emergency \in BOOLEAN : PublishDraft(t, d, emergency)
  \/ \E t \in Threads :
       \/ \E doc \in Docs : SavePolicy(t, doc)
       \/ \E old \in 1..Latest : RollBack(t, old)
       \/ Update(t) \/ Submit(t) \/ Decide(t) \/ Cancel(t)
       \/ \E confirm \in BOOLEAN : CheckPublication(t, confirm)
       \/ CommitPublication(t)

Spec == Init /\ [][Next]_vars

-----------------------------------------------------------------------------
\* A published draft is history: no request that was under way changes it, and it
\* is not published a second time.
PublishedIsFinal ==
  [][\A d \in Drafts : draft[d].state = "published" => draft'[d] = draft[d]]_vars

\* A draft waits for approval exactly while one request for its approval is open,
\* so that it can be decided; an emergency publication leaves the request behind.
PendingHasRequest ==
  \A d \in Drafts : draft[d].state # "published" =>
    Cardinality(Pending(d)) = IF draft[d].state = "pending_approval" THEN 1 ELSE 0

\* The versions and the published drafts are those of PolicyHistory.
H == INSTANCE PolicyHistory WITH
       history <- [n \in DOMAIN versions |->
                     [doc |-> versions[n].doc, draft |-> versions[n].draft,
                      weakening |-> versions[n].weakening]],
       published <- {d \in Drafts : draft[d].state = "published"}

\* The workflow implements the history: whatever requests interleave, a version
\* replaces the one it was compared with, what its confirmation and its audit record
\* said about weakening is true, and a draft is published once and stays published.
ImplementsHistory == H!Spec

\* Where approval is required, "no one can get one document approved and publish
\* another" (governance/workflow.py): the document of every version that a draft
\* published without emergency was approved for that draft.
PublishedWasApproved ==
  \A n \in 1..Latest :
    LET v == versions[n]
    IN RequireApproval /\ v.draft # NoDraft /\ ~v.emergency =>
         \E i \in DOMAIN approvals[v.draft] :
           LET a == approvals[v.draft][i]
           IN a.doc = v.doc /\ a.decider # NoUser /\ a.status # "rejected"
=============================================================================
