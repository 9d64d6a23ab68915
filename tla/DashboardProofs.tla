------------------------------ MODULE DashboardProofs ------------------------------
(***************************************************************************)
(* Proofs about the components that MCDashboard runs.                      *)
(*                                                                         *)
(* The workflow of policies, for any numbers of drafts, administrators,    *)
(* request threads and documents: requests which read a draft or a version *)
(* before the transaction that writes implement PolicyHistory.             *)
(*                                                                         *)
(* Sessions and members, for any numbers of browsers and sign-ins: one     *)
(* session per sign-in, and an organization that keeps its owners.         *)
(*                                                                         *)
(* The requests of the API, for any users, routes, threads and limits: who *)
(* may have an answer, and how many are let through.                       *)
(*                                                                         *)
(* Calls of GitHub, and the settings and inboxes of notifications.         *)
(*                                                                         *)
(* Lists in pages, for any rows and pages; and the types of all of these.  *)
(***************************************************************************)
EXTENDS MCDashboard, FiniteSetTheorems, SequenceTheorems, WellFoundedInduction, TLAPS

\* A draft was filled in when it was created, and its base is a version there is.
DraftInv ==
  \A d \in Drafts :
    /\ draft[d].base <= Latest
    /\ draft[d].state # "absent" => draft[d].doc \in Docs /\ draft[d].revision \in 1..MaxRevisions

\* What a request has read is true of a version there was: only more versions follow.
Sound(q) ==
  /\ q.step = "update" => q.base <= Latest /\ q.revision < MaxRevisions
  /\ q.step \in {"check", "commit"} => q.expected <= Latest /\ q.expected < MaxVersions
  /\ q.step = "commit" => q.doc # DocOf(q.expected) /\ q.weakening = Weakens(DocOf(q.expected), q.doc)
  /\ q.step \in {"cancel", "check", "commit"} /\ q.id \in Drafts => draft[q.id].state # "absent"

RequestInv == \A t \in Threads : Sound(thread[t])

\* A publication of a draft that another thread published meanwhile expects an older
\* version than the one it would replace.
LateInv ==
  \A t \in Threads :
    LET q == thread[t]
    IN q.step \in {"check", "commit"} /\ q.id \in Drafts =>
         (draft[q.id].state = "published" => q.expected < Latest)

Inv == TypeOK /\ DraftInv /\ RequestInv /\ LateInv

-----------------------------------------------------------------------------
(* Types.                                                                  *)

\* What a request of each kind holds.
LEMMA RequestKinds ==
  ASSUME NEW q \in {Idle} \cup DraftRequest \cup Publication
  PROVE  /\ q.step = "update" =>
              q \in [step: {"update"}, id: Drafts, doc: Docs, base: 0..MaxVersions,
                    revision: 1..MaxRevisions]
         /\ q.step \in {"submit", "approve", "reject"} =>
              q \in [step: {"submit", "approve", "reject"}, id: Drafts, user: Users, doc: Docs]
         /\ q.step = "cancel" => q.id \in Drafts
         /\ q.step \in {"check", "commit"} => q \in Publication
BY DEF Idle, DraftRequest, Publication

\* What the thread of a request holds.
LEMMA RequestType ==
  ASSUME TypeOK, NEW t \in Threads
  PROVE  /\ thread[t].step = "update" =>
              thread[t] \in [step: {"update"}, id: Drafts, doc: Docs, base: 0..MaxVersions,
                            revision: 1..MaxRevisions]
         /\ thread[t].step \in {"submit", "approve", "reject"} =>
              thread[t] \in [step: {"submit", "approve", "reject"}, id: Drafts, user: Users,
                            doc: Docs]
         /\ thread[t].step = "cancel" => thread[t].id \in Drafts
         /\ thread[t].step \in {"check", "commit"} => thread[t] \in Publication
BY RequestKinds DEF TypeOK

\* A thread that ends its request is idle.
LEMMA EndType ==
  ASSUME TypeOK, NEW t \in Threads, End(t)
  PROVE  thread' \in [Threads -> {Idle} \cup DraftRequest \cup Publication]
BY DEF TypeOK, End

\* A thread that begins a request of one of the kinds.
LEMMA BeginType ==
  ASSUME TypeOK, NEW t \in Threads, NEW q \in DraftRequest \cup Publication, Begin(t, q)
  PROVE  thread' \in [Threads -> {Idle} \cup DraftRequest \cup Publication]
BY DEF TypeOK, Begin

\* The latest version is a number of versions.
LEMMA LatestType ==
  ASSUME TypeOK
  PROVE  /\ Latest \in Nat /\ Latest <= MaxVersions
         /\ versions \in [1..Latest -> Version]
         /\ \A n \in 1..Latest : DocOf(n) \in Docs
         /\ \A n \in 0..Latest : DocOf(n) \in Nat
<1>1. Latest \in Nat /\ versions \in [1..Latest -> Version]
  BY LenProperties DEF TypeOK, Latest
<1>2. \A n \in 1..Latest : DocOf(n) \in Docs
  BY <1>1 DEF DocOf, Version
<1>3. ASSUME NEW n \in 0..Latest PROVE DocOf(n) \in Nat
  <2>1. CASE n = 0
    BY <2>1 DEF DocOf
  <2>2. CASE n # 0
    <3>1. n \in 1..Latest
      BY <1>1, <2>2
    <3>2. DocOf(n) \in Docs
      BY <1>2, <3>1
    <3>. QED
      BY <3>2, WorkflowAssumption
  <2>. QED
    BY <2>1, <2>2
<1>. QED
  BY <1>1, <1>2, <1>3 DEF TypeOK, Latest

\* Changing approvals one by one keeps their type.
LEMMA MapType ==
  ASSUME NEW s \in Seq(Approval), NEW f, f = [i \in DOMAIN s |-> f[i]],
         \A i \in DOMAIN s : f[i] \in Approval
  PROVE  f \in Seq(Approval)
<1>1. Len(s) \in Nat /\ DOMAIN s = 1..Len(s)
  BY LenProperties
<1>2. f \in [1..Len(s) -> Approval]
  BY <1>1
<1>. QED
  BY <1>1, <1>2, SeqDef

\* Cancelling approvals keeps their types.
LEMMA CancelType ==
  ASSUME TypeOK, NEW d \in Drafts, NEW S, CancelApprovals(d, S)
  PROVE  approvals' \in [Drafts -> Seq(Approval)]
<1> DEFINE f == [i \in DOMAIN approvals[d] |->
                   IF approvals[d][i].status \in S
                     THEN [approvals[d][i] EXCEPT !.status = "cancelled"] ELSE approvals[d][i]]
<1>1. approvals[d] \in Seq(Approval)
  BY DEF TypeOK
<1>2. ASSUME NEW i \in DOMAIN approvals[d] PROVE f[i] \in Approval
  <2>1. approvals[d][i] \in Approval
    BY <1>1, LenProperties
  <2>. QED
    BY <2>1 DEF Approval
<1>3. f \in Seq(Approval)
  <2>1. f = [i \in DOMAIN approvals[d] |-> f[i]]
    OBVIOUS
  <2>. HIDE DEF f
  <2>. QED
    BY <1>1, <1>2, <2>1, MapType
<1>. QED
  BY <1>3 DEF TypeOK, CancelApprovals

\* A new version keeps the type of the history, and the older versions.
LEMMA InsertType ==
  ASSUME TypeOK, NEW q \in Publication, Latest < MaxVersions, InsertVersion(q)
  PROVE  /\ versions' \in Seq(Version) /\ Len(versions') <= MaxVersions
         /\ Latest' = Latest + 1
         /\ \A n \in 1..Latest : versions'[n] = versions[n]
         /\ versions'[Latest + 1] = [kind |-> q.kind, doc |-> q.doc, draft |-> q.id,
                                    emergency |-> q.emergency, weakening |-> q.weakening]
<1> DEFINE v == [kind |-> q.kind, doc |-> q.doc, draft |-> q.id,
                 emergency |-> q.emergency, weakening |-> q.weakening]
<1>1. v \in Version
  BY DEF Publication, Version
<1>2. versions' = Append(versions, v) /\ versions \in Seq(Version)
  BY DEF InsertVersion, TypeOK
<1>3. Latest \in Nat
  BY LatestType
<1>. HIDE DEF v
<1>4. /\ versions' \in Seq(Version)
      /\ Len(versions') = Len(versions) + 1
      /\ \A n \in 1..Len(versions) : versions'[n] = versions[n]
      /\ versions'[Len(versions) + 1] = v
  BY <1>1, <1>2
<1>. QED
  BY <1>3, <1>4, WorkflowAssumption DEF Latest, v

\* A draft that is marked published keeps its type.
LEMMA MarkType ==
  ASSUME TypeOK, NEW d \in Drafts \cup {NoDraft}, NEW n \in 0..MaxVersions, MarkPublished(d, n)
  PROVE  draft' \in [Drafts -> Draft]
<1>1. CASE d = NoDraft
  BY <1>1 DEF MarkPublished, TypeOK
<1>2. CASE d # NoDraft
  <2>1. d \in Drafts /\ draft[d] \in Draft
    BY <1>2 DEF TypeOK
  <2>2. [draft[d] EXCEPT !.state = "published", !.version = n] \in Draft
    BY <2>1 DEF Draft, DraftState
  <2>3. draft' = [draft EXCEPT ![d] = [draft[d] EXCEPT !.state = "published", !.version = n]]
    BY <1>2, <2>1 DEF MarkPublished, TypeOK
  <2>. QED
    BY <2>1, <2>2, <2>3 DEF TypeOK
<1>. QED
  BY <1>1, <1>2

\* The requests that only read.
LEMMA ReadType ==
  ASSUME TypeOK, DraftInv, NEW t \in Threads,
         \/ \E d \in Drafts :
              \/ \E doc \in Docs, rebase \in BOOLEAN : ReadUpdate(t, d, doc, rebase)
              \/ \E u \in Users : ReadSubmit(t, d, u)
              \/ \E u \in Users, step \in {"approve", "reject"} : ReadDecide(t, d, u, step)
              \/ ReadCancel(t, d)
  PROVE  TypeOK'
<1>1. ASSUME NEW q \in DraftRequest, Read(t, q) PROVE TypeOK'
  BY <1>1, BeginType DEF Read, TypeOK
<1>2. ASSUME NEW d \in Drafts PROVE draft[d] \in Draft
  BY DEF TypeOK
<1>3. Latest \in 0..MaxVersions
  BY LatestType, WorkflowAssumption
<1>4. ASSUME NEW d \in Drafts, NEW doc \in Docs, NEW rebase \in BOOLEAN,
             ReadUpdate(t, d, doc, rebase)
      PROVE  TypeOK'
  <2> DEFINE q == [step |-> "update", id |-> d, doc |-> doc, revision |-> draft[d].revision,
                   base |-> IF rebase THEN Latest ELSE draft[d].base]
  <2>1. draft[d].revision \in 1..MaxRevisions
    BY <1>4 DEF ReadUpdate, Editable, DraftInv
  <2>2. q \in DraftRequest
    BY <1>2, <1>3, <2>1 DEF DraftRequest, Draft
  <2>3. Read(t, q)
    BY <1>4 DEF ReadUpdate
  <2>. QED
    BY <1>1, <2>2, <2>3
<1>5. ASSUME NEW d \in Drafts, NEW u \in Users, ReadSubmit(t, d, u) PROVE TypeOK'
  <2> DEFINE q == [step |-> "submit", id |-> d, user |-> u, doc |-> draft[d].doc]
  <2>1. q \in DraftRequest
    BY <1>5 DEF ReadSubmit, DraftInv, DraftRequest
  <2>. QED
    BY <1>1, <1>5, <2>1 DEF ReadSubmit
<1>6. ASSUME NEW d \in Drafts, NEW u \in Users, NEW step \in {"approve", "reject"},
             ReadDecide(t, d, u, step)
      PROVE  TypeOK'
  <2> DEFINE q == [step |-> step, id |-> d, user |-> u, doc |-> draft[d].doc]
  <2>1. q \in DraftRequest
    BY <1>6 DEF ReadDecide, DraftInv, DraftRequest
  <2>. QED
    BY <1>1, <1>6, <2>1 DEF ReadDecide
<1>7. ASSUME NEW d \in Drafts, ReadCancel(t, d) PROVE TypeOK'
  <2>1. [step |-> "cancel", id |-> d] \in DraftRequest
    BY DEF DraftRequest
  <2>. QED
    BY <1>1, <1>7, <2>1 DEF ReadCancel
<1>. QED
  BY <1>4, <1>5, <1>6, <1>7

\* The requests that publish, up to their checks.
LEMMA PublishType ==
  ASSUME TypeOK, DraftInv, NEW t \in Threads,
         \/ \E d \in Drafts, emergency \in BOOLEAN : PublishDraft(t, d, emergency)
         \/ \E doc \in Docs : SavePolicy(t, doc)
         \/ \E old \in 1..Latest : RollBack(t, old)
  PROVE  TypeOK'
<1>1. ASSUME NEW kind \in {"change", "rollback"}, NEW d \in Drafts \cup {NoDraft}, NEW doc \in Docs,
             NEW expected \in 0..MaxVersions, NEW emergency \in BOOLEAN,
             Publish(t, kind, d, doc, expected, emergency)
      PROVE  TypeOK'
  <2> DEFINE q == [step |-> "check", kind |-> kind, id |-> d, doc |-> doc,
                   expected |-> expected, emergency |-> emergency, weakening |-> FALSE]
  <2>1. q \in Publication
    BY DEF Publication
  <2>. QED
    BY <1>1, <2>1, BeginType DEF Publish, Read, TypeOK
<1>2. Latest \in 0..MaxVersions
  BY LatestType, WorkflowAssumption
<1>3. ASSUME NEW d \in Drafts, NEW emergency \in BOOLEAN, PublishDraft(t, d, emergency)
      PROVE  TypeOK'
  <2>1. draft[d].doc \in Docs /\ draft[d].base \in 0..MaxVersions
    BY <1>3 DEF PublishDraft, Open, DraftInv, TypeOK, Draft
  <2>. QED
    BY <1>1, <1>3, <2>1 DEF PublishDraft
<1>4. ASSUME NEW doc \in Docs, SavePolicy(t, doc) PROVE TypeOK'
  BY <1>1, <1>2, <1>4 DEF SavePolicy
<1>5. ASSUME NEW old \in 1..Latest, RollBack(t, old) PROVE TypeOK'
  BY <1>1, <1>2, <1>5, LatestType DEF RollBack
<1>. QED
  BY <1>3, <1>4, <1>5

\* Types: every request keeps them.
LEMMA TypeStep ==
  ASSUME TypeOK, DraftInv, RequestInv, [Next]_vars
  PROVE  TypeOK'
<1>1. ASSUME NEW d \in Drafts PROVE draft[d] \in Draft /\ approvals[d] \in Seq(Approval)
  BY DEF TypeOK
<1>2. Latest \in 0..MaxVersions
  BY LatestType, WorkflowAssumption
<1>3. ASSUME NEW d \in Drafts, NEW u \in Users, NEW doc \in Docs, Create(d, u, doc)
      PROVE  TypeOK'
  <2>1. ASSUME NEW base \in 0..Latest
        PROVE  [draft[d] EXCEPT !.state = "draft", !.doc = doc, !.base = base,
                                !.revision = 1, !.creator = u] \in Draft
    <3>1. base \in 0..MaxVersions /\ 1 \in 0..MaxRevisions
      BY <1>2, WorkflowAssumption
    <3>. QED
      BY <1>1, <3>1 DEF Draft, DraftState
  <2>. QED
    BY <1>3, <2>1 DEF Create, TypeOK
<1>4. ASSUME NEW t \in Threads, Update(t) PROVE TypeOK'
  <2> DEFINE q == thread[t]
             new == [draft[q.id] EXCEPT !.state = "draft", !.doc = q.doc, !.base = q.base,
                                        !.revision = q.revision + 1]
  <2>1. /\ q.id \in Drafts /\ q.doc \in Docs /\ q.base \in 0..MaxVersions
        /\ q.revision \in 1..MaxRevisions /\ q.revision < MaxRevisions
    BY <1>4, RequestType DEF Update, RequestInv, Sound
  <2>2. new \in Draft
    <3>1. q.revision + 1 \in 0..MaxRevisions
      BY <2>1, WorkflowAssumption
    <3>. QED
      BY <1>1, <2>1, <3>1 DEF Draft, DraftState
  <2>3. draft' \in [Drafts -> Draft]
    BY <1>4, <2>1, <2>2 DEF Update, TypeOK
  <2>4. approvals' \in [Drafts -> Seq(Approval)]
    BY <1>4, <2>1, CancelType DEF Update, TypeOK
  <2>. QED
    BY <1>4, <2>3, <2>4, EndType DEF Update, TypeOK
<1>5. ASSUME NEW t \in Threads, Submit(t) PROVE TypeOK'
  <2> DEFINE q == thread[t]
             new == [draft[q.id] EXCEPT !.state = "pending_approval", !.submitter = q.user]
             asked == [doc |-> q.doc, requester |-> q.user, status |-> "pending",
                       decider |-> NoUser]
  <2>1. q.id \in Drafts /\ q.user \in Users /\ q.doc \in Docs
    BY <1>5, RequestType DEF Submit
  <2>2. new \in Draft /\ asked \in Approval
    BY <1>1, <2>1 DEF Draft, DraftState, Approval
  <2>3. draft' \in [Drafts -> Draft]
    BY <1>5, <2>1, <2>2 DEF Submit, TypeOK
  <2>4. Append(approvals[q.id], asked) \in Seq(Approval)
    <3>. HIDE DEF asked
    <3>. QED
      BY <1>1, <2>1, <2>2
  <2>5. approvals' \in [Drafts -> Seq(Approval)]
    BY <1>5, <2>1, <2>4 DEF Submit, TypeOK
  <2>. QED
    BY <1>5, <2>3, <2>5, EndType DEF Submit, TypeOK
<1>6. ASSUME NEW t \in Threads, Decide(t) PROVE TypeOK'
  <2> DEFINE q == thread[t]
             verdict == IF q.step = "approve" THEN "approved" ELSE "rejected"
             asked == {i \in Pending(q.id) : approvals[q.id][i].doc = q.doc}
             f == [i \in DOMAIN approvals[q.id] |->
                     IF i \in asked
                       THEN [approvals[q.id][i] EXCEPT !.status = verdict, !.decider = q.user]
                       ELSE approvals[q.id][i]]
             state == IF draft[q.id].state = "pending_approval" THEN verdict ELSE draft[q.id].state
  <2>1. q.id \in Drafts /\ q.user \in Users /\ q.doc \in Docs
    BY <1>6, RequestType DEF Decide
  <2>2. verdict \in {"approved", "rejected"}
    OBVIOUS
  <2>3. [draft[q.id] EXCEPT !.state = state] \in Draft
    BY <1>1, <2>1, <2>2 DEF Draft, DraftState
  <2>4. draft' \in [Drafts -> Draft]
    <3>1. draft' = draft \/ draft' = [draft EXCEPT ![q.id] = [draft[q.id] EXCEPT !.state = state]]
      BY <1>6, <2>1 DEF Decide, TypeOK
    <3>. QED
      BY <2>1, <2>3, <3>1 DEF TypeOK
  <2>5. f \in Seq(Approval)
    <3>1. ASSUME NEW i \in DOMAIN approvals[q.id] PROVE f[i] \in Approval
      <4>1. approvals[q.id][i] \in Approval
        BY <1>1, <2>1, LenProperties
      <4>2. [approvals[q.id][i] EXCEPT !.status = verdict, !.decider = q.user] \in Approval
        BY <2>1, <2>2, <4>1 DEF Approval
      <4>. QED
        BY <4>1, <4>2
    <3>2. f = [i \in DOMAIN approvals[q.id] |-> f[i]]
      OBVIOUS
    <3>. HIDE DEF f
    <3>. QED
      BY <1>1, <2>1, <3>1, <3>2, MapType
  <2>6. approvals' \in [Drafts -> Seq(Approval)]
    <3>1. approvals' = approvals \/ approvals' = [approvals EXCEPT ![q.id] = f]
      BY <1>6 DEF Decide
    <3>. QED
      BY <2>1, <2>5, <3>1 DEF TypeOK
  <2>. QED
    BY <1>6, <2>4, <2>6, EndType DEF Decide, TypeOK
<1>7. ASSUME NEW t \in Threads, Cancel(t) PROVE TypeOK'
  <2> DEFINE d == thread[t].id
             state == IF draft[d].state = "published" THEN draft[d].state ELSE "cancelled"
  <2>1. d \in Drafts
    BY <1>7, RequestType DEF Cancel
  <2>2. [draft[d] EXCEPT !.state = state] \in Draft
    BY <1>1, <2>1 DEF Draft, DraftState
  <2>3. draft' = [draft EXCEPT ![d] = [draft[d] EXCEPT !.state = state]]
    BY <1>7, <2>1 DEF Cancel, TypeOK
  <2>4. draft' \in [Drafts -> Draft]
    BY <2>1, <2>2, <2>3 DEF TypeOK
  <2>5. approvals' \in [Drafts -> Seq(Approval)]
    BY <1>7, <2>1, CancelType DEF Cancel
  <2>. QED
    BY <1>7, <2>4, <2>5, EndType DEF Cancel, TypeOK
<1>8. ASSUME NEW t \in Threads, NEW confirm \in BOOLEAN, CheckPublication(t, confirm)
      PROVE  TypeOK'
  <2> DEFINE q == thread[t]
             w == Weakens(DocOf(Latest), q.doc)
  <2>1. q \in Publication
    BY <1>8, RequestType DEF CheckPublication
  <2>2. [q EXCEPT !.step = "commit", !.weakening = w] \in Publication
    <3>1. w \in BOOLEAN
      BY DEF Weakens
    <3>. HIDE DEF w
    <3>. QED
      BY <2>1, <3>1 DEF Publication
  <2>. QED
    BY <1>8, <2>2, BeginType, EndType DEF CheckPublication, TypeOK
<1>9. ASSUME NEW t \in Threads, CommitPublication(t) PROVE TypeOK'
  <2> DEFINE q == thread[t]
  <2>1. q \in Publication /\ q.expected < MaxVersions
    BY <1>9, RequestType DEF CommitPublication, RequestInv, Sound
  <2>2. CASE Latest = q.expected
    <3>1. versions' \in Seq(Version) /\ Len(versions') <= MaxVersions
      BY <1>9, <2>1, <2>2, InsertType DEF CommitPublication
    <3>2. draft' \in [Drafts -> Draft]
      <4>1. q.id \in Drafts \cup {NoDraft} /\ Latest + 1 \in 0..MaxVersions
        BY <1>2, <2>1, <2>2, WorkflowAssumption DEF Publication
      <4>. QED
        BY <1>9, <2>2, <4>1, MarkType DEF CommitPublication
    <3>. QED
      BY <1>9, <3>1, <3>2, EndType DEF CommitPublication, TypeOK
  <2>3. CASE Latest # q.expected
    BY <1>9, <2>3, EndType DEF CommitPublication, TypeOK
  <2>. QED
    BY <2>2, <2>3
<1>10. CASE UNCHANGED vars
  BY <1>10 DEF vars, TypeOK
<1>. QED
  BY <1>3, <1>4, <1>5, <1>6, <1>7, <1>8, <1>9, <1>10, ReadType, PublishType DEF Next

\* Types hold initially.
LEMMA InvInit == Init => Inv
<1> SUFFICES ASSUME Init PROVE Inv
  OBVIOUS
<1>1. TypeOK
  BY EmptySeq, WorkflowAssumption DEF Init, TypeOK, Draft, DraftState, Latest
<1>2. Latest = 0
  BY EmptySeq DEF Init, Latest
<1>. QED
  BY <1>1, <1>2 DEF Init, Inv, DraftInv, RequestInv, Sound, LateInv, Idle

-----------------------------------------------------------------------------
(* The inductive invariant.                                                *)

\* No version is taken back, and the older ones keep their documents.
LEMMA VersionsGrow ==
  ASSUME Inv, [Next]_vars
  PROVE  /\ Latest' \in Nat /\ Latest <= Latest'
         /\ \A n \in 1..Latest : versions'[n] = versions[n]
<1>1. Latest \in Nat
  BY LatestType DEF Inv
<1>2. ASSUME NEW t \in Threads, CommitPublication(t), Latest = thread[t].expected
      PROVE  Latest' = Latest + 1 /\ \A n \in 1..Latest : versions'[n] = versions[n]
  <2>1. thread[t] \in Publication /\ Latest < MaxVersions
    BY <1>2, RequestType DEF CommitPublication, Inv, RequestInv, Sound
  <2>. QED
    BY <1>2, <2>1, InsertType DEF CommitPublication, Inv
<1>3. versions' = versions \/ (Latest' = Latest + 1 /\ \A n \in 1..Latest : versions'[n] = versions[n])
  BY <1>2 DEF Next, vars, Create, ReadUpdate, ReadSubmit, ReadDecide, ReadCancel, PublishDraft,
     SavePolicy, RollBack, Publish, Read, Update, Submit, Decide, Cancel, CheckPublication,
     CommitPublication
<1>. QED
  BY <1>1, <1>3 DEF Latest

\* A draft becomes published only together with a new version, and then stays as it is:
\* a thread that would publish it again expects an older version.
LEMMA DraftStep ==
  ASSUME Inv, [Next]_vars, NEW d \in Drafts
  PROVE  /\ draft[d].state = "published" => draft'[d] = draft[d]
         /\ draft'[d].state = "published" => draft[d].state = "published" \/ Latest < Latest'
         /\ draft[d].state # "absent" => draft'[d].state # "absent"
<1> DEFINE Goal == /\ draft[d].state = "published" => draft'[d] = draft[d]
                   /\ draft'[d].state = "published" =>
                        draft[d].state = "published" \/ Latest < Latest'
                   /\ draft[d].state # "absent" => draft'[d].state # "absent"
<1>0. draft \in [Drafts -> Draft] /\ Latest \in Nat
  BY LatestType DEF Inv, TypeOK
<1>1. ASSUME NEW e \in Drafts, NEW u \in Users, NEW doc \in Docs, Create(e, u, doc) PROVE Goal
  BY <1>0, <1>1 DEF Create, Draft
<1>2. ASSUME NEW t \in Threads, Update(t) PROVE Goal
  <2>1. thread[t].id \in Drafts
    BY <1>2, RequestType DEF Update, Inv
  <2>. QED
    BY <1>0, <1>2, <2>1 DEF Update, Editable, Draft
<1>3. ASSUME NEW t \in Threads, Submit(t) PROVE Goal
  <2>1. thread[t].id \in Drafts
    BY <1>3, RequestType DEF Submit, Inv
  <2>. QED
    BY <1>0, <1>3, <2>1 DEF Submit, Draft
<1>4. ASSUME NEW t \in Threads, Decide(t) PROVE Goal
  <2>1. thread[t].id \in Drafts
    BY <1>4, RequestType DEF Decide, Inv
  <2> DEFINE id == thread[t].id
             state == IF draft[id].state = "pending_approval"
                        THEN IF thread[t].step = "approve" THEN "approved" ELSE "rejected"
                        ELSE draft[id].state
  <2>2. draft' = draft \/ draft' = [draft EXCEPT ![id] = [draft[id] EXCEPT !.state = state]]
    BY <1>0, <1>4, <2>1 DEF Decide
  <2>. QED
    BY <1>0, <2>1, <2>2 DEF Draft
<1>5. ASSUME NEW t \in Threads, Cancel(t) PROVE Goal
  <2>1. thread[t].id \in Drafts
    BY <1>5, RequestType DEF Cancel, Inv
  <2>2. draft'[d] = IF d = thread[t].id
                      THEN [draft[d] EXCEPT !.state = IF @ = "published" THEN @ ELSE "cancelled"]
                      ELSE draft[d]
    BY <1>0, <1>5, <2>1 DEF Cancel
  <2>. QED
    BY <1>0, <2>1, <2>2 DEF Draft
<1>6. ASSUME NEW t \in Threads, CommitPublication(t) PROVE Goal
  <2>1. thread[t] \in Publication /\ thread[t].expected < MaxVersions
    BY <1>6, RequestType DEF CommitPublication, Inv, RequestInv, Sound
  <2>2. CASE Latest = thread[t].expected
    <3>1. Latest' = Latest + 1
      BY <1>6, <2>1, <2>2, InsertType DEF CommitPublication, Inv
    <3>2. d = thread[t].id => draft[d].state # "published"
      BY <1>0, <1>6, <2>2 DEF CommitPublication, Inv, LateInv
    <3>3. IF d = thread[t].id THEN draft'[d].state = "published" ELSE draft'[d] = draft[d]
      BY <1>0, <1>6, <2>2, WorkflowAssumption DEF CommitPublication, MarkPublished, Draft
    <3>. QED
      BY <1>0, <3>1, <3>2, <3>3
  <2>3. CASE Latest # thread[t].expected
    BY <1>6, <2>3 DEF CommitPublication
  <2>. QED
    BY <2>2, <2>3
<1>7. CASE draft' = draft
  BY <1>7
<1>. QED
  BY <1>1, <1>2, <1>3, <1>4, <1>5, <1>6, <1>7 DEF Next, vars, ReadUpdate, ReadSubmit, ReadDecide,
     ReadCancel, PublishDraft, SavePolicy, RollBack, Publish, Read, CheckPublication

\* Drafts keep what the publications of later requests rely on.
LEMMA DraftInvStep ==
  ASSUME Inv, [Next]_vars
  PROVE  DraftInv'
<1>0. /\ draft \in [Drafts -> Draft] /\ Latest \in Nat /\ Latest' \in Nat /\ Latest <= Latest'
      /\ \A d \in Drafts : draft[d].base \in Nat
  BY LatestType, VersionsGrow, WorkflowAssumption DEF Inv, TypeOK, Draft
<1>1. SUFFICES ASSUME NEW d \in Drafts
               PROVE  /\ draft'[d].base <= Latest
                      /\ draft'[d].state # "absent" =>
                           draft'[d].doc \in Docs /\ draft'[d].revision \in 1..MaxRevisions
  <2>1. ASSUME NEW d \in Drafts, draft'[d].base <= Latest, draft'[d].base \in Nat
        PROVE  draft'[d].base <= Latest'
    BY <1>0, <2>1
  <2>2. ASSUME NEW d \in Drafts PROVE draft'[d].base \in Nat
    <3>1. TypeOK'
      BY TypeStep DEF Inv
    <3>. QED
      BY <3>1, WorkflowAssumption DEF TypeOK, Draft
  <2>. QED
    BY <1>1, <2>1, <2>2 DEF DraftInv
<1> DEFINE Goal == /\ draft'[d].base <= Latest
                   /\ draft'[d].state # "absent" =>
                        draft'[d].doc \in Docs /\ draft'[d].revision \in 1..MaxRevisions
<1>2. CASE draft'[d] = draft[d]
  BY <1>2 DEF Inv, DraftInv
<1>3. ASSUME NEW e \in Drafts, NEW u \in Users, NEW doc \in Docs, Create(e, u, doc) PROVE Goal
  <2>1. PICK base \in 0..Latest :
          draft' = [draft EXCEPT ![e] = [@ EXCEPT !.state = "draft", !.doc = doc, !.base = base,
                                                  !.revision = 1, !.creator = u]]
    BY <1>3 DEF Create
  <2>2. d = e => draft'[d].base = base /\ draft'[d].doc = doc /\ draft'[d].revision = 1
    BY <1>0, <2>1 DEF Draft
  <2>3. d # e => draft'[d] = draft[d]
    BY <1>0, <2>1
  <2>. QED
    BY <1>0, <1>2, <2>2, <2>3, WorkflowAssumption
<1>4. ASSUME NEW t \in Threads, Update(t) PROVE Goal
  <2> DEFINE q == thread[t]
  <2>1. /\ q.id \in Drafts /\ q.doc \in Docs /\ q.base <= Latest
        /\ q.revision \in 1..MaxRevisions /\ q.revision < MaxRevisions
    BY <1>4, RequestType DEF Update, Inv, RequestInv, Sound
  <2>2. draft'[d] = draft[d] \/ (draft'[d].base = q.base /\ draft'[d].doc = q.doc
                                 /\ draft'[d].revision = q.revision + 1)
    BY <1>0, <1>4, <2>1 DEF Update, Draft
  <2>3. q.revision + 1 \in 1..MaxRevisions
    BY <2>1, WorkflowAssumption
  <2>. QED
    BY <1>2, <2>1, <2>2, <2>3
<1>5. ASSUME NEW e \in Drafts, NEW new \in Draft, draft' = [draft EXCEPT ![e] = new],
             new.base = draft[e].base, new.doc = draft[e].doc, new.revision = draft[e].revision,
             draft[e].state = "absent" => new.state = "absent"
      PROVE  Goal
  <2>1. CASE d = e
    BY <1>0, <1>5, <2>1 DEF Inv, DraftInv
  <2>2. CASE d # e
    BY <1>0, <1>2, <1>5, <2>2
  <2>. QED
    BY <2>1, <2>2
<1>6. ASSUME NEW t \in Threads, Submit(t) PROVE Goal
  <2> DEFINE id == thread[t].id
             new == [draft[id] EXCEPT !.state = "pending_approval", !.submitter = thread[t].user]
  <2>1. id \in Drafts /\ thread[t].user \in Users
    BY <1>6, RequestType DEF Submit, Inv
  <2>2. new \in Draft /\ new.base = draft[id].base /\ new.doc = draft[id].doc
        /\ new.revision = draft[id].revision
    <3>1. draft[id] \in Draft /\ thread[t].user \in Users
      BY <1>0, <2>1
    <3>. HIDE DEF id
    <3>. QED
      BY <3>1 DEF Draft, DraftState
  <2>3. CASE draft[id].state = "draft"
    <3>1. draft' = [draft EXCEPT ![id] = new]
      BY <1>6, <2>3 DEF Submit
    <3>. HIDE DEF new
    <3>. QED
      BY <1>5, <2>1, <2>2, <2>3, <3>1
  <2>4. CASE draft[id].state # "draft"
    BY <1>2, <1>6, <2>4 DEF Submit
  <2>. QED
    BY <2>3, <2>4
<1>7. ASSUME NEW e \in Drafts, NEW state \in DraftState,
             draft' = [draft EXCEPT ![e] = [draft[e] EXCEPT !.state = state]],
             draft[e].state = "absent" => state = "absent"
      PROVE  Goal
  <2> DEFINE new == [draft[e] EXCEPT !.state = state]
  <2>1. new \in Draft /\ new.base = draft[e].base /\ new.doc = draft[e].doc
        /\ new.revision = draft[e].revision /\ new.state = state
    BY <1>0 DEF Draft
  <2>2. draft' = [draft EXCEPT ![e] = new]
    BY <1>7
  <2>. HIDE DEF new
  <2>. QED
    BY <1>5, <1>7, <2>1, <2>2
<1>8. ASSUME NEW t \in Threads, Decide(t) PROVE Goal
  <2>1. thread[t].id \in Drafts
    BY <1>8, RequestType DEF Decide, Inv
  <2> DEFINE id == thread[t].id
             verdict == IF thread[t].step = "approve" THEN "approved" ELSE "rejected"
             state == IF draft[id].state = "pending_approval" THEN verdict ELSE draft[id].state
  <2>2. draft' = draft \/ draft' = [draft EXCEPT ![id] = [draft[id] EXCEPT !.state = state]]
    BY <1>0, <1>8, <2>1 DEF Decide
  <2>3. state \in DraftState /\ (draft[id].state = "absent" => state = "absent")
    BY <1>0, <2>1 DEF Draft, DraftState
  <2>. HIDE DEF state
  <2>. QED
    BY <1>2, <1>7, <2>1, <2>2, <2>3
<1>9. ASSUME NEW t \in Threads, Cancel(t) PROVE Goal
  <2>1. thread[t].id \in Drafts /\ draft[thread[t].id].state # "absent"
    BY <1>9, RequestType DEF Cancel, Inv, RequestInv, Sound
  <2> DEFINE id == thread[t].id
             state == IF draft[id].state = "published" THEN draft[id].state ELSE "cancelled"
  <2>2. draft' = [draft EXCEPT ![id] = [draft[id] EXCEPT !.state = state]]
    BY <1>0, <1>9, <2>1 DEF Cancel
  <2>3. state \in DraftState
    BY DEF DraftState
  <2>. QED
    BY <1>7, <2>1, <2>2, <2>3
<1>10. ASSUME NEW t \in Threads, CommitPublication(t) PROVE Goal
  <2> DEFINE id == thread[t].id
             new == [draft[id] EXCEPT !.state = "published", !.version = Latest + 1]
  <2>1. thread[t] \in Publication /\ (id \in Drafts => draft[id].state # "absent")
        /\ thread[t].expected < MaxVersions
    BY <1>10, RequestType DEF CommitPublication, Inv, RequestInv, Sound
  <2>2. draft' = draft \/ (id \in Drafts /\ Latest = thread[t].expected
                           /\ draft' = [draft EXCEPT ![id] = new])
    BY <1>0, <1>10, <2>1 DEF CommitPublication, MarkPublished, Publication
  <2>3. ASSUME id \in Drafts, Latest = thread[t].expected
        PROVE  new \in Draft /\ new.base = draft[id].base /\ new.doc = draft[id].doc
               /\ new.revision = draft[id].revision
    <3>1. Latest + 1 \in 0..MaxVersions
      BY <1>0, <2>1, <2>3, WorkflowAssumption
    <3>2. draft[id] \in Draft
      BY <1>0, <2>3
    <3>. HIDE DEF id
    <3>. QED
      BY <3>1, <3>2 DEF Draft, DraftState
  <2>. HIDE DEF new
  <2>. QED
    BY <1>2, <1>5, <2>1, <2>2, <2>3
<1>11. CASE draft' = draft
  BY <1>2, <1>11
<1>. QED
  BY <1>3, <1>4, <1>6, <1>8, <1>9, <1>10, <1>11 DEF Next, vars, ReadUpdate, ReadSubmit, ReadDecide,
     ReadCancel, PublishDraft, SavePolicy, RollBack, Publish, Read, CheckPublication

\* A thread changes only what it holds itself: it goes idle, or goes on with a request.
LEMMA ThreadStep ==
  ASSUME Inv, [Next]_vars, NEW u \in Threads, thread'[u] # thread[u], thread'[u] # Idle
  PROVE  \/ \E d \in Drafts, doc \in Docs, rebase \in BOOLEAN : ReadUpdate(u, d, doc, rebase)
         \/ \E d \in Drafts, v \in Users : ReadSubmit(u, d, v)
         \/ \E d \in Drafts, v \in Users, step \in {"approve", "reject"} :
                 ReadDecide(u, d, v, step)
         \/ \E d \in Drafts : ReadCancel(u, d)
         \/ \E d \in Drafts, emergency \in BOOLEAN : PublishDraft(u, d, emergency)
         \/ \E doc \in Docs : SavePolicy(u, doc)
         \/ \E old \in 1..Latest : RollBack(u, old)
         \/ \E confirm \in BOOLEAN : CheckPublication(u, confirm)
<1>0. thread \in [Threads -> {Idle} \cup DraftRequest \cup Publication]
  BY DEF Inv, TypeOK
<1>1. ASSUME NEW t \in Threads, NEW q, thread' = [thread EXCEPT ![t] = q] PROVE t = u /\ q # Idle
  BY <1>0, <1>1
<1>2. ASSUME NEW t \in Threads, End(t) PROVE FALSE
  BY <1>1, <1>2 DEF End
<1>3. ASSUME NEW t \in Threads, NEW q, Begin(t, q) PROVE t = u
  BY <1>1, <1>3 DEF Begin
<1>4. ASSUME NEW t \in Threads, Update(t) \/ Submit(t) \/ Decide(t) \/ Cancel(t) \/ CommitPublication(t)
      PROVE  FALSE
  BY <1>2, <1>4 DEF Update, Submit, Decide, Cancel, CommitPublication
<1>5. ASSUME NEW t \in Threads, NEW d \in Drafts
      PROVE  /\ \A doc \in Docs, rebase \in BOOLEAN : ReadUpdate(t, d, doc, rebase) => t = u
             /\ \A v \in Users : ReadSubmit(t, d, v) => t = u
             /\ \A v \in Users, step \in {"approve", "reject"} : ReadDecide(t, d, v, step) => t = u
             /\ ReadCancel(t, d) => t = u
             /\ \A emergency \in BOOLEAN : PublishDraft(t, d, emergency) => t = u
  BY <1>3 DEF ReadUpdate, ReadSubmit, ReadDecide, ReadCancel, PublishDraft, Publish, Read
<1>6. ASSUME NEW t \in Threads
      PROVE  /\ \A doc \in Docs : SavePolicy(t, doc) => t = u
             /\ \A old \in 1..Latest : RollBack(t, old) => t = u
             /\ \A confirm \in BOOLEAN : CheckPublication(t, confirm) => t = u
  BY <1>2, <1>3 DEF SavePolicy, RollBack, CheckPublication, Publish, Read
<1>7. CASE \E d \in Drafts, v \in Users, doc \in Docs : Create(d, v, doc)
  BY <1>7 DEF Create
<1>8. CASE UNCHANGED vars
  BY <1>8 DEF vars
<1>. QED
  BY <1>4, <1>5, <1>6, <1>7, <1>8 DEF Next

\* What the threads have read stays true of the versions there are.
LEMMA RequestInvStep ==
  ASSUME Inv, [Next]_vars
  PROVE  RequestInv'
<1> DEFINE Request == {Idle} \cup DraftRequest \cup Publication
<1>0. /\ Latest \in Nat /\ Latest' \in Nat /\ Latest <= Latest'
      /\ \A n \in 1..Latest : versions'[n] = versions[n]
      /\ \A d \in Drafts : draft[d].state # "absent" => draft'[d].state # "absent"
      /\ thread' \in [Threads -> Request]
      /\ draft \in [Drafts -> Draft]
  BY LatestType, VersionsGrow, DraftStep, TypeStep DEF Inv, TypeOK
<1>1. ASSUME NEW q \in Request, Sound(q) PROVE Sound(q)'
  <2>1. q.step = "update" => q.base \in Nat
    BY RequestKinds, WorkflowAssumption DEF Publication
  <2>2. q.step \in {"check", "commit"} => q.expected \in Nat
    BY RequestKinds, WorkflowAssumption DEF Publication
  <2>3. ASSUME q.step = "commit" PROVE DocOf(q.expected)' = DocOf(q.expected)
    <3>1. q.expected = 0 \/ q.expected \in 1..Latest
      BY <1>0, <1>1, <2>2, <2>3 DEF Sound
    <3>. QED
      BY <1>0, <3>1 DEF DocOf
  <2>. QED
    BY <1>0, <1>1, <2>1, <2>2, <2>3 DEF Sound, Weakens
<1>2. ASSUME NEW u \in Threads, thread'[u] # thread[u], thread'[u] # Idle
      PROVE  \E q \in Request : q = thread'[u] /\ Sound(q)
  <2> DEFINE p == thread'[u]
  <2>0. p \in Request
    BY <1>0
  <2>1. ASSUME NEW d \in Drafts, NEW doc \in Docs, NEW rebase \in BOOLEAN, ReadUpdate(u, d, doc, rebase)
        PROVE  Sound(p)
    <3>1. p = [step |-> "update", id |-> d, doc |-> doc, revision |-> draft[d].revision,
               base |-> IF rebase THEN Latest ELSE draft[d].base]
      BY <2>1 DEF ReadUpdate, Read, Begin, Inv, TypeOK
    <3>2. draft[d].base <= Latest /\ draft[d].revision < MaxRevisions
      BY <2>1 DEF ReadUpdate, Inv, DraftInv
    <3>. QED
      BY <1>0, <3>1, <3>2 DEF Sound
  <2>2. ASSUME NEW d \in Drafts, NEW v \in Users, NEW step \in {"submit", "approve", "reject"},
               Read(u, [step |-> step, id |-> d, user |-> v, doc |-> draft[d].doc])
        PROVE  Sound(p)
    BY <2>2 DEF Read, Begin, Sound, Inv, TypeOK
  <2>3. ASSUME NEW d \in Drafts, ReadCancel(u, d) PROVE Sound(p)
    BY <2>3 DEF ReadCancel, Read, Begin, Sound, Inv, TypeOK
  <2>4. ASSUME NEW kind, NEW d \in Drafts \cup {NoDraft}, NEW doc, NEW expected, NEW emergency,
               Publish(u, kind, d, doc, expected, emergency), expected <= Latest,
               d \in Drafts => draft[d].state # "absent"
        PROVE  Sound(p)
    BY <2>4 DEF Publish, Read, Begin, Sound, Inv, TypeOK
  <2>5. ASSUME NEW d \in Drafts, NEW emergency \in BOOLEAN, PublishDraft(u, d, emergency)
        PROVE  Sound(p)
    BY <2>4, <2>5 DEF PublishDraft, Open, Inv, DraftInv
  <2>6. ASSUME NEW doc \in Docs, SavePolicy(u, doc) PROVE Sound(p)
    <3>1. Latest <= Latest /\ NoDraft \notin Drafts
      BY <1>0, WorkflowAssumption
    <3>2. Publish(u, "change", NoDraft, doc, Latest, FALSE)
      BY <2>6 DEF SavePolicy
    <3>. QED
      BY <2>4, <3>1, <3>2
  <2>7. ASSUME NEW old \in 1..Latest, RollBack(u, old) PROVE Sound(p)
    <3>1. Latest <= Latest /\ NoDraft \notin Drafts
      BY <1>0, WorkflowAssumption
    <3>2. Publish(u, "rollback", NoDraft, DocOf(old), Latest, FALSE)
      BY <2>7 DEF RollBack
    <3>. QED
      BY <2>4, <3>1, <3>2
  <2>8. ASSUME NEW confirm \in BOOLEAN, CheckPublication(u, confirm) PROVE Sound(p)
    <3> DEFINE q == thread[u]
               w == Weakens(DocOf(Latest), q.doc)
    <3>1. q \in Publication /\ q.step = "check" /\ Sound(q)
      BY <2>8, RequestType DEF CheckPublication, Inv, RequestInv
    <3>2. /\ p = [q EXCEPT !.step = "commit", !.weakening = w]
          /\ Latest = q.expected /\ q.doc # DocOf(Latest)
      BY <1>2, <2>8 DEF CheckPublication, Begin, End, Inv, TypeOK
    <3>3. /\ p.step = "commit" /\ p.weakening = w /\ p.id = q.id /\ p.doc = q.doc
          /\ p.expected = q.expected
      BY <3>1, <3>2 DEF Publication
    <3>. QED
      BY <3>1, <3>2, <3>3 DEF Sound
  <2>. QED
    BY <1>2, <2>0, <2>1, <2>2, <2>3, <2>5, <2>6, <2>7, <2>8, ThreadStep DEF ReadSubmit, ReadDecide
<1>3. ASSUME NEW u \in Threads PROVE \E q \in Request : q = thread'[u] /\ Sound(q)
  <2>1. CASE thread'[u] = thread[u]
    BY <1>0, <2>1 DEF Inv, RequestInv
  <2>2. CASE thread'[u] = Idle
    BY <2>2 DEF Sound, Idle
  <2>. QED
    BY <1>2, <2>1, <2>2
<1>4. ASSUME NEW u \in Threads PROVE Sound(thread[u])'
  <2>1. PICK q \in Request : q = thread'[u] /\ Sound(q)
    BY <1>3
  <2>2. Sound(q)'
    BY <1>1, <2>1
  <2>. QED
    BY <2>1, <2>2 DEF Sound, DocOf, Latest, Weakens
<1>. QED
  BY <1>4 DEF RequestInv

\* A draft becomes published with a version newer than what any other thread that
\* would publish it expects.
LEMMA LateInvStep ==
  ASSUME Inv, [Next]_vars
  PROVE  LateInv'
<1>0. /\ Latest \in Nat /\ Latest' \in Nat /\ Latest <= Latest'
      /\ thread' \in [Threads -> {Idle} \cup DraftRequest \cup Publication]
  BY LatestType, VersionsGrow, TypeStep DEF Inv, TypeOK
<1>1. SUFFICES ASSUME NEW u \in Threads, thread'[u].step \in {"check", "commit"},
                      thread'[u].id \in Drafts, draft'[thread'[u].id].state = "published"
               PROVE  thread'[u].expected < Latest'
  BY DEF LateInv
<1> DEFINE p == thread'[u]
<1>2. p.expected \in Nat
  BY <1>0, <1>1, RequestKinds, WorkflowAssumption DEF Publication
\* The request had been checked against the draft before.
<1>3. ASSUME thread[u].step \in {"check", "commit"}, thread[u].id = p.id,
             thread[u].expected = p.expected
      PROVE  p.expected < Latest'
  <2>1. p.expected <= Latest
    BY <1>3 DEF Inv, RequestInv, Sound
  <2>2. draft[p.id].state = "published" => p.expected < Latest
    BY <1>1, <1>3 DEF Inv, LateInv
  <2>3. draft[p.id].state = "published" \/ Latest < Latest'
    BY <1>1, DraftStep
  <2>. QED
    BY <1>0, <1>2, <2>1, <2>2, <2>3
<1>4. CASE thread'[u] = thread[u]
  BY <1>1, <1>3, <1>4
<1>5. CASE thread'[u] = Idle
  BY <1>1, <1>5 DEF Idle
<1>6. ASSUME NEW confirm \in BOOLEAN, CheckPublication(u, confirm), p # Idle
      PROVE  p.expected < Latest'
  <2> DEFINE q == thread[u]
             w == Weakens(DocOf(Latest), q.doc)
  <2>1. q \in Publication
    BY <1>6, RequestType DEF CheckPublication, Inv
  <2>2. p = [q EXCEPT !.step = "commit", !.weakening = w] /\ q.step = "check"
    BY <1>6 DEF CheckPublication, Begin, End, Inv, TypeOK
  <2>3. p.id = q.id /\ p.expected = q.expected
    BY <2>1, <2>2 DEF Publication
  <2>. QED
    BY <1>3, <2>2, <2>3
\* A draft that is open is not published by reading it.
<1>7. ASSUME NEW d \in Drafts, NEW emergency \in BOOLEAN, PublishDraft(u, d, emergency)
      PROVE  FALSE
  BY <1>1, <1>7 DEF PublishDraft, Publish, Read, Begin, Open, Inv, TypeOK
<1>8. ASSUME NEW q, Read(u, q), q.step \in {"check", "commit"} => q.id = NoDraft PROVE FALSE
  BY <1>1, <1>8, WorkflowAssumption DEF Read, Begin, Inv, TypeOK
<1>9. ASSUME \/ \E d \in Drafts, doc \in Docs, rebase \in BOOLEAN : ReadUpdate(u, d, doc, rebase)
             \/ \E d \in Drafts, v \in Users : ReadSubmit(u, d, v)
             \/ \E d \in Drafts, v \in Users, step \in {"approve", "reject"} : ReadDecide(u, d, v, step)
             \/ \E d \in Drafts : ReadCancel(u, d)
             \/ \E doc \in Docs : SavePolicy(u, doc)
             \/ \E old \in 1..Latest : RollBack(u, old)
      PROVE  FALSE
  BY <1>8, <1>9 DEF ReadUpdate, ReadSubmit, ReadDecide, ReadCancel, SavePolicy, RollBack, Publish
<1>. QED
  BY <1>4, <1>5, <1>6, <1>7, <1>9, ThreadStep

\* The invariant is inductive.
LEMMA InvStep ==
  ASSUME Inv, [Next]_vars
  PROVE  Inv'
BY TypeStep, DraftInvStep, RequestInvStep, LateInvStep DEF Inv

LEMMA InvHolds == Spec => []Inv
<1>1. Inv /\ UNCHANGED vars => Inv'
  BY InvStep
<1>. QED
  BY InvInit, InvStep, PTL DEF Spec

-----------------------------------------------------------------------------
\* Types of versions, drafts, approvals and of what the request threads hold.
THEOREM TypeCorrect == Spec => []TypeOK
<1>1. Inv => TypeOK
  BY DEF Inv
<1>. QED
  BY <1>1, InvHolds, PTL

\* PublishedIsFinal: a published draft is history, whatever requests were under way.
THEOREM Finality == Spec => PublishedIsFinal
<1>1. Inv /\ [Next]_vars =>
        [\A d \in Drafts : draft[d].state = "published" => draft'[d] = draft[d]]_vars
  BY DraftStep
<1>. QED
  BY <1>1, InvHolds, PTL DEF Spec, PublishedIsFinal

-----------------------------------------------------------------------------
(* The workflow implements PolicyHistory.                                  *)

Entry(v) == [doc |-> v.doc, draft |-> v.draft, weakening |-> v.weakening]
Entries(s) == [n \in DOMAIN s |-> Entry(s[n])]
EntryType == [doc: Docs, draft: Drafts \cup {NoDraft}, weakening: BOOLEAN]
Published == {d \in Drafts : draft[d].state = "published"}

\* The history is a sequence as long as that of the versions.
LEMMA EntriesType ==
  ASSUME NEW s \in Seq(Version)
  PROVE  /\ Entries(s) \in Seq(EntryType)
         /\ Len(Entries(s)) = Len(s)
         /\ \A n \in 1..Len(s) : Entries(s)[n] = Entry(s[n])
<1>1. Len(s) \in Nat /\ DOMAIN s = 1..Len(s) /\ s \in [1..Len(s) -> Version]
  BY LenProperties
<1>2. \A v \in Version : Entry(v) \in EntryType
  BY DEF Entry, EntryType, Version
<1>3. Entries(s) \in [1..Len(s) -> EntryType]
  BY <1>1, <1>2 DEF Entries
<1>4. Entries(s) \in Seq(EntryType)
  BY <1>1, <1>3, SeqDef
<1>5. Len(Entries(s)) = Len(s)
  BY <1>1, <1>3, <1>4, LenProperties
<1>. QED
  BY <1>1, <1>4, <1>5 DEF Entries

\* The document in force is that of the latest version.
LEMMA CurrentDocument ==
  ASSUME TypeOK
  PROVE  (IF Entries(versions) = <<>> THEN 0 ELSE Entries(versions)[Len(Entries(versions))].doc)
           = DocOf(Latest)
<1>1. /\ Entries(versions) \in Seq(EntryType) /\ Len(Entries(versions)) = Latest
      /\ \A n \in 1..Latest : Entries(versions)[n] = Entry(versions[n])
      /\ Latest \in Nat
  BY EntriesType, LatestType DEF TypeOK, Latest
<1>2. CASE Latest = 0
  BY <1>1, <1>2, EmptySeq DEF DocOf
<1>3. CASE Latest # 0
  <2>1. Entries(versions) # <<>>
    BY <1>1, <1>3, EmptySeq
  <2>2. Entries(versions)[Latest].doc = versions[Latest].doc
    BY <1>1, <1>3 DEF Entry
  <2>3. DocOf(Latest) = versions[Latest].doc
    BY <1>3 DEF DocOf
  <2>. QED
    BY <1>1, <2>1, <2>2, <2>3
<1>. QED
  BY <1>2, <1>3

\* A committed publication appends what it stores to the history.
LEMMA HistoryAppend ==
  ASSUME TypeOK, NEW q \in Publication, Latest < MaxVersions, InsertVersion(q)
  PROVE  Entries(versions')
           = Append(Entries(versions), [doc |-> q.doc, draft |-> q.id, weakening |-> q.weakening])
<1> DEFINE e == [doc |-> q.doc, draft |-> q.id, weakening |-> q.weakening]
           h == Entries(versions)
           hh == Entries(versions')
<1>1. /\ versions' \in Seq(Version) /\ Latest' = Latest + 1 /\ Latest \in Nat
      /\ \A n \in 1..Latest : versions'[n] = versions[n]
      /\ Entry(versions'[Latest + 1]) = e
  <2>1. /\ versions' \in Seq(Version) /\ Latest' = Latest + 1 /\ Latest \in Nat
        /\ \A n \in 1..Latest : versions'[n] = versions[n]
        /\ versions'[Latest + 1] = [kind |-> q.kind, doc |-> q.doc, draft |-> q.id,
                                   emergency |-> q.emergency, weakening |-> q.weakening]
    BY InsertType, LatestType
  <2>. QED
    BY <2>1 DEF Entry
<1>2. h \in Seq(EntryType) /\ Len(h) = Latest /\ \A n \in 1..Latest : h[n] = Entry(versions[n])
  BY EntriesType DEF TypeOK, Latest
<1>3. hh \in Seq(EntryType) /\ Len(hh) = Latest + 1
      /\ \A n \in 1..(Latest + 1) : hh[n] = Entry(versions'[n])
  BY <1>1, EntriesType DEF Latest
<1>4. e \in EntryType
  BY DEF Publication, EntryType
<1>. HIDE DEF e, h, hh
<1>5. /\ Append(h, e) \in Seq(EntryType) /\ Len(Append(h, e)) = Latest + 1
      /\ \A n \in 1..Latest : Append(h, e)[n] = h[n]
      /\ Append(h, e)[Latest + 1] = e
  BY <1>2, <1>4
<1>6. ASSUME NEW n \in 1..(Latest + 1) PROVE hh[n] = Append(h, e)[n]
  <2>1. CASE n = Latest + 1
    BY <1>1, <1>3, <1>5, <2>1
  <2>2. CASE n # Latest + 1
    <3>1. n \in 1..Latest
      BY <1>1, <2>2
    <3>. QED
      BY <1>1, <1>2, <1>3, <1>5, <3>1
  <2>. QED
    BY <2>1, <2>2
<1>7. hh = Append(h, e)
  BY <1>3, <1>5, <1>6, SeqEqual
<1>. QED
  BY <1>7 DEF e, h, hh

\* What a transaction that publishes does is the step of PolicyHistory.
LEMMA CommitStep ==
  ASSUME Inv, NEW t \in Threads, CommitPublication(t)
  PROVE  H!Next \/ (Entries(versions') = Entries(versions) /\ Published' = Published)
<1> DEFINE q == thread[t]
<1>1. /\ q \in Publication /\ q.expected < MaxVersions
      /\ q.doc # DocOf(q.expected) /\ q.weakening = Weakens(DocOf(q.expected), q.doc)
  BY RequestType DEF CommitPublication, Inv, RequestInv, Sound
<1>2. CASE Latest # q.expected
  BY <1>2 DEF CommitPublication, Published
<1>3. CASE Latest = q.expected
  <2>1. Entries(versions') = Append(Entries(versions), [doc |-> q.doc, draft |-> q.id,
                                                        weakening |-> q.doc < DocOf(Latest)])
    BY <1>1, <1>3, HistoryAppend DEF CommitPublication, Inv, Weakens
  <2>2. q.doc \in Docs /\ q.id \in Drafts \cup {NoDraft}
    BY <1>1 DEF Publication
  <2>3. q.id \notin Published
    BY <1>3, LatestType DEF CommitPublication, Inv, LateInv, Published
  <2>4. Published' = Published \cup ({q.id} \ {NoDraft})
    <3>1. CASE q.id = NoDraft
      BY <1>3, <3>1 DEF CommitPublication, MarkPublished, Published
    <3>2. CASE q.id # NoDraft
      <4>1. q.id \in Drafts /\ draft \in [Drafts -> Draft]
        BY <2>2, <3>2 DEF Inv, TypeOK
      <4>2. draft' = [draft EXCEPT ![q.id] = [draft[q.id] EXCEPT !.state = "published",
                                                                 !.version = Latest + 1]]
        BY <1>3, <3>2, <4>1 DEF CommitPublication, MarkPublished
      <4>3. draft'[q.id].state = "published"
        BY <4>1, <4>2 DEF Draft
      <4>4. \A d \in Drafts : d # q.id => draft'[d] = draft[d]
        BY <4>1, <4>2
      <4>. QED
        BY <3>2, <4>1, <4>3, <4>4 DEF Published
    <3>. QED
      BY <3>1, <3>2
  <2>5. H!Current = DocOf(Latest)
    BY CurrentDocument DEF H!Current, Entries, Entry, Inv
  <2>6. H!Publish(q.doc, q.id)
    BY <1>1, <1>3, <2>1, <2>3, <2>4, <2>5 DEF H!Publish, Entries, Entry, Published
  <2>7. \E doc \in Docs, d \in Drafts \cup {NoDraft} : H!Publish(doc, d)
    <3>. HIDE DEF q
    <3>. QED
      BY <2>2, <2>6 DEF H!Publish
  <2>. QED
    BY <2>7 DEF H!Next
<1>. QED
  BY <1>2, <1>3

\* ImplementsHistory: publications happen one after the other, each replacing the
\* version it was compared with, and no draft is published twice.
THEOREM Refinement == Spec => ImplementsHistory
<1>1. Init => H!Init
  BY EmptySeq DEF Init, H!Init
<1>2. Inv /\ [Next]_vars => [H!Next]_<<Entries(versions), Published>>
  <2> SUFFICES ASSUME Inv, [Next]_vars
               PROVE  H!Next \/ (Entries(versions') = Entries(versions) /\ Published' = Published)
    BY DEF Entries, Entry, Published
  <2>1. ASSUME NEW t \in Threads, CommitPublication(t)
        PROVE  H!Next \/ (Entries(versions') = Entries(versions) /\ Published' = Published)
    BY <2>1, CommitStep
  <2>2. ASSUME versions' = versions, Latest' = Latest
        PROVE  Entries(versions') = Entries(versions) /\ Published' = Published
    <3>1. \A d \in Drafts : draft'[d].state = "published" <=> draft[d].state = "published"
      BY <2>2, DraftStep, LatestType DEF Inv
    <3>. QED
      BY <2>2, <3>1 DEF Published
  <2>3. versions' = versions \/ \E t \in Threads : CommitPublication(t)
    BY DEF Next, vars, Create, ReadUpdate, ReadSubmit, ReadDecide, ReadCancel, PublishDraft,
       SavePolicy, RollBack, Publish, Read, Update, Submit, Decide, Cancel, CheckPublication
  <2>. QED
    BY <2>1, <2>2, <2>3 DEF Latest
<1>. QED
  BY <1>1, <1>2, InvHolds, PTL DEF Spec, ImplementsHistory, H!Spec, Entries, Entry, Published

-----------------------------------------------------------------------------
(* Sessions and members in the behaviours of MCDashboard.                  *)

\* The session, or the thread, came from this sign-in.
Stored(i, s) == session[i].status = "live" /\ session[i].signIn = s
Exchanges(t, s) == tab[t].step = "exchange" /\ tab[t].signIn = s

\* Nothing came from a sign-in whose state is still to be consumed, and at most one
\* session or one thread from any other.
HeldOnce ==
  \A s \in SignIns :
    /\ signIn[s].status # "gone" =>
         /\ \A i \in SessionIds : ~Stored(i, s)
         /\ \A t \in Requests : ~Exchanges(t, s)
    /\ \A i, j \in SessionIds : Stored(i, s) /\ Stored(j, s) => i = j
    /\ \A t, u \in Requests : Exchanges(t, s) /\ Exchanges(u, s) => t = u
    /\ \A i \in SessionIds, t \in Requests : ~(Stored(i, s) /\ Exchanges(t, s))

AccessInv == SignedIn!TypeOK /\ HeldOnce

TabState == {SignedIn!Idle} \cup SignedIn!Request \cup SignedIn!SigningIn
SessionState == [status: {"new", "ended"}] \cup SignedIn!Live

\* What a thread and a session hold, by their kind.
LEMMA TabKinds ==
  ASSUME NEW r \in TabState
  PROVE  /\ r.step = "exchange" => r \in SignedIn!SigningIn
         /\ r.step \in {"expire", "touch", "roles"} =>
              r \in [step: {"expire", "touch", "roles"}, id: SessionIds, age: 0..Lifetime]
         /\ r.step = "act"
              => r \in [step: {"act"}, id: SessionIds, user: Members, role: SignedIn!Role]
BY DEF TabState, SignedIn!Idle, SignedIn!Request, SignedIn!SigningIn

\* A live session has all its columns.
LEMMA SessionKinds ==
  ASSUME NEW s \in SessionState, s.status = "live"
  PROVE  s \in SignedIn!Live
BY DEF SessionState, SignedIn!Live

\* A thread that goes on with a record of one of the kinds.
LEMMA TabType ==
  ASSUME SignedIn!TypeOK, NEW t \in Requests, NEW r \in TabState, SignedIn!Begin(t, r)
  PROVE  /\ tab' \in [Requests -> TabState]
         /\ tab'[t] = r /\ \A u \in Requests : u # t => tab'[u] = tab[u]
BY DEF SignedIn!TypeOK, SignedIn!Begin, TabState

\* Deleted sessions are over, and the others as they were.
LEMMA EndSessionsType ==
  ASSUME SignedIn!TypeOK, NEW S, SignedIn!EndSessions(S)
  PROVE  /\ session' \in [SessionIds -> SessionState]
         /\ \A i \in SessionIds : session'[i] = session[i] \/ session'[i].status = "ended"
BY DEF SignedIn!TypeOK, SignedIn!EndSessions, SessionState

\* States past their time are deleted, and the others as they were.
LEMMA WithoutOverdueType ==
  ASSUME SignedIn!TypeOK
  PROVE  /\ SignedIn!WithoutOverdue \in [SignIns -> [status: {"new", "gone"}]
             \cup [status: {"pending"}, age: 0..StateLimit]]
         /\ \A s \in SignIns : SignedIn!WithoutOverdue[s] = signIn[s]
              \/ SignedIn!WithoutOverdue[s].status = "gone"
BY DEF SignedIn!TypeOK, SignedIn!WithoutOverdue

\* An age that grows up to its limit stays an age.
LEMMA OlderAge ==
  ASSUME NEW limit \in Nat, NEW age \in 0..limit
  PROVE  (IF age < limit THEN age + 1 ELSE age) \in 0..limit
OBVIOUS

\* A state that is waiting for its callback.
LEMMA OlderState ==
  ASSUME NEW r \in [status: {"pending"}, age: 0..StateLimit]
  PROVE  SignedIn!Older(r, StateLimit) \in [status: {"pending"}, age: 0..StateLimit]
BY OlderAge, SessionLimits DEF SignedIn!Older

\* A session, in all its columns.
LEMMA OlderSession ==
  ASSUME NEW r \in SignedIn!Live
  PROVE  LET new == [SignedIn!Older(r, Lifetime)
             EXCEPT !.idle = IF @ < Lifetime THEN @ + 1 ELSE @]
         IN new \in SignedIn!Live /\ new.signIn = r.signIn
<1>1. /\ (IF r.age < Lifetime THEN r.age + 1 ELSE r.age) \in 0..Lifetime
      /\ (IF r.idle < Lifetime THEN r.idle + 1 ELSE r.idle) \in 0..Lifetime
  BY OlderAge, SessionLimits DEF SignedIn!Live
<1>2. SignedIn!Older(r, Lifetime) \in SignedIn!Live
        /\ SignedIn!Older(r, Lifetime).idle = r.idle
      /\ SignedIn!Older(r, Lifetime).signIn = r.signIn
  BY <1>1 DEF SignedIn!Older, SignedIn!Live
<1>. QED
  BY <1>1, <1>2 DEF SignedIn!Live

\* A thread that talks to GitHub.
LEMMA OlderExchange ==
  ASSUME NEW r \in SignedIn!SigningIn
  PROVE  /\ SignedIn!Older(r, Lifetime) \in SignedIn!SigningIn
         /\ SignedIn!Older(r, Lifetime).step = "exchange"
              /\ SignedIn!Older(r, Lifetime).signIn = r.signIn
<1>1. (IF r.age < Lifetime THEN r.age + 1 ELSE r.age) \in 0..Lifetime
  BY OlderAge, SessionLimits DEF SignedIn!SigningIn
<1>. QED
  BY <1>1 DEF SignedIn!Older, SignedIn!SigningIn

\* A thread that checks a session.
LEMMA OlderRequest ==
  ASSUME NEW r \in [step: {"expire", "touch", "roles"}, id: SessionIds, age: 0..Lifetime]
  PROVE  /\ SignedIn!Older(r, Lifetime) \in [step: {"expire", "touch", "roles"},
             id: SessionIds, age: 0..Lifetime]
         /\ SignedIn!Older(r, Lifetime).step = r.step
<1>1. (IF r.age < Lifetime THEN r.age + 1 ELSE r.age) \in 0..Lifetime
  BY OlderAge, SessionLimits
<1>. QED
  BY <1>1 DEF SignedIn!Older

\* Time only makes things older.
LEMMA TickStep ==
  ASSUME SignedIn!TypeOK, SignedIn!Tick
  PROVE  /\ SignedIn!TypeOK'
         /\ \A s \in SignIns : signIn'[s].status = signIn[s].status
         /\ \A i \in SessionIds : session'[i].status = session[i].status
                                  /\ (session[i].status = "live"
                                       => session'[i].signIn = session[i].signIn)
         /\ \A t \in Requests : tab'[t].step = tab[t].step
                               /\ (tab[t].step = "exchange"
                                    => tab'[t].signIn = tab[t].signIn)
<1>1. ASSUME NEW s \in SignIns
      PROVE  /\ signIn'[s] \in [status: {"new", "gone"}]
                 \cup [status: {"pending"}, age: 0..StateLimit]
             /\ signIn'[s].status = signIn[s].status
  <2>1. CASE signIn[s].status = "pending"
    <3>1. signIn[s] \in [status: {"pending"}, age: 0..StateLimit]
      BY <2>1 DEF SignedIn!TypeOK
    <3>2. signIn'[s] = SignedIn!Older(signIn[s], StateLimit)
      BY <2>1 DEF SignedIn!Tick
    <3>. QED
      BY <2>1, <3>1, <3>2, OlderState
  <2>2. CASE signIn[s].status # "pending"
    BY <2>2 DEF SignedIn!TypeOK, SignedIn!Tick
  <2>. QED
    BY <2>1, <2>2
<1>2. ASSUME NEW i \in SessionIds
      PROVE  /\ session'[i] \in SessionState /\ session'[i].status = session[i].status
             /\ session[i].status = "live" => session'[i].signIn = session[i].signIn
  <2>1. CASE session[i].status = "live"
    <3>1. session[i] \in SignedIn!Live
      BY <2>1, SessionKinds DEF SignedIn!TypeOK, SessionState
    <3>2. session'[i] = [SignedIn!Older(session[i], Lifetime)
            EXCEPT !.idle = IF @ < Lifetime THEN @ + 1 ELSE @]
      BY <2>1 DEF SignedIn!Tick
    <3>3. session'[i] \in SignedIn!Live /\ session'[i].signIn = session[i].signIn
      BY <3>1, <3>2, OlderSession
    <3>. QED
      BY <2>1, <3>3 DEF SignedIn!Live, SessionState
  <2>2. CASE session[i].status # "live"
    BY <2>2 DEF SignedIn!TypeOK, SignedIn!Tick, SessionState
  <2>. QED
    BY <2>1, <2>2
<1>3. ASSUME NEW t \in Requests
      PROVE  /\ tab'[t] \in TabState /\ tab'[t].step = tab[t].step
             /\ tab[t].step = "exchange" => tab'[t].signIn = tab[t].signIn
  <2>1. tab[t] \in TabState
    BY DEF SignedIn!TypeOK, TabState
  <2>2. CASE tab[t].step = "exchange"
    <3>1. tab[t] \in SignedIn!SigningIn
      BY <2>1, <2>2, TabKinds
    <3>2. tab'[t] = SignedIn!Older(tab[t], Lifetime)
      BY <2>2 DEF SignedIn!Tick
    <3>. QED
      BY <2>2, <3>1, <3>2, OlderExchange DEF TabState
  <2>3. CASE tab[t].step \in {"expire", "touch", "roles"}
    <3>1. tab[t] \in [step: {"expire", "touch", "roles"}, id: SessionIds, age: 0..Lifetime]
      BY <2>1, <2>3, TabKinds
    <3>2. tab'[t] = SignedIn!Older(tab[t], Lifetime)
      BY <2>3 DEF SignedIn!Tick
    <3>. QED
      BY <2>3, <3>1, <3>2, OlderRequest DEF SignedIn!Request, TabState
  <2>4. CASE tab[t].step \notin {"exchange", "expire", "touch", "roles"}
    BY <2>1, <2>4 DEF SignedIn!Tick
  <2>. QED
    BY <2>2, <2>3, <2>4
<1>4. /\ signIn' \in [SignIns -> [status: {"new", "gone"}]
           \cup [status: {"pending"}, age: 0..StateLimit]]
      /\ session' \in [SessionIds -> SessionState]
      /\ tab' \in [Requests -> TabState]
  BY <1>1, <1>2, <1>3 DEF SignedIn!Tick
<1>. QED
  BY <1>1, <1>2, <1>3, <1>4 DEF SignedIn!TypeOK, SignedIn!Tick, SessionState, TabState

\* A step after which nothing more comes from any sign-in than before.
LEMMA NothingMore ==
  ASSUME HeldOnce,
         \A s \in SignIns : signIn'[s].status # "gone" => signIn[s].status # "gone",
         \A s \in SignIns, i \in SessionIds : Stored(i, s)' => Stored(i, s),
         \A s \in SignIns, t \in Requests : Exchanges(t, s)' => Exchanges(t, s)
  PROVE  HeldOnce'
BY DEF HeldOnce

\* A thread that does not go on to talk to GitHub, while no session is stored and no
\* state comes back.
LEMMA QuietStep ==
  ASSUME AccessInv, NEW t \in Requests, NEW r \in TabState, r.step # "exchange",
             SignedIn!Begin(t, r),
         UNCHANGED signIn,
         \A i \in SessionIds : session'[i].status = "live" =>
           session[i].status = "live" /\ session'[i].signIn = session[i].signIn
  PROVE  HeldOnce'
<1>1. \A s \in SignIns, u \in Requests : Exchanges(u, s)' => Exchanges(u, s)
  BY TabType DEF AccessInv, Exchanges
<1>2. \A s \in SignIns, i \in SessionIds : Stored(i, s)' => Stored(i, s)
  BY DEF Stored
<1>. QED
  BY <1>1, <1>2, NothingMore DEF AccessInv

\* A thread that goes on with a request, or ends one, and deletes sessions or none.
LEMMA RequestStep ==
  ASSUME AccessInv, NEW t \in Requests, NEW r \in {SignedIn!Idle}
             \cup SignedIn!Request, SignedIn!Begin(t, r),
         NEW S, SignedIn!EndSessions(S) \/ UNCHANGED session,
         membership' \in [Members -> SignedIn!Role], roleChanges' \in 0..MaxRoleChanges,
           UNCHANGED signIn
  PROVE  AccessInv'
<1>1. r \in TabState /\ r.step # "exchange"
  BY DEF TabState, SignedIn!Request, SignedIn!Idle
<1>2. session' \in [SessionIds -> SessionState]
      /\ \A i \in SessionIds : session'[i] = session[i] \/ session'[i].status = "ended"
  BY EndSessionsType DEF AccessInv, SignedIn!TypeOK, SessionState
<1>3. SignedIn!TypeOK'
  BY <1>1, <1>2, TabType DEF AccessInv, SignedIn!TypeOK, TabState, SessionState
<1>4. HeldOnce'
  BY <1>1, <1>2, QuietStep
<1>. QED
  BY <1>3, <1>4 DEF AccessInv

\* The maintenance loop, and the start of a sign-in: states only come to an end, or begin.
LEMMA StatesStep ==
  ASSUME AccessInv, NEW S, SignedIn!EndSessions(S)
             \/ UNCHANGED session, UNCHANGED <<membership, tab, roleChanges>>,
         signIn' \in [SignIns -> [status: {"new", "gone"}]
           \cup [status: {"pending"}, age: 0..StateLimit]],
         \A s \in SignIns : signIn'[s].status # "gone" => signIn[s].status # "gone"
  PROVE  AccessInv'
<1>1. session' \in [SessionIds -> SessionState]
      /\ \A i \in SessionIds : session'[i] = session[i] \/ session'[i].status = "ended"
  BY EndSessionsType DEF AccessInv, SignedIn!TypeOK, SessionState
<1>2. SignedIn!TypeOK'
  BY <1>1 DEF AccessInv, SignedIn!TypeOK, SessionState
<1>3. \A s \in SignIns, i \in SessionIds : Stored(i, s)' => Stored(i, s)
  BY <1>1 DEF Stored
<1>4. \A s \in SignIns, t \in Requests : Exchanges(t, s)' => Exchanges(t, s)
  BY DEF Exchanges
<1>. QED
  BY <1>2, <1>3, <1>4, NothingMore DEF AccessInv

\* Purge deletes what has expired.
LEMMA PurgeStep ==
  ASSUME AccessInv, SignedIn!Purge
  PROVE  AccessInv'
<1>. DEFINE expired == {i \in SessionIds : session[i].status = "live" /\ SignedIn!Expired(session[i])}
<1>1. SignedIn!EndSessions(expired) /\ UNCHANGED <<membership, tab, roleChanges>>
        /\ signIn' = SignedIn!WithoutOverdue
  BY DEF SignedIn!Purge
<1>2. \A s \in SignIns : signIn'[s].status # "gone" => signIn[s].status # "gone"
  BY <1>1, WithoutOverdueType DEF AccessInv
<1>. HIDE DEF expired
<1>. QED
  BY <1>1, <1>2, WithoutOverdueType, StatesStep DEF AccessInv

\* begin_sign_in stores a state, and deletes those past their time.
LEMMA BeginSignInStep ==
  ASSUME AccessInv, NEW s \in SignIns, SignedIn!BeginSignIn(s)
  PROVE  AccessInv'
<1>1. signIn' \in [SignIns -> [status: {"new", "gone"}]
        \cup [status: {"pending"}, age: 0..StateLimit]]
  BY WithoutOverdueType, SessionLimits DEF AccessInv, SignedIn!BeginSignIn
<1>2. \A x \in SignIns : signIn'[x].status # "gone" => signIn[x].status # "gone"
  BY WithoutOverdueType DEF AccessInv, SignedIn!BeginSignIn
<1>. QED
  BY <1>1, <1>2, StatesStep DEF SignedIn!BeginSignIn

\* The state is consumed once: nothing came from it before, and only this thread now.
LEMMA ConsumeStateStep ==
  ASSUME AccessInv, NEW t \in Requests, NEW s \in SignIns, SignedIn!ConsumeState(t, s)
  PROVE  AccessInv'
<1>. DEFINE r == [step |-> "exchange", signIn |-> s, age |-> 0]
<1>1. /\ signIn' \in [SignIns -> [status: {"new", "gone"}]
           \cup [status: {"pending"}, age: 0..StateLimit]]
      /\ signIn[s].status # "gone" /\ signIn'[s].status = "gone"
      /\ \A x \in SignIns : x # s => signIn'[x] = signIn[x]
  BY DEF AccessInv, SignedIn!TypeOK, SignedIn!ConsumeState
<1>2. r \in TabState /\ r.step = "exchange" /\ r.signIn = s
  BY SessionLimits DEF TabState, SignedIn!SigningIn
<1>3. /\ tab' \in [Requests -> TabState] /\ (tab'[t] = r \/ tab'[t] = tab[t])
      /\ \A u \in Requests : u # t => tab'[u] = tab[u]
  BY <1>2, TabType DEF AccessInv, SignedIn!ConsumeState, SignedIn!TypeOK, TabState
<1>4. SignedIn!TypeOK'
  BY <1>1, <1>3 DEF AccessInv, SignedIn!TypeOK, SignedIn!ConsumeState, TabState
<1>5. \A x \in SignIns, i \in SessionIds : Stored(i, x)' <=> Stored(i, x)
  BY DEF SignedIn!ConsumeState, Stored
<1>6. \A x \in SignIns, u \in Requests : Exchanges(u, x)'
        => Exchanges(u, x) \/ (u = t /\ x = s)
  BY <1>2, <1>3 DEF Exchanges
<1>7. HeldOnce'
  BY <1>1, <1>5, <1>6 DEF AccessInv, HeldOnce
<1>. QED
  BY <1>4, <1>7 DEF AccessInv

\* The session takes the place of the thread.
LEMMA StoreSessionStep ==
  ASSUME AccessInv, NEW t \in Requests, NEW i \in SessionIds, NEW u \in Members,
         NEW access \in BOOLEAN, SignedIn!StoreSession(t, i, u, access)
  PROVE  AccessInv'
<1>. DEFINE new == [status |-> "live", user |-> u, signIn |-> tab[t].signIn,
                    access |-> access, age |-> tab[t].age, idle |-> tab[t].age]
<1>1. tab[t] \in SignedIn!SigningIn
  BY TabKinds DEF AccessInv, SignedIn!TypeOK, SignedIn!StoreSession, TabState
<1>2. new \in SessionState /\ new.status = "live" /\ new.signIn = tab[t].signIn
  BY <1>1 DEF SessionState, SignedIn!Live, SignedIn!SigningIn
<1>3. SignedIn!Idle \in TabState /\ SignedIn!Idle.step # "exchange"
  BY DEF TabState, SignedIn!Idle
<1>4. /\ tab' \in [Requests -> TabState] /\ tab'[t] = SignedIn!Idle
      /\ \A v \in Requests : v # t => tab'[v] = tab[v]
  BY <1>3, TabType DEF AccessInv, SignedIn!StoreSession, SignedIn!End
<1>5. session' = [session EXCEPT ![i] = new]
  BY DEF SignedIn!StoreSession
<1>. HIDE DEF new
<1>6. /\ session' \in [SessionIds -> SessionState] /\ session'[i] = new
      /\ \A j \in SessionIds : j # i => session'[j] = session[j]
  BY <1>2, <1>5 DEF AccessInv, SignedIn!TypeOK, SessionState
<1>7. SignedIn!TypeOK'
  BY <1>4, <1>6 DEF AccessInv, SignedIn!TypeOK, SignedIn!StoreSession, TabState,
       SessionState
<1>8. \A s \in SignIns, j \in SessionIds : Stored(j, s)'
        => Stored(j, s) \/ (j = i /\ Exchanges(t, s))
  BY <1>2, <1>6 DEF SignedIn!StoreSession, Stored, Exchanges
<1>9. \A s \in SignIns, v \in Requests : Exchanges(v, s)' => Exchanges(v, s) /\ v # t
  BY <1>3, <1>4 DEF Exchanges
<1>10. UNCHANGED signIn
  BY DEF SignedIn!StoreSession
<1>11. HeldOnce'
  BY <1>8, <1>9, <1>10 DEF AccessInv, HeldOnce
<1>. QED
  BY <1>7, <1>11 DEF AccessInv

\* Reading the row of a session.
LEMMA AuthenticateStep ==
  ASSUME AccessInv, NEW t \in Requests, NEW i \in SessionIds, SignedIn!Authenticate(t, i)
  PROVE  AccessInv'
<1>. DEFINE next == IF SignedIn!Expired(session[i]) THEN "expire" ELSE IF session[i].idle >= 1 THEN "touch" ELSE "roles"
            r == [step |-> next, id |-> i, age |-> 0]
<1>1. next \in {"expire", "touch", "roles"}
  OBVIOUS
<1>2. SignedIn!Begin(t, r) /\ UNCHANGED <<membership, signIn, session, roleChanges>>
  BY DEF SignedIn!Authenticate
<1>. HIDE DEF next
<1>3. r \in {SignedIn!Idle} \cup SignedIn!Request
  BY <1>1, SessionLimits DEF SignedIn!Request
<1>. HIDE DEF r
<1>. QED
  BY <1>2, <1>3, RequestStep DEF AccessInv, SignedIn!TypeOK

\* Writing last_seen_at leaves everything else of a session.
LEMMA TouchStep ==
  ASSUME AccessInv, NEW t \in Requests, SignedIn!Touch(t)
  PROVE  AccessInv'
<1>. DEFINE r == tab[t]
            next == [r EXCEPT !.step = "roles"]
<1>1. r \in [step: {"expire", "touch", "roles"}, id: SessionIds, age: 0..Lifetime]
  BY TabKinds DEF AccessInv, SignedIn!TypeOK, SignedIn!Touch, TabState
<1>2. next \in TabState /\ next.step # "exchange"
  BY <1>1 DEF TabState, SignedIn!Request
<1>3. ASSUME NEW s \in SignedIn!Live
      PROVE  SignedIn!Touched(s, r.age) \in SignedIn!Live
                 /\ SignedIn!Touched(s, r.age).signIn = s.signIn
  BY <1>1 DEF SignedIn!Touched, SignedIn!Live
<1>4. session[r.id].status = "live" => session[r.id] \in SignedIn!Live
  BY <1>1, SessionKinds DEF AccessInv, SignedIn!TypeOK, SessionState
<1>5. SignedIn!Begin(t, next) /\ UNCHANGED <<membership, signIn, roleChanges>>
      /\ session' = [session
           EXCEPT ![r.id] = IF @.status = "live" THEN SignedIn!Touched(@, r.age) ELSE @]
  BY DEF SignedIn!Touch
<1>. HIDE DEF r, next
<1>6. session' \in [SessionIds -> SessionState]
      /\ \A i \in SessionIds : session'[i].status = "live" =>
           session[i].status = "live" /\ session'[i].signIn = session[i].signIn
  <2>1. CASE session[r.id].status = "live"
    <3>1. SignedIn!Touched(session[r.id], r.age) \in SignedIn!Live
          /\ SignedIn!Touched(session[r.id], r.age).signIn = session[r.id].signIn
      BY <1>3, <1>4, <2>1
    <3>2. session' = [session EXCEPT ![r.id] = SignedIn!Touched(session[r.id], r.age)]
      BY <1>5, <2>1
    <3>. QED
      BY <1>1, <2>1, <3>1, <3>2 DEF AccessInv, SignedIn!TypeOK, SessionState
  <2>2. CASE session[r.id].status # "live"
    BY <1>1, <1>5, <2>2 DEF AccessInv, SignedIn!TypeOK, SessionState
  <2>. QED
    BY <2>1, <2>2
<1>7. SignedIn!TypeOK'
  BY <1>2, <1>5, <1>6, TabType DEF AccessInv, SignedIn!TypeOK, SessionState, TabState
<1>8. HeldOnce'
  BY <1>2, <1>5, <1>6, QuietStep
<1>. QED
  BY <1>7, <1>8 DEF AccessInv

\* Reading the memberships of the session's user.
LEMMA ReadRolesStep ==
  ASSUME AccessInv, NEW t \in Requests, SignedIn!ReadRoles(t)
  PROVE  AccessInv'
<1>. DEFINE s == session[tab[t].id]
            r == [step |-> "act", id |-> tab[t].id, user |-> s.user,
                  role |-> IF s.access THEN membership[s.user] ELSE "none"]
<1>1. tab[t].id \in SessionIds
  BY TabKinds DEF AccessInv, SignedIn!TypeOK, SignedIn!ReadRoles, TabState
<1>2. UNCHANGED <<membership, signIn, session, roleChanges>>
  BY DEF SignedIn!ReadRoles
<1>3. CASE s.status = "live"
  <2>1. s.user \in Members
    BY <1>1, <1>3, SessionKinds DEF AccessInv, SignedIn!TypeOK, SessionState, SignedIn!Live
  <2>2. r \in {SignedIn!Idle} \cup SignedIn!Request
    BY <1>1, <2>1 DEF SignedIn!Request, AccessInv, SignedIn!TypeOK, SignedIn!Role
  <2>3. SignedIn!Begin(t, r)
    BY <1>3 DEF SignedIn!ReadRoles
  <2>. HIDE DEF r
  <2>. QED
    BY <1>2, <2>2, <2>3, RequestStep DEF AccessInv, SignedIn!TypeOK
<1>4. CASE s.status # "live"
  <2>1. SignedIn!Begin(t, SignedIn!Idle)
    BY <1>4 DEF SignedIn!ReadRoles, SignedIn!End
  <2>. HIDE DEF s, r
  <2>. QED
    BY <1>2, <2>1, RequestStep DEF AccessInv, SignedIn!TypeOK
<1>. QED
  BY <1>3, <1>4

\* What grant and remove leave of the types, and the sessions remove ends.
LEMMA MembersStep ==
  ASSUME AccessInv, NEW u \in Members,
         (\E new \in SignedIn!Role : SignedIn!GrantRole(u, new) /\ UNCHANGED session)
           \/ SignedIn!RemoveRole(u)
  PROVE  /\ membership' \in [Members -> SignedIn!Role] /\ roleChanges' \in 0..MaxRoleChanges
         /\ \E S : SignedIn!EndSessions(S) \/ UNCHANGED session
<1>1. roleChanges' \in 0..MaxRoleChanges
  BY SessionLimits DEF AccessInv, SignedIn!TypeOK, SignedIn!GrantRole, SignedIn!RemoveRole
<1>2. membership' \in [Members -> SignedIn!Role]
  BY DEF AccessInv, SignedIn!TypeOK, SignedIn!GrantRole, SignedIn!RemoveRole, SignedIn!Role
<1>. QED
  BY <1>1, <1>2 DEF SignedIn!RemoveRole

\* An operator's command is nobody's thread.
LEMMA OperatorStep ==
  ASSUME AccessInv, NEW u \in Members,
         (\E new \in SignedIn!Role \ {"none"} : SignedIn!OperatorGrants(u, new))
           \/ SignedIn!OperatorRevokes(u)
  PROVE  AccessInv'
<1>1. UNCHANGED <<signIn, tab>>
  BY DEF SignedIn!OperatorGrants, SignedIn!OperatorRevokes
<1>2. /\ membership' \in [Members -> SignedIn!Role] /\ roleChanges' \in 0..MaxRoleChanges
      /\ \E S : SignedIn!EndSessions(S) \/ UNCHANGED session
  BY MembersStep DEF SignedIn!OperatorGrants, SignedIn!OperatorRevokes
<1>3. session' \in [SessionIds -> SessionState]
      /\ \A i \in SessionIds : session'[i] = session[i] \/ session'[i].status = "ended"
  BY <1>2, EndSessionsType DEF AccessInv, SignedIn!TypeOK, SessionState
<1>4. SignedIn!TypeOK'
  BY <1>1, <1>2, <1>3 DEF AccessInv, SignedIn!TypeOK, SessionState
<1>5. \A s \in SignIns, i \in SessionIds : Stored(i, s)' => Stored(i, s)
  BY <1>3 DEF Stored
<1>6. \A s \in SignIns, t \in Requests : Exchanges(t, s)' => Exchanges(t, s)
  BY <1>1 DEF Exchanges
<1>. QED
  BY <1>1, <1>4, <1>5, <1>6, NothingMore DEF AccessInv

\* A request that changes the members.
LEMMA MemberStep ==
  ASSUME AccessInv, NEW t \in Requests, NEW u \in Members,
         (\E new \in SignedIn!Role \ {"none"} : SignedIn!PutMember(t, u, new))
           \/ SignedIn!DeleteMember(t, u)
  PROVE  AccessInv'
<1>1. UNCHANGED signIn /\ SignedIn!Begin(t, SignedIn!Idle)
  BY DEF SignedIn!PutMember, SignedIn!DeleteMember, SignedIn!End
<1>2. /\ membership' \in [Members -> SignedIn!Role] /\ roleChanges' \in 0..MaxRoleChanges
      /\ \E S : SignedIn!EndSessions(S) \/ UNCHANGED session
  BY MembersStep DEF SignedIn!PutMember, SignedIn!DeleteMember
<1>. QED
  BY <1>1, <1>2, RequestStep

\* The steps that end a request or a sign-in, or a session.
LEMMA EndingStep ==
  ASSUME AccessInv, NEW t \in Requests,
         SignedIn!SignInFails(t) \/ SignedIn!Expire(t) \/ SignedIn!Serve(t)
           \/ SignedIn!SignOut(t)
           \/ \E i \in SessionIds : SignedIn!RevokeSession(t, i)
  PROVE  AccessInv'
<1>1. SignedIn!Begin(t, SignedIn!Idle) /\ UNCHANGED <<membership, signIn, roleChanges>>
  BY DEF SignedIn!SignInFails, SignedIn!Expire, SignedIn!Serve, SignedIn!SignOut,
       SignedIn!RevokeSession, SignedIn!End
<1>2. \E S : SignedIn!EndSessions(S) \/ UNCHANGED session
  BY DEF SignedIn!SignInFails, SignedIn!Expire, SignedIn!Serve, SignedIn!SignOut,
       SignedIn!RevokeSession
<1>. QED
  BY <1>1, <1>2, RequestStep DEF AccessInv, SignedIn!TypeOK

\* Every step keeps the invariant.
LEMMA AccessStep ==
  ASSUME AccessInv, [SignedIn!Next]_(SignedIn!vars)
  PROVE  AccessInv'
<1>1. CASE SignedIn!Tick
  <2>1. SignedIn!TypeOK'
    BY <1>1, TickStep DEF AccessInv
  <2>2. \A s \in SignIns : signIn'[s].status # "gone" => signIn[s].status # "gone"
    BY <1>1, TickStep DEF AccessInv
  <2>3. \A s \in SignIns, i \in SessionIds : Stored(i, s)' => Stored(i, s)
    BY <1>1, TickStep DEF AccessInv, Stored
  <2>4. \A s \in SignIns, t \in Requests : Exchanges(t, s)' => Exchanges(t, s)
    BY <1>1, TickStep DEF AccessInv, Exchanges
  <2>. QED
    BY <2>1, <2>2, <2>3, <2>4, NothingMore DEF AccessInv
<1>2. CASE SignedIn!Purge
  BY <1>2, PurgeStep
<1>3. ASSUME NEW s \in SignIns, SignedIn!BeginSignIn(s) PROVE AccessInv'
  BY <1>3, BeginSignInStep
<1>4. ASSUME NEW t \in Requests, NEW s \in SignIns, SignedIn!ConsumeState(t, s)
                 PROVE AccessInv'
  BY <1>4, ConsumeStateStep
<1>5. ASSUME NEW t \in Requests, NEW i \in SessionIds, NEW u \in Members,
                 NEW access \in BOOLEAN,
             SignedIn!StoreSession(t, i, u, access)
      PROVE  AccessInv'
  BY <1>5, StoreSessionStep
<1>6. ASSUME NEW t \in Requests, NEW i \in SessionIds, SignedIn!Authenticate(t, i)
                 PROVE AccessInv'
  BY <1>6, AuthenticateStep
<1>7. ASSUME NEW t \in Requests, SignedIn!Touch(t) \/ SignedIn!ReadRoles(t) PROVE AccessInv'
  BY <1>7, TouchStep, ReadRolesStep
<1>8. ASSUME NEW t \in Requests,
             SignedIn!SignInFails(t) \/ SignedIn!Expire(t) \/ SignedIn!Serve(t)
               \/ SignedIn!SignOut(t)
               \/ \E i \in SessionIds : SignedIn!RevokeSession(t, i)
      PROVE  AccessInv'
  BY <1>8, EndingStep
<1>9. ASSUME NEW t \in Requests, NEW u \in Members,
             (\E new \in SignedIn!Role \ {"none"} : SignedIn!PutMember(t, u, new))
               \/ SignedIn!DeleteMember(t, u)
      PROVE  AccessInv'
  BY <1>9, MemberStep
<1>10. ASSUME NEW u \in Members,
              (\E new \in SignedIn!Role \ {"none"} : SignedIn!OperatorGrants(u, new))
                \/ SignedIn!OperatorRevokes(u)
       PROVE  AccessInv'
  BY <1>10, OperatorStep
<1>11. CASE UNCHANGED SignedIn!vars
  BY <1>11 DEF SignedIn!vars, AccessInv, SignedIn!TypeOK, HeldOnce, Stored, Exchanges
<1>. QED
  BY <1>1, <1>2, <1>3, <1>4, <1>5, <1>6, <1>7, <1>8, <1>9, <1>10, <1>11 DEF SignedIn!Next

\* Nobody has signed in at first.
LEMMA AccessInit ==
  ASSUME SignedIn!Init
  PROVE  AccessInv
BY SessionLimits DEF SignedIn!Init, AccessInv, SignedIn!TypeOK, HeldOnce, Stored,
     Exchanges, SignedIn!Role, SignedIn!Idle

\* A step of another component leaves members and sessions alone.
LEMMA AccessSteps ==
  ASSUME [AllNext]_allVars
  PROVE  [SignedIn!Next]_sessionVars
<1>1. CASE SignedInStep
  BY <1>1 DEF SignedInStep
<1>2. CASE WorkflowStep \/ SimulatedStep
  BY <1>2 DEF WorkflowStep, SimulatedStep
<1>3. CASE LimitedStep \/ RoutedStep \/ DemotedStep \/ EndedStep
  BY <1>3 DEF LimitedStep, RoutedStep, DemotedStep, EndedStep, RequestsOnly
<1>4. CASE DatedStep \/ RankedStep
  BY <1>4 DEF DatedStep, RankedStep, ListsOnly
<1>5. CASE SavedStep \/ DeliveredStep
  BY <1>5 DEF SavedStep, DeliveredStep, CenterOnly
<1>6. CASE CalledStep
  BY <1>6 DEF CalledStep
<1>7. CASE UNCHANGED allVars
  BY <1>7 DEF allVars
<1> QED BY <1>1, <1>2, <1>3, <1>4, <1>5, <1>6, <1>7 DEF AllNext

LEMMA AccessHolds == AllSpec => []AccessInv
<1>1. AllInit => AccessInv
  BY AccessInit DEF AllInit
<1>2. AccessInv /\ [AllNext]_allVars => AccessInv'
  BY AccessSteps, AccessStep DEF sessionVars, SignedIn!vars
<1> QED BY <1>1, <1>2, PTL DEF AllSpec

LEMMA SessionCardinality ==
  ASSUME NEW S
  PROVE  SignedIn!Cardinality(S) = Cardinality(S)
BY Zenon DEF SignedIn!Cardinality, Cardinality

\* A sign-in that GitHub approved once gives one session, although the browser may send
\* the callback twice while the first is talking to GitHub (controlplane/identity.py).
THEOREM OneSessionPerSignIn == AllSpec => []SignInOnce
<1>1. ASSUME AccessInv, NEW s \in SignIns
      PROVE  SignedIn!Cardinality({i \in SessionIds : session[i].status = "live" /\ session[i].signIn = s})
               + SignedIn!Cardinality({t \in Requests : tab[t].step = "exchange" /\ tab[t].signIn = s}) <= 1
  <2>. DEFINE S == {i \in SessionIds : session[i].status = "live" /\ session[i].signIn = s}
              T == {t \in Requests : tab[t].step = "exchange" /\ tab[t].signIn = s}
  <2>1. /\ \A i, j \in S : i = j
        /\ \A t, u \in T : t = u
        /\ S = {} \/ T = {}
    BY <1>1 DEF AccessInv, HeldOnce, Stored, Exchanges
  <2>. HIDE DEF S, T
  <2>2. /\ S = {} \/ \E i \in S : S = {i}
        /\ T = {} \/ \E t \in T : T = {t}
    BY <2>1
  <2>3. SignedIn!Cardinality(S) \in {0, 1} /\ SignedIn!Cardinality(T) \in {0, 1}
        /\ (S = {} => SignedIn!Cardinality(S) = 0)
             /\ (T = {} => SignedIn!Cardinality(T) = 0)
    BY <2>2, SessionCardinality, FS_EmptySet, FS_Singleton
  <2>4. SignedIn!Cardinality(S) + SignedIn!Cardinality(T) <= 1
    BY <2>1, <2>3
  <2>. QED
    BY <2>4 DEF S, T
<1>2. AccessInv => SignInOnce
  BY <1>1 DEF SignInOnce, SignedIn!SignInOnce
<1>. QED
  BY <1>2, AccessHolds, PTL

\* "An organisation always keeps at least one explicit owner once it has one", also when
\* two owners demote each other at a time (controlplane/members.py): the transactions
\* count the other owners themselves.
THEOREM OwnerIsKept == AllSpec => OwnerKept
<1>1. ASSUME AccessInv, [SignedIn!Next]_(SignedIn!vars), SignedIn!Owners # {}
      PROVE  SignedIn!Owners' # {}
  <2>1. ASSUME NEW u \in Members, NEW new \in SignedIn!Role \ {"none"},
                   SignedIn!GrantRole(u, new)
        PROVE  SignedIn!Owners' # {}
    BY <1>1, <2>1 DEF SignedIn!GrantRole, SignedIn!OtherOwner, SignedIn!Owners, AccessInv,
         SignedIn!TypeOK
  <2>2. ASSUME NEW u \in Members, SignedIn!RemoveRole(u)
        PROVE  SignedIn!Owners' # {}
    BY <1>1, <2>2 DEF SignedIn!RemoveRole, SignedIn!OtherOwner, SignedIn!Owners, AccessInv,
         SignedIn!TypeOK
  <2>3. CASE UNCHANGED membership
    BY <1>1, <2>3 DEF SignedIn!Owners
  <2>. QED
    BY <1>1, <2>1, <2>2, <2>3
    DEF SignedIn!Next, SignedIn!vars, SignedIn!Tick, SignedIn!Purge, SignedIn!BeginSignIn,
      SignedIn!ConsumeState, SignedIn!StoreSession, SignedIn!SignInFails,
        SignedIn!Authenticate, SignedIn!RevokeSession, SignedIn!Expire, SignedIn!Touch,
          SignedIn!ReadRoles, SignedIn!Serve, SignedIn!SignOut, SignedIn!PutMember,
        SignedIn!DeleteMember, SignedIn!OperatorGrants, SignedIn!OperatorRevokes
<1>2. AccessInv /\ [AllNext]_allVars
        => [SignedIn!Owners # {} => SignedIn!Owners' # {}]_membership
  BY <1>1, AccessSteps DEF sessionVars, SignedIn!vars
<1> QED BY <1>2, AccessHolds, PTL DEF AllSpec, OwnerKept, SignedIn!OwnerKept

-----------------------------------------------------------------------------
(* Simulations, by the theorem of SimulationsProofs.                        *)

Simulating == INSTANCE SimulationsProofs WITH
  Ids <- Simulations, Repos <- ScannedRepos, Groups <- Branches, Drafts <- {2},
  LeaseOutlived <- FALSE, MaxCrashes <- 0

\* A step of another component leaves simulations alone.
LEMMA SimulationSteps ==
  ASSUME [AllNext]_allVars
  PROVE  [Simulated!Next]_simulationVars
<1>1. CASE SimulatedStep
  BY <1>1 DEF SimulatedStep
<1>2. CASE WorkflowStep \/ SignedInStep
  BY <1>2 DEF WorkflowStep, SignedInStep
<1>3. CASE LimitedStep \/ RoutedStep \/ DemotedStep \/ EndedStep
  BY <1>3 DEF LimitedStep, RoutedStep, DemotedStep, EndedStep, RequestsOnly
<1>4. CASE DatedStep \/ RankedStep
  BY <1>4 DEF DatedStep, RankedStep, ListsOnly
<1>5. CASE SavedStep \/ DeliveredStep
  BY <1>5 DEF SavedStep, DeliveredStep, CenterOnly
<1>6. CASE CalledStep
  BY <1>6 DEF CalledStep
<1>7. CASE UNCHANGED allVars
  BY <1>7 DEF allVars
<1> QED BY <1>1, <1>2, <1>3, <1>4, <1>5, <1>6, <1>7 DEF AllNext

LEMMA SimulationNext == Simulated!Next <=> Simulating!Next
BY Zenon
DEF Simulated!Actions, Simulating!Actions, Simulated!Scan, Simulating!Scan,
    Simulated!Result, Simulating!Result, Simulated!Empty, Simulating!Empty, Simulated!Idle,
    Simulating!Idle, Simulated!Open, Simulating!Open, Simulated!OpenOnes,
    Simulating!OpenOnes, Simulated!Create, Simulating!Create, Simulated!Claim,
    Simulating!Claim, Simulated!Resolve, Simulating!Resolve, Simulated!VersionOf,
    Simulating!VersionOf, Simulated!NewestFinished, Simulating!NewestFinished,
    Simulated!Add, Simulating!Add, Simulated!ReadRepository, Simulating!ReadRepository,
    Simulated!Complete, Simulating!Complete, Simulated!FailRun, Simulating!FailRun,
    Simulated!Crash, Simulating!Crash, Simulated!Runs, Simulating!Runs,
    Simulated!ExpireLease, Simulating!ExpireLease, Simulated!FinishScan,
    Simulating!FinishScan, Simulated!Publish, Simulating!Publish, Simulated!Work,
    Simulating!Work, Simulated!Next, Simulating!Next, Simulated!Cardinality,
    Simulating!Cardinality

LEMMA SimulationInit == Simulated!Init => Simulating!Init
BY Zenon
DEF Simulated!Init, Simulating!Init,
    Simulated!Actions, Simulating!Actions, Simulated!Empty, Simulating!Empty,
    Simulated!Idle, Simulating!Idle

LEMMA Simulates == AllSpec => Simulating!Spec
<1>1. AllInit => Simulating!Init
  BY SimulationInit DEF AllInit
<1>2. [AllNext]_allVars => [Simulating!Next]_(Simulating!vars)
  BY SimulationSteps, SimulationNext DEF Simulating!vars, simulationVars
<1> QED BY <1>1, <1>2, PTL DEF AllSpec, Simulating!Spec

\* A simulation that reads repository after repository while scans finish and policies are
\* published has a result about one policy of each repository, which counts a pull request or
\* branch once (governance/simulation.py, _simulate).
THEOREM ResultsStaySound == AllSpec => []ResultsAreSound
<1>1. Simulating!ResultsAreSound => ResultsAreSound
  BY Zenon
  DEF ResultsAreSound, Simulated!ResultsAreSound, Simulating!ResultsAreSound,
      Simulated!Completed, Simulating!Completed, Simulated!Cardinality,
      Simulating!Cardinality
<1>2. Simulating!SimulationBounds
  <2>1. \A S : Simulating!IsFiniteSet(S) <=> IsFiniteSet(S)
    BY Zenon DEF Simulating!IsFiniteSet, IsFiniteSet
  <2> QED BY <2>1, SimulationLimits DEF Simulating!SimulationBounds, Simulating!Actions
<1> QED BY <1>1, <1>2, Simulates, Simulating!ResultsSound, PTL

-----------------------------------------------------------------------------
(* Calls of GitHub.                                                        *)

GitHubCall ==
  [step: {"idle", "sending", "sleeping", "returned", "raised"},
   operation: Operations \cup {"none"}, attempt: Int, page: Nat, got: Seq(Granted)]

\* While a list is read, what was read is the beginning of GitHub's list.
Reading(c) ==
  /\ c.page \in Nat \ {0} /\ Len(c.got) = (c.page - 1) * PerPage /\ Len(c.got) <= Len(granted)
  /\ \A i \in 1..Len(c.got) : c.got[i] = granted[i]

\* A request that may be sent again, and must not happen twice, has not happened.
CallInv ==
  /\ granted \in Seq(Granted) /\ applied \in Nat
  /\ call \in GitHubCall
  /\ call.step # "idle" => kept \subseteq Called!ToSet(granted)
  /\ call.step \in {"sending", "sleeping"} /\ call.operation \notin Called!Idempotent => applied = 0
  /\ call.step \in {"sending", "sleeping"} /\ call.operation \in Called!Lists => Reading(call)
  /\ Called!CarriedOutOnce /\ Called!ListsAreWhole

LEMMA ListedIdempotent == Called!Lists \subseteq Called!Idempotent
BY DEF Called!Idempotent

\* The call changes, with nothing of the list, and the number of its effects with it.
LEMMA CallChanges ==
  ASSUME CallInv, call.step # "idle", UNCHANGED <<granted, kept>>, applied' \in Nat,
         call' \in GitHubCall, call'.operation = call.operation,
         call'.step \in {"sending", "sleeping"} =>
           /\ call.operation \notin Called!Idempotent => applied' = 0
           /\ call.operation \in Called!Lists => Reading(call)',
         call.operation \notin Called!Idempotent => applied' <= 1,
         call'.step = "returned" =>
           /\ call.operation \notin Called!Lists => applied' >= 1
           /\ call.operation \in Called!Lists => Called!ToSet(granted) \subseteq Called!ToSet(call'.got)
  PROVE  CallInv'
BY DEF CallInv, Called!CarriedOutOnce, Called!ListsAreWhole

\* A step of the call leaves what was read alone.
LEMMA SameCall ==
  ASSUME CallInv, NEW s \in {"sending", "sleeping", "returned", "raised"},
         \/ call' = [call EXCEPT !.step = s]
         \/ \E n \in Int : call' = [call EXCEPT !.step = s, !.attempt = n]
  PROVE  /\ call' \in GitHubCall /\ call'.step = s /\ call'.operation = call.operation
         /\ call'.got = call.got /\ call'.page = call.page
BY DEF CallInv, GitHubCall

LEMMA Multiples ==
  ASSUME NEW n \in Nat \ {0}, NEW k \in Nat
  PROVE  (n - 1) * k \in Nat /\ n * k \in Nat /\ n * k = (n - 1) * k + k
<1>1. \A m \in Nat : m * k \in Nat /\ (m + 1) * k = m * k + k
  OBVIOUS
<1>2. n - 1 \in Nat /\ (n - 1) + 1 = n
  OBVIOUS
<1> QED BY <1>1, <1>2

\* The next page of a list that is read, or the whole list
LEMMA Paginated ==
  ASSUME CallInv, call.step = "sending", call.operation \in Called!Lists,
         UNCHANGED <<granted, kept>>, applied' \in Nat,
         call' = Called!NextPage(call, call.got \o Called!PageOf(call.page))
  PROVE  CallInv'
<1> DEFINE n == call.page
           last == IF n * PerPage < Len(granted) THEN n * PerPage ELSE Len(granted)
           got == call.got \o Called!PageOf(n)
<1>1. /\ n \in Nat \ {0} /\ call.got \in Seq(Granted) /\ granted \in Seq(Granted)
      /\ Len(call.got) = (n - 1) * PerPage /\ Len(call.got) <= Len(granted)
      /\ \A i \in 1..Len(call.got) : call.got[i] = granted[i]
  BY DEF CallInv, Reading, GitHubCall
<1> HIDE DEF n, last, got
<1>2. PerPage \in Nat \ {0} /\ Len(granted) \in Nat /\ (n - 1) * PerPage \in Nat
      /\ n * PerPage \in Nat /\ n * PerPage = (n - 1) * PerPage + PerPage
  <2>1. PerPage \in Nat \ {0} /\ PerPage \in Nat /\ Len(granted) \in Nat
    BY <1>1, PageSize, LenProperties
  <2> QED BY <1>1, <2>1, Multiples
<1>3. last \in Nat /\ last >= (n - 1) * PerPage /\ last <= Len(granted)
  BY <1>1, <1>2 DEF last
<1>4. Called!PageOf(n) = SubSeq(granted, (n - 1) * PerPage + 1, last)
  BY DEF Called!PageOf, last
<1>5. /\ Called!PageOf(n) \in Seq(Granted) /\ Len(Called!PageOf(n)) = last - (n - 1) * PerPage
      /\ \A i \in 1..(last - (n - 1) * PerPage) : Called!PageOf(n)[i] = granted[(n - 1) * PerPage + i]
  <2> DEFINE a == (n - 1) * PerPage
  <2>1. a \in Nat /\ last >= a
    BY <1>2, <1>3
  <2> HIDE DEF a
  <2>2. \A i \in (a + 1)..last : granted[i] \in Granted
    BY <1>1, <1>3, <2>1, ElementOfSeq
  <2>3. /\ SubSeq(granted, a + 1, last) \in Seq(Granted)
        /\ Len(SubSeq(granted, a + 1, last)) = last - a
        /\ \A i \in 1..(last - a) : SubSeq(granted, a + 1, last)[i] = granted[a + i]
    BY <1>1, <1>3, <2>1, <2>2, SubSeqProperties
  <2> QED BY <1>4, <2>3 DEF a
<1>6. /\ got \in Seq(Granted) /\ Len(got) = last
      /\ \A i \in 1..last : got[i] = granted[i]
  <2> DEFINE a == (n - 1) * PerPage
             page == Called!PageOf(n)
  <2>1. /\ a \in Nat /\ last \in Nat /\ last >= a /\ Len(call.got) = a /\ page \in Seq(Granted)
        /\ Len(page) = last - a /\ \A i \in 1..(last - a) : page[i] = granted[a + i]
        /\ \A i \in 1..a : call.got[i] = granted[i]
    BY <1>1, <1>2, <1>3, <1>5
  <2> HIDE DEF a, page
  <2>2. call.got \o page \in Seq(Granted) /\ Len(call.got \o page) = last
        /\ \A i \in 1..last : (call.got \o page)[i] = IF i <= a THEN call.got[i] ELSE page[i - a]
    <3>1. /\ call.got \o page \in Seq(Granted)
          /\ Len(call.got \o page) = Len(call.got) + Len(page)
          /\ \A i \in 1..Len(call.got) + Len(page) :
               (call.got \o page)[i] = IF i <= Len(call.got) THEN call.got[i] ELSE page[i - Len(call.got)]
      BY <1>1, <2>1, ConcatProperties
    <3>2. Len(call.got) + Len(page) = last
      BY <2>1
    <3> QED BY <2>1, <3>1, <3>2
  <2>3. \A i \in 1..last : (call.got \o page)[i] = granted[i]
    <3> TAKE i \in 1..last
    <3>1. CASE i <= a
      BY <2>1, <2>2, <3>1
    <3>2. CASE i > a
      <4>1. i - a \in 1..(last - a) /\ a + (i - a) = i
        BY <2>1, <3>2
      <4> QED BY <2>1, <2>2, <3>2, <4>1
    <3> QED BY <2>1, <3>1, <3>2
  <2> QED BY <2>2, <2>3 DEF page, got
<1>7. CASE ~Called!HasNext(n)
  <2>1. last = Len(granted)
    BY <1>2, <1>7 DEF Called!HasNext, last
  <2>2. Called!ToSet(granted) \subseteq Called!ToSet(got)
    <3>1. DOMAIN granted = 1..Len(granted) /\ DOMAIN got = 1..last
      BY <1>1, <1>6, LenProperties
    <3> QED BY <1>6, <2>1, <3>1 DEF Called!ToSet
  <2>3. call' = [call EXCEPT !.step = "returned", !.got = got]
    BY <1>7 DEF Called!NextPage, got, n
  <2>4. call' \in GitHubCall /\ call'.step = "returned" /\ call'.operation = call.operation /\ call'.got = got
    BY <1>6, <2>3 DEF CallInv, GitHubCall
  <2> QED BY <2>2, <2>4, CallChanges, ListedIdempotent
<1>8. CASE Called!HasNext(n) /\ n = MaxPages
  <2>1. call' = [call EXCEPT !.step = "raised"]
    BY <1>8 DEF Called!NextPage, Called!Raised, n
  <2>2. call' \in GitHubCall /\ call'.step = "raised" /\ call'.operation = call.operation
    BY <2>1, SameCall
  <2> QED BY <2>2, CallChanges, ListedIdempotent
<1>9. CASE Called!HasNext(n) /\ n # MaxPages
  <2>1. call' = [call EXCEPT !.page = @ + 1, !.attempt = 1, !.got = got]
    BY <1>9 DEF Called!NextPage, got, n
  <2>2. call' \in GitHubCall /\ call'.step = "sending" /\ call'.operation = call.operation
        /\ call'.got = got /\ call'.page = n + 1
    <3>1. call \in GitHubCall /\ call.page + 1 \in Nat /\ 1 \in Int /\ call.page = n
      BY <1>1 DEF CallInv, n
    <3>2. call' = [call EXCEPT !.step = "sending", !.page = n + 1, !.attempt = 1, !.got = got]
      BY <2>1, <3>1 DEF GitHubCall
    <3> QED BY <1>1, <1>6, <3>1, <3>2 DEF GitHubCall
  <2>3. last = n * PerPage /\ n * PerPage <= Len(granted) /\ (n + 1) - 1 = n
    BY <1>1, <1>2, <1>9 DEF Called!HasNext, last
  <2>4. Reading(call)'
    <3>1. Len(call'.got) = (call'.page - 1) * PerPage /\ call'.page \in Nat \ {0}
      BY <1>1, <1>6, <2>2, <2>3
    <3>2. Len(call'.got) <= Len(granted') /\ \A i \in 1..Len(call'.got) : call'.got[i] = granted'[i]
      BY <1>3, <1>6, <2>2
    <3> QED BY <3>1, <3>2 DEF Reading
  <2> QED BY <2>2, <2>4, CallChanges, ListedIdempotent
<1> QED BY <1>7, <1>8, <1>9

LEMMA Answers ==
  ASSUME CallInv, call.step = "sending",
         (\E a \in Called!Answers : Called!Answered(a)) \/ \E b \in BOOLEAN : Called!Lost(b)
  PROVE  CallInv'
<1>1. UNCHANGED <<granted, kept>> /\ applied' \in {applied, applied + 1} /\ applied' \in Nat
  BY DEF Called!Answered, Called!Lost, CallInv
<1>2. call.operation \notin Called!Idempotent => applied = 0
  BY DEF CallInv
<1>3. call.operation \in Called!Lists => Reading(call)
  BY DEF CallInv
<1>4. CASE call' = [call EXCEPT !.step = "raised"]
  <2>1. call' \in GitHubCall /\ call'.step = "raised" /\ call'.operation = call.operation
    BY <1>4, SameCall
  <2> QED BY <1>1, <1>2, <2>1, CallChanges
<1>5. CASE call' = [call EXCEPT !.step = "sleeping"]
           /\ (call.operation \in Called!Idempotent \/ applied' = applied)
  <2>1. /\ call' \in GitHubCall /\ call'.step = "sleeping" /\ call'.operation = call.operation
        /\ call'.got = call.got /\ call'.page = call.page
    BY <1>5, SameCall
  <2>2. call.operation \in Called!Lists => Reading(call)'
    BY <1>1, <1>3, <2>1 DEF Reading
  <2> QED BY <1>1, <1>2, <1>5, <2>1, <2>2, CallChanges
<1>6. CASE call' = [call EXCEPT !.step = "returned"] /\ applied' = applied + 1
           /\ call.operation \notin Called!Lists
  <2>1. applied' >= 1 /\ (call.operation \notin Called!Idempotent => applied' <= 1)
    BY <1>1, <1>2, <1>6 DEF CallInv
  <2>2. call' \in GitHubCall /\ call'.step = "returned" /\ call'.operation = call.operation
    BY <1>6, SameCall
  <2> QED BY <1>1, <1>6, <2>1, <2>2, CallChanges
<1>7. ASSUME NEW a \in Called!Answers, Called!Answered(a) PROVE CallInv'
  <2>1. CASE a.status = 200
    <3>1. call' = Called!Success(call, a) /\ applied' = applied + 1
      BY <1>7, <2>1 DEF Called!Answered
    <3>2. CASE call.operation \in Called!Lists /\ ~a.malformed
      BY <1>1, <3>1, <3>2, Paginated DEF Called!Success
    <3> QED BY <1>4, <1>6, <3>1, <3>2 DEF Called!Success, Called!Raised
  <2>2. CASE a.status # 200
    <3>1. applied' = applied
          /\ call' \in {[call EXCEPT !.step = "sleeping"], [call EXCEPT !.step = "raised"]}
      BY <1>7, <2>2 DEF Called!Answered, Called!Again, Called!Raised
    <3> QED BY <1>4, <1>5, <3>1
  <2> QED BY <2>1, <2>2
<1>8. ASSUME NEW b \in BOOLEAN, Called!Lost(b) PROVE CallInv'
  BY <1>4, <1>5, <1>8 DEF Called!Lost, Called!MayRepeat, Called!Again, Called!Raised
<1> QED BY <1>7, <1>8

LEMMA CallStep ==
  ASSUME CallInv, [Called!Next]_callVars
  PROVE  CallInv'
<1>1. ASSUME NEW operation \in Operations, Called!Start(operation) PROVE CallInv'
  <2>1. /\ applied' = 0 /\ kept' = Called!ToSet(granted) /\ granted' = granted
        /\ call' = [Called!Idle EXCEPT !.step = "sending", !.operation = operation, !.attempt = 1, !.page = 1]
    BY <1>1 DEF Called!Start
  <2>2. /\ call' \in GitHubCall /\ call'.step = "sending" /\ call'.operation = operation
        /\ call'.page = 1 /\ call'.got = <<>>
    <3>1. <<>> \in Seq(Granted) /\ 1 \in Int /\ 1 \in Nat
      BY EmptySeq
    <3> QED BY <1>1, <2>1, <3>1 DEF Called!Idle, GitHubCall
  <2>3. Len(<<>>) = 0 /\ (1 - 1) * PerPage = 0 /\ Len(granted) \in Nat
    BY PageSize, EmptySeq, LenProperties DEF CallInv
  <2>4. Reading(call)'
    BY <2>2, <2>3, <2>1 DEF Reading
  <2> QED BY <2>1, <2>2, <2>4 DEF CallInv, Called!CarriedOutOnce, Called!ListsAreWhole
<1>2. ASSUME \/ \E a \in Called!Answers : Called!Answered(a)
             \/ \E b \in BOOLEAN : Called!Lost(b)
      PROVE  CallInv'
  BY <1>2, Answers DEF Called!Answered, Called!Lost
<1>3. ASSUME Called!Resend PROVE CallInv'
  <2>1. call' = [call EXCEPT !.step = "sending", !.attempt = call.attempt + 1]
        /\ call.step = "sleeping" /\ UNCHANGED <<granted, applied, kept>>
    BY <1>3 DEF Called!Resend
  <2>2. call.attempt + 1 \in Int
    BY DEF CallInv, GitHubCall
  <2>5. /\ call' \in GitHubCall /\ call'.step = "sending" /\ call'.operation = call.operation
        /\ call'.got = call.got /\ call'.page = call.page
    BY <2>1, <2>2, SameCall
  <2>3. call.operation \in Called!Lists => Reading(call)'
    BY <2>1, <2>5 DEF CallInv, Reading
  <2>4. applied \in Nat /\ (call.operation \notin Called!Idempotent => applied = 0)
    BY <2>1 DEF CallInv
  <2> QED BY <2>1, <2>3, <2>4, <2>5, CallChanges
<1>4. ASSUME Called!Finish PROVE CallInv'
  <2>1. call' = Called!Idle /\ UNCHANGED <<granted, applied, kept>>
    BY <1>4 DEF Called!Finish
  <2>2. Called!Idle \in GitHubCall /\ Called!Idle.step = "idle"
    BY EmptySeq DEF Called!Idle, GitHubCall
  <2> QED BY <2>1, <2>2 DEF CallInv, Called!CarriedOutOnce, Called!ListsAreWhole
<1>5. ASSUME NEW r \in Granted, Called!Grant(r) PROVE CallInv'
  <2>1. granted' = Append(granted, r) /\ UNCHANGED <<applied, call, kept>>
    BY <1>5 DEF Called!Grant
  <2>2. granted \in Seq(Granted)
    BY DEF CallInv
  <2>3. /\ granted' \in Seq(Granted) /\ Len(granted') = Len(granted) + 1 /\ Len(granted) \in Nat
        /\ \A i \in 1..Len(granted) : granted'[i] = granted[i]
    BY <2>1, <2>2, <1>5, AppendProperties, LenProperties
  <2>4. Called!ToSet(granted) \subseteq Called!ToSet(granted')
    <3>1. DOMAIN granted = 1..Len(granted) /\ DOMAIN granted' = 1..Len(granted')
      BY <2>2, <2>3, LenProperties
    <3> QED BY <2>3, <3>1 DEF Called!ToSet
  <2>5. Reading(call) /\ call.got \in Seq(Granted) => Reading(call)'
    <3> SUFFICES ASSUME Reading(call), call.got \in Seq(Granted) PROVE Reading(call)'
      OBVIOUS
    <3>1. Len(call.got) \in Nat
      BY LenProperties
    <3> QED BY <2>1, <2>3, <3>1 DEF Reading
  <2>6. call.got \in Seq(Granted)
    BY DEF CallInv, GitHubCall
  <2> QED BY <2>1, <2>3, <2>4, <2>5, <2>6 DEF CallInv, Called!CarriedOutOnce, Called!ListsAreWhole
<1>6. ASSUME NEW r \in Granted, Called!Revoke(r) PROVE CallInv'
  <2>1. call.step = "idle" /\ UNCHANGED <<applied, call>>
    BY <1>6 DEF Called!Revoke
  <2>2. granted' \in Seq(Granted)
    <3>1. PICK i \in DOMAIN granted : granted' = SubSeq(granted, 1, i - 1) \o SubSeq(granted, i + 1, Len(granted))
      BY <1>6 DEF Called!Revoke, Called!RemoveAt
    <3>2. granted \in Seq(Granted) /\ Len(granted) \in Nat /\ i \in 1..Len(granted)
      BY <3>1, LenProperties DEF CallInv
    <3>3. SubSeq(granted, 1, i - 1) \in Seq(Granted)
      BY <3>2, ElementOfSeq, SubSeqProperties
    <3>4. SubSeq(granted, i + 1, Len(granted)) \in Seq(Granted)
      BY <3>2, ElementOfSeq, SubSeqProperties
    <3> QED BY <3>1, <3>3, <3>4, ConcatProperties
  <2> QED BY <2>1, <2>2 DEF CallInv, Called!CarriedOutOnce, Called!ListsAreWhole
<1>7. ASSUME UNCHANGED callVars PROVE CallInv'
  BY <1>7 DEF callVars, CallInv, Reading, Called!CarriedOutOnce, Called!ListsAreWhole
<1> QED BY <1>1, <1>2, <1>3, <1>4, <1>5, <1>6, <1>7 DEF Called!Next

LEMMA CallInit ==
  ASSUME Called!Init
  PROVE  CallInv
<1>1. <<>> \in Seq(Granted)
  BY EmptySeq
<1> QED BY <1>1 DEF CallInv, Called!Init, Called!Idle, GitHubCall, Called!CarriedOutOnce, Called!ListsAreWhole

-----------------------------------------------------------------------------
(* The settings of notifications.                                          *)

AllDeliveries == Saved!Deliveries \cup Saved!Locked

PanelRecord == [version: Nat, on: SUBSET AllDeliveries, draft: SUBSET AllDeliveries,
                touched: SUBSET AllDeliveries]
SaveRecord == [pc: {"none", "told", "sent", "checked"}, version: Nat, on: SUBSET AllDeliveries,
               confirm: BOOLEAN, told: SUBSET AllDeliveries, touched: SUBSET AllDeliveries]

\* The panel shows a version there was, and its edits are among what was touched.
PanelIsKnown(p) ==
  /\ p.version <= settings.version /\ (p.version = settings.version => p.on = settings.on)
  /\ Saved!Locked \subseteq p.on /\ Saved!Locked \subseteq p.draft
  /\ (p.draft \ p.on) \cup (p.on \ p.draft) \subseteq p.touched

\* A save of the version that is stored changes what was touched, and the administrator was
\* told of everything it turns off.
SaveIsKnown(q) ==
  q.pc # "none" =>
    /\ q.version <= settings.version /\ Saved!Locked \subseteq q.on
    /\ q.version = settings.version =>
         /\ (q.on \ settings.on) \cup (settings.on \ q.on) \subseteq q.touched
         /\ settings.on \ q.on \subseteq q.told

SettingsInv ==
  /\ settings \in [version: Nat, on: SUBSET AllDeliveries] /\ Saved!Locked \subseteq settings.on
  /\ panel \in [Administrators -> PanelRecord] /\ save \in [Administrators -> SaveRecord]
  /\ \A a \in Administrators : PanelIsKnown(panel[a]) /\ SaveIsKnown(save[a])

\* One administrator goes on while the settings stay as they are.
LEMMA OneAdministratorGoesOn ==
  ASSUME SettingsInv, NEW a \in Administrators,
         NEW p \in PanelRecord, PanelIsKnown(p), NEW q \in SaveRecord, SaveIsKnown(q),
         settings' = settings,
         panel' = panel \/ panel' = [panel EXCEPT ![a] = p],
         save' = save \/ save' = [save EXCEPT ![a] = q]
  PROVE  SettingsInv'
<1>1. panel' \in [Administrators -> PanelRecord] /\ save' \in [Administrators -> SaveRecord]
  BY DEF SettingsInv
<1>2. ASSUME NEW b \in Administrators PROVE PanelIsKnown(panel'[b]) /\ SaveIsKnown(save'[b])
  BY <1>2 DEF SettingsInv
<1>3. ASSUME NEW b \in Administrators PROVE PanelIsKnown(panel[b])' /\ SaveIsKnown(save[b])'
  BY <1>2, <1>3 DEF PanelIsKnown, SaveIsKnown, Saved!Locked
<1>4. (Saved!Locked \subseteq settings.on)'
  BY DEF SettingsInv, Saved!Locked
<1> QED BY <1>1, <1>3, <1>4 DEF SettingsInv

\* The settings panel: what it shows, and its edits
LEMMA PanelSteps ==
  ASSUME SettingsInv, NEW a \in Administrators, Saved!Refetch(a) \/ Saved!Edit(a)
  PROVE  SettingsInv' /\ settings' = settings
<1> DEFINE p == panel[a]
<1>1. p \in PanelRecord /\ PanelIsKnown(p) /\ save[a] \in SaveRecord /\ SaveIsKnown(save[a])
  BY DEF SettingsInv
<1>2. Saved!NoRequest \in SaveRecord /\ SaveIsKnown(Saved!NoRequest)
  BY DEF Saved!NoRequest, SaveRecord, SaveIsKnown
<1>3. CASE Saved!Refetch(a)
  <2> DEFINE n == [version |-> settings.version, on |-> settings.on, draft |-> settings.on,
                   touched |-> {}]
  <2>1. n \in PanelRecord /\ PanelIsKnown(n)
    BY DEF SettingsInv, PanelRecord, PanelIsKnown
  <2>2. /\ settings' = settings /\ panel' = [panel EXCEPT ![a] = n]
        /\ save' = save \/ save' = [save EXCEPT ![a] = Saved!NoRequest]
    BY <1>3 DEF Saved!Refetch, SettingsInv
  <2> HIDE DEF n
  <2> QED BY <1>2, <2>1, <2>2, OneAdministratorGoesOn
<1>4. CASE Saved!Edit(a)
  <2>1. PICK d \in Saved!Deliveries \ Saved!Locked :
          panel' = [panel EXCEPT ![a].draft = IF d \in @ THEN @ \ {d} ELSE @ \cup {d},
                                 ![a].touched = @ \cup {d}]
    BY <1>4 DEF Saved!Edit
  <2> DEFINE draft_ == IF d \in p.draft THEN p.draft \ {d} ELSE p.draft \cup {d}
             n == [p EXCEPT !.draft = draft_, !.touched = p.touched \cup {d}]
  <2>2. panel' = [panel EXCEPT ![a] = n]
    BY <2>1 DEF SettingsInv
  <2>3. draft_ \in SUBSET AllDeliveries /\ p.touched \cup {d} \in SUBSET AllDeliveries
        /\ Saved!Locked \subseteq draft_
        /\ (draft_ \ p.on) \cup (p.on \ draft_) \subseteq p.touched \cup {d}
    BY <1>1 DEF AllDeliveries, PanelRecord, PanelIsKnown
  <2> HIDE DEF draft_
  <2>4. n \in PanelRecord /\ n.version = p.version /\ n.on = p.on /\ n.draft = draft_
        /\ n.touched = p.touched \cup {d}
    BY <1>1, <2>3 DEF PanelRecord
  <2>5. PanelIsKnown(n)
    BY <1>1, <2>3, <2>4 DEF PanelIsKnown
  <2>6. settings' = settings /\ save' = save
    BY <1>4 DEF Saved!Edit
  <2> HIDE DEF n
  <2> QED BY <1>1, <2>2, <2>4, <2>5, <2>6, OneAdministratorGoesOn
<1> QED BY <1>3, <1>4

\* A save up to its transaction
LEMMA SaveSteps ==
  ASSUME SettingsInv, NEW a \in Administrators,
         \/ Saved!SaveClicked(a) \/ Saved!Confirm(a) \/ Saved!Cancel(a) \/ Saved!CheckSave(a)
         \/ Saved!RefuseSave(a)
  PROVE  SettingsInv' /\ settings' = settings
<1> DEFINE p == panel[a]
           q == save[a]
<1>1. p \in PanelRecord /\ PanelIsKnown(p) /\ q \in SaveRecord /\ SaveIsKnown(q)
  BY DEF SettingsInv
<1>2. Saved!NoRequest \in SaveRecord /\ SaveIsKnown(Saved!NoRequest)
  BY DEF Saved!NoRequest, SaveRecord, SaveIsKnown
<1>3. settings' = settings /\ panel' = panel
  BY DEF Saved!SaveClicked, Saved!Confirm, Saved!Cancel, Saved!CheckSave, Saved!RefuseSave
<1>4. ASSUME NEW n \in SaveRecord, SaveIsKnown(n), save' = [save EXCEPT ![a] = n]
      PROVE  SettingsInv' /\ settings' = settings
  BY <1>1, <1>3, <1>4, OneAdministratorGoesOn
<1>5. CASE Saved!SaveClicked(a)
  <2> DEFINE off == p.on \ p.draft
             n == [pc |-> IF off = {} THEN "sent" ELSE "told", version |-> p.version, on |-> p.draft,
                   confirm |-> FALSE, told |-> off, touched |-> p.touched]
  <2>1. save' = [save EXCEPT ![a] = n]
    BY <1>5 DEF Saved!SaveClicked
  <2>2. off \in SUBSET AllDeliveries
    BY <1>1 DEF PanelRecord
  <2>3. n \in SaveRecord
    BY <1>1, <2>2 DEF SaveRecord, PanelRecord
  <2>4. SaveIsKnown(n)
    BY <1>1 DEF SaveIsKnown, PanelIsKnown
  <2> HIDE DEF n
  <2> QED BY <1>4, <2>1, <2>3, <2>4
<1>6. CASE Saved!Confirm(a)
  <2> DEFINE n == [q EXCEPT !.pc = "sent", !.confirm = TRUE]
  <2>1. save' = [save EXCEPT ![a] = n] /\ q.pc = "told"
    BY <1>6 DEF Saved!Confirm, SettingsInv
  <2>2. n \in SaveRecord /\ n.version = q.version /\ n.on = q.on /\ n.told = q.told
        /\ n.touched = q.touched
    BY <1>1 DEF SaveRecord
  <2>3. SaveIsKnown(n)
    BY <1>1, <2>1, <2>2 DEF SaveIsKnown
  <2> HIDE DEF n
  <2> QED BY <1>4, <2>1, <2>2, <2>3
<1>7. CASE save' = [save EXCEPT ![a] = Saved!NoRequest]
  BY <1>2, <1>4, <1>7
<1>8. CASE Saved!CheckSave(a) /\ save' # [save EXCEPT ![a] = Saved!NoRequest]
  <2> DEFINE off == settings.on \ Saved!Normalize(q.on)
  <2>1. /\ q.pc = "sent"
        /\ \/ save' = [save EXCEPT ![a] = [q EXCEPT !.pc = "told", !.told = off]]
           \/ save' = [save EXCEPT ![a] = [q EXCEPT !.pc = "checked"]]
    BY <1>8 DEF Saved!CheckSave
  <2>2. off = settings.on \ q.on /\ off \in SUBSET AllDeliveries
    BY <1>1, <2>1 DEF SaveIsKnown, Saved!Normalize, SettingsInv
  <2> HIDE DEF off
  <2>3. CASE save' = [save EXCEPT ![a] = [q EXCEPT !.pc = "told", !.told = off]]
    <3> DEFINE n == [q EXCEPT !.pc = "told", !.told = off]
    <3>1. n \in SaveRecord /\ n.version = q.version /\ n.on = q.on /\ n.told = off
          /\ n.touched = q.touched
      BY <1>1, <2>2 DEF SaveRecord
    <3>2. SaveIsKnown(n)
      BY <1>1, <2>1, <2>2, <3>1 DEF SaveIsKnown
    <3>3. save' = [save EXCEPT ![a] = n]
      BY <2>3
    <3> HIDE DEF n
    <3> QED BY <1>4, <3>1, <3>2, <3>3
  <2>4. CASE save' = [save EXCEPT ![a] = [q EXCEPT !.pc = "checked"]]
    <3> DEFINE n == [q EXCEPT !.pc = "checked"]
    <3>1. n \in SaveRecord /\ n.version = q.version /\ n.on = q.on /\ n.told = q.told
          /\ n.touched = q.touched
      BY <1>1 DEF SaveRecord
    <3>2. SaveIsKnown(n)
      BY <1>1, <2>1, <3>1 DEF SaveIsKnown
    <3>3. save' = [save EXCEPT ![a] = n]
      BY <2>4
    <3> HIDE DEF n
    <3> QED BY <1>4, <3>1, <3>2, <3>3
  <2> QED BY <2>1, <2>3, <2>4
<1> QED BY <1>5, <1>6, <1>7, <1>8 DEF Saved!Cancel, Saved!RefuseSave

\* What a step may do to the settings (SavesOnlyWhatWasAsked)
OnlyWhatWasAsked ==
  /\ \A d \in settings'.on \ settings.on : Saved!AskedFor(d, FALSE)
  /\ \A d \in settings.on \ settings'.on : Saved!AskedFor(d, TRUE)

LEMMA SaveStored ==
  ASSUME SettingsInv, NEW a \in Administrators, Saved!StoreSave(a)
  PROVE  SettingsInv' /\ OnlyWhatWasAsked
<1> DEFINE q == save[a]
<1>1. q \in SaveRecord /\ SaveIsKnown(q) /\ q.pc = "checked" /\ q.version = settings.version
  BY DEF SettingsInv, Saved!StoreSave, Saved!StillCurrent
<1>2. /\ settings' = [version |-> settings.version + 1, on |-> Saved!Normalize(q.on)]
      /\ save' = [save EXCEPT ![a] = Saved!NoRequest] /\ panel' = panel
  BY <1>1 DEF Saved!StoreSave
<1>3. Saved!Normalize(q.on) = q.on
  BY <1>1 DEF SaveIsKnown, Saved!Normalize
<1>4. settings' \in [version: Nat, on: SUBSET AllDeliveries] /\ settings'.version = settings.version + 1
      /\ settings'.on = q.on /\ settings.version \in Nat
  BY <1>1, <1>2, <1>3 DEF SettingsInv, SaveRecord
<1>5. (Saved!Locked \subseteq settings.on)'
  BY <1>1, <1>4 DEF SaveIsKnown, Saved!Locked
<1>6. Saved!NoRequest \in SaveRecord /\ Saved!NoRequest.pc = "none"
  BY DEF Saved!NoRequest, SaveRecord
<1>7. panel' \in [Administrators -> PanelRecord] /\ save' \in [Administrators -> SaveRecord]
      /\ save'[a] = Saved!NoRequest
  BY <1>2, <1>6 DEF SettingsInv
<1>8. ASSUME NEW b \in Administrators PROVE PanelIsKnown(panel[b])'
  <2>1. panel[b] \in PanelRecord /\ PanelIsKnown(panel[b]) /\ panel'[b] = panel[b]
    BY <1>2, <1>8 DEF SettingsInv
  <2>2. panel[b].version \in Nat
    BY <2>1 DEF PanelRecord
  <2> QED BY <1>4, <2>1, <2>2 DEF PanelIsKnown, Saved!Locked
<1>9. ASSUME NEW b \in Administrators PROVE SaveIsKnown(save[b])'
  <2>1. save[b] \in SaveRecord /\ SaveIsKnown(save[b]) /\ save'[b] \in {save[b], Saved!NoRequest}
    BY <1>2, <1>9 DEF SettingsInv
  <2>2. save[b].version \in Nat
    BY <2>1 DEF SaveRecord
  <2> QED BY <1>4, <1>6, <2>1, <2>2 DEF SaveIsKnown, Saved!Locked
<1>10. OnlyWhatWasAsked
  <2>1. \A d \in (q.on \ settings.on) \cup (settings.on \ q.on) : d \in q.touched
    BY <1>1 DEF SaveIsKnown
  <2>2. \A d \in settings.on \ q.on : d \in q.told
    BY <1>1 DEF SaveIsKnown
  <2>3. save'[a].pc = "none"
    BY <1>6, <1>7
  <2> QED BY <1>1, <1>4, <2>1, <2>2, <2>3 DEF OnlyWhatWasAsked, Saved!AskedFor
<1> QED BY <1>4, <1>5, <1>7, <1>8, <1>9, <1>10 DEF SettingsInv

LEMMA SettingsUnchanged ==
  ASSUME SettingsInv, UNCHANGED <<settings, panel, save>>
  PROVE  SettingsInv' /\ OnlyWhatWasAsked
BY DEF SettingsInv, PanelIsKnown, SaveIsKnown, Saved!Locked, OnlyWhatWasAsked

LEMMA SettingsStep ==
  ASSUME SettingsInv, Saved!Next
  PROVE  SettingsInv' /\ OnlyWhatWasAsked
<1>1. ASSUME settings' = settings PROVE OnlyWhatWasAsked
  BY <1>1 DEF OnlyWhatWasAsked
<1>2. ASSUME UNCHANGED Saved!settingsVars PROVE SettingsInv' /\ OnlyWhatWasAsked
  BY <1>2, SettingsUnchanged DEF Saved!settingsVars
<1>3. ASSUME \/ \E m \in {} : Saved!ChangeRole(m) \/ Saved!Mute(m) \/ Saved!FindUnread(m) \/ Saved!MarkFound(m)
             \/ \E e \in {} : \/ Saved!Emit(e) \/ Saved!Dispatch(e) \/ Saved!Recur(e)
                            \/ \E m \in {} : Saved!SetState(m, e)
      PROVE  FALSE
  BY <1>3
<1> QED BY <1>1, <1>3, PanelSteps, SaveSteps, SaveStored DEF Saved!Next

LEMMA SettingsInit ==
  ASSUME Saved!Init
  PROVE  SettingsInv
<1> DEFINE on == Saved!Normalize(PanelTypes \X {"in_app", "email"})
<1>1. on \in SUBSET AllDeliveries /\ Saved!Locked \subseteq on
  BY DEF Saved!Normalize, AllDeliveries, Saved!Deliveries, Saved!Channels
<1> HIDE DEF on
<1>2. settings = [version |-> 0, on |-> on]
      /\ panel = [a \in Administrators |-> [version |-> 0, on |-> on, draft |-> on, touched |-> {}]]
      /\ save = [a \in Administrators |-> Saved!NoRequest]
  BY DEF Saved!Init, on
<1>3. Saved!NoRequest \in SaveRecord /\ SaveIsKnown(Saved!NoRequest)
  BY DEF Saved!NoRequest, SaveRecord, SaveIsKnown
<1>4. panel \in [Administrators -> PanelRecord] /\ \A a \in Administrators : PanelIsKnown(panel[a])
  BY <1>1, <1>2 DEF PanelRecord, PanelIsKnown
<1> QED BY <1>1, <1>2, <1>3, <1>4 DEF SettingsInv

-----------------------------------------------------------------------------
(* The inboxes.                                                            *)

InboxInv ==
  /\ inbox \in [InboxMembers -> [EventTypes -> Delivered!Entry]]
  /\ DOMAIN marked = InboxMembers
  /\ Delivered!MandatoryReaches

LEMMA InboxStep ==
  ASSUME InboxInv, [Delivered!Next]_centerVars
  PROVE  InboxInv' /\ UNCHANGED <<settings, panel, save>>
<1>1. ASSUME NEW e \in EventTypes, Delivered!Dispatch(e) PROVE InboxInv'
  BY <1>1 DEF InboxInv, Delivered!Dispatch, Delivered!MandatoryReaches, Delivered!InAppEnabled, Delivered!Entry
<1>2. ASSUME NEW e \in EventTypes, Delivered!Recur(e) PROVE InboxInv'
  BY <1>2 DEF InboxInv, Delivered!Recur, Delivered!MandatoryReaches, Delivered!Again, Delivered!Entry
<1>3. ASSUME NEW e \in EventTypes, NEW m \in InboxMembers, Delivered!SetState(m, e) PROVE InboxInv'
  BY <1>3 DEF InboxInv, Delivered!SetState, Delivered!MandatoryReaches, Delivered!Entry
<1>4. ASSUME NEW m \in InboxMembers, Delivered!MarkFound(m) PROVE InboxInv'
  BY <1>4 DEF InboxInv, Delivered!MarkFound, Delivered!MandatoryReaches, Delivered!Entry
<1>5. ASSUME NEW e \in EventTypes, Delivered!Emit(e) PROVE InboxInv'
  BY <1>5 DEF InboxInv, Delivered!Emit, Delivered!MandatoryReaches
<1>6. ASSUME UNCHANGED <<event, inbox, marked>> PROVE InboxInv'
  BY <1>6 DEF InboxInv, Delivered!MandatoryReaches
<1>7. ASSUME NEW m \in InboxMembers, Delivered!ChangeRole(m) \/ Delivered!Mute(m) \/ Delivered!FindUnread(m)
      PROVE  InboxInv'
  BY <1>6, <1>7 DEF Delivered!ChangeRole, Delivered!Mute, Delivered!FindUnread
<1>8. Delivered!Next =>
        \/ \E m \in InboxMembers : \/ Delivered!ChangeRole(m) \/ Delivered!Mute(m)
                                  \/ Delivered!FindUnread(m) \/ Delivered!MarkFound(m)
        \/ \E e \in EventTypes : \/ Delivered!Emit(e) \/ Delivered!Dispatch(e) \/ Delivered!Recur(e)
                                \/ \E m \in InboxMembers : Delivered!SetState(m, e)
  BY DEF Delivered!Next
<1>9. InboxInv'
  BY <1>1, <1>2, <1>3, <1>4, <1>5, <1>6, <1>7, <1>8 DEF centerVars
<1>10. UNCHANGED <<settings, panel, save>>
  BY <1>8 DEF Delivered!ChangeRole, Delivered!Mute, Delivered!FindUnread, Delivered!MarkFound,
    Delivered!Emit, Delivered!Dispatch, Delivered!Recur, Delivered!SetState, Delivered!settingsVars, centerVars
<1> QED BY <1>9, <1>10

LEMMA InboxInit ==
  ASSUME Delivered!Init
  PROVE  InboxInv
BY DEF Delivered!Init, InboxInv, Delivered!MandatoryReaches, Delivered!Entry

-----------------------------------------------------------------------------
(* Requests of the API, for any users, sessions, threads, routes and limits: *)
(* who may have an answer, and how many are let through in a minute.          *)

AsDocumented(c, r) ==
  \A p \in DOMAIN Judged(c)!Documented :
    r.name \in Judged(c)!Documented[p] => r.handler = Judged(c)!Required(r.name, p)

WellFormed(c, r) ==
  /\ r.rate \in Judged(c)!Categories
  /\ AsDocumented(c, r)

LEMMA DocumentedPermissions ==
  ASSUME NEW CONSTANT c
  PROVE  DOMAIN Judged(c)!Documented = Judged(c)!Owner
BY DEF Judged!Documented

LEMMA SignInDocumented ==
  ASSUME NEW CONSTANT c, NEW r \in Judged(c)!SignInRoutes
  PROVE  WellFormed(c, r)
BY SMTT(60)
   DEF WellFormed, AsDocumented, Judged!Required, Judged!SignInRoutes, Judged!Rows, Judged!Categories,
       Judged!Documented, Judged!Owner, Judged!Admin, Judged!SecurityManager, Judged!Viewer

LEMMA MemberDocumented ==
  ASSUME NEW CONSTANT c, NEW r \in Judged(c)!MemberRoutes
  PROVE  WellFormed(c, r)
BY SMTT(60)
   DEF WellFormed, AsDocumented, Judged!Required, Judged!MemberRoutes, Judged!Rows, Judged!Categories,
       Judged!Documented, Judged!Owner, Judged!Admin, Judged!SecurityManager, Judged!Viewer

LEMMA RepositoryDocumented ==
  ASSUME NEW CONSTANT c, NEW r \in Judged(c)!RepositoryRoutes
  PROVE  WellFormed(c, r)
BY SMTT(60)
   DEF WellFormed, AsDocumented, Judged!Required, Judged!RepositoryRoutes, Judged!Rows, Judged!Categories,
       Judged!Documented, Judged!Owner, Judged!Admin, Judged!SecurityManager, Judged!Viewer

LEMMA ScanDocumented ==
  ASSUME NEW CONSTANT c, NEW r \in Judged(c)!ScanRoutes
  PROVE  WellFormed(c, r)
BY SMTT(60)
   DEF WellFormed, AsDocumented, Judged!Required, Judged!ScanRoutes, Judged!Rows, Judged!Categories,
       Judged!Documented, Judged!Owner, Judged!Admin, Judged!SecurityManager, Judged!Viewer

LEMMA ViolationDocumented ==
  ASSUME NEW CONSTANT c, NEW r \in Judged(c)!ViolationRoutes
  PROVE  WellFormed(c, r)
BY SMTT(60)
   DEF WellFormed, AsDocumented, Judged!Required, Judged!ViolationRoutes, Judged!Rows, Judged!Categories,
       Judged!Documented, Judged!Owner, Judged!Admin, Judged!SecurityManager, Judged!Viewer

LEMMA PolicyDocumented ==
  ASSUME NEW CONSTANT c, NEW r \in Judged(c)!PolicyRoutes
  PROVE  WellFormed(c, r)
BY SMTT(60)
   DEF WellFormed, AsDocumented, Judged!Required, Judged!PolicyRoutes, Judged!Rows, Judged!Categories,
       Judged!Documented, Judged!Owner, Judged!Admin, Judged!SecurityManager, Judged!Viewer

LEMMA RuleAndAuditDocumented ==
  ASSUME NEW CONSTANT c, NEW r \in Judged(c)!RuleAndAuditRoutes
  PROVE  WellFormed(c, r)
BY SMTT(60)
   DEF WellFormed, AsDocumented, Judged!Required, Judged!RuleAndAuditRoutes, Judged!Rows, Judged!Categories,
       Judged!Documented, Judged!Owner, Judged!Admin, Judged!SecurityManager, Judged!Viewer

LEMMA GitHubDocumented ==
  ASSUME NEW CONSTANT c, NEW r \in Judged(c)!GitHubRoutes
  PROVE  WellFormed(c, r)
BY SMTT(60)
   DEF WellFormed, AsDocumented, Judged!Required, Judged!GitHubRoutes, Judged!Rows, Judged!Categories,
       Judged!Documented, Judged!Owner, Judged!Admin, Judged!SecurityManager, Judged!Viewer

LEMMA InboxDocumented ==
  ASSUME NEW CONSTANT c, NEW r \in Judged(c)!InboxRoutes
  PROVE  WellFormed(c, r)
BY SMTT(60)
   DEF WellFormed, AsDocumented, Judged!Required, Judged!InboxRoutes, Judged!Rows, Judged!Categories,
       Judged!Documented, Judged!Owner, Judged!Admin, Judged!SecurityManager, Judged!Viewer

LEMMA NotificationSettingDocumented ==
  ASSUME NEW CONSTANT c, NEW r \in Judged(c)!NotificationSettingRoutes
  PROVE  WellFormed(c, r)
BY SMTT(60)
   DEF WellFormed, AsDocumented, Judged!Required, Judged!NotificationSettingRoutes, Judged!Rows, Judged!Categories,
       Judged!Documented, Judged!Owner, Judged!Admin, Judged!SecurityManager, Judged!Viewer

LEMMA OrganizationDocumented ==
  ASSUME NEW CONSTANT c, NEW r \in Judged(c)!OrganizationRoutes
  PROVE  WellFormed(c, r)
BY SMTT(60)
   DEF WellFormed, AsDocumented, Judged!Required, Judged!OrganizationRoutes, Judged!Rows, Judged!Categories,
       Judged!Documented, Judged!Owner, Judged!Admin, Judged!SecurityManager, Judged!Viewer

LEMMA GroupDocumented ==
  ASSUME NEW CONSTANT c, NEW r \in Judged(c)!GroupRoutes
  PROVE  WellFormed(c, r)
BY SMTT(60)
   DEF WellFormed, AsDocumented, Judged!Required, Judged!GroupRoutes, Judged!Rows, Judged!Categories,
       Judged!Documented, Judged!Owner, Judged!Admin, Judged!SecurityManager, Judged!Viewer

LEMMA DraftDocumented ==
  ASSUME NEW CONSTANT c, NEW r \in Judged(c)!DraftRoutes
  PROVE  WellFormed(c, r)
BY SMTT(60)
   DEF WellFormed, AsDocumented, Judged!Required, Judged!DraftRoutes, Judged!Rows, Judged!Categories,
       Judged!Documented, Judged!Owner, Judged!Admin, Judged!SecurityManager, Judged!Viewer

LEMMA RolloutDocumented ==
  ASSUME NEW CONSTANT c, NEW r \in Judged(c)!RolloutRoutes
  PROVE  WellFormed(c, r)
BY SMTT(60)
   DEF WellFormed, AsDocumented, Judged!Required, Judged!RolloutRoutes, Judged!Rows, Judged!Categories,
       Judged!Documented, Judged!Owner, Judged!Admin, Judged!SecurityManager, Judged!Viewer

LEMMA ExceptionDocumented ==
  ASSUME NEW CONSTANT c, NEW r \in Judged(c)!ExceptionRoutes
  PROVE  WellFormed(c, r)
BY SMTT(60)
   DEF WellFormed, AsDocumented, Judged!Required, Judged!ExceptionRoutes, Judged!Rows, Judged!Categories,
       Judged!Documented, Judged!Owner, Judged!Admin, Judged!SecurityManager, Judged!Viewer

LEMMA OperationDocumented ==
  ASSUME NEW CONSTANT c, NEW r \in Judged(c)!OperationRoutes
  PROVE  WellFormed(c, r)
BY SMTT(60)
   DEF WellFormed, AsDocumented, Judged!Required, Judged!OperationRoutes, Judged!Rows, Judged!Categories,
       Judged!Documented, Judged!Owner, Judged!Admin, Judged!SecurityManager, Judged!Viewer

\* The handler of every route asks for the permission that is required where it is documented.
LEMMA RoutesDocumented ==
  ASSUME NEW CONSTANT c, NEW r \in Judged(c)!Routes
  PROVE  WellFormed(c, r) /\ r.name \in c.names
<1>1. CASE r \in Judged(c)!DashboardTable
  BY <1>1, SignInDocumented, MemberDocumented, RepositoryDocumented, ScanDocumented,
     ViolationDocumented, PolicyDocumented, RuleAndAuditDocumented, GitHubDocumented,
     InboxDocumented, NotificationSettingDocumented
     DEF Judged!DashboardTable, Judged!Routes
<1>2. CASE r \in Judged(c)!GovernanceTable
  BY <1>2, OrganizationDocumented, GroupDocumented, DraftDocumented, RolloutDocumented,
     ExceptionDocumented, OperationDocumented
     DEF Judged!GovernanceTable, Judged!Routes
<1> QED BY <1>1, <1>2 DEF Judged!Routes

-----------------------------------------------------------------------------
\* What is known of the constants of a part
Setting(c) ==
  /\ IsFiniteSet(c.threads) /\ IsFiniteSet(c.users)
  /\ c.limit \in Nat /\ c.minutes \in Nat
  /\ "none" \notin c.sessions

ApiRequest(c) ==
  [step: {"arrived", "identified", "timed", "counted", "answered"},
   route: Judged(c)!Routes, organization: Judged(c)!Places, cookie: c.sessions \cup {"none"},
   token: c.sessions \cup {"none"}, live: BOOLEAN, key: Judged(c)!Keys,
   category: Judged(c)!Categories, principal: [Judged(c)!Places -> Judged(c)!Role],
   minute: Judged(c)!Minutes, status: Judged(c)!Refusals \cup {"none", "ok"}]

ApiTypes(c) ==
  /\ role \in [c.users -> [ApiOrganizations -> Judged(c)!Role]]
  /\ cookie \in [c.sessions -> [user: c.users, state: {"unused", "live", "expired", "ended"}]]
  /\ request \in [c.threads -> {Judged(c)!Idle} \cup ApiRequest(c)]
  /\ \A t \in c.threads :
       request[t] # Judged(c)!Idle =>
         (request[t].status # "none" <=> request[t].step = "answered")
  /\ minute \in Judged(c)!Minutes
  /\ counted \in [Judged(c)!Categories -> [Judged(c)!Keys -> [minute: Int, count: Nat]]]
  /\ accepted \in [Judged(c)!Categories -> [Judged(c)!Keys -> [Judged(c)!Minutes -> Nat]]]
  /\ held \in [c.threads -> SUBSET Judged(c)!Role]

\* The role of a user, of roles p
RoleAt(p, u, o) == IF o = "missing" THEN "none" ELSE p[u][o]

\* A request that is carried out was allowed to its user, whose roles were own.
Justified(c, q, own) ==
  /\ q.live
  /\ \A p \in DOMAIN Judged(c)!Documented :
       q.route.name \in Judged(c)!Documented[p] =>
         \E x \in own : Judged(c)!Required(q.route.name, p) \in Judged(c)!Grants(x)
  /\ Judged(c)!Unsafe(q.route) => q.token = q.cookie

\* A session that expired or ended
Over == {"expired", "ended"}

\* Signed out by an answer: the session k is over for good, of the sessions s.
Gone(c, status, k, s) ==
  status \in Judged(c)!SignedOut /\ k \in c.sessions => s[k].state = "ended"

\* A request q of a user whose roles were own, with the sessions s and the roles p
Entitled(c, q, own, s, p) ==
  q # Judged(c)!Idle =>
    /\ q.cookie \in c.sessions => s[q.cookie].state # "unused"
    /\ q.step # "answered" /\ q.live =>
         q.cookie \in c.sessions /\ RoleAt(p, s[q.cookie].user, q.organization) \in own
    /\ q.step # "answered" /\ q.cookie \in c.sessions /\ ~q.live => s[q.cookie].state \in Over
    /\ q.step \in {"identified", "timed", "counted"} /\ q.route.dispatcher # "public" =>
         q.live /\ q.principal[q.organization] \in own
    /\ q.status = "ok" /\ q.route.dispatcher # "public" => Justified(c, q, own)
    /\ Gone(c, q.status, q.cookie, s)

EntitledInv(c) == \A t \in c.threads : Entitled(c, request[t], held[t], cookie, role)

LEMMA IdleRequest ==
  ASSUME NEW CONSTANT c
  PROVE  Judged(c)!Idle \notin ApiRequest(c) /\ Judged(c)!Idle.step = "idle"
BY DEF Judged!Idle, ApiRequest

\* A session that was used stays so, and one that is over does not come back.
Onward(c, s, n) ==
  \A i \in c.sessions :
    /\ n[i].user = s[i].user
    /\ s[i].state # "unused" => n[i].state # "unused"
    /\ s[i].state \in Over => n[i].state \in Over
    /\ s[i].state = "ended" => n[i].state = "ended"

LEMMA EntitledStays ==
  ASSUME NEW CONSTANT c, NEW q \in {Judged(c)!Idle} \cup ApiRequest(c), NEW own, NEW G, own \subseteq G,
         NEW s, NEW n, NEW p, NEW r, Entitled(c, q, own, s, p), Onward(c, s, n),
         \/ r = p
         \/ q.step # "answered" /\ q.live /\ q.cookie \in c.sessions =>
              RoleAt(r, n[q.cookie].user, q.organization) \in G
  PROVE  Entitled(c, q, G, n, r)
<1>1. ASSUME Justified(c, q, own) PROVE Justified(c, q, G)
  BY <1>1 DEF Justified
<1>2. Gone(c, q.status, q.cookie, s) => Gone(c, q.status, q.cookie, n)
  BY DEF Gone, Onward
<1> QED BY <1>1, <1>2 DEF Entitled, Onward

\* A thread whose request goes on, and the others
LEMMA OneEntitled ==
  ASSUME NEW CONSTANT c, ApiTypes(c), EntitledInv(c), NEW t \in c.threads,
         NEW q \in ApiRequest(c), request' = [request EXCEPT ![t] = q],
         UNCHANGED <<role, cookie>>,
         held' \in [c.threads -> SUBSET Judged(c)!Role], \A u \in c.threads \ {t} : held'[u] = held[u],
         q.status # "none" <=> q.step = "answered",
         Entitled(c, q, held'[t], cookie, role)
  PROVE  EntitledInv(c)' /\ request' \in [c.threads -> {Judged(c)!Idle} \cup ApiRequest(c)]
<1>1. request' \in [c.threads -> {Judged(c)!Idle} \cup ApiRequest(c)]
  BY DEF ApiTypes
<1>2. request'[t] = q /\ \A u \in c.threads \ {t} : request'[u] = request[u]
  BY DEF ApiTypes
<1>3. ASSUME NEW u \in c.threads PROVE Entitled(c, request'[u], held'[u], cookie', role')
  BY <1>2 DEF EntitledInv
<1> QED BY <1>1, <1>3 DEF EntitledInv

LEMMA JudgedInit ==
  ASSUME NEW CONSTANT c, Setting(c), Judged(c)!Init
  PROVE  ApiTypes(c) /\ EntitledInv(c)
<1>1. c.minutes \in Nat /\ 0 \in Judged(c)!Minutes
  BY DEF Setting, Judged!Minutes
<1>2. Judged(c)!Untracked \in [minute: Int, count: Nat]
  BY DEF Judged!Untracked
<1>3. \A t \in c.threads : request[t] = Judged(c)!Idle
  BY DEF Judged!Init
<1>4. EntitledInv(c)
  BY <1>3 DEF EntitledInv, Entitled
<1>5. request \in [c.threads -> {Judged(c)!Idle} \cup ApiRequest(c)]
  BY DEF Judged!Init
<1>6. cookie \in [c.sessions -> [user: c.users, state: {"unused", "live", "expired", "ended"}]]
  BY DEF Judged!Init
<1>7. counted \in [Judged(c)!Categories -> [Judged(c)!Keys -> [minute: Int, count: Nat]]]
  BY <1>2 DEF Judged!Init
<1>8. accepted \in [Judged(c)!Categories -> [Judged(c)!Keys -> [Judged(c)!Minutes -> Nat]]]
  BY DEF Judged!Init
<1>9. held \in [c.threads -> SUBSET Judged(c)!Role] /\ role \in [c.users -> [ApiOrganizations -> Judged(c)!Role]]
  BY DEF Judged!Init
<1> QED BY <1>1, <1>3, <1>4, <1>5, <1>6, <1>7, <1>8, <1>9 DEF ApiTypes, Judged!Init

LEMMA RoleType ==
  ASSUME NEW CONSTANT c, ApiTypes(c), NEW s \in c.sessions, NEW o \in Judged(c)!Places
  PROVE  /\ RoleAt(role, cookie[s].user, o) \in Judged(c)!Role
         /\ Judged(c)!RoleIn(cookie[s].user, o) = RoleAt(role, cookie[s].user, o)
BY DEF ApiTypes, RoleAt, Judged!RoleIn, Judged!Places, Judged!Role

\* The dispatcher and the handler let a request through that had what they ask for.
LEMMA AllowedIsJustified ==
  ASSUME NEW CONSTANT c, Setting(c), ApiTypes(c), NEW t \in c.threads,
         request[t].step = "counted", "allowed" \in Judged(c)!Verdicts(t),
         Entitled(c, request[t], held[t], cookie, role),
         request[t].route.dispatcher # "public"
  PROVE  Justified(c, request[t], held[t])
<1> DEFINE q == request[t]
<1>1. q \in ApiRequest(c) /\ q # Judged(c)!Idle
  BY IdleRequest DEF ApiTypes
<1>2. q.live /\ q.principal[q.organization] \in held[t]
  BY <1>1 DEF Entitled
<1>3. /\ Judged(c)!Unsafe(q.route) => q.token = q.cookie
      /\ q.route.handler # "session" =>
           q.route.handler \in Judged(c)!Grants(q.principal[q.organization])
  BY DEF Judged!Verdicts, Judged!CsrfFails, Judged!Can, Judged!Unusable
<1>4. AsDocumented(c, q.route)
  BY <1>1, RoutesDocumented DEF Setting, WellFormed, ApiRequest
<1>5. ASSUME NEW p \in DOMAIN Judged(c)!Documented, q.route.name \in Judged(c)!Documented[p]
      PROVE  \E x \in held[t] : Judged(c)!Required(q.route.name, p) \in Judged(c)!Grants(x)
  <2>1. q.route.handler = Judged(c)!Required(q.route.name, p)
    BY <1>4, <1>5 DEF AsDocumented
  <2>2. Judged(c)!Required(q.route.name, p) # "session"
    <3>1. p # "session"
      BY DocumentedPermissions
         DEF Judged!Owner, Judged!Admin, Judged!SecurityManager, Judged!Viewer
    <3> QED BY <3>1 DEF Judged!Required
  <2> QED BY <1>2, <1>3, <2>1, <2>2
<1> QED BY <1>2, <1>3, <1>5 DEF Justified

LEMMA ArriveStep ==
  ASSUME NEW CONSTANT c, Setting(c), ApiTypes(c), EntitledInv(c), NEW t \in c.threads,
         Judged(c)!Arrive(t)
  PROVE  ApiTypes(c)' /\ EntitledInv(c)'
<1> DEFINE Arrived(route, o, k, token, search) ==
             /\ request' = [request EXCEPT ![t] =
                  [step |-> IF route.dispatcher = "public" THEN "identified" ELSE "arrived",
                   route |-> route, organization |-> o, cookie |-> k, token |-> token,
                   live |-> Judged(c)!LiveSession(k), key |-> "address",
                   category |-> IF search THEN "search" ELSE route.rate,
                   principal |-> Judged(c)!Nobody, minute |-> 0, status |-> "none"]]
             /\ held' = [held EXCEPT ![t] =
                  IF Judged(c)!LiveSession(k) THEN {Judged(c)!RoleIn(cookie[k].user, o)} ELSE {}]
<1>0. PICK route \in Judged(c)!Routes, o \in Judged(c)!Places,
           k \in {s \in c.sessions : cookie[s].state # "unused"} \cup {"none"} :
        \E token \in IF Judged(c)!Unsafe(route) THEN c.sessions \cup {"none"} ELSE {"none"},
           search \in IF route.rate = "read" THEN BOOLEAN ELSE {FALSE} :
          Arrived(route, o, k, token, search)
  BY DEF Judged!Arrive
<1>1. PICK token \in c.sessions \cup {"none"}, search \in BOOLEAN :
        Arrived(route, o, k, token, search)
  <2> HIDE DEF Arrived
  <2>1. CASE Judged(c)!Unsafe(route) /\ route.rate = "read"
    BY <1>0, <2>1
  <2>2. CASE Judged(c)!Unsafe(route) /\ route.rate # "read"
    BY <1>0, <2>2
  <2>3. CASE ~Judged(c)!Unsafe(route) /\ route.rate = "read"
    BY <1>0, <2>3
  <2>4. CASE ~Judged(c)!Unsafe(route) /\ route.rate # "read"
    BY <1>0, <2>4
  <2> QED BY <2>1, <2>2, <2>3, <2>4
<1> DEFINE q == [step |-> IF route.dispatcher = "public" THEN "identified" ELSE "arrived",
                 route |-> route, organization |-> o, cookie |-> k, token |-> token,
                 live |-> Judged(c)!LiveSession(k), key |-> "address",
                 category |-> IF search THEN "search" ELSE route.rate,
                 principal |-> Judged(c)!Nobody, minute |-> 0, status |-> "none"]
           own == IF Judged(c)!LiveSession(k) THEN {Judged(c)!RoleIn(cookie[k].user, o)} ELSE {}
<1>2. k \in c.sessions \cup {"none"} /\ token \in c.sessions \cup {"none"}
  OBVIOUS
<1>3. /\ Judged(c)!Nobody \in [Judged(c)!Places -> Judged(c)!Role]
      /\ 0 \in Judged(c)!Minutes
      /\ "address" \in Judged(c)!Keys
      /\ (IF search THEN "search" ELSE route.rate) \in Judged(c)!Categories
  <2>1. route.rate \in Judged(c)!Categories /\ "search" \in Judged(c)!Categories
    BY RoutesDocumented DEF WellFormed, Judged!Categories
  <2> QED BY <2>1 DEF Judged!Nobody, Judged!Minutes, Judged!Keys, Judged!Role, Setting
<1>4. Judged(c)!LiveSession(k) \in BOOLEAN
  BY DEF Judged!LiveSession
<1>5. q \in ApiRequest(c)
  BY <1>2, <1>3, <1>4 DEF ApiRequest
<1>6. own \in SUBSET Judged(c)!Role
  BY RoleType, <1>2 DEF Judged!LiveSession
<1>7. held' = [held EXCEPT ![t] = own] /\ request' = [request EXCEPT ![t] = q]
  BY <1>1
<1>8. UNCHANGED <<role, cookie, minute, counted, accepted>>
  BY DEF Judged!Arrive
<1>9. /\ held' \in [c.threads -> SUBSET Judged(c)!Role]
      /\ \A u \in c.threads \ {t} : held'[u] = held[u]
      /\ held'[t] = own
  BY <1>6, <1>7 DEF ApiTypes
<1>10. /\ q.live = Judged(c)!LiveSession(k) /\ q.cookie = k /\ q.organization = o
       /\ q.status = "none" /\ q.step \in {"identified", "arrived"} /\ q.route = route
       /\ q.route.dispatcher # "public" => q.step = "arrived"
  BY SMT
<1>11. k \in c.sessions => Judged(c)!RoleIn(cookie[k].user, o) = RoleAt(role, cookie[k].user, o)
  BY RoleType
<1>12. k \in c.sessions => cookie[k].state # "unused"
                            /\ cookie[k].state \in {"unused", "live", "expired", "ended"}
  BY DEF ApiTypes, Setting
<1> HIDE DEF q, own
<1>13. Entitled(c, q, own, cookie, role)
  <2>1. Judged(c)!LiveSession(k) => k \in c.sessions /\ RoleAt(role, cookie[k].user, o) \in own
    BY <1>11 DEF Judged!LiveSession, own
  <2>2. k \in c.sessions /\ ~Judged(c)!LiveSession(k) => cookie[k].state \in Over
    BY <1>12 DEF Judged!LiveSession, Over
  <2>3. Gone(c, "none", k, cookie)
    BY DEF Gone, Judged!SignedOut
  <2> QED BY <1>10, <1>12, <2>1, <2>2, <2>3 DEF Entitled
<1>14. EntitledInv(c)' /\ request' \in [c.threads -> {Judged(c)!Idle} \cup ApiRequest(c)]
  BY <1>5, <1>7, <1>8, <1>9, <1>10, <1>13, OneEntitled
<1>15. \A u \in c.threads : request'[u] # Judged(c)!Idle =>
         (request'[u].status # "none" <=> request'[u].step = "answered")
  BY <1>7, <1>10 DEF ApiTypes
<1> QED BY <1>8, <1>9, <1>14, <1>15 DEF ApiTypes

\* What a request keeps of how it arrived
SameArrival(q, r) ==
  /\ r.route = q.route /\ r.organization = q.organization /\ r.cookie = q.cookie
  /\ r.token = q.token /\ r.live = q.live /\ r.category = q.category

LEMMA InProgressType ==
  ASSUME NEW CONSTANT c, ApiTypes(c), EntitledInv(c), NEW t \in c.threads,
         request[t].step \notin {"idle", "answered"}
  PROVE  /\ request[t] \in ApiRequest(c) /\ request[t] # Judged(c)!Idle
         /\ request[t].status = "none"
         /\ Entitled(c, request[t], held[t], cookie, role)
<1>1. request[t] \in ApiRequest(c) /\ request[t] # Judged(c)!Idle
  BY IdleRequest DEF ApiTypes
<1> QED BY <1>1 DEF ApiTypes, EntitledInv

LEMMA AnsweredType ==
  ASSUME NEW CONSTANT c, ApiTypes(c), NEW t \in c.threads, request[t] \in ApiRequest(c),
         NEW status \in Judged(c)!Refusals \cup {"ok"}, Judged(c)!Answered(t, status)
  PROVE  \E q \in ApiRequest(c) :
           /\ request' = [request EXCEPT ![t] = q]
           /\ q.step = "answered" /\ q.status = status /\ SameArrival(request[t], q)
           /\ q.key = request[t].key /\ q.minute = request[t].minute
<1> DEFINE q == [request[t] EXCEPT !.step = "answered", !.status = status]
<1>1. q \in ApiRequest(c) /\ q.step = "answered" /\ q.status = status /\ SameArrival(request[t], q)
      /\ q.key = request[t].key /\ q.minute = request[t].minute
  BY DEF ApiRequest, SameArrival
<1>2. request' = [request EXCEPT ![t] = q]
  BY DEF Judged!Answered, ApiTypes
<1> QED BY <1>1, <1>2

\* A request that is refused is not carried out, and one that is carried out was allowed.
LEMMA EntitledAnswer ==
  ASSUME NEW CONSTANT c, NEW q \in ApiRequest(c), NEW r \in ApiRequest(c), NEW own, NEW G,
         NEW s, NEW p, NEW n, NEW u,
         q # Judged(c)!Idle, Entitled(c, q, own, s, p), own \subseteq G, Onward(c, s, n),
         r.step = "answered", SameArrival(q, r),
         r.status = "ok" /\ q.route.dispatcher # "public" => Justified(c, q, own),
         Gone(c, r.status, q.cookie, n)
  PROVE  Entitled(c, r, G, n, u)
<1>1. ASSUME Justified(c, q, own) PROVE Justified(c, r, G)
  BY <1>1 DEF Justified, SameArrival
<1> QED BY <1>1 DEF Entitled, SameArrival, Onward

\* One thread goes on with its request, and nothing else of what the answers depend on changes.
LEMMA GoesOn ==
  ASSUME NEW CONSTANT c, ApiTypes(c), EntitledInv(c), NEW t \in c.threads,
         NEW q \in ApiRequest(c), request' = [request EXCEPT ![t] = q],
         UNCHANGED <<role, cookie, held, minute>>,
         counted' \in [Judged(c)!Categories -> [Judged(c)!Keys -> [minute: Int, count: Nat]]],
         accepted' \in [Judged(c)!Categories -> [Judged(c)!Keys -> [Judged(c)!Minutes -> Nat]]],
         q.status # "none" <=> q.step = "answered",
         Entitled(c, q, held[t], cookie, role)
  PROVE  ApiTypes(c)' /\ EntitledInv(c)'
<1>1. held' \in [c.threads -> SUBSET Judged(c)!Role]
  BY DEF ApiTypes
<1>2. EntitledInv(c)' /\ request' \in [c.threads -> {Judged(c)!Idle} \cup ApiRequest(c)]
  BY <1>1, OneEntitled
<1>3. \A u \in c.threads : request'[u] # Judged(c)!Idle =>
         (request'[u].status # "none" <=> request'[u].step = "answered")
  BY DEF ApiTypes
<1> QED BY <1>1, <1>2, <1>3 DEF ApiTypes

\* The answer of a request, with what its handler did to the roles and sessions
LEMMA AnsweredStep ==
  ASSUME NEW CONSTANT c, ApiTypes(c), EntitledInv(c), NEW t \in c.threads,
         request[t].step \notin {"idle", "answered"},
         NEW status \in Judged(c)!Refusals \cup {"ok"}, Judged(c)!Answered(t, status),
         status = "ok" /\ request[t].route.dispatcher # "public" =>
           Justified(c, request[t], held[t]),
         Onward(c, cookie, cookie'), Gone(c, status, request[t].cookie, cookie'),
         cookie' \in [c.sessions -> [user: c.users, state: {"unused", "live", "expired", "ended"}]],
         role' \in [c.users -> [ApiOrganizations -> Judged(c)!Role]],
         held' \in [c.threads -> SUBSET Judged(c)!Role],
         \A u \in c.threads :
           /\ held[u] \subseteq held'[u]
           /\ \/ role' = role
              \/ LET q == request[u]
                 IN  q.step \notin {"idle", "answered"} /\ q.live /\ q.cookie \in c.sessions =>
                       RoleAt(role', cookie'[q.cookie].user, q.organization) \in held'[u],
         UNCHANGED <<minute, accepted>>,
         counted' \in [Judged(c)!Categories -> [Judged(c)!Keys -> [minute: Int, count: Nat]]]
  PROVE  ApiTypes(c)' /\ EntitledInv(c)'
<1>1. /\ request[t] \in ApiRequest(c) /\ request[t] # Judged(c)!Idle
      /\ Entitled(c, request[t], held[t], cookie, role)
  BY InProgressType
<1>2. PICK q \in ApiRequest(c) :
        /\ request' = [request EXCEPT ![t] = q]
        /\ q.step = "answered" /\ q.status = status /\ SameArrival(request[t], q)
  BY <1>1, AnsweredType
<1>3. status # "none"
  BY DEF Judged!Refusals, Judged!SignedOut
<1>4. /\ request' \in [c.threads -> {Judged(c)!Idle} \cup ApiRequest(c)]
      /\ \A u \in c.threads : request'[u] # Judged(c)!Idle =>
           (request'[u].status # "none" <=> request'[u].step = "answered")
      /\ request'[t] = q /\ \A u \in c.threads \ {t} : request'[u] = request[u]
  BY <1>2, <1>3 DEF ApiTypes
<1>5. Entitled(c, q, held'[t], cookie', role')
  BY <1>1, <1>2, EntitledAnswer
<1>6. ASSUME NEW u \in c.threads \ {t} PROVE Entitled(c, request[u], held'[u], cookie', role')
  <2>1. request[u] \in {Judged(c)!Idle} \cup ApiRequest(c)
        /\ Entitled(c, request[u], held[u], cookie, role)
    BY DEF ApiTypes, EntitledInv
  <2>2. CASE request[u] = Judged(c)!Idle
    BY <2>2 DEF Entitled
  <2>3. CASE request[u] # Judged(c)!Idle
    <3>1. request[u].step # "idle"
      BY <2>1, <2>3 DEF ApiRequest
    <3> QED BY <2>1, <3>1, EntitledStays
  <2> QED BY <2>2, <2>3
<1>7. EntitledInv(c)'
  BY <1>4, <1>5, <1>6 DEF EntitledInv
<1> QED BY <1>4, <1>7 DEF ApiTypes

LEMMA RefusedStep ==
  ASSUME NEW CONSTANT c, ApiTypes(c), EntitledInv(c), NEW t \in c.threads,
         request[t].step \notin {"idle", "answered"},
         NEW status \in (Judged(c)!Refusals \ Judged(c)!SignedOut) \cup {"ok"},
         Judged(c)!Answered(t, status),
         UNCHANGED <<role, cookie, held, minute, accepted>>,
         counted' \in [Judged(c)!Categories -> [Judged(c)!Keys -> [minute: Int, count: Nat]]],
         status = "ok" /\ request[t].route.dispatcher # "public" =>
           Justified(c, request[t], held[t])
  PROVE  ApiTypes(c)' /\ EntitledInv(c)'
<1>1. Onward(c, cookie, cookie') /\ Gone(c, status, request[t].cookie, cookie')
  BY DEF Onward, Gone, Judged!SignedOut
<1> QED BY <1>1, AnsweredStep DEF ApiTypes

\* A session ends.
LEMMA OneSessionEnds ==
  ASSUME NEW CONSTANT c, ApiTypes(c), NEW s \in c.sessions, cookie[s].state # "unused",
         cookie' = [cookie EXCEPT ![s].state = "ended"]
  PROVE  /\ Onward(c, cookie, cookie') /\ cookie'[s].state = "ended"
         /\ cookie' \in [c.sessions -> [user: c.users, state: {"unused", "live", "expired", "ended"}]]
BY DEF Onward, Over, ApiTypes

LEMMA JudgeStep ==
  ASSUME NEW CONSTANT c, ApiTypes(c), EntitledInv(c), NEW t \in c.threads,
         Judged(c)!Authenticate(t)
  PROVE  ApiTypes(c)' /\ EntitledInv(c)'
<1>1. /\ request[t] \in ApiRequest(c) /\ request[t] # Judged(c)!Idle /\ request[t].status = "none"
      /\ Entitled(c, request[t], held[t], cookie, role)
  BY InProgressType DEF Judged!Authenticate
<1>2. /\ UNCHANGED <<role, held, minute, counted, accepted>>
      /\ counted' \in [Judged(c)!Categories -> [Judged(c)!Keys -> [minute: Int, count: Nat]]]
      /\ accepted' \in [Judged(c)!Categories -> [Judged(c)!Keys -> [Judged(c)!Minutes -> Nat]]]
      /\ request[t].step = "arrived"
  BY DEF Judged!Authenticate, ApiTypes
<1>3. CASE ~Judged(c)!Accepts(request[t].cookie)
  <2> DEFINE k == request[t].cookie
             status == IF Judged(c)!HasExpired(k) THEN "session_expired" ELSE "unauthenticated"
  <2>1. Judged(c)!Answered(t, status)
    BY <1>3 DEF Judged!Authenticate
  <2>2. status \in Judged(c)!Refusals /\ status # "ok"
    BY DEF Judged!Refusals, Judged!SignedOut
  <2>3. /\ Onward(c, cookie, cookie') /\ (k \in c.sessions => cookie'[k].state = "ended")
        /\ cookie' \in [c.sessions -> [user: c.users, state: {"unused", "live", "expired", "ended"}]]
    <3>1. CASE Judged(c)!HasExpired(k)
      <4>1. /\ k \in c.sessions /\ cookie[k].state = "expired"
            /\ cookie' = [cookie EXCEPT ![k].state = "ended"]
        BY <3>1 DEF Judged!Authenticate, Judged!HasExpired
      <4> QED BY <4>1, OneSessionEnds
    <3>2. CASE ~Judged(c)!HasExpired(k)
      <4>1. cookie' = cookie
        BY <3>2 DEF Judged!Authenticate
      <4>2. k \in c.sessions => cookie[k].state = "ended"
        BY <1>1, <1>3, <3>2
           DEF Entitled, Judged!Accepts, Judged!LiveSession, Judged!HasExpired, ApiTypes
      <4> QED BY <4>1, <4>2 DEF Onward, ApiTypes
    <3> QED BY <3>1, <3>2
  <2>4. Gone(c, status, k, cookie')
    BY <2>3 DEF Gone
  <2> HIDE DEF status
  <2>5. role' \in [c.users -> [ApiOrganizations -> Judged(c)!Role]]
        /\ held' \in [c.threads -> SUBSET Judged(c)!Role]
    BY <1>2 DEF ApiTypes
  <2> QED BY <1>2, <2>1, <2>2, <2>3, <2>4, <2>5, AnsweredStep
<1>4. CASE Judged(c)!Accepts(request[t].cookie)
  <2> DEFINE k == request[t].cookie
             P == [o \in Judged(c)!Places |-> Judged(c)!RoleIn(cookie[k].user, o)]
             q == [request[t] EXCEPT !.step = "identified", !.key = cookie[k].user, !.principal = P]
  <2>1. k \in c.sessions /\ cookie[k].state = "live" /\ cookie[k].user \in Judged(c)!Keys
    BY <1>4 DEF Judged!Accepts, Judged!LiveSession, Judged!Keys, ApiTypes
  <2>2. cookie' = cookie
    BY <2>1 DEF Judged!Authenticate, Judged!HasExpired
  <2>3. P \in [Judged(c)!Places -> Judged(c)!Role]
    BY <2>1, RoleType
  <2>4. request' = [request EXCEPT ![t] = q]
    <3>1. /\ Judged(c)!PrincipalOf(k).user = cookie[k].user
          /\ Judged(c)!PrincipalOf(k).role = P
      BY DEF Judged!PrincipalOf
    <3> HIDE DEF P
    <3>2. request' = [request EXCEPT ![t].step = "identified", ![t].key = cookie[k].user,
                                     ![t].principal = P]
      BY <1>4, <3>1 DEF Judged!Authenticate
    <3> QED BY <3>2 DEF ApiTypes
  <2>5. request[t].organization \in Judged(c)!Places
    BY <1>1 DEF ApiRequest
  <2>6. P[request[t].organization] = RoleAt(role, cookie[k].user, request[t].organization)
    BY <2>1, <2>5, RoleType
  <2> HIDE DEF P
  <2>7. /\ q \in ApiRequest(c) /\ q.step = "identified" /\ q.status = "none"
        /\ SameArrival(request[t], q) /\ q.principal = P
    BY <1>1, <2>1, <2>3 DEF ApiRequest, SameArrival
  <2>8. request[t].live /\ RoleAt(role, cookie[k].user, request[t].organization) \in held[t]
    <3>1. request[t].step = "arrived" /\ request[t].live \in BOOLEAN
      BY <1>1 DEF Judged!Authenticate, ApiRequest
    <3> QED BY <1>1, <2>1, <3>1 DEF Entitled, Over
  <2> HIDE DEF q
  <2>9. Entitled(c, q, held[t], cookie, role)
    BY <2>1, <2>6, <2>7, <2>8 DEF Entitled, SameArrival, Gone, Judged!SignedOut
  <2> QED BY <1>2, <2>2, <2>4, <2>7, <2>9, GoesOn
<1> QED BY <1>3, <1>4

LEMMA ReadClockStep ==
  ASSUME NEW CONSTANT c, ApiTypes(c), EntitledInv(c), NEW t \in c.threads,
         Judged(c)!ReadClock(t)
  PROVE  ApiTypes(c)' /\ EntitledInv(c)'
<1> DEFINE q == [request[t] EXCEPT !.step = "timed", !.minute = minute]
<1>1. /\ request[t] \in ApiRequest(c) /\ request[t] # Judged(c)!Idle /\ request[t].status = "none"
      /\ Entitled(c, request[t], held[t], cookie, role) /\ request[t].step = "identified"
  BY InProgressType DEF Judged!ReadClock
<1>2. request' = [request EXCEPT ![t] = q]
  BY DEF Judged!ReadClock, ApiTypes
<1>3. /\ q \in ApiRequest(c) /\ q.step = "timed" /\ q.status = "none"
      /\ SameArrival(request[t], q) /\ q.principal = request[t].principal
  BY <1>1 DEF ApiRequest, SameArrival, ApiTypes
<1> HIDE DEF q
<1>4. Entitled(c, q, held[t], cookie, role)
  BY <1>1, <1>3 DEF Entitled, SameArrival
<1>5. /\ UNCHANGED <<role, cookie, held, minute>>
      /\ counted' \in [Judged(c)!Categories -> [Judged(c)!Keys -> [minute: Int, count: Nat]]]
      /\ accepted' \in [Judged(c)!Categories -> [Judged(c)!Keys -> [Judged(c)!Minutes -> Nat]]]
  BY DEF Judged!ReadClock, ApiTypes
<1> QED BY <1>2, <1>3, <1>4, <1>5, GoesOn

LEMMA KeptType ==
  ASSUME NEW CONSTANT c, NEW e \in [Judged(c)!Keys -> [minute: Int, count: Nat]]
  PROVE  Judged(c)!Kept(e) \in [Judged(c)!Keys -> [minute: Int, count: Nat]]
BY DEF Judged!Kept, Judged!Untracked

LEMMA CountedType ==
  ASSUME NEW CONSTANT c, NEW e \in [minute: Int, count: Nat], NEW m \in Int
  PROVE  /\ Judged(c)!Counted(e, m) \in [minute: Int, count: Nat]
         /\ Judged(c)!Counted(e, m).minute = m
         /\ Judged(c)!Counted(e, m).count = IF e.minute # m THEN 1 ELSE e.count + 1
BY DEF Judged!Counted

\* What the limiter finds and stores for a request: the entries e of a category, and the window w
Counting(c, t, k, key, m, e, w) ==
  /\ k = request[t].category /\ key = request[t].key /\ m = request[t].minute
  /\ e = Judged(c)!Kept(counted[k]) /\ w = Judged(c)!Counted(e[key], m)
  /\ counted' = [counted EXCEPT ![k] = [e EXCEPT ![key] = w]]
  /\ \/ /\ w.count <= c.limit
        /\ accepted' = [accepted EXCEPT ![k][key][m] = @ + 1]
        /\ request' = [request EXCEPT ![t].step = "counted"]
     \/ /\ w.count > c.limit
        /\ Judged(c)!Answered(t, "limited")
        /\ UNCHANGED accepted

LEMMA AllowParts ==
  ASSUME NEW CONSTANT c, Setting(c), ApiTypes(c), EntitledInv(c), NEW t \in c.threads,
         Judged(c)!Allow(t)
  PROVE  \E k \in Judged(c)!Categories, key \in Judged(c)!Keys, m \in Judged(c)!Minutes,
            e \in [Judged(c)!Keys -> [minute: Int, count: Nat]], w \in [minute: Int, count: Nat] :
           Counting(c, t, k, key, m, e, w)
<1> DEFINE k == request[t].category
           key == request[t].key
           m == request[t].minute
           e == Judged(c)!Kept(counted[k])
           w == Judged(c)!Counted(e[key], m)
<1>1. k \in Judged(c)!Categories /\ key \in Judged(c)!Keys /\ m \in Judged(c)!Minutes
  BY InProgressType DEF Judged!Allow, ApiRequest
<1>2. e \in [Judged(c)!Keys -> [minute: Int, count: Nat]]
  <2>1. counted[k] \in [Judged(c)!Keys -> [minute: Int, count: Nat]]
    BY <1>1 DEF ApiTypes
  <2> QED BY <2>1, KeptType
<1>3. w \in [minute: Int, count: Nat]
  BY <1>1, <1>2, CountedType DEF Judged!Minutes
<1>4. /\ counted' = [counted EXCEPT ![k] = [e EXCEPT ![key] = w]]
      /\ \/ /\ w.count <= c.limit
            /\ accepted' = [accepted EXCEPT ![k][key][m] = @ + 1]
            /\ request' = [request EXCEPT ![t].step = "counted"]
         \/ /\ ~(w.count <= c.limit)
            /\ Judged(c)!Answered(t, "limited")
            /\ UNCHANGED accepted
  BY DEF Judged!Allow
<1> HIDE DEF e, w
<1>5. e = Judged(c)!Kept(counted[k]) /\ w = Judged(c)!Counted(e[key], m)
  BY DEF e, w
<1>6. ~(w.count <= c.limit) <=> w.count > c.limit
  BY <1>3 DEF Setting
<1>7. Counting(c, t, k, key, m, e, w)
  BY <1>4, <1>5, <1>6 DEF Counting
<1> QED BY <1>1, <1>2, <1>3, <1>7

LEMMA AllowStep ==
  ASSUME NEW CONSTANT c, Setting(c), ApiTypes(c), EntitledInv(c), NEW t \in c.threads,
         Judged(c)!Allow(t)
  PROVE  ApiTypes(c)' /\ EntitledInv(c)'
<1>1. PICK k \in Judged(c)!Categories, key \in Judged(c)!Keys, m \in Judged(c)!Minutes,
           e \in [Judged(c)!Keys -> [minute: Int, count: Nat]], w \in [minute: Int, count: Nat] :
        Counting(c, t, k, key, m, e, w)
  BY AllowParts
<1>2. counted' \in [Judged(c)!Categories -> [Judged(c)!Keys -> [minute: Int, count: Nat]]]
  BY <1>1 DEF ApiTypes, Counting
<1>3. UNCHANGED <<role, cookie, held, minute>>
  BY DEF Judged!Allow
<1>4. CASE Judged(c)!Answered(t, "limited") /\ UNCHANGED accepted
  <2>1. "limited" \in Judged(c)!Refusals \ Judged(c)!SignedOut /\ request[t].step = "timed"
    BY DEF Judged!Refusals, Judged!SignedOut, Judged!Allow
  <2> QED BY <1>2, <1>3, <1>4, <2>1, RefusedStep
<1>5. CASE /\ accepted' = [accepted EXCEPT ![k][key][m] = @ + 1]
           /\ request' = [request EXCEPT ![t].step = "counted"]
  <2> DEFINE q == [request[t] EXCEPT !.step = "counted"]
  <2>1. /\ request[t] \in ApiRequest(c) /\ request[t] # Judged(c)!Idle /\ request[t].status = "none"
        /\ Entitled(c, request[t], held[t], cookie, role) /\ request[t].step = "timed"
    BY InProgressType DEF Judged!Allow
  <2>2. request' = [request EXCEPT ![t] = q]
    BY <1>5 DEF ApiTypes
  <2>3. /\ q \in ApiRequest(c) /\ q.step = "counted" /\ q.status = "none"
        /\ SameArrival(request[t], q) /\ q.principal = request[t].principal
    BY <2>1 DEF ApiRequest, SameArrival
  <2> HIDE DEF q
  <2>4. Entitled(c, q, held[t], cookie, role)
    BY <2>1, <2>3 DEF Entitled, SameArrival
  <2>5. accepted' \in [Judged(c)!Categories -> [Judged(c)!Keys -> [Judged(c)!Minutes -> Nat]]]
    BY <1>5 DEF ApiTypes
  <2> QED BY <1>2, <1>3, <2>2, <2>3, <2>4, <2>5, GoesOn
<1> QED BY <1>1, <1>4, <1>5 DEF Counting

LEMMA RefuseStep ==
  ASSUME NEW CONSTANT c, ApiTypes(c), EntitledInv(c), NEW t \in c.threads,
         Judged(c)!Refuse(t)
  PROVE  ApiTypes(c)' /\ EntitledInv(c)'
<1>1. PICK v \in Judged(c)!Verdicts(t) \ {"allowed"} : Judged(c)!Answered(t, v)
  BY DEF Judged!Refuse
<1>2. v \in Judged(c)!Refusals \ Judged(c)!SignedOut /\ v # "ok"
  BY DEF Judged!Verdicts, Judged!Unusable, Judged!Refusals, Judged!SignedOut
<1>3. /\ request[t].step = "counted" /\ UNCHANGED <<role, cookie, held, minute, accepted>>
      /\ counted' \in [Judged(c)!Categories -> [Judged(c)!Keys -> [minute: Int, count: Nat]]]
  BY DEF Judged!Refuse, ApiTypes
<1> QED BY <1>1, <1>2, <1>3, RefusedStep

LEMMA ServeStep ==
  ASSUME NEW CONSTANT c, Setting(c), ApiTypes(c), EntitledInv(c), NEW t \in c.threads,
         Judged(c)!Serve(t)
  PROVE  ApiTypes(c)' /\ EntitledInv(c)'
<1>1. PICK v \in {"ok", "conflict"} : Judged(c)!Answered(t, v)
  BY DEF Judged!Serve
<1>2. v \in (Judged(c)!Refusals \ Judged(c)!SignedOut) \cup {"ok"}
  BY DEF Judged!Refusals, Judged!SignedOut
<1>3. /\ request[t].step = "counted" /\ UNCHANGED <<role, cookie, held, minute, accepted>>
      /\ counted' \in [Judged(c)!Categories -> [Judged(c)!Keys -> [minute: Int, count: Nat]]]
      /\ "allowed" \in Judged(c)!Verdicts(t)
  BY DEF Judged!Serve, Judged!Allowed, ApiTypes
<1>4. request[t].route.dispatcher # "public" => Justified(c, request[t], held[t])
  BY <1>3, AllowedIsJustified, InProgressType
<1> QED BY <1>1, <1>2, <1>3, <1>4, RefusedStep

LEMMA AllowedParts ==
  ASSUME NEW CONSTANT c, Setting(c), ApiTypes(c), EntitledInv(c), NEW t \in c.threads, NEW N,
         Judged(c)!Allowed(t, N)
  PROVE  /\ request[t] \in ApiRequest(c)
         /\ request[t].step \notin {"idle", "answered"} /\ request[t].step = "counted"
         /\ request[t].route.dispatcher # "public" => Justified(c, request[t], held[t])
BY InProgressType, AllowedIsJustified DEF Judged!Allowed

LEMMA ChangeMemberStep ==
  ASSUME NEW CONSTANT c, Setting(c), ApiTypes(c), EntitledInv(c), NEW t \in c.threads,
         Judged(c)!ChangeMember(t)
  PROVE  ApiTypes(c)' /\ EntitledInv(c)'
<1> DEFINE o == request[t].organization
<1>1. /\ request[t].step \notin {"idle", "answered"}
      /\ request[t].route.dispatcher # "public" => Justified(c, request[t], held[t])
  BY AllowedParts DEF Judged!ChangeMember
<1>2. /\ UNCHANGED <<minute, counted, accepted>>
      /\ counted' \in [Judged(c)!Categories -> [Judged(c)!Keys -> [minute: Int, count: Nat]]]
  BY DEF Judged!ChangeMember, ApiTypes
<1>3. PICK u \in c.users, r \in Judged(c)!Role :
        \/ \E status \in {"forbidden", "not_found", "conflict"} :
             Judged(c)!Answered(t, status) /\ UNCHANGED <<role, held, cookie>>
        \/ /\ Judged(c)!Answered(t, "ok")
           /\ role' = [role EXCEPT ![u][o] = r]
           /\ Judged(c)!Recorded(u, o, r)
           /\ Judged(c)!EndSessionsOf(u) \/ UNCHANGED cookie
  <2>1. "none" \in Judged(c)!Role
    BY DEF Judged!Role
  <2>2. PICK u \in c.users,
             r \in IF request[t].route.name = "put_member" THEN Judged(c)!Role \ {"none"}
                                                          ELSE {"none"} :
          \/ \E status \in {"forbidden", "not_found", "conflict"} :
               Judged(c)!Answered(t, status) /\ UNCHANGED <<role, held, cookie>>
          \/ /\ Judged(c)!Answered(t, "ok")
             /\ role' = [role EXCEPT ![u][o] = r]
             /\ Judged(c)!Recorded(u, o, r)
             /\ Judged(c)!EndSessionsOf(u) \/ UNCHANGED cookie
    BY DEF Judged!ChangeMember
  <2>3. r \in Judged(c)!Role
    BY <2>1
  <2> QED BY <2>2, <2>3
<1>4. CASE \E status \in {"forbidden", "not_found", "conflict"} :
             Judged(c)!Answered(t, status) /\ UNCHANGED <<role, held, cookie>>
  <2>1. {"forbidden", "not_found", "conflict"} \subseteq Judged(c)!Refusals \ Judged(c)!SignedOut
    BY DEF Judged!Refusals, Judged!SignedOut
  <2> QED BY <1>1, <1>2, <1>4, <2>1, RefusedStep
<1>5. CASE /\ Judged(c)!Answered(t, "ok")
           /\ role' = [role EXCEPT ![u][o] = r]
           /\ Judged(c)!Recorded(u, o, r)
           /\ Judged(c)!EndSessionsOf(u) \/ UNCHANGED cookie
  <2>1. role' \in [c.users -> [ApiOrganizations -> Judged(c)!Role]]
    BY <1>5 DEF ApiTypes
  <2>2. held' = [x \in c.threads |->
                  IF /\ request[x].step \notin {"idle", "answered"}
                     /\ request[x].organization = o
                     /\ request[x].cookie \in c.sessions
                     /\ cookie[request[x].cookie].user = u
                  THEN held[x] \cup {r} ELSE held[x]]
    BY <1>5 DEF Judged!Recorded, Judged!InProgress
  <2>3. /\ held' \in [c.threads -> SUBSET Judged(c)!Role]
        /\ \A x \in c.threads : held[x] \subseteq held'[x]
    BY <2>2 DEF ApiTypes
  <2>4. ASSUME NEW x \in c.sessions, Judged(c)!EndSessionsOf(u)
        PROVE  /\ cookie'[x] \in [user: c.users, state: {"unused", "live", "expired", "ended"}]
               /\ cookie'[x].user = cookie[x].user
               /\ \/ cookie'[x] = cookie[x]
                  \/ cookie[x].state \in {"live", "expired"} /\ cookie'[x].state = "ended"
    BY <2>4 DEF Judged!EndSessionsOf, Judged!LiveSession, Judged!HasExpired, ApiTypes
  <2>5. Onward(c, cookie, cookie')
    BY <1>5, <2>4 DEF Onward, Over
  <2>6. /\ cookie' \in [c.sessions -> [user: c.users, state: {"unused", "live", "expired", "ended"}]]
        /\ Gone(c, "ok", request[t].cookie, cookie')
    BY <1>5, <2>4 DEF Judged!EndSessionsOf, Gone, Judged!SignedOut, ApiTypes
  <2>7. ASSUME NEW x \in c.threads, request[x].step \notin {"idle", "answered"}, request[x].live,
               request[x].cookie \in c.sessions
        PROVE  RoleAt(role', cookie'[request[x].cookie].user, request[x].organization) \in held'[x]
    <3> DEFINE q == request[x]
               user == cookie[q.cookie].user
    <3>1. /\ q \in ApiRequest(c) /\ q # Judged(c)!Idle
          /\ Entitled(c, q, held[x], cookie, role)
      BY <2>7, InProgressType
    <3>2. /\ RoleAt(role, user, q.organization) \in held[x]
          /\ q.organization \in Judged(c)!Places /\ user \in c.users
      BY <2>7, <3>1 DEF Entitled, ApiRequest, ApiTypes
    <3>3. cookie'[q.cookie].user = user
      BY <2>7, <2>5 DEF Onward
    <3>4. CASE q.organization = o /\ user = u
      <4>1. r \in held'[x] /\ held[x] \subseteq held'[x]
        BY <2>2, <2>3, <2>7, <3>4
      <4>2. RoleAt(role', user, q.organization) \in {r, RoleAt(role, user, q.organization)}
        BY <1>5, <3>2, <3>4 DEF RoleAt, ApiTypes, Judged!Places
      <4> QED BY <3>2, <3>3, <4>1, <4>2
    <3>5. CASE ~(q.organization = o /\ user = u)
      <4>1. RoleAt(role', user, q.organization) = RoleAt(role, user, q.organization)
        BY <1>5, <3>2, <3>5 DEF RoleAt, ApiTypes, Judged!Places
      <4> QED BY <2>3, <3>2, <3>3, <4>1
    <3> QED BY <3>4, <3>5
  <2> QED BY <1>1, <1>2, <1>5, <2>1, <2>3, <2>5, <2>6, <2>7, AnsweredStep
<1> QED BY <1>3, <1>4, <1>5

LEMMA SessionAnswered ==
  ASSUME NEW CONSTANT c, ApiTypes(c), EntitledInv(c), NEW t \in c.threads,
         request[t].step \notin {"idle", "answered"}, Judged(c)!Answered(t, "ok"),
         request[t].route.dispatcher # "public" => Justified(c, request[t], held[t]),
         Onward(c, cookie, cookie'),
         cookie' \in [c.sessions -> [user: c.users, state: {"unused", "live", "expired", "ended"}]],
         UNCHANGED <<role, minute, counted, accepted, held>>
  PROVE  ApiTypes(c)' /\ EntitledInv(c)'
<1>1. /\ role' \in [c.users -> [ApiOrganizations -> Judged(c)!Role]]
      /\ held' \in [c.threads -> SUBSET Judged(c)!Role]
      /\ counted' \in [Judged(c)!Categories -> [Judged(c)!Keys -> [minute: Int, count: Nat]]]
      /\ UNCHANGED <<minute, accepted>> /\ role' = role /\ held' = held
      /\ Gone(c, "ok", request[t].cookie, cookie')
  BY DEF ApiTypes, Gone, Judged!SignedOut
<1> QED BY <1>1, AnsweredStep

LEMMA EndSessionStep ==
  ASSUME NEW CONSTANT c, Setting(c), ApiTypes(c), EntitledInv(c), NEW t \in c.threads,
         Judged(c)!EndSession(t)
  PROVE  ApiTypes(c)' /\ EntitledInv(c)'
<1>1. /\ request[t].step \notin {"idle", "answered"} /\ request[t] \in ApiRequest(c)
      /\ request[t].route.dispatcher # "public" => Justified(c, request[t], held[t])
  BY AllowedParts DEF Judged!EndSession
<1>2. UNCHANGED <<role, minute, counted, accepted, held>>
  BY DEF Judged!EndSession
<1> DEFINE mine == {s \in c.sessions : /\ Judged(c)!LiveSession(s) \/ Judged(c)!HasExpired(s)
                                       /\ cookie[s].user = request[t].key}
           meant == IF request[t].route.name = "logout" THEN {request[t].cookie} ELSE mine
<1>3. \/ \E s \in meant : /\ cookie' = [cookie EXCEPT ![s].state = "ended"]
                          /\ Judged(c)!Answered(t, "ok")
      \/ Judged(c)!Answered(t, "not_found") /\ UNCHANGED cookie
  BY DEF Judged!EndSession
<1>4. CASE Judged(c)!Answered(t, "not_found") /\ UNCHANGED cookie
  <2>1. "not_found" \in Judged(c)!Refusals \ Judged(c)!SignedOut
    BY DEF Judged!Refusals, Judged!SignedOut
  <2> QED BY <1>1, <1>2, <1>4, <2>1, RefusedStep DEF ApiTypes
<1>5. ASSUME NEW s \in meant, cookie' = [cookie EXCEPT ![s].state = "ended"],
             Judged(c)!Answered(t, "ok")
      PROVE  ApiTypes(c)' /\ EntitledInv(c)'
  <2>1. CASE s \in c.sessions
    <3>1. cookie[s].state # "unused"
      BY <1>1, <1>5, <2>1, InProgressType DEF Entitled, Judged!LiveSession, Judged!HasExpired
    <3>2. /\ Onward(c, cookie, cookie')
          /\ cookie' \in [c.sessions -> [user: c.users, state: {"unused", "live", "expired", "ended"}]]
      BY <1>5, <2>1, <3>1, OneSessionEnds
    <3> QED BY <1>1, <1>2, <1>5, <3>2, SessionAnswered
  <2>2. CASE s \notin c.sessions
    <3>1. cookie' = cookie
      BY <1>5, <2>2 DEF ApiTypes
    <3> QED BY <1>1, <1>2, <1>5, <3>1, RefusedStep DEF ApiTypes
  <2> QED BY <2>1, <2>2
<1> QED BY <1>3, <1>4, <1>5

LEMMA SignInStep ==
  ASSUME NEW CONSTANT c, Setting(c), ApiTypes(c), EntitledInv(c), NEW t \in c.threads,
         Judged(c)!SignIn(t)
  PROVE  ApiTypes(c)' /\ EntitledInv(c)'
<1>1. /\ request[t].step \notin {"idle", "answered"}
      /\ request[t].route.dispatcher # "public" => Justified(c, request[t], held[t])
  BY AllowedParts DEF Judged!SignIn
<1>2. UNCHANGED <<role, minute, counted, accepted, held>>
  BY DEF Judged!SignIn
<1>3. CASE Judged(c)!Answered(t, "invalid") /\ UNCHANGED cookie
  <2>1. "invalid" \in Judged(c)!Refusals \ Judged(c)!SignedOut
    BY DEF Judged!Refusals, Judged!SignedOut
  <2> QED BY <1>1, <1>2, <1>3, <2>1, RefusedStep DEF ApiTypes
<1>4. ASSUME NEW s \in c.sessions, cookie[s].state = "unused",
             cookie' = [cookie EXCEPT ![s].state = "live"], Judged(c)!Answered(t, "ok")
      PROVE  ApiTypes(c)' /\ EntitledInv(c)'
  <2>1. /\ Onward(c, cookie, cookie')
        /\ cookie' \in [c.sessions -> [user: c.users, state: {"unused", "live", "expired", "ended"}]]
    BY <1>4 DEF Onward, Over, ApiTypes
  <2> QED BY <1>1, <1>2, <1>4, <2>1, SessionAnswered
<1> QED BY <1>3, <1>4 DEF Judged!SignIn

LEMMA QuietApiStep ==
  ASSUME NEW CONSTANT c, ApiTypes(c), EntitledInv(c),
         UNCHANGED <<role, request, counted, accepted, held>>,
         minute' \in Judged(c)!Minutes,
         cookie' \in [c.sessions -> [user: c.users, state: {"unused", "live", "expired", "ended"}]],
         Onward(c, cookie, cookie')
  PROVE  ApiTypes(c)' /\ EntitledInv(c)'
<1>1. ApiTypes(c)'
  BY DEF ApiTypes
<1>2. ASSUME NEW t \in c.threads PROVE Entitled(c, request[t], held[t], cookie', role)
  BY EntitledStays DEF EntitledInv, ApiTypes
<1> QED BY <1>1, <1>2 DEF EntitledInv

LEMMA AnswersStep ==
  ASSUME NEW CONSTANT c, Setting(c), ApiTypes(c), EntitledInv(c), [Judged(c)!Next]_requestVars
  PROVE  ApiTypes(c)' /\ EntitledInv(c)'
<1>1. CASE Judged(c)!Tick \/ UNCHANGED requestVars
  <2>1. /\ UNCHANGED <<role, cookie, request, counted, accepted, held>>
        /\ minute' \in Judged(c)!Minutes
    BY <1>1 DEF Judged!Tick, requestVars, Judged!Minutes, ApiTypes, Setting
  <2> QED BY <2>1, QuietApiStep DEF Onward, ApiTypes
<1>2. ASSUME NEW s \in c.sessions, Judged(c)!Expire(s) PROVE ApiTypes(c)' /\ EntitledInv(c)'
  <2>1. /\ UNCHANGED <<role, minute, request, counted, accepted, held>>
        /\ cookie[s].state = "live" /\ cookie' = [cookie EXCEPT ![s].state = "expired"]
    BY <1>2 DEF Judged!Expire, Judged!LiveSession
  <2>2. /\ Onward(c, cookie, cookie')
        /\ cookie' \in [c.sessions -> [user: c.users, state: {"unused", "live", "expired", "ended"}]]
    BY <2>1 DEF Onward, Over, ApiTypes
  <2> QED BY <2>1, <2>2, QuietApiStep DEF ApiTypes
<1>3. ASSUME Judged(c)!PurgeExpired PROVE ApiTypes(c)' /\ EntitledInv(c)'
  <2>1. /\ UNCHANGED <<role, minute, request, counted, accepted, held>>
        /\ cookie' = [s \in c.sessions |->
                        IF Judged(c)!HasExpired(s) THEN [cookie[s] EXCEPT !.state = "ended"]
                                                   ELSE cookie[s]]
    BY <1>3 DEF Judged!PurgeExpired
  <2>2. /\ Onward(c, cookie, cookie')
        /\ cookie' \in [c.sessions -> [user: c.users, state: {"unused", "live", "expired", "ended"}]]
    BY <2>1 DEF Onward, Over, Judged!HasExpired, ApiTypes
  <2> QED BY <2>1, <2>2, QuietApiStep DEF ApiTypes
<1>4. ASSUME NEW t \in c.threads,
             \/ Judged(c)!Arrive(t) \/ Judged(c)!Authenticate(t) \/ Judged(c)!ReadClock(t)
             \/ Judged(c)!Allow(t) \/ Judged(c)!Refuse(t) \/ Judged(c)!ChangeMember(t)
             \/ Judged(c)!EndSession(t) \/ Judged(c)!SignIn(t) \/ Judged(c)!Serve(t)
      PROVE  ApiTypes(c)' /\ EntitledInv(c)'
  BY <1>4, ArriveStep, JudgeStep, ReadClockStep, AllowStep, RefuseStep, ChangeMemberStep,
     EndSessionStep, SignInStep, ServeStep
<1> QED BY <1>1, <1>2, <1>3, <1>4 DEF Judged!Next

LEMMA AnswersJudged ==
  ASSUME NEW CONSTANT c, ApiTypes(c), EntitledInv(c)
  PROVE  Judged(c)!AnswersAreAllowed
BY DEF EntitledInv, Entitled, Justified, Gone, Judged!AnswersAreAllowed

-----------------------------------------------------------------------------
\* The limits.  A thread that computed its minute is late once the minute is over: whenever
\* it counts, the count of the minute that is running starts again.

LEMMA JudgedCardinality ==
  ASSUME NEW CONSTANT c, NEW S
  PROVE  Judged(c)!Cardinality(S) = Cardinality(S)
BY Zenon DEF Judged!Cardinality, Cardinality, Judged!IsFiniteSet, IsFiniteSet

Timed(c, r, m) == {t \in c.threads : r[t].step = "timed" /\ r[t].minute = m}
Late(c, r, m) == {t \in c.threads : r[t].step = "timed" /\ r[t].minute < m}

\* The part of the limit that is used up in the window w
Spent(c, w, m) == IF w.minute = m THEN (IF w.count <= c.limit THEN w.count ELSE c.limit) ELSE 0

Fits(c) == Cardinality(Judged(c)!Keys) <= Tracked

\* The window w of a key, of which a were let through, now, with the requests r.  In the
\* minute that is running the limit was used up once for every thread that was late and is
\* not any more, and is used for the second time; of a minute that is over, only the threads
\* that computed it may still let a request through each.
Balanced(c, w, a, now, r) ==
  /\ w.minute <= now
  /\ w.minute \in Judged(c)!Minutes => (w.count <= a[w.minute] \/ c.limit <= a[w.minute])
  /\ \A m \in Judged(c)!Minutes : m > now => a[m] = 0
  /\ Fits(c) =>
       /\ \/ a[now] = 0
          \/ a[now] <= c.limit * (Cardinality(c.threads) - Cardinality(Late(c, r, now)) - 1)
                         + Spent(c, w, now)
       /\ \A m \in Judged(c)!Minutes :
            m < now =>
              a[m] + Cardinality(Timed(c, r, m)) <= (c.limit + 1) * Cardinality(c.threads)

\* A request knows no minute to come, and is refused only when the limit was used up.
Refusable(c, q, now, a) ==
  q # Judged(c)!Idle =>
    /\ q.minute <= now
    /\ q.status = "limited" => c.limit <= a[q.category][q.key][q.minute]

RateInv(c) ==
  /\ \A t \in c.threads : Refusable(c, request[t], minute, accepted)
  /\ \A k \in Judged(c)!Categories, key \in Judged(c)!Keys :
       Balanced(c, counted[k][key], accepted[k][key], minute, request)

LEMMA Budgets ==
  ASSUME NEW l \in Nat, NEW n \in Nat, NEW x \in Nat, NEW y \in Nat, y <= x
  PROVE  /\ l * (n - x - 1) \in Int /\ l * (n - y - 1) \in Int /\ l * n \in Int
         /\ l * (n - x - 1) <= l * (n - y - 1)
         /\ l * (n - x - 1) + l <= l * n
         /\ y + 1 <= x => l * (n - x - 1) + l <= l * (n - y - 1)
         /\ x + 1 <= n => l * (n - x - 1) >= 0
         /\ (l + 1) * n = l * n + n
<1>1. \A a, b \in Int : a <= b => l * a <= l * b
  OBVIOUS
<1>2. \A a \in Int : l * (a + 1) = l * a + l /\ l * a \in Int
  OBVIOUS
<1>3. (l + 1) * n = l * n + n
  OBVIOUS
<1>4. /\ l * (n - x - 1) <= l * (n - y - 1)
      /\ l * ((n - x - 1) + 1) <= l * n
      /\ y + 1 <= x => l * ((n - x - 1) + 1) <= l * (n - y - 1)
      /\ x + 1 <= n => l * 0 <= l * (n - x - 1)
  BY <1>1
<1>5. l * ((n - x - 1) + 1) = l * (n - x - 1) + l /\ l * 0 = 0
  BY <1>2
<1> QED BY <1>2, <1>3, <1>4, <1>5

LEMMA ThreadSets ==
  ASSUME NEW CONSTANT c, Setting(c), NEW r, NEW m
  PROVE  /\ IsFiniteSet(Timed(c, r, m)) /\ IsFiniteSet(Late(c, r, m))
         /\ Cardinality(Timed(c, r, m)) \in Nat /\ Cardinality(Late(c, r, m)) \in Nat
         /\ Cardinality(c.threads) \in Nat
         /\ Cardinality(Timed(c, r, m)) <= Cardinality(c.threads)
         /\ Cardinality(Late(c, r, m)) <= Cardinality(c.threads)
<1>1. Timed(c, r, m) \subseteq c.threads /\ Late(c, r, m) \subseteq c.threads
  BY DEF Timed, Late
<1>2. IsFiniteSet(c.threads)
  BY DEF Setting
<1> QED BY <1>1, <1>2, FS_Subset, FS_CardinalityType

\* Threads that are not on their way to the limiter any more leave its windows balanced.
LEMMA BalancedStays ==
  ASSUME NEW CONSTANT c, Setting(c), NEW w \in [minute: Int, count: Nat],
         NEW a \in [Judged(c)!Minutes -> Nat], NEW now \in Judged(c)!Minutes, NEW r, NEW q,
         Balanced(c, w, a, now, r),
         Late(c, q, now) \subseteq Late(c, r, now),
         \A m \in Judged(c)!Minutes : m < now => Timed(c, q, m) \subseteq Timed(c, r, m)
  PROVE  Balanced(c, w, a, now, q)
<1> DEFINE n == Cardinality(c.threads)
           x == Cardinality(Late(c, r, now))
           y == Cardinality(Late(c, q, now))
<1>1. /\ n \in Nat /\ x \in Nat /\ y \in Nat /\ y <= x
  BY ThreadSets, FS_Subset
<1>2. c.limit \in Nat /\ Spent(c, w, now) \in Nat /\ a[now] \in Nat
  BY DEF Setting, Spent
<1>3. c.limit * (n - x - 1) \in Int /\ c.limit * (n - y - 1) \in Int
      /\ c.limit * (n - x - 1) <= c.limit * (n - y - 1)
  <2> HIDE DEF n, x, y
  <2> QED BY <1>1, <1>2, Budgets
<1>4. ASSUME Fits(c)
      PROVE  a[now] = 0 \/ a[now] <= c.limit * (n - y - 1) + Spent(c, w, now)
  <2>1. a[now] = 0 \/ a[now] <= c.limit * (n - x - 1) + Spent(c, w, now)
    BY <1>4 DEF Balanced
  <2> HIDE DEF n, x, y
  <2> QED BY <1>2, <1>3, <2>1
<1>5. ASSUME Fits(c), NEW m \in Judged(c)!Minutes, m < now
      PROVE  a[m] + Cardinality(Timed(c, q, m)) <= (c.limit + 1) * n
  <2>1. a[m] + Cardinality(Timed(c, r, m)) <= (c.limit + 1) * n /\ a[m] \in Nat
    BY <1>5 DEF Balanced
  <2>2. /\ Cardinality(Timed(c, q, m)) <= Cardinality(Timed(c, r, m))
        /\ Cardinality(Timed(c, q, m)) \in Nat /\ Cardinality(Timed(c, r, m)) \in Nat
    BY <1>5, ThreadSets, FS_Subset
  <2>3. (c.limit + 1) * n \in Int
    BY <1>1, <1>2
  <2> HIDE DEF n
  <2> QED BY <2>1, <2>2, <2>3
<1> QED BY <1>4, <1>5 DEF Balanced

\* When a minute ends, every thread may be one of those that computed it.
LEMMA BalancedTick ==
  ASSUME NEW CONSTANT c, Setting(c), NEW w \in [minute: Int, count: Nat],
         NEW a \in [Judged(c)!Minutes -> Nat], NEW now \in Judged(c)!Minutes, NEW r,
         Balanced(c, w, a, now, r), now + 1 \in Judged(c)!Minutes
  PROVE  Balanced(c, w, a, now + 1, r)
<1> DEFINE n == Cardinality(c.threads)
           x == Cardinality(Late(c, r, now))
<1>1. /\ n \in Nat /\ x \in Nat /\ now \in Int /\ c.limit \in Nat
      /\ Judged(c)!Minutes \subseteq Int
  BY ThreadSets DEF Setting, Judged!Minutes
<1>2. a[now + 1] = 0 /\ w.minute <= now + 1 /\ \A m \in Judged(c)!Minutes : m > now + 1 => a[m] = 0
  BY <1>1 DEF Balanced
<1>3. ASSUME Fits(c), NEW m \in Judged(c)!Minutes, m < now + 1
      PROVE  a[m] + Cardinality(Timed(c, r, m)) <= (c.limit + 1) * n
  <2>1. CASE m < now
    BY <1>3, <2>1 DEF Balanced
  <2>2. CASE m = now
    <3>1. a[now] = 0 \/ a[now] <= c.limit * (n - x - 1) + Spent(c, w, now)
      BY <1>3 DEF Balanced
    <3>2. Spent(c, w, now) \in Nat /\ Spent(c, w, now) <= c.limit /\ a[now] \in Nat
      BY <1>1 DEF Spent
    <3>3. Cardinality(Timed(c, r, m)) \in Nat /\ Cardinality(Timed(c, r, m)) <= n
      BY ThreadSets
    <3> HIDE DEF n, x
    <3>4. /\ c.limit * (n - x - 1) \in Int /\ c.limit * n \in Int
          /\ c.limit * (n - x - 1) + c.limit <= c.limit * n
          /\ (c.limit + 1) * n = c.limit * n + n
      BY <1>1, Budgets
    <3>5. 0 <= c.limit * n
      BY <1>1
    <3>6. a[now] <= c.limit * n
      BY <1>1, <3>1, <3>2, <3>4, <3>5
    <3> QED BY <1>1, <2>2, <3>2, <3>3, <3>4, <3>6
  <2> QED BY <1>1, <1>3, <2>1, <2>2
<1> QED BY <1>2, <1>3 DEF Balanced

\* What was let through before, a, and after a request of the minute m was counted in w, b
LetThrough(c, w, m, a, b) ==
  \/ w.count <= c.limit /\ b = [a EXCEPT ![m] = @ + 1]
  \/ w.count > c.limit /\ b = a

\* The request q of a thread t that was on its way to the limiter has been counted.
Passed(c, t, m, r, q) ==
  /\ r[t].step = "timed" /\ r[t].minute = m /\ q[t].step # "timed"
  /\ \A u \in c.threads \ {t} : q[u] = r[u]

\* A thread that computed the minute m counts its request.
LEMMA BalancedCount ==
  ASSUME NEW CONSTANT c, Setting(c), NEW v \in [minute: Int, count: Nat],
         NEW a \in [Judged(c)!Minutes -> Nat], NEW now \in Judged(c)!Minutes, NEW r, NEW q,
         Balanced(c, v, a, now, r),
         NEW t \in c.threads, NEW m \in Judged(c)!Minutes, m <= now,
         Passed(c, t, m, r, q),
         NEW w \in [minute: Int, count: Nat], w = Judged(c)!Counted(v, m),
         NEW b \in [Judged(c)!Minutes -> Nat], LetThrough(c, w, m, a, b)
  PROVE  /\ Balanced(c, w, b, now, q)
         /\ w.count > c.limit => c.limit <= a[m]
<1> DEFINE n == Cardinality(c.threads)
           x == Cardinality(Late(c, r, now))
           y == Cardinality(Late(c, q, now))
<1> USE DEF LetThrough, Passed
<1>1. /\ n \in Nat /\ x \in Nat /\ y \in Nat /\ now \in Int /\ m \in Int /\ c.limit \in Nat
      /\ Judged(c)!Minutes \subseteq Int /\ a[m] \in Nat /\ a[now] \in Nat
  BY ThreadSets DEF Setting, Judged!Minutes
<1>2. w.minute = m /\ w.count = IF v.minute # m THEN 1 ELSE v.count + 1
  BY <1>1, CountedType
<1>3. v.minute = m => v.count <= a[m] \/ c.limit <= a[m]
  BY DEF Balanced
<1>4. w.count > c.limit => c.limit <= a[m]
  BY <1>1, <1>2, <1>3
<1>5. b[m] \in Nat /\ (w.count <= b[m] \/ c.limit <= b[m])
  BY <1>1, <1>2, <1>3, <1>4
<1>6. \A k \in Judged(c)!Minutes : k # m => b[k] = a[k]
  BY <1>1
<1>7. ASSUME NEW k \in Judged(c)!Minutes, k > now PROVE b[k] = 0
  BY <1>1, <1>6, <1>7 DEF Balanced
<1>8. /\ Late(c, q, now) = Late(c, r, now) \ {t}
      /\ \A k \in Judged(c)!Minutes : Timed(c, q, k) = Timed(c, r, k) \ {t}
  BY DEF Late, Timed
<1>9. ASSUME Fits(c)
      PROVE  b[now] = 0 \/ b[now] <= c.limit * (n - y - 1) + Spent(c, w, now)
  <2>1. a[now] = 0 \/ a[now] <= c.limit * (n - x - 1) + Spent(c, v, now)
    BY <1>9 DEF Balanced
  <2>2. /\ Spent(c, v, now) \in Nat /\ Spent(c, v, now) <= c.limit
        /\ Spent(c, w, now) \in Nat
    BY <1>1 DEF Spent
  <2>3. CASE m < now
    <3>1. y + 1 <= x /\ y <= x
      <4>1. t \in Late(c, r, now)
        BY <2>3 DEF Late
      <4>2. Cardinality(Late(c, r, now) \ {t}) = Cardinality(Late(c, r, now)) - 1
        BY <4>1, ThreadSets, FS_RemoveElement
      <4> QED BY <1>1, <1>8, <4>2
    <3>2. b[now] = a[now]
      BY <1>1, <1>6, <2>3
    <3> HIDE DEF n, x, y
    <3>3. /\ c.limit * (n - x - 1) + c.limit <= c.limit * (n - y - 1)
          /\ c.limit * (n - x - 1) \in Int /\ c.limit * (n - y - 1) \in Int
      BY <1>1, <3>1, Budgets
    <3> QED BY <1>1, <2>1, <2>2, <3>2, <3>3
  <2>4. CASE m = now
    <3>1. y = x /\ x + 1 <= n
      <4>1. t \notin Late(c, r, now)
        BY <1>1, <2>4 DEF Late
      <4>2. Late(c, r, now) \subseteq c.threads \ {t} /\ Late(c, q, now) = Late(c, r, now)
        BY <1>8, <4>1 DEF Late
      <4>3. IsFiniteSet(c.threads) /\ Cardinality(c.threads \ {t}) = n - 1
            /\ IsFiniteSet(c.threads \ {t})
        BY FS_RemoveElement, FS_Difference DEF Setting
      <4>4. x <= n - 1
        BY <4>2, <4>3, FS_Subset
      <4> QED BY <1>1, <4>2, <4>4
    <3> HIDE DEF n, x, y
    <3>2. c.limit * (n - x - 1) \in Int /\ c.limit * (n - x - 1) >= 0
      BY <1>1, <3>1, Budgets
    <3>3. CASE w.count <= c.limit
      <4>1. b[now] = a[now] + 1
        BY <1>1, <2>4, <3>3
      <4>2. Spent(c, w, now) = Spent(c, v, now) + 1
        BY <1>1, <1>2, <2>4, <3>3 DEF Spent
      <4> QED BY <1>1, <2>1, <2>2, <3>1, <3>2, <4>1, <4>2
    <3>4. CASE w.count > c.limit
      <4>1. b[now] = a[now] /\ Spent(c, w, now) = c.limit
        BY <1>1, <1>2, <2>4, <3>4 DEF Spent
      <4> QED BY <1>1, <2>1, <2>2, <3>1, <3>2, <4>1
    <3> QED BY <1>1, <3>3, <3>4
  <2> QED BY <1>1, <2>3, <2>4
<1>10. ASSUME Fits(c), NEW k \in Judged(c)!Minutes, k < now
       PROVE  b[k] + Cardinality(Timed(c, q, k)) <= (c.limit + 1) * n
  <2>1. a[k] + Cardinality(Timed(c, r, k)) <= (c.limit + 1) * n /\ a[k] \in Nat
    BY <1>10 DEF Balanced
  <2>2. /\ Cardinality(Timed(c, r, k)) \in Nat /\ Cardinality(Timed(c, q, k)) \in Nat
        /\ IsFiniteSet(Timed(c, r, k)) /\ (c.limit + 1) * n \in Int
    BY <1>1, ThreadSets
  <2>3. CASE k = m
    <3>1. t \in Timed(c, r, k)
      BY <2>3 DEF Timed
    <3>2. Cardinality(Timed(c, q, k)) = Cardinality(Timed(c, r, k)) - 1
      BY <1>8, <2>2, <3>1, FS_RemoveElement
    <3>3. b[k] = a[k] \/ b[k] = a[k] + 1
      BY <1>1, <2>3
    <3> HIDE DEF n
    <3> QED BY <2>1, <2>2, <3>2, <3>3
  <2>4. CASE k # m
    <3>1. Timed(c, q, k) = Timed(c, r, k)
      BY <1>8, <2>4 DEF Timed
    <3> QED BY <1>6, <2>1, <2>4, <3>1
  <2> QED BY <2>3, <2>4
<1> QED BY <1>1, <1>2, <1>4, <1>5, <1>7, <1>9, <1>10 DEF Balanced

\* The windows of a category after a full one was emptied
LEMMA KeptBalanced ==
  ASSUME NEW CONSTANT c, Setting(c), NEW e \in [Judged(c)!Keys -> [minute: Int, count: Nat]],
         NEW a \in [Judged(c)!Minutes -> Nat], NEW now \in Judged(c)!Minutes, NEW r,
         NEW key \in Judged(c)!Keys, Balanced(c, e[key], a, now, r)
  PROVE  Balanced(c, Judged(c)!Kept(e)[key], a, now, r)
<1> DEFINE K == {k \in Judged(c)!Keys : e[k] # Judged(c)!Untracked}
<1>1. CASE Judged(c)!Cardinality(K) > Tracked
  <2>1. Judged(c)!Kept(e)[key] = Judged(c)!Untracked
    BY <1>1 DEF Judged!Kept
  <2>2. ~Fits(c)
    <3>1. IsFiniteSet(Judged(c)!Keys)
      BY FS_Union, FS_Singleton DEF Judged!Keys, Setting
    <3>2. K \subseteq Judged(c)!Keys
      OBVIOUS
    <3>3. /\ Cardinality(K) <= Cardinality(Judged(c)!Keys) /\ Cardinality(K) \in Nat
          /\ Cardinality(Judged(c)!Keys) \in Nat
      BY <3>1, <3>2, FS_Subset, FS_CardinalityType
    <3>4. Cardinality(K) > Tracked /\ Tracked \in Nat
      BY <1>1, JudgedCardinality, RequestLimits
    <3> HIDE DEF K
    <3> QED BY <3>3, <3>4 DEF Fits
  <2>3. now \in Nat /\ -1 \notin Judged(c)!Minutes
    BY DEF Judged!Minutes, Setting
  <2> QED BY <2>1, <2>2, <2>3 DEF Balanced, Judged!Untracked
<1>2. CASE ~(Judged(c)!Cardinality(K) > Tracked)
  BY <1>2 DEF Judged!Kept
<1> QED BY <1>1, <1>2

LEMMA WindowTypes ==
  ASSUME NEW CONSTANT c, ApiTypes(c), NEW k \in Judged(c)!Categories, NEW key \in Judged(c)!Keys
  PROVE  /\ counted[k] \in [Judged(c)!Keys -> [minute: Int, count: Nat]]
         /\ counted[k][key] \in [minute: Int, count: Nat]
         /\ accepted[k][key] \in [Judged(c)!Minutes -> Nat]
         /\ minute \in Judged(c)!Minutes /\ minute \in Nat
BY DEF ApiTypes, Judged!Minutes

\* A request goes on, and does not count.
LEMMA QuietRates ==
  ASSUME NEW CONSTANT c, Setting(c), ApiTypes(c), RateInv(c), NEW t \in c.threads,
         UNCHANGED <<counted, accepted, minute>>,
         \A u \in c.threads \ {t} : request'[u] = request[u],
         Refusable(c, request'[t], minute, accepted),
         request'[t].step = "timed" => request'[t].minute = minute
  PROVE  RateInv(c)'
<1>1. \A u \in c.threads : Refusable(c, request'[u], minute', accepted')
  BY DEF RateInv
<1>2. minute \in Int /\ \A m \in Judged(c)!Minutes : m \in Int
  BY DEF ApiTypes, Judged!Minutes
<1>3. Late(c, request', minute) \subseteq Late(c, request, minute)
  BY <1>2 DEF Late
<1>4. \A m \in Judged(c)!Minutes :
        m < minute => Timed(c, request', m) \subseteq Timed(c, request, m)
  BY <1>2 DEF Timed
<1>5. ASSUME NEW k \in Judged(c)!Categories, NEW key \in Judged(c)!Keys
      PROVE  Balanced(c, counted'[k][key], accepted'[k][key], minute', request')
  <2>1. /\ counted[k][key] \in [minute: Int, count: Nat]
        /\ accepted[k][key] \in [Judged(c)!Minutes -> Nat]
        /\ minute \in Judged(c)!Minutes
        /\ Balanced(c, counted[k][key], accepted[k][key], minute, request)
    BY WindowTypes DEF RateInv
  <2>2. Balanced(c, counted[k][key], accepted[k][key], minute, request')
    BY <1>3, <1>4, <2>1, BalancedStays
  <2> QED BY <2>2
<1> QED BY <1>1, <1>5 DEF RateInv

LEMMA AnsweredRates ==
  ASSUME NEW CONSTANT c, Setting(c), ApiTypes(c), EntitledInv(c), RateInv(c), NEW t \in c.threads,
         request[t].step \notin {"idle", "answered"},
         NEW status \in (Judged(c)!Refusals \cup {"ok"}) \ {"limited"}, Judged(c)!Answered(t, status),
         UNCHANGED <<counted, accepted, minute>>
  PROVE  RateInv(c)'
<1>1. request[t] \in ApiRequest(c) /\ request[t] # Judged(c)!Idle
  BY InProgressType
<1>2. PICK q \in ApiRequest(c) :
        /\ request' = [request EXCEPT ![t] = q]
        /\ q.step = "answered" /\ q.status = status /\ q.minute = request[t].minute
  BY <1>1, AnsweredType
<1>3. request'[t] = q /\ \A u \in c.threads \ {t} : request'[u] = request[u]
  BY <1>2 DEF ApiTypes
<1>4. Refusable(c, q, minute, accepted)
  BY <1>1, <1>2 DEF RateInv, Refusable
<1> QED BY <1>2, <1>3, <1>4, QuietRates

LEMMA AnswersRates ==
  ASSUME NEW CONSTANT c, Setting(c), ApiTypes(c), EntitledInv(c), RateInv(c), NEW t \in c.threads,
         \/ Judged(c)!Refuse(t) \/ Judged(c)!ChangeMember(t) \/ Judged(c)!EndSession(t)
         \/ Judged(c)!SignIn(t) \/ Judged(c)!Serve(t)
  PROVE  RateInv(c)'
<1>1. request[t].step \notin {"idle", "answered"} /\ UNCHANGED <<counted, accepted, minute>>
  BY DEF Judged!Refuse, Judged!ChangeMember, Judged!EndSession, Judged!SignIn, Judged!Serve,
         Judged!Allowed
<1>2. \E status \in {"csrf_failed", "forbidden", "not_found", "invalid", "conflict", "ok"} :
        Judged(c)!Answered(t, status)
  <2>1. CASE Judged(c)!Refuse(t)
    <3>1. PICK v \in Judged(c)!Verdicts(t) \ {"allowed"} : Judged(c)!Answered(t, v)
      BY <2>1 DEF Judged!Refuse
    <3>2. v \in {"csrf_failed", "forbidden", "not_found", "invalid"}
      BY DEF Judged!Verdicts, Judged!Unusable
    <3> QED BY <3>1, <3>2
  <2>2. CASE Judged(c)!ChangeMember(t)
    BY <2>2 DEF Judged!ChangeMember
  <2>3. CASE Judged(c)!EndSession(t)
    BY <2>3 DEF Judged!EndSession
  <2>4. CASE Judged(c)!SignIn(t)
    BY <2>4 DEF Judged!SignIn
  <2>5. CASE Judged(c)!Serve(t)
    BY <2>5 DEF Judged!Serve
  <2> QED BY <2>1, <2>2, <2>3, <2>4, <2>5
<1>3. {"csrf_failed", "forbidden", "not_found", "invalid", "conflict", "ok"}
        \subseteq (Judged(c)!Refusals \cup {"ok"}) \ {"limited"}
  BY DEF Judged!Refusals, Judged!SignedOut
<1> QED BY <1>1, <1>2, <1>3, AnsweredRates

LEMMA WayRates ==
  ASSUME NEW CONSTANT c, Setting(c), ApiTypes(c), EntitledInv(c), RateInv(c), NEW t \in c.threads,
         Judged(c)!Arrive(t) \/ Judged(c)!Authenticate(t) \/ Judged(c)!ReadClock(t)
  PROVE  RateInv(c)'
<1>1. UNCHANGED <<counted, accepted, minute>> /\ minute \in Nat
  <2>1. minute \in Nat
    BY DEF ApiTypes, Judged!Minutes
  <2>2. CASE Judged(c)!Arrive(t)
    BY <2>1, <2>2 DEF Judged!Arrive
  <2>3. CASE Judged(c)!Authenticate(t)
    BY <2>1, <2>3 DEF Judged!Authenticate
  <2>4. CASE Judged(c)!ReadClock(t)
    BY <2>1, <2>4 DEF Judged!ReadClock
  <2> QED BY <2>2, <2>3, <2>4
<1>2. CASE Judged(c)!Arrive(t)
  <2>1. /\ \A u \in c.threads \ {t} : request'[u] = request[u]
        /\ request'[t].minute = 0 /\ request'[t].status = "none" /\ request'[t].step # "timed"
    BY <1>2 DEF Judged!Arrive, ApiTypes
  <2>2. Refusable(c, request'[t], minute, accepted)
    BY <1>1, <2>1 DEF Refusable
  <2> QED BY <1>1, <2>1, <2>2, QuietRates
<1>3. CASE Judged(c)!Authenticate(t)
  <2>1. request[t].step = "arrived" /\ request[t].step \notin {"idle", "answered"}
    BY <1>3 DEF Judged!Authenticate
  <2>2. request[t] \in ApiRequest(c) /\ request[t] # Judged(c)!Idle /\ request[t].status = "none"
    BY <2>1, InProgressType
  <2>3. CASE \E status \in Judged(c)!SignedOut : Judged(c)!Answered(t, status)
    <3>1. \A status \in Judged(c)!SignedOut :
            status \in (Judged(c)!Refusals \cup {"ok"}) \ {"limited"}
      BY DEF Judged!Refusals, Judged!SignedOut
    <3> QED BY <1>1, <2>1, <2>3, <3>1, AnsweredRates
  <2>4. CASE ~\E status \in Judged(c)!SignedOut : Judged(c)!Answered(t, status)
    <3>1. /\ \A u \in c.threads \ {t} : request'[u] = request[u]
          /\ request'[t].minute = request[t].minute /\ request'[t].status = "none"
          /\ request'[t].step = "identified"
      BY <1>3, <2>2, <2>4 DEF Judged!Authenticate, Judged!SignedOut, ApiTypes, ApiRequest
    <3>2. Refusable(c, request'[t], minute, accepted)
      BY <2>2, <3>1 DEF Refusable, RateInv
    <3> QED BY <1>1, <3>1, <3>2, QuietRates
  <2> QED BY <2>3, <2>4
<1>4. CASE Judged(c)!ReadClock(t)
  <2>1. request[t] \in ApiRequest(c) /\ request[t] # Judged(c)!Idle /\ request[t].status = "none"
    BY <1>4, InProgressType DEF Judged!ReadClock
  <2>2. /\ \A u \in c.threads \ {t} : request'[u] = request[u]
        /\ request'[t].minute = minute /\ request'[t].status = "none"
    BY <1>4, <2>1 DEF Judged!ReadClock, ApiTypes, ApiRequest
  <2>3. Refusable(c, request'[t], minute, accepted)
    BY <1>1, <2>2 DEF Refusable
  <2> QED BY <1>1, <2>2, <2>3, QuietRates
<1> QED BY <1>2, <1>3, <1>4

LEMMA AllowRates ==
  ASSUME NEW CONSTANT c, Setting(c), ApiTypes(c), EntitledInv(c), RateInv(c), NEW t \in c.threads,
         Judged(c)!Allow(t)
  PROVE  RateInv(c)'
<1>1. PICK k \in Judged(c)!Categories, key \in Judged(c)!Keys, m \in Judged(c)!Minutes,
           e \in [Judged(c)!Keys -> [minute: Int, count: Nat]], w \in [minute: Int, count: Nat] :
        Counting(c, t, k, key, m, e, w)
  BY AllowParts
<1> DEFINE a == accepted[k][key]
           b == accepted'[k][key]
<1>2. /\ request[t] \in ApiRequest(c) /\ request[t] # Judged(c)!Idle /\ request[t].step = "timed"
      /\ request[t].status = "none" /\ minute' = minute
      /\ minute \in Judged(c)!Minutes /\ minute \in Int /\ m \in Int
      /\ request[t].minute = m /\ m <= minute
  <2>1. request[t].step = "timed" /\ minute' = minute
    BY DEF Judged!Allow
  <2>2. /\ request[t] \in ApiRequest(c) /\ request[t] # Judged(c)!Idle
        /\ request[t].status = "none"
    BY <2>1, InProgressType
  <2>3. minute \in Judged(c)!Minutes /\ minute \in Int /\ m \in Int
    BY DEF ApiTypes, Judged!Minutes
  <2>4. request[t].minute = m
    BY <1>1 DEF Counting
  <2>5. m <= minute
    BY <2>2, <2>4 DEF RateInv, Refusable
  <2> QED BY <2>1, <2>2, <2>3, <2>4, <2>5
<1>3. /\ counted[k] \in [Judged(c)!Keys -> [minute: Int, count: Nat]]
      /\ a \in [Judged(c)!Minutes -> Nat]
  BY WindowTypes
<1>4. /\ e = Judged(c)!Kept(counted[k]) /\ w = Judged(c)!Counted(e[key], m)
      /\ counted' = [counted EXCEPT ![k] = [e EXCEPT ![key] = w]]
  BY <1>1 DEF Counting
<1>5. /\ counted'[k][key] = w
      /\ \A y \in Judged(c)!Keys \ {key} : counted'[k][y] = e[y]
      /\ \A x \in Judged(c)!Categories \ {k} : counted'[x] = counted[x]
  BY <1>4 DEF ApiTypes
<1>6. /\ b \in [Judged(c)!Minutes -> Nat]
      /\ \/ w.count <= c.limit /\ b = [a EXCEPT ![m] = @ + 1]
         \/ w.count > c.limit /\ b = a
      /\ \A x \in Judged(c)!Categories, y \in Judged(c)!Keys :
           x # k \/ y # key => accepted'[x][y] = accepted[x][y]
  <2>1. accepted \in [Judged(c)!Categories -> [Judged(c)!Keys -> [Judged(c)!Minutes -> Nat]]]
    BY DEF ApiTypes
  <2>2. CASE w.count <= c.limit /\ accepted' = [accepted EXCEPT ![k][key][m] = @ + 1]
    <3>1. b = [a EXCEPT ![m] = @ + 1]
      BY <2>1, <2>2
    <3>2. b \in [Judged(c)!Minutes -> Nat]
      BY <1>3, <3>1
    <3>3. \A x \in Judged(c)!Categories, y \in Judged(c)!Keys :
            x # k \/ y # key => accepted'[x][y] = accepted[x][y]
      BY <2>1, <2>2
    <3> QED BY <2>2, <3>1, <3>2, <3>3
  <2>3. CASE w.count > c.limit /\ UNCHANGED accepted
    BY <1>3, <2>3
  <2> QED BY <1>1, <2>2, <2>3 DEF Counting
<1>7. /\ \A u \in c.threads \ {t} : request'[u] = request[u]
      /\ \/ /\ request'[t].step = "counted" /\ request'[t].status = "none"
            /\ request'[t].minute = m
         \/ /\ w.count > c.limit /\ request'[t].step = "answered" /\ request'[t].minute = m
            /\ request'[t].category = k /\ request'[t].key = key
  <2>1. CASE w.count <= c.limit /\ request' = [request EXCEPT ![t].step = "counted"]
    BY <1>2, <2>1 DEF ApiTypes, ApiRequest
  <2>2. CASE w.count > c.limit /\ Judged(c)!Answered(t, "limited")
    <3>1. "limited" \in Judged(c)!Refusals
      BY DEF Judged!Refusals, Judged!SignedOut
    <3>2. PICK q \in ApiRequest(c) :
            /\ request' = [request EXCEPT ![t] = q]
            /\ q.step = "answered" /\ SameArrival(request[t], q)
            /\ q.key = request[t].key /\ q.minute = request[t].minute
      BY <1>2, <2>2, <3>1, AnsweredType
    <3>3. request'[t] = q /\ \A u \in c.threads \ {t} : request'[u] = request[u]
      BY <3>2 DEF ApiTypes
    <3> QED BY <1>1, <1>2, <2>2, <3>2, <3>3 DEF Counting, SameArrival
  <2> QED BY <1>1, <2>1, <2>2 DEF Counting
<1> HIDE DEF a, b
<1>8. Balanced(c, e[key], a, minute, request)
  <2>1. Balanced(c, counted[k][key], a, minute, request)
    BY DEF RateInv, a
  <2> QED BY <1>2, <1>3, <1>4, <2>1, KeptBalanced
<1>9. /\ Balanced(c, w, b, minute, request')
      /\ w.count > c.limit => c.limit <= a[m]
  <2>1. request'[t].step # "timed" /\ e[key] \in [minute: Int, count: Nat]
    BY <1>7
  <2>2. Passed(c, t, m, request, request') /\ LetThrough(c, w, m, a, b)
    BY <1>2, <1>6, <1>7 DEF Passed, LetThrough
  <2>3. b \in [Judged(c)!Minutes -> Nat]
    BY <1>6
  <2> QED BY <1>2, <1>3, <1>4, <1>8, <2>1, <2>2, <2>3, BalancedCount
<1>10. ASSUME NEW x \in Judged(c)!Categories, NEW y \in Judged(c)!Keys, x # k \/ y # key
       PROVE  Balanced(c, counted'[x][y], accepted'[x][y], minute', request')
  <2>1. /\ counted[x] \in [Judged(c)!Keys -> [minute: Int, count: Nat]]
        /\ accepted[x][y] \in [Judged(c)!Minutes -> Nat]
        /\ Balanced(c, counted[x][y], accepted[x][y], minute, request)
    BY WindowTypes DEF RateInv
  <2>2. /\ counted'[x][y] \in [minute: Int, count: Nat]
        /\ Balanced(c, counted'[x][y], accepted[x][y], minute, request)
    <3>1. CASE x = k
      <4>1. counted'[x][y] = e[y]
        BY <1>5, <1>10, <3>1
      <4>2. Balanced(c, e[y], accepted[x][y], minute, request)
        BY <1>2, <1>4, <2>1, <3>1, KeptBalanced
      <4> QED BY <4>1, <4>2
    <3>2. CASE x # k
      BY <1>5, <2>1, <3>2
    <3> QED BY <3>1, <3>2
  <2>3. /\ Late(c, request', minute) \subseteq Late(c, request, minute)
        /\ \A n \in Judged(c)!Minutes : Timed(c, request', n) \subseteq Timed(c, request, n)
    BY <1>7 DEF Late, Timed
  <2>4. Balanced(c, counted'[x][y], accepted[x][y], minute, request')
    BY <1>2, <2>1, <2>2, <2>3, BalancedStays
  <2> QED BY <1>2, <1>6, <1>10, <2>4
<1>11. ASSUME NEW u \in c.threads PROVE Refusable(c, request'[u], minute', accepted')
  <2>1. CASE u = t
    <3>1. w.count > c.limit => c.limit <= b[m]
      BY <1>6, <1>9, <1>2 DEF Setting
    <3> QED BY <1>2, <1>7, <2>1, <3>1 DEF Refusable, b
  <2>2. CASE u # t
    <3>1. request'[u] = request[u] /\ Refusable(c, request[u], minute, accepted)
      BY <1>7, <2>2 DEF RateInv
    <3>2. CASE request[u] = Judged(c)!Idle
      BY <3>1, <3>2 DEF Refusable
    <3>3. CASE request[u] # Judged(c)!Idle
      <4> DEFINE q == request[u]
      <4>1. /\ q.category \in Judged(c)!Categories /\ q.key \in Judged(c)!Keys
            /\ q.minute \in Judged(c)!Minutes
        BY <3>3 DEF ApiTypes, ApiRequest
      <4>2. accepted[q.category][q.key][q.minute] <= accepted'[q.category][q.key][q.minute]
        <5>1. accepted[q.category][q.key] \in [Judged(c)!Minutes -> Nat]
          BY <4>1, WindowTypes
        <5>2. CASE q.category = k /\ q.key = key
          <6>1. \A n \in Judged(c)!Minutes : a[n] <= b[n]
            BY <1>3, <1>6
          <6> QED BY <4>1, <5>2, <6>1 DEF a, b
        <5>3. CASE ~(q.category = k /\ q.key = key)
          <6>1. accepted'[q.category][q.key] = accepted[q.category][q.key]
            BY <1>6, <4>1, <5>3
          <6>2. accepted[q.category][q.key][q.minute] \in Nat
            BY <4>1, <5>1
          <6> QED BY <6>1, <6>2
        <5> QED BY <5>2, <5>3
      <4>3. /\ accepted[q.category][q.key][q.minute] \in Nat
            /\ accepted'[q.category][q.key][q.minute] \in Nat
        <5>1. accepted' \in [Judged(c)!Categories -> [Judged(c)!Keys -> [Judged(c)!Minutes -> Nat]]]
          BY AllowStep DEF ApiTypes
        <5> QED BY <4>1, <5>1 DEF ApiTypes
      <4> HIDE DEF q
      <4>4. Refusable(c, q, minute, accepted')
        BY <3>1, <4>2, <4>3 DEF Refusable, Setting, q
      <4> QED BY <1>2, <3>1, <4>4 DEF q
    <3> QED BY <3>2, <3>3
  <2> QED BY <2>1, <2>2
<1>12. ASSUME NEW x \in Judged(c)!Categories, NEW y \in Judged(c)!Keys
       PROVE  Balanced(c, counted'[x][y], accepted'[x][y], minute', request')
  BY <1>2, <1>5, <1>9, <1>10 DEF b
<1> QED BY <1>11, <1>12 DEF RateInv

LEMMA TickRates ==
  ASSUME NEW CONSTANT c, Setting(c), ApiTypes(c), RateInv(c), Judged(c)!Tick
  PROVE  RateInv(c)'
<1>1. /\ UNCHANGED <<request, counted, accepted>> /\ minute' = minute + 1 /\ minute \in Nat
      /\ minute \in Judged(c)!Minutes /\ minute + 1 \in Judged(c)!Minutes
  BY DEF Judged!Tick, ApiTypes, Judged!Minutes, Setting
<1>2. ASSUME NEW t \in c.threads PROVE Refusable(c, request'[t], minute', accepted')
  <2>1. Refusable(c, request[t], minute, accepted)
    BY DEF RateInv
  <2>2. request[t] # Judged(c)!Idle => request[t].minute \in Nat
    BY DEF ApiTypes, ApiRequest, Judged!Minutes
  <2> QED BY <1>1, <2>1, <2>2 DEF Refusable
<1>3. ASSUME NEW k \in Judged(c)!Categories, NEW key \in Judged(c)!Keys
      PROVE  Balanced(c, counted'[k][key], accepted'[k][key], minute', request')
  <2>1. Balanced(c, counted[k][key], accepted[k][key], minute + 1, request)
    BY <1>1, WindowTypes, BalancedTick DEF RateInv
  <2> QED BY <1>1, <2>1
<1> QED BY <1>2, <1>3 DEF RateInv

LEMMA RatesStep ==
  ASSUME NEW CONSTANT c, Setting(c), ApiTypes(c), EntitledInv(c), RateInv(c),
         [Judged(c)!Next]_requestVars
  PROVE  RateInv(c)'
<1>1. CASE UNCHANGED <<request, counted, accepted, minute>>
  BY <1>1 DEF RateInv
<1>2. ASSUME NEW s \in c.sessions, Judged(c)!Expire(s) PROVE RateInv(c)'
  BY <1>1, <1>2 DEF Judged!Expire
<1>3. Judged(c)!PurgeExpired => RateInv(c)'
  BY <1>1 DEF Judged!PurgeExpired
<1>4. ASSUME NEW t \in c.threads,
             \/ Judged(c)!Arrive(t) \/ Judged(c)!Authenticate(t) \/ Judged(c)!ReadClock(t)
             \/ Judged(c)!Allow(t) \/ Judged(c)!Refuse(t) \/ Judged(c)!ChangeMember(t)
             \/ Judged(c)!EndSession(t) \/ Judged(c)!SignIn(t) \/ Judged(c)!Serve(t)
      PROVE  RateInv(c)'
  BY <1>4, WayRates, AllowRates, AnswersRates
<1> QED BY <1>1, <1>2, <1>3, <1>4, TickRates DEF Judged!Next, requestVars

LEMMA RatesInit ==
  ASSUME NEW CONSTANT c, Setting(c), Judged(c)!Init
  PROVE  RateInv(c)
<1>1. minute = 0 /\ \A t \in c.threads : request[t] = Judged(c)!Idle
  BY DEF Judged!Init
<1>2. 0 \in Judged(c)!Minutes /\ -1 \notin Judged(c)!Minutes
  BY DEF Judged!Minutes, Setting
<1>3. ASSUME NEW k \in Judged(c)!Categories, NEW key \in Judged(c)!Keys
      PROVE  Balanced(c, counted[k][key], accepted[k][key], minute, request)
  <2>1. /\ counted[k][key].minute = -1
        /\ \A m \in Judged(c)!Minutes : accepted[k][key][m] = 0
    BY DEF Judged!Init, Judged!Untracked
  <2>2. \A m \in Judged(c)!Minutes : ~(m < 0)
    BY DEF Judged!Minutes, Setting
  <2> QED BY <1>1, <1>2, <2>1, <2>2 DEF Balanced
<1> QED BY <1>1, <1>3 DEF RateInv, Refusable

LEMMA LimitsJudged ==
  ASSUME NEW CONSTANT c, Setting(c), ApiTypes(c), RateInv(c)
  PROVE  Judged(c)!LimitsHold
<1>1. ASSUME NEW t \in c.threads, request[t] # Judged(c)!Idle, request[t].status = "limited"
      PROVE  accepted[request[t].category][request[t].key][request[t].minute] >= c.limit
  <2>1. /\ request[t].category \in Judged(c)!Categories /\ request[t].key \in Judged(c)!Keys
        /\ request[t].minute \in Judged(c)!Minutes
    BY <1>1 DEF ApiTypes, ApiRequest
  <2>2. accepted[request[t].category][request[t].key][request[t].minute] \in Nat
    BY <2>1 DEF ApiTypes
  <2>3. c.limit <= accepted[request[t].category][request[t].key][request[t].minute]
    BY <1>1 DEF RateInv, Refusable
  <2> QED BY <2>2, <2>3 DEF Setting
<1>2. ASSUME Fits(c), NEW k \in Judged(c)!Categories, NEW key \in Judged(c)!Keys,
             NEW m \in Judged(c)!Minutes
      PROVE  accepted[k][key][m] <= (c.limit + 1) * Cardinality(c.threads)
  <2> DEFINE n == Cardinality(c.threads)
             x == Cardinality(Late(c, request, minute))
             a == accepted[k][key]
             w == counted[k][key]
  <2>1. /\ Balanced(c, w, a, minute, request) /\ a \in [Judged(c)!Minutes -> Nat]
        /\ w \in [minute: Int, count: Nat] /\ minute \in Nat
    BY WindowTypes DEF RateInv
  <2>2. /\ n \in Nat /\ x \in Nat /\ c.limit \in Nat /\ m \in Nat /\ a[m] \in Nat
    BY <2>1, ThreadSets DEF Setting, Judged!Minutes
  <2>3. CASE m < minute
    <3>1. a[m] + Cardinality(Timed(c, request, m)) <= (c.limit + 1) * n
      BY <1>2, <2>1, <2>3 DEF Balanced
    <3>2. Cardinality(Timed(c, request, m)) \in Nat
      BY ThreadSets
    <3>3. (c.limit + 1) * n \in Int
      BY <2>2
    <3> HIDE DEF n, a
    <3> QED BY <2>2, <3>1, <3>2, <3>3 DEF n, a
  <2>4. CASE m = minute
    <3>1. a[m] = 0 \/ a[m] <= c.limit * (n - x - 1) + Spent(c, w, m)
      BY <1>2, <2>1, <2>4 DEF Balanced
    <3>2. Spent(c, w, m) \in Nat /\ Spent(c, w, m) <= c.limit
      BY <2>1, <2>2 DEF Spent
    <3>3. a[m] <= (c.limit + 1) * n
      <4> HIDE DEF n, x, a, w
      <4>1. /\ c.limit * (n - x - 1) \in Int /\ c.limit * n \in Int
            /\ c.limit * (n - x - 1) + c.limit <= c.limit * n
            /\ (c.limit + 1) * n = c.limit * n + n
        BY <2>2, Budgets
      <4>2. 0 <= c.limit * n
        BY <2>2
      <4> QED BY <2>2, <3>1, <3>2, <4>1, <4>2
    <3> QED BY <3>3
  <2>5. CASE m > minute
    <3>1. a[m] = 0
      BY <2>1, <2>5 DEF Balanced
    <3>2. 0 <= (c.limit + 1) * n
      <4> HIDE DEF n
      <4> QED BY <2>2
    <3> QED BY <3>1, <3>2
  <2> QED BY <2>1, <2>2, <2>3, <2>4, <2>5
<1> QED BY <1>1, <1>2, JudgedCardinality DEF Judged!LimitsHold, Fits

-----------------------------------------------------------------------------
(* Lists in pages.  First, the order of rows.                              *)

\* A family of subsets of a finite set has a member that contains no other.
LEMMA SmallestMember ==
  ASSUME NEW S, IsFiniteSet(S), NEW T \in SUBSET SUBSET S, T # {}
  PROVE  \E A \in T : \A B \in T : B \subseteq A => B = A
<1> DEFINE R == StrictSubsetOrdering(S)
<1>1. T \subseteq FiniteSubsetsOf(S)
  BY FS_FiniteSubsetsOfFinite
<1>2. IsWellFoundedOn(R, FiniteSubsetsOf(S))
  BY FS_StrictSubsetOrderingWellFounded
<1> HIDE DEF R
<1>3. PICK A \in T : \A B \in T : ~ (<<B, A>> \in R)
  BY <1>1, <1>2, WFMin
<1>4. ASSUME NEW B \in T, B \subseteq A, B # A PROVE FALSE
  BY <1>3, <1>4 DEF R, StrictSubsetOrdering
<1> QED BY <1>4

\* "before" is a strict order in which two members of S are never level.
Ordering(before, S) ==
  /\ \A x \in S : <<x, x>> \notin before
  /\ \A x, y, z \in S : <<x, y>> \in before /\ <<y, z>> \in before => <<x, z>> \in before
  /\ \A x, y \in S : x = y \/ <<x, y>> \in before \/ <<y, x>> \in before

\* The members of S one after the other
InOrder(s, n, before, S) ==
  /\ s \in [1..n -> S] /\ \A x \in S : \E i \in 1..n : s[i] = x
  /\ \A i, j \in 1..n : i < j => <<s[i], s[j]>> \in before

LEMMA LastMember ==
  ASSUME NEW S, IsFiniteSet(S), S # {}, NEW before, Ordering(before, S)
  PROVE  \E m \in S : \A k \in S : k = m \/ <<k, m>> \in before
<1> DEFINE From(m) == {k \in S : k = m \/ <<m, k>> \in before}
           T == {From(m) : m \in S}
<1>1. T \in SUBSET SUBSET S /\ T # {}
  OBVIOUS
<1> HIDE DEF T
<1>2. PICK A \in T : \A B \in T : B \subseteq A => B = A
  BY <1>1, SmallestMember
<1>3. PICK m \in S : A = From(m)
  BY DEF T
<1>4. ASSUME NEW k \in S, <<m, k>> \in before PROVE FALSE
  <2>1. From(k) \subseteq From(m)
    BY <1>4 DEF Ordering
  <2>2. m \in From(m) /\ m \notin From(k)
    BY <1>4 DEF Ordering
  <2>3. From(k) \in T
    BY DEF T
  <2> HIDE DEF From
  <2> QED BY <1>2, <1>3, <2>1, <2>2, <2>3
<1> QED BY <1>4 DEF Ordering

LEMMA OrderExists ==
  ASSUME NEW S, IsFiniteSet(S), NEW before, Ordering(before, S)
  PROVE  \E n \in Nat : \E s : InOrder(s, n, before, S)
<1> DEFINE Bad == {A \in SUBSET S : ~ \E n \in Nat : \E s : InOrder(s, n, before, A)}
<1> SUFFICES ASSUME Bad # {} PROVE FALSE
  OBVIOUS
<1>0. Bad \in SUBSET SUBSET S /\ Bad # {}
  OBVIOUS
<1> HIDE DEF Bad
<1>1. PICK A \in Bad : \A B \in Bad : B \subseteq A => B = A
  BY <1>0, SmallestMember
<1> USE DEF Bad
<1>2. A \in SUBSET S /\ ~ \E n \in Nat : \E s : InOrder(s, n, before, A)
  BY <1>1
<1>3. IsFiniteSet(A) /\ Ordering(before, A)
  <2>1. IsFiniteSet(A)
    BY <1>2, FS_Subset
  <2>2. Ordering(before, A)
    BY <1>2 DEF Ordering
  <2> QED BY <2>1, <2>2
<1>4. CASE A = {}
  <2>1. InOrder([i \in 1..0 |-> 0], 0, before, A)
    BY <1>4 DEF InOrder
  <2> QED BY <1>2, <2>1
<1>5. CASE A # {}
  <2>1. PICK m \in A : \A k \in A : k = m \/ <<k, m>> \in before
    BY <1>3, <1>5, LastMember
  <2> DEFINE B == A \ {m}
  <2>2. B \subseteq A /\ B # A
    BY <2>1
  <2>n. PICK n \in Nat : \E s : InOrder(s, n, before, B)
    BY <1>1, <2>2
  <2>3. PICK s : InOrder(s, n, before, B)
    BY <2>n
  <2> DEFINE t == [i \in 1..(n + 1) |-> IF i = n + 1 THEN m ELSE s[i]]
  <2>4. \A i \in 1..n : s[i] \in B /\ <<s[i], m>> \in before
    <3>1. \A x \in B : <<x, m>> \in before
      BY <2>1
    <3>2. \A i \in 1..n : s[i] \in B
      BY <2>3 DEF InOrder
    <3> HIDE DEF B
    <3> QED BY <3>1, <3>2
  <2>5. t[n + 1] = m /\ \A i \in 1..n : t[i] = s[i]
    OBVIOUS
  <2>6. \A i \in 1..(n + 1) : i = n + 1 \/ i \in 1..n
    OBVIOUS
  <2>7. t \in [1..(n + 1) -> A]
    <3>1. \A i \in 1..n : s[i] \in A
      BY <2>2, <2>4
    <3> HIDE DEF B
    <3> QED BY <2>1, <2>6, <3>1
  <2> HIDE DEF t
  <2>8. \A x \in A : \E i \in 1..(n + 1) : t[i] = x
    <3>1. ASSUME NEW x \in A, x # m PROVE \E i \in 1..(n + 1) : t[i] = x
      BY <3>1, <2>3, <2>5 DEF InOrder
    <3>2. n + 1 \in 1..(n + 1)
      OBVIOUS
    <3> QED BY <3>1, <3>2, <2>5
  <2>9. ASSUME NEW i \in 1..(n + 1), NEW j \in 1..(n + 1), i < j PROVE <<t[i], t[j]>> \in before
    <3>1. i \in 1..n
      BY <2>9
    <3>2. CASE j = n + 1
      BY <3>1, <3>2, <2>4, <2>5
    <3>3. CASE j # n + 1
      BY <3>1, <3>3, <2>3, <2>5, <2>6, <2>9 DEF InOrder
    <3> QED BY <3>2, <3>3
  <2>10. InOrder(t, n + 1, before, A)
    BY <2>7, <2>8, <2>9 DEF InOrder
  <2> QED BY <1>2, <2>10
<1> QED BY <1>4, <1>5

\* The order of columns is strict, and two rows are not level in it.
Columns(n) == [1..n -> Int]

LEMMA FirstDifference ==
  ASSUME NEW n \in 1..3, NEW k \in Columns(n), NEW p \in Columns(n)
  PROVE  Paged!Precedes(k, p) <=>
           \/ k[1] < p[1]
           \/ n > 1 /\ k[1] = p[1] /\ k[2] < p[2]
           \/ n > 2 /\ k[1] = p[1] /\ k[2] = p[2] /\ k[3] < p[3]
<1>1. DOMAIN k = 1..n /\ 1 \in 1..n /\ (n > 1 => 2 \in 1..n) /\ (n > 2 => 3 \in 1..n)
  BY DEF Columns
<1>2. \A i \in 1..n : i = 1 \/ (i = 2 /\ n > 1) \/ (i = 3 /\ n > 2)
  OBVIOUS
<1>3. 1..(1 - 1) = {} /\ 1..(2 - 1) = {1} /\ 1..(3 - 1) = {1, 2}
  OBVIOUS
<1>4. (\E i \in DOMAIN k : k[i] < p[i] /\ \A j \in 1..(i - 1) : k[j] = p[j]) <=>
        \/ k[1] < p[1]
        \/ n > 1 /\ k[1] = p[1] /\ k[2] < p[2]
        \/ n > 2 /\ k[1] = p[1] /\ k[2] = p[2] /\ k[3] < p[3]
  <2>1. ASSUME NEW i \in 1..n, k[i] < p[i], \A j \in 1..(i - 1) : k[j] = p[j]
        PROVE  \/ k[1] < p[1]
               \/ n > 1 /\ k[1] = p[1] /\ k[2] < p[2]
               \/ n > 2 /\ k[1] = p[1] /\ k[2] = p[2] /\ k[3] < p[3]
    BY <2>1, <1>2, <1>3
  <2>2. ASSUME k[1] < p[1] PROVE \E i \in 1..n : k[i] < p[i] /\ \A j \in 1..(i - 1) : k[j] = p[j]
    BY <2>2, <1>1, <1>3
  <2>3. ASSUME n > 1, k[1] = p[1], k[2] < p[2]
        PROVE  \E i \in 1..n : k[i] < p[i] /\ \A j \in 1..(i - 1) : k[j] = p[j]
    BY <2>3, <1>1, <1>3
  <2>4. ASSUME n > 2, k[1] = p[1], k[2] = p[2], k[3] < p[3]
        PROVE  \E i \in 1..n : k[i] < p[i] /\ \A j \in 1..(i - 1) : k[j] = p[j]
    BY <2>4, <1>1, <1>3
  <2> QED BY <1>1, <2>1, <2>2, <2>3, <2>4
<1> QED BY <1>4 DEF Paged!Precedes

LEMMA ColumnsOrdered ==
  ASSUME NEW n \in 1..3, NEW k \in Columns(n), NEW p \in Columns(n), NEW q \in Columns(n)
  PROVE  /\ ~Paged!Precedes(k, k)
         /\ Paged!Precedes(k, p) /\ Paged!Precedes(p, q) => Paged!Precedes(k, q)
         /\ k = p \/ Paged!Precedes(k, p) \/ Paged!Precedes(p, k)
<1>1. /\ k[1] \in Int /\ p[1] \in Int /\ q[1] \in Int
      /\ n > 1 => k[2] \in Int /\ p[2] \in Int /\ q[2] \in Int
      /\ n > 2 => k[3] \in Int /\ p[3] \in Int /\ q[3] \in Int
  <2>1. 1 \in 1..n /\ (n > 1 => 2 \in 1..n) /\ (n > 2 => 3 \in 1..n)
    OBVIOUS
  <2> QED BY <2>1 DEF Columns
<1>2. ~Paged!Precedes(k, k)
  BY <1>1, FirstDifference
<1>3. Paged!Precedes(k, p) /\ Paged!Precedes(p, q) => Paged!Precedes(k, q)
  BY <1>1, FirstDifference
<1>4. ASSUME ~Paged!Precedes(k, p), ~Paged!Precedes(p, k) PROVE k = p
  <2>1. k[1] = p[1] /\ (n > 1 => k[2] = p[2]) /\ (n > 2 => k[3] = p[3])
    BY <1>1, <1>4, FirstDifference
  <2>2. \A i \in 1..n : i = 1 \/ (i = 2 /\ n > 1) \/ (i = 3 /\ n > 2)
    OBVIOUS
  <2>3. \A i \in 1..n : k[i] = p[i]
    BY <2>1, <2>2
  <2> QED BY <2>3 DEF Columns
<1> QED BY <1>2, <1>3, <1>4

\* Rows have identifiers of their own and a place of their own in the order of insertion.
Width ==
  IF list \in {"scans newest", "scans oldest", "versions"} THEN 1
  ELSE IF list \in RankedLists THEN 3 ELSE 2

PagedKeysets == Paged!KeysetLists
RowData == [at: Nat, seq: Nat, rank: Nat]
RowsInv ==
  /\ list \in PagedKeysets \cup {"versions"}
  /\ DOMAIN rows \subseteq RowIds /\ IsFiniteSet(DOMAIN rows) /\ rows \in [DOMAIN rows -> RowData]
  /\ time \in Nat /\ inserted \in Nat
  /\ \A x \in DOMAIN rows : rows[x].seq \in 1..inserted
  /\ \A x, y \in DOMAIN rows : rows[x].seq = rows[y].seq => x = y
  /\ list = "versions" => Cardinality(DOMAIN rows) = inserted
  /\ steady \subseteq DOMAIN rows

LEMMA KeyOf ==
  ASSUME NEW x
  PROVE  /\ list \in {"scans newest", "versions"} => Paged!Key(x) = <<-rows[x].seq>>
         /\ list = "scans oldest" => Paged!Key(x) = <<rows[x].seq>>
         /\ list = "violations oldest" => Paged!Key(x) = <<rows[x].at, x>>
         /\ list = "violations severity" => Paged!Key(x) = <<-rows[x].rank, -rows[x].at, -x>>
         /\ list = "violations repository" => Paged!Key(x) = <<rows[x].rank, -rows[x].at, -x>>
         /\ list = "audit newest" => Paged!Key(x) = <<-rows[x].at, -rows[x].seq>>
         /\ list = "audit oldest" => Paged!Key(x) = <<rows[x].at, rows[x].seq>>
         /\ list \in {"violations newest", "notifications", "deliveries"} => Paged!Key(x) = <<-rows[x].at, -x>>
<1>1. list \in {"scans newest", "versions"} => Paged!Key(x) = <<-rows[x].seq>>
  BY DEF Paged!Key
<1>2. list = "scans oldest" => Paged!Key(x) = <<rows[x].seq>>
  BY DEF Paged!Key
<1>3. list = "violations oldest" => Paged!Key(x) = <<rows[x].at, x>>
  BY DEF Paged!Key
<1>4. list = "violations severity" => Paged!Key(x) = <<-rows[x].rank, -rows[x].at, -x>>
  BY DEF Paged!Key
<1>5. list = "violations repository" => Paged!Key(x) = <<rows[x].rank, -rows[x].at, -x>>
  BY DEF Paged!Key
<1>6. list = "audit newest" => Paged!Key(x) = <<-rows[x].at, -rows[x].seq>>
  BY DEF Paged!Key
<1>7. list = "audit oldest" => Paged!Key(x) = <<rows[x].at, rows[x].seq>>
  BY DEF Paged!Key
<1>8. list \in {"violations newest", "notifications", "deliveries"} => Paged!Key(x) = <<-rows[x].at, -x>>
  BY DEF Paged!Key
<1> QED BY <1>1, <1>2, <1>3, <1>4, <1>5, <1>6, <1>7, <1>8

LEMMA RowNumbers ==
  ASSUME RowsInv, NEW x \in DOMAIN rows
  PROVE  /\ rows[x].at \in Int /\ rows[x].seq \in Int /\ rows[x].rank \in Int /\ x \in Int
         /\ -rows[x].at \in Int /\ -rows[x].seq \in Int /\ -rows[x].rank \in Int /\ -x \in Int
<1>1. rows[x] \in RowData /\ x \in Nat
  BY ListedRows DEF RowsInv
<1>2. rows[x].at \in Nat /\ rows[x].seq \in Nat /\ rows[x].rank \in Nat
  BY <1>1 DEF RowData
<1>3. \A n \in Nat : n \in Int /\ -n \in Int
  OBVIOUS
<1> QED BY <1>1, <1>2, <1>3

LEMMA TupleColumns ==
  /\ \A a \in Int : <<a>> \in Columns(1)
  /\ \A a, b \in Int : <<a, b>> \in Columns(2)
  /\ \A a, b, c \in Int : <<a, b, c>> \in Columns(3)
<1>1. \A a \in Int : <<a>> \in Columns(1)
  BY DEF Columns
<1>2. \A a, b \in Int : <<a, b>> \in Columns(2)
  BY DEF Columns
<1>3. \A a, b, c \in Int : <<a, b, c>> \in Columns(3)
  BY DEF Columns
<1> QED BY <1>1, <1>2, <1>3

LEMMA KeyColumns ==
  ASSUME RowsInv, NEW x \in DOMAIN rows
  PROVE  Paged!Key(x) \in Columns(Width)
<1> DEFINE a == rows[x].at
           s == rows[x].seq
           r == rows[x].rank
<1>0. a \in Int /\ s \in Int /\ r \in Int /\ x \in Int /\ -a \in Int /\ -s \in Int /\ -r \in Int /\ -x \in Int
  BY RowNumbers
<1>1. /\ list \in {"scans newest", "versions"} => Paged!Key(x) = <<-s>>
      /\ list = "scans oldest" => Paged!Key(x) = <<s>>
      /\ list = "violations oldest" => Paged!Key(x) = <<a, x>>
      /\ list = "violations severity" => Paged!Key(x) = <<-r, -a, -x>>
      /\ list = "violations repository" => Paged!Key(x) = <<r, -a, -x>>
      /\ list = "audit newest" => Paged!Key(x) = <<-a, -s>>
      /\ list = "audit oldest" => Paged!Key(x) = <<a, s>>
      /\ list \in {"violations newest", "notifications", "deliveries"} => Paged!Key(x) = <<-a, -x>>
  BY KeyOf
<1> HIDE DEF a, s, r
<1>2. <<-s>> \in Columns(1) /\ <<s>> \in Columns(1)
  BY <1>0, Zenon, TupleColumns
<1>3. /\ <<a, x>> \in Columns(2) /\ <<-a, -s>> \in Columns(2) /\ <<a, s>> \in Columns(2)
      /\ <<-a, -x>> \in Columns(2)
  BY <1>0, Zenon, TupleColumns
<1>4. <<-r, -a, -x>> \in Columns(3) /\ <<r, -a, -x>> \in Columns(3)
  BY <1>0, Zenon, TupleColumns
<1>5. CASE list \in {"scans newest", "scans oldest", "versions"}
  BY <1>1, <1>2, <1>5 DEF Width
<1>6. CASE list \in RankedLists
  BY <1>1, <1>4, <1>6 DEF Width, RankedLists
<1>7. CASE list \in {"violations newest", "violations oldest", "audit newest", "audit oldest",
                     "notifications", "deliveries"}
  BY <1>1, <1>3, <1>7 DEF Width, RankedLists
<1> QED BY <1>5, <1>6, <1>7 DEF RowsInv, PagedKeysets, Paged!KeysetLists, RankedLists

LEMMA FirstOfOne == ASSUME NEW k, NEW a, k = <<a>> PROVE k[1] = a
OBVIOUS

LEMMA SecondOfTwo == ASSUME NEW k, NEW a, NEW b, k = <<a, b>> PROVE k[2] = b
OBVIOUS

LEMMA ThirdOfThree == ASSUME NEW k, NEW a, NEW b, NEW c, k = <<a, b, c>> PROVE k[3] = c
OBVIOUS

LEMMA LastColumn ==
  ASSUME NEW z
  PROVE  /\ list \in {"scans newest", "versions"} => Paged!Key(z)[1] = -rows[z].seq
         /\ list = "scans oldest" => Paged!Key(z)[1] = rows[z].seq
         /\ list = "violations severity" => Paged!Key(z)[3] = -z
         /\ list = "violations repository" => Paged!Key(z)[3] = -z
         /\ list \in {"violations newest", "notifications", "deliveries"} => Paged!Key(z)[2] = -z
         /\ list = "violations oldest" => Paged!Key(z)[2] = z
         /\ list = "audit newest" => Paged!Key(z)[2] = -rows[z].seq
         /\ list = "audit oldest" => Paged!Key(z)[2] = rows[z].seq
<1>1. ASSUME list \in {"scans newest", "versions"}
      PROVE  Paged!Key(z)[1] = -rows[z].seq
  <2>1. Paged!Key(z) = <<-rows[z].seq>>
    BY <1>1, Zenon, KeyOf
  <2> QED BY Zenon, <2>1, FirstOfOne
<1>2. ASSUME list = "scans oldest"
      PROVE  Paged!Key(z)[1] = rows[z].seq
  <2>1. Paged!Key(z) = <<rows[z].seq>>
    BY <1>2, Zenon, KeyOf
  <2> QED BY Zenon, <2>1, FirstOfOne
<1>3. ASSUME list = "violations severity"
      PROVE  Paged!Key(z)[3] = -z
  <2>1. Paged!Key(z) = <<-rows[z].rank, -rows[z].at, -z>>
    BY <1>3, Zenon, KeyOf
  <2> QED BY Zenon, <2>1, ThirdOfThree
<1>4. ASSUME list = "violations repository"
      PROVE  Paged!Key(z)[3] = -z
  <2>1. Paged!Key(z) = <<rows[z].rank, -rows[z].at, -z>>
    BY <1>4, Zenon, KeyOf
  <2> QED BY Zenon, <2>1, ThirdOfThree
<1>5. ASSUME list \in {"violations newest", "notifications", "deliveries"}
      PROVE  Paged!Key(z)[2] = -z
  <2>1. Paged!Key(z) = <<-rows[z].at, -z>>
    BY <1>5, Zenon, KeyOf
  <2> QED BY Zenon, <2>1, SecondOfTwo
<1>6. ASSUME list = "violations oldest"
      PROVE  Paged!Key(z)[2] = z
  <2>1. Paged!Key(z) = <<rows[z].at, z>>
    BY <1>6, Zenon, KeyOf
  <2> QED BY Zenon, <2>1, SecondOfTwo
<1>7. ASSUME list = "audit newest"
      PROVE  Paged!Key(z)[2] = -rows[z].seq
  <2>1. Paged!Key(z) = <<-rows[z].at, -rows[z].seq>>
    BY <1>7, Zenon, KeyOf
  <2> QED BY Zenon, <2>1, SecondOfTwo
<1>8. ASSUME list = "audit oldest"
      PROVE  Paged!Key(z)[2] = rows[z].seq
  <2>1. Paged!Key(z) = <<rows[z].at, rows[z].seq>>
    BY <1>8, Zenon, KeyOf
  <2> QED BY Zenon, <2>1, SecondOfTwo
<1> QED BY <1>1, <1>2, <1>3, <1>4, <1>5, <1>6, <1>7, <1>8

LEMMA KeysDiffer ==
  ASSUME RowsInv, NEW x \in DOMAIN rows, NEW y \in DOMAIN rows, Paged!Key(x) = Paged!Key(y)
  PROVE  x = y
<1>1. \A m, n \in Int : -m = -n => m = n
  OBVIOUS
<1>2. rows[x].seq \in Int /\ rows[y].seq \in Int /\ x \in Int /\ y \in Int
  BY RowNumbers
<1>3. CASE list \in {"scans newest", "scans oldest", "versions", "audit newest", "audit oldest"}
  <2>1. rows[x].seq = rows[y].seq \/ -rows[x].seq = -rows[y].seq
    BY <1>3, LastColumn
  <2> QED BY <1>1, <1>2, <2>1 DEF RowsInv
<1>4. CASE list \in RankedLists \cup {"violations newest", "violations oldest", "notifications", "deliveries"}
  <2>1. x = y \/ -x = -y
    BY <1>4, LastColumn DEF RankedLists
  <2> QED BY <1>1, <1>2, <2>1
<1> QED BY <1>3, <1>4 DEF RowsInv, PagedKeysets, Paged!KeysetLists, RankedLists

\* A list is in its order.
Arranged(s, n, S) ==
  /\ s \in [1..n -> S] /\ \A x \in S : \E i \in 1..n : s[i] = x
  /\ \A i, j \in 1..n : i < j => Paged!Precedes(Paged!Key(s[i]), Paged!Key(s[j]))

LEMMA WidthType == Width \in 1..3
BY DEF Width

LEMMA RowsOrdered ==
  ASSUME RowsInv, NEW S \in SUBSET DOMAIN rows
  PROVE  /\ \A x \in S : ~Paged!Precedes(Paged!Key(x), Paged!Key(x))
         /\ \A x, y, z \in S :
              Paged!Precedes(Paged!Key(x), Paged!Key(y)) /\ Paged!Precedes(Paged!Key(y), Paged!Key(z))
                => Paged!Precedes(Paged!Key(x), Paged!Key(z))
         /\ \A x, y \in S :
              x = y \/ Paged!Precedes(Paged!Key(x), Paged!Key(y)) \/ Paged!Precedes(Paged!Key(y), Paged!Key(x))
<1>1. \A x \in S : Paged!Key(x) \in Columns(Width)
  BY KeyColumns
<1>2. \A x, y \in S : Paged!Key(x) = Paged!Key(y) => x = y
  BY KeysDiffer
<1>3. \A k, p, q \in Columns(Width) :
        /\ ~Paged!Precedes(k, k)
        /\ Paged!Precedes(k, p) /\ Paged!Precedes(p, q) => Paged!Precedes(k, q)
        /\ k = p \/ Paged!Precedes(k, p) \/ Paged!Precedes(p, k)
  BY WidthType, ColumnsOrdered
<1> HIDE DEF Columns, Width
<1> QED BY <1>1, <1>2, <1>3

LEMMA Sorts ==
  ASSUME RowsInv, NEW S \in SUBSET DOMAIN rows
  PROVE  /\ IsFiniteSet(S) /\ Cardinality(S) \in Nat
         /\ Arranged(Paged!Sorted(S), Cardinality(S), S)
<1> DEFINE before == {p \in S \X S : Paged!Precedes(Paged!Key(p[1]), Paged!Key(p[2]))}
<1>1. IsFiniteSet(S)
  BY FS_Subset DEF RowsInv
<1>2. \A x, y \in S : <<x, y>> \in before <=> Paged!Precedes(Paged!Key(x), Paged!Key(y))
  OBVIOUS
<1> HIDE DEF before
<1>3. Ordering(before, S)
  BY <1>2, RowsOrdered DEF Ordering
<1>4. PICK n \in Nat : \E s : InOrder(s, n, before, S)
  BY <1>1, <1>3, OrderExists
<1>5. PICK s : InOrder(s, n, before, S)
  BY <1>4
<1>6. \A i \in 1..n : s[i] \in S
  BY <1>5 DEF InOrder
<1>7. Arranged(s, n, S)
  BY <1>2, <1>5, <1>6 DEF InOrder, Arranged
<1>8. \A i, j \in 1..n : s[i] = s[j] => i = j
  <2>1. ASSUME NEW i \in 1..n, NEW j \in 1..n, s[i] = s[j], i # j PROVE FALSE
    <3>1. i < j \/ j < i
      BY <2>1
    <3>2. <<s[i], s[i]>> \in before
      BY <1>5, <2>1, <3>1 DEF InOrder
    <3> QED BY <1>3, <1>6, <3>2 DEF Ordering
  <2> QED BY <2>1
<1>9. s \in Bijection(1..n, S)
  BY <1>5, <1>8 DEF InOrder, Bijection, Injection, Surjection, IsInjective
<1>10. Cardinality(S) = n
  BY <1>9, FS_CountingElements DEF ExistsBijection
<1>11. Paged!Cardinality(S) = Cardinality(S)
  BY Zenon DEF Paged!Cardinality, Paged!IsFiniteSet, Cardinality, IsFiniteSet
<1>12. \A t : t \in Paged!Bijection(1..n, S) <=>
              t \in [1..n -> S] /\ (\A i, j \in 1..n : t[i] = t[j] => i = j)
              /\ \A x \in S : \E i \in 1..n : t[i] = x
  BY DEF Paged!Bijection, Paged!Injection, Paged!Surjection, Paged!IsInjective
<1> DEFINE t == Paged!Sorted(S)
<1>13. /\ t \in Paged!Bijection(1..n, S)
       /\ \A i, j \in DOMAIN t : i < j => Paged!Precedes(Paged!Key(t[i]), Paged!Key(t[j]))
  <2>1. /\ s \in Paged!Bijection(1..n, S)
        /\ \A i, j \in DOMAIN s : i < j => Paged!Precedes(Paged!Key(s[i]), Paged!Key(s[j]))
    BY <1>7, <1>8, <1>12 DEF Arranged
  <2> QED BY <1>10, <1>11, <2>1 DEF Paged!Sorted
<1> HIDE DEF t
<1>14. Arranged(t, n, S)
  BY <1>12, <1>13 DEF Arranged
<1> QED BY <1>1, <1>10, <1>14 DEF t

\* Numbers up to n that fall, n of them, are n and all those below.
LEMMA LargestIndex ==
  ASSUME NEW n \in Nat, NEW S \in SUBSET (1..n), S # {}
  PROVE  \E m \in S : \A k \in S : k <= m
<1> DEFINE before == {p \in S \X S : p[1] < p[2]}
<1>1. IsFiniteSet(S)
  <2>1. IsFiniteSet(1..n)
    BY FS_Interval
  <2> QED BY <2>1, FS_Subset
<1>2. \A x \in S : x \in Int
  OBVIOUS
<1>3. \A x, y \in S : <<x, y>> \in before <=> x < y
  OBVIOUS
<1> HIDE DEF before
<1>4. Ordering(before, S)
  BY <1>2, <1>3 DEF Ordering
<1>5. PICK m \in S : \A k \in S : k = m \/ <<k, m>> \in before
  BY <1>1, <1>4, LastMember
<1>6. \A k \in S : k = m \/ k < m
  BY <1>3, <1>5
<1>7. ASSUME NEW k \in S PROVE k <= m
  <2>1. k \in Int /\ m \in Int /\ (k = m \/ k < m)
    BY <1>2, <1>6
  <2> QED BY <2>1
<1> QED BY <1>7

Falling(f, n) == f \in [1..n -> 1..n] /\ \A i, j \in 1..n : i < j => f[i] > f[j]

LEMMA FallsSlowly ==
  ASSUME NEW n \in Nat, NEW f, Falling(f, n), NEW i \in 1..n
  PROVE  f[i] >= n + 1 - i
<1>0. \A j \in 1..n : f[j] \in 1..n
  BY DEF Falling
<1> DEFINE Bad == {j \in 1..n : f[j] < n + 1 - j}
<1> SUFFICES ASSUME i \in Bad PROVE FALSE
  BY <1>0
<1>1. PICK m \in Bad : \A k \in Bad : k <= m
  <2> HIDE DEF Bad
  <2>1. Bad \in SUBSET (1..n) /\ Bad # {}
    BY DEF Bad
  <2> QED BY <2>1, LargestIndex
<1>2. m \in 1..n /\ f[m] < n + 1 - m /\ \A j \in 1..n : f[j] \in 1..n
  BY DEF Falling
<1>3. CASE m = n
  BY <1>2, <1>3
<1>4. CASE m # n
  <2>1. m + 1 \in 1..n /\ m < m + 1
    BY <1>2, <1>4
  <2>2. f[m] > f[m + 1]
    BY <1>2, <2>1 DEF Falling
  <2>3. m + 1 \notin Bad
    <3> HIDE DEF Bad
    <3> QED BY <1>1, <1>2
  <2>4. f[m + 1] >= n + 1 - (m + 1)
    BY <1>0, <2>1, <2>3
  <2> QED BY <1>2, <2>1, <2>2, <2>4
<1> QED BY <1>3, <1>4

LEMMA FallsByOne ==
  ASSUME NEW n \in Nat, NEW f, Falling(f, n), NEW i \in 1..n
  PROVE  f[i] = n + 1 - i
<1> DEFINE g == [j \in 1..n |-> n + 1 - f[n + 1 - j]]
<1>1. \A j \in 1..n : f[j] \in 1..n /\ n + 1 - j \in 1..n
  BY DEF Falling
<1>2. \A j \in 1..n : n + 1 - f[n + 1 - j] \in 1..n
  BY <1>1
<1>3. \A j, k \in 1..n : j < k => n + 1 - f[n + 1 - j] > n + 1 - f[n + 1 - k]
  <2>1. ASSUME NEW j \in 1..n, NEW k \in 1..n, j < k
        PROVE  n + 1 - f[n + 1 - j] > n + 1 - f[n + 1 - k]
    <3>1. n + 1 - j \in 1..n /\ n + 1 - k \in 1..n /\ n + 1 - k < n + 1 - j
      BY <2>1
    <3>2. f[n + 1 - k] > f[n + 1 - j]
      BY <3>1 DEF Falling
    <3> QED BY <1>1, <3>1, <3>2
  <2> QED BY <2>1
<1>4. Falling(g, n)
  BY <1>2, <1>3 DEF Falling
<1>5. g[n + 1 - i] = n + 1 - f[i]
  <2>1. n + 1 - i \in 1..n /\ n + 1 - (n + 1 - i) = i
    OBVIOUS
  <2> QED BY <2>1
<1>6. n + 1 - f[i] >= n + 1 - (n + 1 - i)
  <2> HIDE DEF g
  <2> QED BY <1>1, <1>4, <1>5, FallsSlowly
<1>7. f[i] >= n + 1 - i
  BY FallsSlowly
<1> QED BY <1>1, <1>6, <1>7

-----------------------------------------------------------------------------
\* What the reader has got

Shown(s, id) == \E i \in 1..Len(s) : s[i] = id
ShownOnce(s, id) == \E i \in 1..Len(s) : s[i] = id /\ \A j \in 1..Len(s) : s[j] = id => j = i

LEMMA ShownByNext ==
  ASSUME NEW s \in Seq(Nat), NEW t \in Seq(Nat), NEW u, u = s \o t, NEW id
  PROVE  /\ Shown(u, id) <=> Shown(s, id) \/ Shown(t, id)
         /\ ShownOnce(s, id) /\ ~Shown(t, id) => ShownOnce(u, id)
         /\ ~Shown(s, id) /\ ShownOnce(t, id) => ShownOnce(u, id)
<1>1. /\ Len(u) = Len(s) + Len(t) /\ Len(s) \in Nat /\ Len(t) \in Nat
      /\ \A i \in 1..Len(s) : u[i] = s[i]
      /\ \A i \in 1..Len(t) : u[Len(s) + i] = t[i]
  OBVIOUS
<1>2. /\ \A i \in 1..Len(s) : i \in 1..Len(u)
      /\ \A i \in 1..Len(t) : Len(s) + i \in 1..Len(u)
  BY <1>1
<1>3. \A i \in 1..Len(u) : i \in 1..Len(s) \/ \E j \in 1..Len(t) : i = Len(s) + j
  <2>1. ASSUME NEW i \in 1..Len(u), i \notin 1..Len(s) PROVE \E j \in 1..Len(t) : i = Len(s) + j
    <3>1. i - Len(s) \in 1..Len(t) /\ i = Len(s) + (i - Len(s))
      BY <1>1, <2>1
    <3> QED BY <3>1
  <2> QED BY <2>1
<1>4. Shown(u, id) <=> Shown(s, id) \/ Shown(t, id)
  <2>1. Shown(u, id) => Shown(s, id) \/ Shown(t, id)
    BY <1>1, <1>3 DEF Shown
  <2>2. Shown(s, id) \/ Shown(t, id) => Shown(u, id)
    BY <1>1, <1>2 DEF Shown
  <2> QED BY <2>1, <2>2
<1>5. ASSUME ShownOnce(s, id), ~Shown(t, id) PROVE ShownOnce(u, id)
  <2>1. PICK i \in 1..Len(s) : s[i] = id /\ \A j \in 1..Len(s) : s[j] = id => j = i
    BY <1>5 DEF ShownOnce
  <2>2. \A j \in 1..Len(u) : u[j] = id => j = i
    BY <1>1, <1>3, <1>5, <2>1 DEF Shown
  <2> QED BY <1>1, <1>2, <2>1, <2>2 DEF ShownOnce
<1>6. ASSUME ~Shown(s, id), ShownOnce(t, id) PROVE ShownOnce(u, id)
  <2>1. PICK i \in 1..Len(t) : t[i] = id /\ \A j \in 1..Len(t) : t[j] = id => j = i
    BY <1>6 DEF ShownOnce
  <2>2. ASSUME NEW j \in 1..Len(u), u[j] = id PROVE j = Len(s) + i
    <3>1. j \notin 1..Len(s)
      BY <1>1, <1>6, <2>2 DEF Shown
    <3>2. PICK k \in 1..Len(t) : j = Len(s) + k
      BY <1>3, <3>1
    <3>3. t[k] = id
      BY <1>1, <2>2, <3>2
    <3> QED BY <2>1, <3>2, <3>3
  <2> QED BY <1>1, <1>2, <2>1, <2>2 DEF ShownOnce
<1> QED BY <1>4, <1>5, <1>6

\* The property counts what was shown.
LEMMA TimesShown ==
  ASSUME reader.seen \in Seq(Nat), NEW id
  PROVE  /\ Shown(reader.seen, id) => Paged!Times(id) >= 1
         /\ ShownOnce(reader.seen, id) => Paged!Times(id) = 1
         /\ ~Shown(reader.seen, id) => Paged!Times(id) = 0
<1> DEFINE I == {i \in DOMAIN reader.seen : reader.seen[i] = id}
<1>1. DOMAIN reader.seen = 1..Len(reader.seen) /\ Len(reader.seen) \in Nat
  OBVIOUS
<1>2. Paged!Times(id) = Cardinality(I)
  <2>1. Paged!Cardinality(I) = Cardinality(I)
    BY Zenon DEF Paged!Cardinality, Paged!IsFiniteSet, Cardinality, IsFiniteSet
  <2> QED BY <2>1 DEF Paged!Times
<1>3. IsFiniteSet(I)
  <2>1. IsFiniteSet(1..Len(reader.seen))
    BY <1>1, FS_Interval
  <2> QED BY <1>1, <2>1, FS_Subset
<1>4. ASSUME Shown(reader.seen, id) PROVE Cardinality(I) >= 1
  <2>1. I # {}
    BY <1>1, <1>4 DEF Shown
  <2> HIDE DEF I
  <2>2. Cardinality(I) \in Nat /\ Cardinality(I) # 0
    BY <1>3, <2>1, FS_CardinalityType, FS_EmptySet
  <2> QED BY <2>2
<1>5. ASSUME ShownOnce(reader.seen, id) PROVE Cardinality(I) = 1
  <2>1. PICK i \in 1..Len(reader.seen) :
          reader.seen[i] = id /\ \A j \in 1..Len(reader.seen) : reader.seen[j] = id => j = i
    BY <1>5 DEF ShownOnce
  <2>2. I = {i}
    BY <1>1, <2>1
  <2> HIDE DEF I
  <2> QED BY <2>2, FS_Singleton
<1>6. ASSUME ~Shown(reader.seen, id) PROVE Cardinality(I) = 0
  <2>1. I = {}
    BY <1>1, <1>6 DEF Shown
  <2> HIDE DEF I
  <2> QED BY <2>1, FS_EmptySet
<1> QED BY <1>2, <1>4, <1>5, <1>6

\* A part of a list
LEMMA PartOfList ==
  ASSUME NEW n \in Nat, NEW s \in [1..n -> Nat], NEW a \in Nat, NEW b \in 0..n, a <= b
  PROVE  LET t == SubSeq(s, a + 1, b)
         IN t \in Seq(Nat) /\ Len(t) = b - a /\ \A i \in 1..(b - a) : t[i] = s[a + i]
<1>1. s \in Seq(Nat) /\ Len(s) = n
  OBVIOUS
<1>2. SubSeq(s, a + 1, b) = [i \in 1..(b - a) |-> s[a + i]]
  BY <1>1
<1>3. \A i \in 1..(b - a) : s[a + i] \in Nat
  BY <1>1
<1> QED BY <1>2, <1>3

\* While the reader goes on with a cursor, the rows up to it that stay have been seen once
\* and the others not; with an offset, so have the rows that are older than as many others.
Cursors == {<<>>} \cup Columns(1) \cup Columns(2) \cup Columns(3)
PageReader == [position: Cursors, offset: Nat, seen: Seq(Nat), done: BOOLEAN]

\* The rows up to the cursor, and those that at most "offset" rows are newer than
Reached(id) == reader.done \/ ~Paged!Precedes(reader.position, Paged!Key(id))
Behind(id) == reader.done \/ rows[id].seq > inserted - reader.offset

Visited(id) ==
  IF list = "versions" THEN Behind(id) => Shown(reader.seen, id)
  ELSE IF Reached(id) THEN ShownOnce(reader.seen, id) ELSE ~Shown(reader.seen, id)

PlaceInv ==
  /\ reader \in PageReader
  /\ IF reader = Paged!Start THEN steady = {}
     ELSE /\ list # "versions" /\ ~reader.done => reader.position \in Columns(Width)
          /\ \A id \in steady : Visited(id)

ListInv == RowsInv /\ PlaceInv

LEMMA ListInit == Paged!Init => ListInv
<1> SUFFICES ASSUME Paged!Init PROVE ListInv
  OBVIOUS
<1>1. Paged!Start \in PageReader
  BY DEF Paged!Start, PageReader, Cursors
<1>2. rows = <<>> /\ time = 1 /\ inserted = 0 /\ steady = {} /\ reader = Paged!Start
  BY DEF Paged!Init
<1>3. list \in PagedKeysets \cup {"versions"}
  BY DEF Paged!Init, PagedKeysets, Paged!KeysetLists, RankedLists
<1>4. DOMAIN rows = {}
  BY <1>2
<1>5. IsFiniteSet({}) /\ Cardinality({}) = 0
  BY FS_EmptySet
<1>6. rows \in [DOMAIN rows -> RowData]
  BY <1>4
<1>7. RowsInv
  BY <1>2, <1>3, <1>4, <1>5, <1>6 DEF RowsInv
<1> QED BY <1>1, <1>2, <1>7 DEF ListInv, PlaceInv

\* A key changes with its row only.
LEMMA SameKey ==
  ASSUME NEW id, list' = list, rows'[id] = rows[id]
  PROVE  Paged!Key(id)' = Paged!Key(id)
BY DEF Paged!Key

FirstOf(page, s, m) == page = SubSeq(s, 1, m)

\* The page that starts after a cursor, or at the beginning
LEMMA CursorPage ==
  ASSUME ListInv, ~reader.done, list # "versions",
         NEW n \in Nat, NEW s, NEW F \in SUBSET DOMAIN rows, Arranged(s, n, F),
         F = {id \in DOMAIN rows : reader.position = <<>> \/ Paged!Precedes(reader.position, Paged!Key(id))},
         NEW m \in 0..n, IF n < PageRows THEN m = n ELSE m = PageRows,
         NEW page, FirstOf(page, s, m),
         NEW staying \in SUBSET DOMAIN rows, reader # Paged!Start => staying \subseteq steady,
         NEW r, r \in PageReader, r.seen = reader.seen \o page, r.done = (n <= PageRows),
         n > PageRows => r.position = Paged!Key(page[PageRows]),
         reader = Paged!Start => reader.seen = <<>> /\ reader.position = <<>>
  PROVE  /\ n > PageRows => r.position \in Columns(Width)
         /\ \A id \in staying :
              IF r.done \/ ~Paged!Precedes(r.position, Paged!Key(id))
              THEN ShownOnce(r.seen, id) ELSE ~Shown(r.seen, id)
<1>0. PageRows \in Nat \ {0} /\ n \in Nat /\ m \in Nat
  BY ListedRows
<1>1. /\ page \in Seq(Nat) /\ Len(page) = m /\ \A i \in 1..m : page[i] = s[i]
  <2>1. s \in [1..n -> Nat]
    BY ListedRows DEF Arranged, ListInv, RowsInv
  <2>2. 0 \in Nat /\ 0 <= m /\ 0 + 1 = 1 /\ m - 0 = m
    BY <1>0
  <2>3. \A i \in 1..m : 0 + i = i
    BY <1>0
  <2>4. LET t == SubSeq(s, 0 + 1, m)
        IN t \in Seq(Nat) /\ Len(t) = m - 0 /\ \A i \in 1..(m - 0) : t[i] = s[0 + i]
    BY <2>1, <2>2, PartOfList
  <2> QED BY <2>2, <2>3, <2>4 DEF FirstOf
<1>2. \A i \in 1..n : s[i] \in F
  BY DEF Arranged
<1>3. reader.seen \in Seq(Nat)
  BY DEF ListInv, PlaceInv, PageReader
<1>4. n > PageRows => m = PageRows /\ PageRows \in 1..n /\ PageRows \in 1..m /\ page[PageRows] = s[PageRows]
  BY <1>0, <1>1
<1>5. n <= PageRows => m = n
  BY <1>0
<1>6. \A x \in DOMAIN rows : Paged!Key(x) \in Columns(Width)
  BY KeyColumns DEF ListInv
<1>7. \A k, p, q \in Columns(Width) :
        /\ ~Paged!Precedes(k, k)
        /\ Paged!Precedes(k, p) /\ Paged!Precedes(p, q) => Paged!Precedes(k, q)
  BY WidthType, ColumnsOrdered
<1>8. \A i, j \in 1..n : s[i] = s[j] => i = j
  <2>1. ASSUME NEW i \in 1..n, NEW j \in 1..n, s[i] = s[j], i # j PROVE FALSE
    <3>1. i < j \/ j < i
      BY <2>1
    <3>2. Paged!Precedes(Paged!Key(s[i]), Paged!Key(s[i]))
      BY <2>1, <3>1 DEF Arranged
    <3> QED BY <1>2, <1>6, <1>7, <3>2
  <2> QED BY <2>1
<1>9. n > PageRows => r.position \in Columns(Width)
  BY <1>2, <1>4, <1>6
<1>10. reader.position # <<>> => reader.position \in Columns(Width) /\ reader # Paged!Start
  BY DEF ListInv, PlaceInv
<1>11. reader.position = <<>> => reader = Paged!Start
  <2>1. <<>> \notin Columns(Width)
    <3>1. \A k \in Columns(Width) : 1 \in DOMAIN k
      BY WidthType DEF Columns
    <3>2. 1 \notin DOMAIN <<>>
      OBVIOUS
    <3> QED BY <3>1, <3>2
  <2> QED BY <2>1 DEF ListInv, PlaceInv
<1>12. \A id :
         /\ Shown(r.seen, id) <=> Shown(reader.seen, id) \/ Shown(page, id)
         /\ ShownOnce(reader.seen, id) /\ ~Shown(page, id) => ShownOnce(r.seen, id)
         /\ ~Shown(reader.seen, id) /\ ShownOnce(page, id) => ShownOnce(r.seen, id)
  <2>1. page \in Seq(Nat)
    BY <1>1
  <2> QED BY <1>3, <2>1, ShownByNext
<1>13. (n > PageRows => ~r.done) /\ (r.done \/ n > PageRows)
  <2>1. n <= PageRows \/ n > PageRows
    BY <1>0
  <2>2. ~(n <= PageRows /\ n > PageRows)
    BY <1>0
  <2> QED BY <2>1, <2>2
<1>14. ASSUME NEW id \in staying, id \notin F
       PROVE  IF r.done \/ ~Paged!Precedes(r.position, Paged!Key(id))
              THEN ShownOnce(r.seen, id) ELSE ~Shown(r.seen, id)
  <2>1. reader.position # <<>> /\ ~Paged!Precedes(reader.position, Paged!Key(id))
    BY <1>14
  <2>2. ShownOnce(reader.seen, id)
    BY <1>10, <1>14, <2>1 DEF ListInv, PlaceInv, Visited, Reached
  <2>3. ~Shown(page, id)
    <3>1. \A i \in 1..m : i \in 1..n
      BY <1>0
    <3>2. \A i \in 1..m : page[i] \in F
      BY <1>1, <1>2, <3>1
    <3> QED BY <1>1, <1>14, <3>2 DEF Shown
  <2>4. ShownOnce(r.seen, id)
    BY <1>12, <2>2, <2>3
  <2>5. ASSUME n > PageRows PROVE ~Paged!Precedes(r.position, Paged!Key(id))
    <3>1. Paged!Precedes(reader.position, r.position)
      BY <1>2, <1>4, <2>1, <2>5
    <3>2. id \in DOMAIN rows
      BY <1>14
    <3> QED BY <1>6, <1>7, <1>9, <1>10, <2>1, <2>5, <3>1, <3>2
  <2> QED BY <1>13, <2>4, <2>5
<1>15. ASSUME NEW id \in staying, id \in F
       PROVE  IF r.done \/ ~Paged!Precedes(r.position, Paged!Key(id))
              THEN ShownOnce(r.seen, id) ELSE ~Shown(r.seen, id)
  <2>1. ~Shown(reader.seen, id)
    <3>1. CASE reader = Paged!Start
      BY <3>1 DEF Shown
    <3>2. CASE reader # Paged!Start
      BY <1>11, <1>15, <3>2 DEF ListInv, PlaceInv, Visited, Reached
    <3> QED BY <3>1, <3>2
  <2>2. PICK j \in 1..n : s[j] = id
    BY <1>15 DEF Arranged
  <2>3. CASE j <= m
    <3>1. j \in 1..m
      BY <1>0, <2>2, <2>3
    <3>2. ShownOnce(page, id)
      <4>1. \A i \in 1..m : i \in 1..n
        BY <1>0
      <4>2. page[j] = id /\ \A i \in 1..m : page[i] = id => i = j
        BY <1>1, <1>8, <2>2, <3>1, <4>1
      <4> QED BY <1>1, <3>1, <4>2 DEF ShownOnce
    <3>3. ShownOnce(r.seen, id)
      BY <1>12, <2>1, <3>2
    <3>4. ASSUME n > PageRows PROVE ~Paged!Precedes(r.position, Paged!Key(id))
      <4>1. r.position = Paged!Key(s[PageRows])
        BY <1>4, <3>4
      <4>2. CASE j = PageRows
        BY <1>2, <1>6, <1>7, <2>2, <4>1, <4>2
      <4>3. CASE j # PageRows
        <5>1. j < PageRows /\ PageRows \in 1..n
          BY <1>0, <1>4, <2>3, <3>4, <4>3
        <5>2. Paged!Precedes(Paged!Key(id), r.position)
          BY <2>2, <4>1, <5>1 DEF Arranged
        <5>3. id \in DOMAIN rows
          BY <1>15
        <5> QED BY <1>6, <1>7, <1>9, <3>4, <5>2, <5>3
      <4> QED BY <4>2, <4>3
    <3> QED BY <1>13, <3>3, <3>4
  <2>4. CASE j > m
    <3>1. n > PageRows /\ m = PageRows
      BY <1>0, <1>5, <2>2, <2>4
    <3>2. ~Shown(page, id)
      <4>1. \A i \in 1..m : i \in 1..n /\ i # j
        BY <1>0, <2>4
      <4> QED BY <1>1, <1>8, <2>2, <4>1 DEF Shown
    <3>3. ~Shown(r.seen, id)
      BY <1>12, <2>1, <3>2
    <3>4. Paged!Precedes(r.position, Paged!Key(id))
      BY <1>4, <2>2, <2>4, <3>1 DEF Arranged
    <3>5. ~r.done
      BY <1>13, <3>1
    <3> QED BY <3>3, <3>4, <3>5
  <2> QED BY <1>0, <2>2, <2>3, <2>4
<1> QED BY <1>9, <1>14, <1>15

\* What a page changes: rows stay, and from the first page on fewer rows stay unwritten.
LEMMA ReadChanges ==
  ASSUME ListInv, Paged!ReadPage
  PROVE  /\ list' = list /\ rows' = rows /\ inserted' = inserted /\ RowsInv'
         /\ ~reader.done /\ steady' \in SUBSET DOMAIN rows
         /\ reader # Paged!Start => steady' \subseteq steady
<1>1. /\ list' = list /\ rows' = rows /\ inserted' = inserted /\ time' = time /\ ~reader.done
      /\ steady' = IF Paged!Started THEN steady ELSE Paged!Present
  BY DEF Paged!ReadPage
<1>2. steady' \subseteq DOMAIN rows /\ (reader # Paged!Start => steady' \subseteq steady)
  BY <1>1 DEF ListInv, RowsInv, Paged!Started, Paged!Present
<1>3. RowsInv'
  BY <1>1, <1>2 DEF ListInv, RowsInv
<1> QED BY <1>1, <1>2, <1>3

LEMMA KeysetStep ==
  ASSUME ListInv, Paged!ReadPage, Paged!KeysetPage
  PROVE  PlaceInv'
<1> DEFINE F == {id \in DOMAIN rows :
                   reader.position = <<>> \/ Paged!Precedes(reader.position, Paged!Key(id))}
           s == Paged!Sorted(F)
           n == Cardinality(F)
           m == IF n < PageRows THEN n ELSE PageRows
           page == SubSeq(s, 1, m)
<1>0. PageRows \in Nat \ {0}
  BY ListedRows
<1>1. RowsInv /\ F \in SUBSET DOMAIN rows /\ reader \in PageReader
  BY DEF ListInv, PlaceInv
<1>2. IsFiniteSet(F) /\ n \in Nat /\ Arranged(s, n, F)
  <2> HIDE DEF F
  <2> QED BY <1>1, Sorts
<1>3. Len(s) = n /\ s \in [1..n -> Nat]
  <2>1. s \in [1..n -> F] /\ F \subseteq Nat
    BY <1>1, <1>2, ListedRows DEF Arranged, RowsInv
  <2> HIDE DEF F, s, n
  <2>2. s \in [1..n -> Nat]
    BY <2>1
  <2> QED BY <1>2, <2>2
<1>4. F = {id \in Paged!Present : reader.position = <<>> \/ Paged!After(Paged!Key(id), reader.position)}
  BY DEF Paged!Present, Paged!After
<1>5. /\ list \in PagedKeysets
      /\ reader' = [reader EXCEPT !.seen = @ \o page, !.done = (n <= PageRows),
                      !.position = IF n > PageRows THEN Paged!Key(page[PageRows]) ELSE @]
  <2> HIDE DEF F
  <2>1. /\ list \in PagedKeysets
        /\ reader' = [reader EXCEPT
             !.seen = @ \o SubSeq(s, 1, IF Len(s) < PageRows THEN Len(s) ELSE PageRows),
             !.done = (Len(s) <= PageRows),
             !.position = IF Len(s) > PageRows
                          THEN Paged!Key(SubSeq(s, 1, IF Len(s) < PageRows THEN Len(s) ELSE PageRows)[PageRows])
                          ELSE @]
    BY <1>4 DEF Paged!KeysetPage, PagedKeysets
  <2> HIDE DEF s, n
  <2> QED BY <1>3, <2>1
<1>6. m \in 0..n /\ IF n < PageRows THEN m = n ELSE m = PageRows
  BY <1>0, <1>2
<1>7. page \in Seq(Nat) /\ (n > PageRows => page[PageRows] \in DOMAIN rows)
  <2>1. 0 \in Nat /\ 0 <= m /\ 0 + 1 = 1 /\ m - 0 = m /\ \A i \in 1..m : 0 + i = i
    BY <1>0, <1>2, <1>6
  <2>2. /\ page \in Seq(Nat)
        /\ \A i \in 1..m : page[i] = s[i]
    <3>1. LET t == SubSeq(s, 0 + 1, m)
          IN t \in Seq(Nat) /\ Len(t) = m - 0 /\ \A i \in 1..(m - 0) : t[i] = s[0 + i]
      <4> HIDE DEF s, n, m
      <4> QED BY <1>2, <1>3, <1>6, <2>1, PartOfList
    <3> HIDE DEF s, n, m
    <3> QED BY <2>1, <3>1
  <2>3. n > PageRows => PageRows \in 1..m /\ PageRows \in 1..n
    BY <1>0, <1>2
  <2>4. \A i \in 1..n : s[i] \in DOMAIN rows
    BY <1>1, <1>2 DEF Arranged
  <2> HIDE DEF F, s, n, m, page
  <2> QED BY <2>2, <2>3, <2>4
<1> HIDE DEF s, n, m, page
<1>8. /\ reader'.seen = reader.seen \o page /\ reader'.done = (n <= PageRows)
      /\ n > PageRows => reader'.position = Paged!Key(page[PageRows])
      /\ n <= PageRows => reader'.position = reader.position
      /\ reader'.offset = reader.offset
  <2>1. n <= PageRows => ~(n > PageRows)
    BY <1>0, <1>2
  <2> QED BY <1>1, <1>5, <2>1 DEF PageReader
<1>9. Paged!Key(page[PageRows]) \in Columns(Width) \/ ~(n > PageRows)
  BY <1>1, <1>7, KeyColumns
<1>10. Columns(Width) \subseteq Cursors
  BY WidthType DEF Cursors
<1>11. reader' \in PageReader
  <2>1. reader.seen \o page \in Seq(Nat) /\ (n <= PageRows) \in BOOLEAN
    BY <1>1, <1>7 DEF PageReader
  <2>2. (IF n > PageRows THEN Paged!Key(page[PageRows]) ELSE reader.position) \in Cursors
    BY <1>1, <1>9, <1>10 DEF PageReader
  <2> QED BY <1>1, <1>5, <2>1, <2>2 DEF PageReader
<1>12. list # "versions"
  BY <1>5 DEF PagedKeysets, Paged!KeysetLists
<1>13. /\ list' = list /\ rows' = rows /\ inserted' = inserted /\ ~reader.done
       /\ steady' \in SUBSET DOMAIN rows /\ (reader # Paged!Start => steady' \subseteq steady)
  BY ReadChanges
<1>14. reader = Paged!Start => reader.seen = <<>> /\ reader.position = <<>>
  BY DEF Paged!Start
<1>15. FirstOf(page, s, m)
  BY DEF FirstOf, page
<1>16. /\ n > PageRows => reader'.position \in Columns(Width)
       /\ \A id \in steady' :
            IF reader'.done \/ ~Paged!Precedes(reader'.position, Paged!Key(id))
            THEN ShownOnce(reader'.seen, id) ELSE ~Shown(reader'.seen, id)
  <2>1. F = {id \in DOMAIN rows : reader.position = <<>> \/ Paged!Precedes(reader.position, Paged!Key(id))}
    OBVIOUS
  <2> HIDE DEF F
  <2> QED BY <1>1, <1>2, <1>6, <1>8, <1>11, <1>12, <1>13, <1>14, <1>15, <2>1, CursorPage
<1>17. reader'.done \/ n > PageRows
  <2>1. n <= PageRows \/ n > PageRows
    BY <1>0, <1>2
  <2> QED BY <1>8, <2>1
<1>18. reader' # Paged!Start
  <2>1. <<>> \notin Columns(Width)
    <3>1. \A k \in Columns(Width) : 1 \in DOMAIN k
      BY WidthType DEF Columns
    <3>2. 1 \notin DOMAIN <<>>
      OBVIOUS
    <3> QED BY <3>1, <3>2
  <2> QED BY <1>16, <1>17, <2>1 DEF Paged!Start
<1>19. \A id : Paged!Key(id)' = Paged!Key(id)
  BY <1>13, SameKey
<1>20. Width' = Width /\ Paged!Start' = Paged!Start
  BY <1>13 DEF Width, Paged!Start
<1>21. \A id \in steady' : Visited(id)'
  BY <1>12, <1>13, <1>16, <1>19 DEF Visited, Reached
<1>22. reader'.done \/ reader'.position \in Columns(Width)
  BY <1>16, <1>17
<1> QED BY <1>11, <1>18, <1>20, <1>21, <1>22 DEF PlaceInv

\* The versions of an organization's policy, newest first, are numbered without a gap.
LEMMA VersionsInOrder ==
  ASSUME RowsInv, list = "versions"
  PROVE  LET s == Paged!Sorted(DOMAIN rows)
         IN /\ s \in [1..inserted -> DOMAIN rows] /\ \A x \in DOMAIN rows : \E i \in 1..inserted : s[i] = x
            /\ \A i \in 1..inserted : rows[s[i]].seq = inserted + 1 - i
<1> DEFINE s == Paged!Sorted(DOMAIN rows)
           f == [i \in 1..inserted |-> rows[s[i]].seq]
<1>1. Arranged(s, inserted, DOMAIN rows) /\ inserted \in Nat
  BY Sorts DEF RowsInv
<1> HIDE DEF s
<1>2. \A i \in 1..inserted : s[i] \in DOMAIN rows /\ rows[s[i]].seq \in 1..inserted
  BY <1>1 DEF Arranged, RowsInv
<1>3. ASSUME NEW x \in DOMAIN rows, NEW y \in DOMAIN rows, Paged!Precedes(Paged!Key(x), Paged!Key(y))
      PROVE  rows[x].seq > rows[y].seq
  <2>1. Width = 1 /\ Paged!Key(x) \in Columns(1) /\ Paged!Key(y) \in Columns(1)
    BY KeyColumns DEF Width
  <2>2. Paged!Key(x)[1] < Paged!Key(y)[1]
    BY <1>3, <2>1, FirstDifference
  <2>3. Paged!Key(x)[1] = -rows[x].seq /\ Paged!Key(y)[1] = -rows[y].seq
    BY LastColumn
  <2> QED BY <2>2, <2>3, RowNumbers
<1>4. \A i, j \in 1..inserted : i < j => rows[s[i]].seq > rows[s[j]].seq
  BY <1>1, <1>2, <1>3 DEF Arranged
<1>5. Falling(f, inserted)
  BY <1>2, <1>4 DEF Falling
<1>6. \A i \in 1..inserted : f[i] = inserted + 1 - i
  <2> HIDE DEF f
  <2> QED BY <1>1, <1>5, FallsByOne
<1> QED BY <1>1, <1>6 DEF Arranged, s

LEMMA OffsetStep ==
  ASSUME ListInv, Paged!ReadPage, Paged!OffsetPage
  PROVE  PlaceInv'
<1> DEFINE s == Paged!Sorted(DOMAIN rows)
           k == reader.offset
           b == IF inserted < k + PageRows + 1 THEN inserted ELSE k + PageRows + 1
           found == SubSeq(s, k + 1, b)
           m == IF Len(found) < PageRows THEN Len(found) ELSE PageRows
           page == SubSeq(found, 1, m)
<1>0. /\ PageRows \in Nat \ {0} /\ inserted \in Nat /\ k \in Nat
      /\ reader \in PageReader /\ RowsInv
  BY ListedRows DEF ListInv, RowsInv, PlaceInv, PageReader
<1>1. list = "versions"
  BY DEF ListInv, RowsInv, PagedKeysets, Paged!KeysetLists, Paged!OffsetPage, Paged!OffsetLists
<1>2. /\ s \in [1..inserted -> DOMAIN rows] /\ \A x \in DOMAIN rows : \E i \in 1..inserted : s[i] = x
      /\ \A i \in 1..inserted : rows[s[i]].seq = inserted + 1 - i
  BY <1>0, <1>1, VersionsInOrder
<1> HIDE DEF s
<1>3. s \in [1..inserted -> Nat] /\ Len(s) = inserted
  <2>1. DOMAIN rows \subseteq Nat
    BY ListedRows, <1>0 DEF RowsInv
  <2>2. s \in [1..inserted -> Nat]
    BY <1>2, <2>1
  <2> QED BY <1>0, <2>2
<1>4. reader' = [reader EXCEPT !.seen = @ \o page, !.done = (Len(found) <= PageRows), !.offset = @ + PageRows]
  <2>1. reader' =
          LET all == s
              fetched == SubSeq(all, k + 1,
                                IF Len(all) < k + PageRows + 1 THEN Len(all) ELSE k + PageRows + 1)
          IN [reader EXCEPT
                !.seen = @ \o SubSeq(fetched, 1, IF Len(fetched) < PageRows THEN Len(fetched) ELSE PageRows),
                !.done = (Len(fetched) <= PageRows), !.offset = @ + PageRows]
    BY <1>1 DEF Paged!OffsetPage, Paged!Present, s
  <2> QED BY <1>3, <2>1
\* What is fetched, and what of it is on the page
<1>5. found \in Seq(Nat) /\ (k < inserted => Len(found) = b - k /\ \A i \in 1..(b - k) : found[i] = s[k + i])
  <2>1. CASE k < inserted
    <3>1. b \in 0..inserted /\ k <= b
      BY <1>0, <2>1
    <3> HIDE DEF b
    <3>2. LET t == SubSeq(s, k + 1, b)
          IN t \in Seq(Nat) /\ Len(t) = b - k /\ \A i \in 1..(b - k) : t[i] = s[k + i]
      BY <1>0, <1>3, <3>1, PartOfList
    <3> QED BY <3>2
  <2>2. CASE ~(k < inserted)
    <3>1. b = inserted /\ inserted < k + 1
      BY <1>0, <2>2
    <3>2. found = << >>
      BY <1>0, <1>3, <3>1
    <3>3. << >> \in Seq(Nat)
      OBVIOUS
    <3> HIDE DEF found
    <3> QED BY <2>2, <3>2, <3>3
  <2> QED BY <2>1, <2>2
<1>6. m \in 0..Len(found) /\ Len(found) \in Nat
  BY <1>0, <1>5
<1>7. page \in Seq(Nat) /\ Len(page) = m /\ \A i \in 1..m : page[i] = found[i]
  <2>1. found \in [1..Len(found) -> Nat] /\ 0 \in Nat /\ 0 <= m /\ 0 + 1 = 1 /\ m - 0 = m /\ \A i \in 1..m : 0 + i = i
    <3> HIDE DEF found, m
    <3> QED BY <1>5, <1>6
  <2>2. LET t == SubSeq(found, 0 + 1, m)
        IN t \in Seq(Nat) /\ Len(t) = m - 0 /\ \A i \in 1..(m - 0) : t[i] = found[0 + i]
    <3> HIDE DEF found, m
    <3> QED BY <1>6, <2>1, PartOfList
  <2> HIDE DEF found, m
  <2> QED BY <2>1, <2>2
<1>8. FirstOf(page, found, m)
  BY DEF FirstOf
<1> HIDE DEF page
<1>9. /\ reader'.seen = reader.seen \o page /\ reader'.offset = k + PageRows
      /\ reader'.done = (Len(found) <= PageRows)
  BY <1>0, <1>4 DEF PageReader
<1>10. \A id : Shown(reader'.seen, id) <=> Shown(reader.seen, id) \/ Shown(page, id)
  <2>1. reader.seen \in Seq(Nat)
    BY <1>0 DEF PageReader
  <2> QED BY <1>7, <1>9, <2>1, ShownByNext
<1>11. reader' \in PageReader
  <2>1. reader.seen \o page \in Seq(Nat) /\ (Len(found) <= PageRows) \in BOOLEAN /\ k + PageRows \in Nat
    BY <1>0, <1>7 DEF PageReader
  <2> HIDE DEF found
  <2> QED BY <1>0, <1>4, <2>1 DEF PageReader
<1>12. /\ list' = list /\ rows' = rows /\ inserted' = inserted /\ ~reader.done
       /\ steady' \in SUBSET DOMAIN rows /\ (reader # Paged!Start => steady' \subseteq steady)
  BY ReadChanges
<1>13. ASSUME NEW id \in steady', reader'.done \/ rows[id].seq > inserted - reader'.offset
       PROVE  Shown(reader'.seen, id)
  <2>1. PICK j \in 1..inserted : s[j] = id
    BY <1>2, <1>12
  <2>2. rows[id].seq = inserted + 1 - j /\ j \in 1..inserted
    BY <1>2, <2>1
  <2>3. j <= k + PageRows
    <3>1. CASE reader'.done
      <4>1. Len(found) <= PageRows
        BY <1>9, <3>1
      <4>2. CASE k < inserted
        BY <1>0, <1>5, <2>2, <4>1, <4>2
      <4>3. CASE ~(k < inserted)
        BY <1>0, <2>2, <4>3
      <4> QED BY <4>2, <4>3
    <3>2. CASE rows[id].seq > inserted - reader'.offset
      BY <1>0, <1>9, <2>2, <3>2
    <3> QED BY <1>13, <3>1, <3>2
  <2>4. CASE j <= k
    <3>1. reader # Paged!Start
      BY <1>0, <2>2, <2>4 DEF Paged!Start
    <3>2. rows[id].seq > inserted - k
      BY <1>0, <2>2, <2>4
    <3>3. Shown(reader.seen, id)
      BY <1>1, <1>12, <1>13, <3>1, <3>2 DEF ListInv, PlaceInv, Visited, Behind
    <3> QED BY <1>10, <3>3
  <2>5. CASE j > k
    <3>1. k < inserted
      BY <1>0, <2>2, <2>5
    <3>2. j - k \in 1..m /\ j - k \in 1..(b - k) /\ k + (j - k) = j
      BY <1>0, <1>5, <2>2, <2>3, <2>5, <3>1
    <3>3. page[j - k] = id
      BY <1>5, <1>7, <2>1, <3>1, <3>2
    <3>4. Shown(page, id)
      BY <1>7, <3>2, <3>3 DEF Shown
    <3> QED BY <1>10, <3>4
  <2> QED BY <1>0, <2>2, <2>4, <2>5
<1>14. reader' # Paged!Start
  BY <1>0, <1>9 DEF Paged!Start
<1>15. \A id \in steady' : Visited(id)'
  BY <1>1, <1>12, <1>13 DEF Visited, Behind
<1>16. Paged!Start' = Paged!Start
  BY DEF Paged!Start
<1> QED BY <1>1, <1>11, <1>12, <1>14, <1>15, <1>16 DEF PlaceInv

\* Rows are written while the list is read.
LEMMA InsertRow ==
  ASSUME ListInv, NEW id \in RowIds, NEW at \in 1..MaxMoments, NEW rank \in RowRanks,
         Paged!Insert(id, at, rank)
  PROVE  ListInv'
<1> DEFINE row == [at |-> at, seq |-> inserted + 1, rank |-> rank]
<1>0. RowsInv /\ inserted \in Nat
  BY DEF ListInv, RowsInv
<1>1. /\ id \notin DOMAIN rows /\ inserted' = inserted + 1
      /\ rows' = [i \in DOMAIN rows \cup {id} |-> IF i = id THEN row ELSE rows[i]]
      /\ list' = list /\ time' = time /\ reader' = reader /\ steady' = steady
  BY DEF Paged!Insert, Paged!Present
<1>2. row \in RowData
  BY <1>0, ListedRows DEF RowData
<1>3. DOMAIN rows' = DOMAIN rows \cup {id} /\ rows'[id] = row /\ \A x \in DOMAIN rows : rows'[x] = rows[x]
  BY <1>1
<1>4. \A x \in DOMAIN rows : rows[x] \in RowData /\ rows[x].seq \in 1..inserted
  BY <1>0 DEF RowsInv
<1>5. rows' \in [DOMAIN rows' -> RowData]
  <2>1. \A x \in DOMAIN rows \cup {id} : (IF x = id THEN row ELSE rows[x]) \in RowData
    BY <1>2, <1>4
  <2> HIDE DEF row
  <2> QED BY <1>1, <1>3, <2>1
<1>6. row.seq = inserted + 1
  OBVIOUS
<1> HIDE DEF row
<1>7. \A x \in DOMAIN rows' : rows'[x].seq \in 1..inserted'
  BY <1>0, <1>1, <1>3, <1>4, <1>6
<1>8. \A x, y \in DOMAIN rows' : rows'[x].seq = rows'[y].seq => x = y
  <2>1. \A x \in DOMAIN rows : rows[x].seq # inserted + 1
    BY <1>0, <1>4
  <2>2. \A x, y \in DOMAIN rows : rows[x].seq = rows[y].seq => x = y
    BY <1>0 DEF RowsInv
  <2> QED BY <1>3, <1>6, <2>1, <2>2
<1>9. IsFiniteSet(DOMAIN rows') /\ (list = "versions" => Cardinality(DOMAIN rows') = inserted')
  BY <1>0, <1>1, <1>3, FS_AddElement DEF RowsInv
<1>10. RowsInv'
  <2>1. /\ list' \in PagedKeysets' \cup {"versions"} /\ time' \in Nat /\ inserted' \in Nat
        /\ DOMAIN rows' \subseteq RowIds /\ steady' \subseteq DOMAIN rows'
    <3>1. list' \in PagedKeysets' \cup {"versions"}
      BY <1>0, <1>1 DEF RowsInv, PagedKeysets, Paged!KeysetLists
    <3>2. time' \in Nat /\ inserted' \in Nat
      BY <1>0, <1>1 DEF RowsInv
    <3>3. DOMAIN rows \subseteq RowIds /\ steady \subseteq DOMAIN rows
      BY <1>0 DEF RowsInv
    <3>4. DOMAIN rows' \subseteq RowIds /\ steady' \subseteq DOMAIN rows'
      BY <1>1, <1>3, <3>3
    <3> QED BY <3>1, <3>2, <3>4
  <2>2. list' = "versions" => Cardinality(DOMAIN rows') = inserted'
    BY <1>1, <1>9
  <2> QED BY <1>5, <1>7, <1>8, <1>9, <2>1, <2>2 DEF RowsInv
<1>11. \A x \in steady : Paged!Key(x)' = Paged!Key(x)
  BY <1>0, <1>1, <1>3, SameKey DEF RowsInv
<1>12. ASSUME NEW x \in steady, Visited(x) PROVE Visited(x)'
  <2>1. CASE list = "versions"
    <3>1. x \in DOMAIN rows
      BY <1>0 DEF RowsInv
    <3>2. rows'[x].seq = rows[x].seq /\ rows[x].seq \in Nat
      BY <1>0, <1>3, <1>4, <3>1
    <3>3. reader \in PageReader
      BY DEF ListInv, PlaceInv
    <3>4. reader.offset \in Nat
      BY <3>3 DEF PageReader
    <3>5. rows'[x].seq > inserted' - reader'.offset => rows[x].seq > inserted - reader.offset
      BY <1>0, <1>1, <3>2, <3>4
    <3> QED BY <1>1, <1>12, <2>1, <3>5 DEF Visited, Behind
  <2>2. CASE list # "versions"
    BY <1>1, <1>11, <1>12, <2>2 DEF Visited, Reached
  <2> QED BY <2>1, <2>2
<1>13. Width' = Width /\ Paged!Start' = Paged!Start
  BY <1>1 DEF Width, Paged!Start
<1>14. PlaceInv'
  BY <1>1, <1>12, <1>13 DEF ListInv, PlaceInv
<1> QED BY <1>10, <1>14 DEF ListInv

\* A row that is written again or deleted is no longer one that stays.
LEMMA OtherRows ==
  ASSUME ListInv, NEW id, list \in PagedKeysets, RowsInv',
         list' = list, inserted' = inserted, reader' = reader, steady' = steady \ {id},
         \A x \in steady' : rows'[x] = rows[x]
  PROVE  ListInv'
<1>1. \A x \in steady' : Paged!Key(x)' = Paged!Key(x)
  BY SameKey
<1>2. list # "versions"
  BY DEF PagedKeysets, Paged!KeysetLists
<1>3. ASSUME NEW x \in steady', Visited(x) PROVE Visited(x)'
  BY <1>1, <1>2, <1>3 DEF Visited, Reached
<1>4. Width' = Width /\ Paged!Start' = Paged!Start
  BY DEF Width, Paged!Start
<1>5. PlaceInv'
  BY <1>3, <1>4 DEF ListInv, PlaceInv
<1> QED BY <1>5 DEF ListInv

LEMMA RefreshRow ==
  ASSUME ListInv, NEW id \in RowIds, Paged!Refresh(id)
  PROVE  ListInv'
<1>0. RowsInv
  BY DEF ListInv
<1>1. /\ list \in PagedKeysets /\ id \in DOMAIN rows
      /\ rows' = [rows EXCEPT ![id].at = time] /\ steady' = steady \ {id}
      /\ list' = list /\ time' = time /\ reader' = reader /\ inserted' = inserted
  BY DEF Paged!Refresh, Paged!Present, PagedKeysets, Paged!KeysetLists
<1>2. /\ DOMAIN rows' = DOMAIN rows /\ \A x \in DOMAIN rows : x # id => rows'[x] = rows[x]
      /\ rows'[id] = [rows[id] EXCEPT !.at = time]
  BY <1>1
<1>3. rows'[id] \in RowData /\ rows'[id].seq = rows[id].seq
  <2>1. rows[id] \in RowData /\ time \in Nat
    BY <1>0, <1>1 DEF RowsInv
  <2> QED BY <1>2, <2>1 DEF RowData
<1>4. \A x \in DOMAIN rows : rows'[x] \in RowData /\ rows'[x].seq = rows[x].seq
  BY <1>0, <1>2, <1>3 DEF RowsInv
<1>5. rows' \in [DOMAIN rows' -> RowData]
  <2>1. rows' = [x \in DOMAIN rows |-> rows'[x]]
    BY <1>0, <1>1 DEF RowsInv
  <2> QED BY <1>2, <1>4, <2>1
<1>6. RowsInv'
  BY <1>0, <1>1, <1>2, <1>4, <1>5 DEF RowsInv
<1>7. \A x \in steady' : rows'[x] = rows[x]
  BY <1>0, <1>1, <1>2 DEF RowsInv
<1> QED BY <1>1, <1>6, <1>7, OtherRows

LEMMA DeleteRow ==
  ASSUME ListInv, NEW id \in RowIds, Paged!Delete(id)
  PROVE  ListInv'
<1>0. RowsInv
  BY DEF ListInv
<1>1. /\ list \in PagedKeysets /\ id \in DOMAIN rows
      /\ rows' = [i \in DOMAIN rows \ {id} |-> rows[i]] /\ steady' = steady \ {id}
      /\ list' = list /\ time' = time /\ reader' = reader /\ inserted' = inserted
  BY DEF Paged!Delete, Paged!Present, PagedKeysets
<1>2. /\ DOMAIN rows' = DOMAIN rows \ {id} /\ \A x \in DOMAIN rows' : rows'[x] = rows[x]
  BY <1>1
<1>3. IsFiniteSet(DOMAIN rows') /\ rows' \in [DOMAIN rows' -> RowData]
  <2>1. IsFiniteSet(DOMAIN rows')
    BY <1>0, <1>2, FS_RemoveElement DEF RowsInv
  <2>2. \A x \in DOMAIN rows \ {id} : rows[x] \in RowData
    BY <1>0 DEF RowsInv
  <2> QED BY <1>1, <1>2, <2>1, <2>2
<1>4. list # "versions"
  BY <1>1 DEF PagedKeysets, Paged!KeysetLists
<1>5. RowsInv'
  BY <1>0, <1>1, <1>2, <1>3, <1>4 DEF RowsInv
<1>6. \A x \in steady' : rows'[x] = rows[x]
  BY <1>0, <1>1, <1>2 DEF RowsInv
<1> QED BY <1>1, <1>5, <1>6, OtherRows

LEMMA ListTick ==
  ASSUME ListInv, list' = list, rows' = rows, reader' = reader, inserted' = inserted,
         steady' = steady, time' \in Nat
  PROVE  ListInv'
<1>1. RowsInv'
  BY DEF ListInv, RowsInv
<1>2. \A x : Paged!Key(x)' = Paged!Key(x)
  BY SameKey
<1>3. \A x : Visited(x)' <=> Visited(x)
  BY <1>2 DEF Visited, Reached, Behind
<1>4. Width' = Width /\ Paged!Start' = Paged!Start
  BY DEF Width, Paged!Start
<1> QED BY <1>1, <1>3, <1>4 DEF ListInv, PlaceInv

LEMMA ListStep ==
  ASSUME ListInv, Paged!Next \/ UNCHANGED listVars
  PROVE  ListInv'
<1>1. CASE Paged!ReadPage
  <2>1. PlaceInv'
    BY <1>1, KeysetStep, OffsetStep DEF Paged!ReadPage
  <2> QED BY <1>1, <2>1, ReadChanges DEF ListInv
<1>2. CASE Paged!Tick
  <2>1. time' \in Nat
    BY <1>2 DEF ListInv, RowsInv, Paged!Tick
  <2> QED BY <1>2, <2>1, ListTick DEF Paged!Tick
<1>3. CASE \E id \in RowIds :
             Paged!Refresh(id) \/ Paged!Delete(id)
             \/ \E at \in 1..MaxMoments, rank \in RowRanks : Paged!Insert(id, at, rank)
  BY <1>3, InsertRow, RefreshRow, DeleteRow
<1>4. CASE UNCHANGED listVars
  <2>1. time' \in Nat
    BY <1>4 DEF ListInv, RowsInv, listVars
  <2> QED BY <1>4, <2>1, ListTick DEF listVars
<1> QED BY <1>1, <1>2, <1>3, <1>4 DEF Paged!Next

LEMMA ListStable == ASSUME ListInv PROVE Paged!PagesStable
<1> SUFFICES ASSUME NEW id \in steady
             PROVE  /\ reader.done => Paged!Times(id) >= 1
                    /\ list # "versions" => Paged!Times(id) <= 1
  BY DEF Paged!PagesStable
<1>1. reader \in PageReader /\ Visited(id)
  BY DEF ListInv, PlaceInv
<1>2. reader.seen \in Seq(Nat)
  BY <1>1 DEF PageReader
<1>3. /\ Shown(reader.seen, id) => Paged!Times(id) >= 1
      /\ ShownOnce(reader.seen, id) => Paged!Times(id) = 1
      /\ ~Shown(reader.seen, id) => Paged!Times(id) = 0
  BY <1>2, TimesShown
<1>4. ShownOnce(reader.seen, id) => Shown(reader.seen, id)
  BY DEF Shown, ShownOnce
<1> HIDE DEF Shown, ShownOnce
<1>5. reader.done => Shown(reader.seen, id)
  BY <1>1, <1>4 DEF Visited, Reached, Behind
<1>6. list # "versions" => ShownOnce(reader.seen, id) \/ ~Shown(reader.seen, id)
  BY <1>1 DEF Visited
<1> QED BY <1>3, <1>5, <1>6

-----------------------------------------------------------------------------
(* Requests, settings, inboxes, lists and calls in the behaviours of MCDashboard. *)

\* A step of another component leaves them alone.
LEMMA OtherParts ==
  ASSUME [AllNext]_allVars
  PROVE  /\ part' = part
         /\ SavedStep \/ DeliveredStep \/ UNCHANGED centerVars
         /\ CalledStep \/ UNCHANGED callVars
         /\ DatedStep \/ RankedStep \/ UNCHANGED listVars
         /\ LimitedStep \/ RoutedStep \/ DemotedStep \/ EndedStep \/ UNCHANGED requestVars
<1>1. CASE WorkflowStep \/ SimulatedStep \/ SignedInStep
  BY <1>1 DEF WorkflowStep, SimulatedStep, SignedInStep
<1>2. CASE LimitedStep \/ RoutedStep \/ DemotedStep \/ EndedStep
  BY <1>2 DEF LimitedStep, RoutedStep, DemotedStep, EndedStep, RequestsOnly
<1>3. CASE DatedStep \/ RankedStep
  BY <1>3 DEF DatedStep, RankedStep, ListsOnly
<1>4. CASE SavedStep \/ DeliveredStep
  BY <1>4 DEF SavedStep, DeliveredStep, CenterOnly
<1>5. CASE CalledStep
  BY <1>5 DEF CalledStep
<1>6. CASE UNCHANGED allVars
  BY <1>6 DEF allVars
<1> QED BY <1>1, <1>2, <1>3, <1>4, <1>5, <1>6 DEF AllNext

\* A reader who follows the pages of a list to the end finds every row that was there at the
\* first page and was not written since, and finds it once, however many rows are inserted,
\* written again and deleted meanwhile: for any rows, sort keys and sizes of a page
\* (controlplane/pagination.py).  Versions, which are read by offset, may be seen again.
THEOREM PagesStayStable == AllSpec => []PagesStable
<1>1. AllInit => ListInv
  BY ListInit DEF AllInit
<1>2. ListInv /\ [AllNext]_allVars => ListInv'
  BY OtherParts, ListStep DEF DatedStep, RankedStep
<1>3. ListInv => PagesStable
  BY ListStable DEF PagesStable
<1> QED BY <1>1, <1>2, <1>3, PTL DEF AllSpec

\* What must not happen twice at GitHub happens at most once in a call, whatever is sent
\* again after lost answers and rate limits, and a list that is returned is whole: for any
\* limits of pages and attempts, and any grants while the pages are read (github/client.py).
THEOREM CalledOnce == AllSpec => []CarriedOutOnce
<1>1. AllInit => CallInv
  BY CallInit DEF AllInit
<1>2. CallInv /\ [AllNext]_allVars => CallInv'
  BY OtherParts, CallStep DEF CalledStep
<1>3. CallInv => CarriedOutOnce
  BY DEF CallInv, CarriedOutOnce
<1> QED BY <1>1, <1>2, <1>3, PTL DEF AllSpec

\* What is known of the component of the notification center that runs
CenterInv == IF part = "delivered" THEN InboxInv ELSE SettingsInv

LEMMA CenterStep ==
  ASSUME CenterInv, [AllNext]_allVars
  PROVE  CenterInv' /\ [OnlyWhatWasAsked]_(Saved!vars)
<1>1. part' = part
  BY OtherParts
<1>2. CASE part = "delivered"
  <2>1. [Delivered!Next]_centerVars
    BY <1>2, OtherParts DEF SavedStep, DeliveredStep
  <2>2. InboxInv' /\ UNCHANGED <<settings, panel, save>>
    BY <1>2, <2>1, InboxStep DEF CenterInv
  <2> QED BY <1>1, <1>2, <2>2 DEF CenterInv, OnlyWhatWasAsked
<1>3. CASE part # "delivered"
  <2>1. SettingsInv
    BY <1>3 DEF CenterInv
  <2>2. CASE Saved!Next
    BY <1>1, <1>3, <2>1, <2>2, SettingsStep DEF CenterInv
  <2>3. CASE UNCHANGED centerVars
    <3>1. UNCHANGED <<settings, panel, save>>
      BY <2>3 DEF centerVars
    <3> QED BY <1>1, <1>3, <2>1, <3>1, SettingsUnchanged DEF CenterInv
  <2> QED BY <1>3, <2>2, <2>3, OtherParts DEF SavedStep, DeliveredStep
<1> QED BY <1>2, <1>3

\* However many administrators have the settings open, a save changes only deliveries that its
\* administrator touched, and turns off only what the administrator was told of; and a
\* mandatory event is in the inbox of every member it was for, unread until the member has
\* marked it since it last occurred (notifications of the dashboard).
THEOREM SettingsStayRespected == AllSpec => SettingsAreRespected
<1>1. AllInit => CenterInv
  BY SettingsInit, InboxInit DEF AllInit, CenterInv
<1>2. CenterInv /\ [AllNext]_allVars => CenterInv' /\ [OnlyWhatWasAsked]_(Saved!vars)
  BY CenterStep
<1>3. CenterInv => (part = "delivered" => Delivered!MandatoryReaches)
  BY DEF CenterInv, InboxInv
<1> QED BY <1>1, <1>2, <1>3, PTL
    DEF AllSpec, SettingsAreRespected, Saved!SavesOnlyWhatWasAsked, OnlyWhatWasAsked

\* What is known of the requests of a part
JudgedInv(c) == ApiTypes(c) /\ EntitledInv(c) /\ RateInv(c)

LEMMA JudgedStarts ==
  ASSUME NEW CONSTANT c, Setting(c), Judged(c)!Init
  PROVE  JudgedInv(c)
BY JudgedInit, RatesInit DEF JudgedInv

LEMMA JudgedGoesOn ==
  ASSUME NEW CONSTANT c, Setting(c), JudgedInv(c), [Judged(c)!Next]_requestVars
  PROVE  JudgedInv(c)'
<1>1. ApiTypes(c)' /\ EntitledInv(c)'
  BY AnswersStep DEF JudgedInv
<1>2. RateInv(c)'
  BY RatesStep DEF JudgedInv
<1> QED BY <1>1, <1>2 DEF JudgedInv

LEMMA Settings == Setting(Limited) /\ Setting(Routed) /\ Setting(Demoted) /\ Setting(Ended)
<1>1. /\ IsFiniteSet(Callers) /\ IsFiniteSet(Colleagues) /\ IsFiniteSet(Requests)
      /\ IsFiniteSet(OneRequest)
      /\ RequestLimit \in Nat /\ HigherLimit \in Nat /\ MaxMinutes \in Nat
      /\ "none" \notin ApiSessions /\ "none" \notin OneSession
  BY RequestLimits
<1>2. Setting(Limited)
  BY <1>1 DEF Setting, Limited
<1>3. Setting(Routed)
  BY <1>1 DEF Setting, Routed
<1>4. Setting(Demoted)
  BY <1>1 DEF Setting, Demoted
<1>5. Setting(Ended)
  BY <1>1 DEF Setting, Ended
<1> QED BY <1>2, <1>3, <1>4, <1>5

RequestsInv ==
  /\ part = "limited" => JudgedInv(Limited)
  /\ part = "routed" => JudgedInv(Routed)
  /\ part = "demoted" => JudgedInv(Demoted)
  /\ part = "ended" => JudgedInv(Ended)

LEMMA JudgedHolds ==
  ASSUME NEW CONSTANT c, Setting(c), JudgedInv(c)
  PROVE  Judged(c)!AnswersAreAllowed /\ Judged(c)!LimitsHold
BY AnswersJudged, LimitsJudged DEF JudgedInv

LEMMA RequestsStart == AllInit => RequestsInv
<1>1. AllInit => RequestInit
  BY DEF AllInit
<1>2. RequestInit => /\ part = "limited" => Judged(Limited)!Init
                     /\ part = "routed" => Judged(Routed)!Init
                     /\ part = "demoted" => Judged(Demoted)!Init
                     /\ part = "ended" => Judged(Ended)!Init
  BY DEF RequestInit
<1> QED BY <1>1, <1>2, Settings, JudgedStarts DEF RequestsInv

LEMMA RequestsGoOn ==
  ASSUME RequestsInv, [AllNext]_allVars
  PROVE  RequestsInv'
<1>1. /\ part' = part
      /\ part = "limited" => [Judged(Limited)!Next]_requestVars
      /\ part = "routed" => [Judged(Routed)!Next]_requestVars
      /\ part = "demoted" => [Judged(Demoted)!Next]_requestVars
      /\ part = "ended" => [Judged(Ended)!Next]_requestVars
  BY OtherParts DEF LimitedStep, RoutedStep, DemotedStep, EndedStep
<1>2. part = "limited" => JudgedInv(Limited)'
  BY <1>1, Settings, JudgedGoesOn DEF RequestsInv
<1>3. part = "routed" => JudgedInv(Routed)'
  BY <1>1, Settings, JudgedGoesOn DEF RequestsInv
<1>4. part = "demoted" => JudgedInv(Demoted)'
  BY <1>1, Settings, JudgedGoesOn DEF RequestsInv
<1>5. part = "ended" => JudgedInv(Ended)'
  BY <1>1, Settings, JudgedGoesOn DEF RequestsInv
<1> QED BY <1>1, <1>2, <1>3, <1>4, <1>5 DEF RequestsInv

\* Whatever roles change and sessions end while requests are on their way, a request is
\* carried out only for someone who was signed in when it arrived and had the permission of
\* docs/dashboard.md between its arrival and its answer, with the token of its own session;
\* and whenever minutes pass, it is refused only after the limit of its minute was used up,
\* and no more are let through than the requests in progress account for: for any users,
\* organizations, sessions, threads, routes and limits (api/app.py, security/rate_limit.py).
THEOREM RequestsStayJudged == AllSpec => []RequestsAreJudged
<1>1. RequestsInv => RequestsAreJudged
  BY Settings, JudgedHolds DEF RequestsInv, RequestsAreJudged
<1> QED BY <1>1, RequestsStart, RequestsGoOn, PTL DEF AllSpec

-----------------------------------------------------------------------------
(* Types of the calls.                                                     *)

\* How often the pages up to n and the attempts up to a can have been carried out
Tries(n, a) == (n - 1) * MaxAttempts + a

\* A call was carried out at most once by attempt, and starts again with a page.
CallBounds ==
  /\ applied \in 0..MaxAttempts * MaxPages /\ calls \in 0..MaxCalls
  /\ call \in [step: {"idle", "sending", "sleeping", "returned", "raised"},
               operation: Operations \cup {"none"}, attempt: 0..MaxAttempts, page: 0..MaxPages,
               got: Seq(Granted)]
  /\ call.step \in {"sending", "sleeping"} =>
       call.page >= 1 /\ call.attempt >= 1 /\ applied <= Tries(call.page, call.attempt)
  /\ call.step = "sending" => applied < Tries(call.page, call.attempt)
  /\ call.step = "sleeping" => call.attempt < MaxAttempts
  /\ granted \in Seq(Granted) /\ Called!IsInjective(granted) /\ kept \subseteq Granted

CallTypes == CallInv /\ CallBounds

\* Attempts are counted within their page, and pages within their limit.
LEMMA TriesCounted ==
  ASSUME NEW n \in 1..MaxPages, NEW a \in 1..MaxAttempts
  PROVE  /\ Tries(n, a) \in Nat /\ MaxAttempts * MaxPages \in Nat
         /\ Tries(n, a) <= MaxAttempts * MaxPages
         /\ Tries(n, a) < Tries(n + 1, 1) /\ Tries(n + 1, 1) \in Nat
         /\ Tries(n, a + 1) = Tries(n, a) + 1
<1>1. MaxPages \in Nat /\ MaxAttempts \in Nat /\ n \in Nat /\ a \in Nat
  BY CallLimits
<1>2. \A k, j \in Nat : k <= j => MaxAttempts * k <= MaxAttempts * j
  BY <1>1
<1>3. \A k \in Nat : /\ k * MaxAttempts = MaxAttempts * k /\ MaxAttempts * k \in Nat
                     /\ MaxAttempts * (k + 1) = MaxAttempts * k + MaxAttempts
  BY <1>1
<1>4. n - 1 \in Nat /\ (n - 1) + 1 = n /\ (n + 1) - 1 = n /\ n <= MaxPages
  BY <1>1
<1>5. /\ MaxAttempts * n = MaxAttempts * (n - 1) + MaxAttempts
      /\ MaxAttempts * n <= MaxAttempts * MaxPages
      /\ MaxAttempts * n \in Nat /\ MaxAttempts * (n - 1) \in Nat /\ MaxAttempts * MaxPages \in Nat
  BY <1>1, <1>2, <1>3, <1>4
<1>6. Tries(n, a) = MaxAttempts * (n - 1) + a /\ Tries(n, a + 1) = MaxAttempts * (n - 1) + (a + 1)
      /\ Tries(n + 1, 1) = MaxAttempts * n + 1
  BY <1>3, <1>4, <1>1 DEF Tries
<1> QED BY <1>1, <1>5, <1>6

LEMMA CallTypesInit == Called!Init => CallTypes
<1> SUFFICES ASSUME Called!Init PROVE CallTypes
  OBVIOUS
<1>1. <<>> \in Seq(Granted) /\ DOMAIN <<>> = {} /\ MaxAttempts * MaxPages \in Nat
  BY EmptySeq, CallLimits
<1>2. Called!IsInjective(<<>>)
  BY <1>1 DEF Called!IsInjective
<1>3. Called!Idle.step = "idle"
  BY DEF Called!Idle
<1>4. CallBounds
  BY <1>1, <1>2, CallLimits DEF CallBounds, Called!Init, Called!Idle
<1> QED BY <1>4, CallInit DEF CallTypes

CallSpace ==
  [step: {"idle", "sending", "sleeping", "returned", "raised"},
   operation: Operations \cup {"none"}, attempt: 0..MaxAttempts, page: 0..MaxPages,
   got: Seq(Granted)]

\* What was sent is counted, and GitHub's list stays.
LEMMA OneTry ==
  ASSUME CallTypes, call.step = "sending", applied' \in {applied, applied + 1},
         UNCHANGED <<granted, kept, calls>>
  PROVE  /\ applied' \in 0..MaxAttempts * MaxPages /\ applied' \in Nat
         /\ applied' <= Tries(call.page, call.attempt)
         /\ call.page \in 1..MaxPages /\ call.attempt \in 1..MaxAttempts
         /\ calls' \in 0..MaxCalls /\ granted' \in Seq(Granted)
         /\ Called!IsInjective(granted)' /\ kept' \subseteq Granted
<1>1. call.page \in 1..MaxPages /\ call.attempt \in 1..MaxAttempts /\ applied \in Nat
  BY CallLimits DEF CallTypes, CallBounds
<1>2. /\ Tries(call.page, call.attempt) \in Nat /\ MaxAttempts * MaxPages \in Nat
      /\ Tries(call.page, call.attempt) <= MaxAttempts * MaxPages
  BY <1>1, TriesCounted
<1>3. applied < Tries(call.page, call.attempt)
  BY DEF CallTypes, CallBounds
<1>4. applied' \in Nat /\ applied' <= Tries(call.page, call.attempt)
  BY <1>1, <1>2, <1>3
<1>5. applied' \in 0..MaxAttempts * MaxPages
  BY <1>2, <1>4
<1>6. Called!IsInjective(granted)'
  BY DEF CallTypes, CallBounds, Called!IsInjective
<1> QED BY <1>1, <1>4, <1>5, <1>6 DEF CallTypes, CallBounds

\* A request was answered, or got lost: it ends the call, or waits to be sent again.
LEMMA TryEnds ==
  ASSUME CallTypes, CallInv', call.step = "sending", applied' \in {applied, applied + 1},
         UNCHANGED <<granted, kept, calls>>, NEW s \in {"sleeping", "returned", "raised"},
         call' = [call EXCEPT !.step = s] \/ call' = [call EXCEPT !.step = s, !.got = call'.got],
         s = "sleeping" => call.attempt < MaxAttempts
  PROVE  CallTypes'
<1>1. call \in CallSpace /\ call'.got \in Seq(Granted)
  BY DEF CallTypes, CallBounds, CallSpace, CallInv, GitHubCall
<1>2. /\ call' \in CallSpace /\ call'.step = s /\ call'.page = call.page
      /\ call'.attempt = call.attempt
  BY <1>1 DEF CallSpace
<1>3. CallBounds'
  BY <1>2, OneTry, CallLimits DEF CallBounds, CallSpace
<1> QED BY <1>3 DEF CallTypes

LEMMA AnswerBounds ==
  ASSUME CallTypes, CallInv', NEW a \in Called!Answers, Called!Answered(a)
  PROVE  CallTypes'
<1>1. call.step = "sending" /\ applied' \in {applied, applied + 1}
      /\ UNCHANGED <<granted, kept, calls>>
  BY DEF Called!Answered
<1>2. CASE call' = [call EXCEPT !.step = "raised"] \/ call' = [call EXCEPT !.step = "returned"]
  BY <1>1, <1>2, TryEnds
<1>3. CASE call' = [call EXCEPT !.step = "sleeping"] /\ call.attempt < MaxAttempts
  BY <1>1, <1>3, TryEnds
<1>4. CASE a.status = 200 /\ ~a.malformed /\ call.operation \in Called!Lists
  <2> DEFINE got == call.got \o Called!PageOf(call.page)
  <2>1. call' = Called!NextPage(call, got)
    BY <1>4 DEF Called!Answered, Called!Success
  <2> HIDE DEF got
  <2>2. CASE ~Called!HasNext(call.page)
    <3>1. call' = [call EXCEPT !.step = "returned", !.got = got]
      BY <2>1, <2>2 DEF Called!NextPage
    <3>2. call'.got = got
      BY <3>1 DEF CallTypes, CallBounds
    <3> QED BY <1>1, <3>1, <3>2, TryEnds
  <2>3. CASE Called!HasNext(call.page) /\ call.page # MaxPages
    <3>1. call' = [call EXCEPT !.page = call.page + 1, !.attempt = 1, !.got = got]
      BY <2>1, <2>3 DEF Called!NextPage
    <3>2. call \in CallSpace /\ call'.got \in Seq(Granted) /\ call'.got = got
      BY <3>1 DEF CallTypes, CallBounds, CallSpace, CallInv, GitHubCall
    <3>3. call.page + 1 \in 0..MaxPages /\ call.page + 1 >= 1 /\ 1 \in 0..MaxAttempts
      BY <1>1, <2>3, OneTry, CallLimits
    <3>4. /\ call' \in CallSpace /\ call'.step = "sending" /\ call'.page = call.page + 1
          /\ call'.attempt = 1
      BY <1>1, <3>1, <3>2, <3>3 DEF CallSpace
    <3>5. /\ Tries(call.page, call.attempt) < Tries(call.page + 1, 1)
          /\ Tries(call.page, call.attempt) \in Nat /\ Tries(call.page + 1, 1) \in Nat
      BY <1>1, OneTry, TriesCounted
    <3>6. applied' < Tries(call.page + 1, 1) /\ applied' <= Tries(call.page + 1, 1)
      BY <1>1, <3>5, OneTry
    <3>7. CallBounds'
      BY <1>1, <3>3, <3>4, <3>6, OneTry DEF CallBounds, CallSpace, Tries
    <3> QED BY <3>7 DEF CallTypes
  <2>4. CASE Called!HasNext(call.page) /\ call.page = MaxPages
    <3>1. call' = [call EXCEPT !.step = "raised"]
      BY <2>1, <2>4 DEF Called!NextPage, Called!Raised
    <3> QED BY <1>2, <3>1
  <2> QED BY <2>2, <2>3, <2>4
<1> QED BY <1>2, <1>3, <1>4
    DEF Called!Answered, Called!Success, Called!Raised, Called!Again, Called!MayWait,
      Called!MayRepeat, Called!More

LEMMA LossBounds ==
  ASSUME CallTypes, CallInv', NEW b \in BOOLEAN, Called!Lost(b)
  PROVE  CallTypes'
<1>1. call.step = "sending" /\ applied' \in {applied, applied + 1}
      /\ UNCHANGED <<granted, kept, calls>>
  BY DEF Called!Lost
<1>2. \/ call' = [call EXCEPT !.step = "raised"]
      \/ call' = [call EXCEPT !.step = "sleeping"] /\ call.attempt < MaxAttempts
  BY DEF Called!Lost, Called!Again, Called!Raised, Called!MayRepeat, Called!More
<1> QED BY <1>1, <1>2, TryEnds

\* GitHub's list stays one of different repositories.
LEMMA GrantBounds ==
  ASSUME CallTypes, CallInv', NEW r \in Granted, Called!Grant(r) \/ Called!Revoke(r)
  PROVE  CallTypes'
<1>1. /\ granted \in Seq(Granted) /\ Called!IsInjective(granted) /\ kept \subseteq Granted
      /\ granted' \in Seq(Granted) /\ kept' \subseteq kept
      /\ UNCHANGED <<applied, call, calls>>
  BY DEF CallTypes, CallBounds, CallInv, Called!Grant, Called!Revoke
<1>2. Called!IsInjective(granted)'
  <2>1. CASE Called!Grant(r)
    <3>1. granted' = Append(granted, r) /\ r \notin Called!ToSet(granted)
      BY <2>1 DEF Called!Grant
    <3>2. /\ DOMAIN granted' = 1..(Len(granted) + 1) /\ Len(granted) \in Nat
          /\ DOMAIN granted = 1..Len(granted)
          /\ \A i \in 1..Len(granted) : granted'[i] = granted[i] /\ granted[i] # r
          /\ granted'[Len(granted) + 1] = r
      BY <1>1, <3>1, AppendProperties, LenProperties DEF Called!ToSet
    <3>3. \A i \in DOMAIN granted' : i \in DOMAIN granted \/ i = Len(granted) + 1
      BY <3>2
    <3> QED BY <1>1, <3>2, <3>3 DEF Called!IsInjective
  <2>2. CASE Called!Revoke(r)
    <3>1. PICK i \in DOMAIN granted :
            granted' = SubSeq(granted, 1, i - 1) \o SubSeq(granted, i + 1, Len(granted))
      BY <2>2 DEF Called!Revoke, Called!RemoveAt
    <3> DEFINE before == SubSeq(granted, 1, i - 1)
               after == SubSeq(granted, i + 1, Len(granted))
    <3>2. Len(granted) \in Nat /\ DOMAIN granted = 1..Len(granted) /\ i \in 1..Len(granted)
      BY <1>1, <3>1, LenProperties
    <3>3. /\ before \in Seq(Granted) /\ Len(before) = i - 1
          /\ \A j \in 1..(i - 1) : before[j] = granted[j]
      BY <1>1, <3>2, ElementOfSeq, SubSeqProperties
    <3>4. /\ after \in Seq(Granted) /\ Len(after) = Len(granted) - i
          /\ \A j \in 1..(Len(granted) - i) : after[j] = granted[i + j]
      BY <1>1, <3>2, ElementOfSeq, SubSeqProperties
    <3> HIDE DEF before, after
    <3>5. /\ DOMAIN granted' = 1..(Len(granted) - 1)
          /\ \A j \in 1..(Len(granted) - 1) :
               granted'[j] = IF j < i THEN granted[j] ELSE granted[j + 1]
      <4>1. granted' = before \o after
        BY <3>1 DEF before, after
      <4>2. /\ Len(granted') = Len(granted) - 1 /\ granted' \in Seq(Granted)
            /\ \A j \in 1..(Len(granted) - 1) :
                 granted'[j] = IF j <= i - 1 THEN before[j] ELSE after[j - (i - 1)]
        <5>1. Len(before) + Len(after) = Len(granted) - 1
          BY <3>2, <3>3, <3>4
        <5>2. /\ before \o after \in Seq(Granted)
              /\ Len(before \o after) = Len(before) + Len(after)
              /\ \A j \in 1..Len(before) + Len(after) :
                   (before \o after)[j] =
                     IF j <= Len(before) THEN before[j] ELSE after[j - Len(before)]
          BY <3>3, <3>4, ConcatProperties
        <5> QED BY <3>3, <4>1, <5>1, <5>2
      <4>3. ASSUME NEW j \in 1..(Len(granted) - 1)
            PROVE  granted'[j] = IF j < i THEN granted[j] ELSE granted[j + 1]
        <5>1. CASE j < i
          BY <3>2, <3>3, <4>2, <5>1
        <5>2. CASE ~(j < i)
          <6>1. j - (i - 1) \in 1..(Len(granted) - i) /\ i + (j - (i - 1)) = j + 1 /\ ~(j <= i - 1)
            BY <3>2, <5>2
          <6>2. granted'[j] = after[j - (i - 1)]
            BY <4>2, <6>1
          <6>3. after[j - (i - 1)] = granted[i + (j - (i - 1))]
            BY <3>4, <6>1
          <6> QED BY <5>2, <6>1, <6>2, <6>3
        <5> QED BY <5>1, <5>2
      <4> QED BY <4>2, <4>3, LenProperties
    <3>6. ASSUME NEW j \in 1..(Len(granted) - 1), NEW k \in 1..(Len(granted) - 1),
                 granted'[j] = granted'[k]
          PROVE  j = k
      <4>1. \A x, y \in 1..Len(granted) : granted[x] = granted[y] => x = y
        BY <1>1, <3>2 DEF Called!IsInjective
      <4>2. \A x \in 1..(Len(granted) - 1) : x \in 1..Len(granted) /\ x + 1 \in 1..Len(granted)
        BY <3>2
      <4>3. granted'[j] = granted[IF j < i THEN j ELSE j + 1]
            /\ granted'[k] = granted[IF k < i THEN k ELSE k + 1]
        BY <3>5
      <4>4. (IF j < i THEN j ELSE j + 1) = (IF k < i THEN k ELSE k + 1)
        <5> DEFINE x == IF j < i THEN j ELSE j + 1
                   y == IF k < i THEN k ELSE k + 1
        <5>1. x \in 1..Len(granted) /\ y \in 1..Len(granted) /\ granted[x] = granted[y]
          BY <3>6, <4>2, <4>3
        <5> HIDE DEF x, y
        <5>2. x = y
          BY <4>1, <5>1
        <5> QED BY <5>2 DEF x, y
      <4> QED BY <3>2, <4>4
    <3> QED BY <3>5, <3>6 DEF Called!IsInjective
  <2> QED BY <2>1, <2>2
<1> QED BY <1>1, <1>2 DEF CallTypes, CallBounds, Tries

LEMMA CallTypesStep ==
  ASSUME CallTypes, [Called!Next]_callVars
  PROVE  CallTypes'
<1>0. CallInv'
  BY CallStep DEF CallTypes
<1>1. ASSUME NEW operation \in Operations, Called!Start(operation) PROVE CallTypes'
  <2>1. /\ applied' = 0 /\ granted' = granted /\ kept' = Called!ToSet(granted)
        /\ calls' = calls + 1 /\ calls < MaxCalls
        /\ call' = [Called!Idle EXCEPT !.step = "sending", !.operation = operation, !.attempt = 1, !.page = 1]
    BY <1>1 DEF Called!Start
  <2>2. 1 \in 0..MaxAttempts /\ 1 \in 0..MaxPages /\ <<>> \in Seq(Granted)
    BY CallLimits, EmptySeq
  <2>3. /\ call' \in CallSpace /\ call'.step = "sending" /\ call'.page = 1 /\ call'.attempt = 1
    BY <2>1, <2>2 DEF CallSpace, Called!Idle
  <2>4. Called!ToSet(granted) \subseteq Granted
    BY ElementOfSeq, LenProperties DEF CallTypes, CallBounds, Called!ToSet
  <2>5. calls' \in 0..MaxCalls /\ 0 \in 0..MaxAttempts * MaxPages
    BY <2>1, CallLimits DEF CallTypes, CallBounds
  <2>6. Tries(1, 1) = 1
    BY CallLimits DEF Tries
  <2>7. granted \in Seq(Granted) /\ Called!IsInjective(granted)' /\ granted' \in Seq(Granted)
    BY <2>1 DEF CallTypes, CallBounds, Called!IsInjective
  <2>8. CallBounds'
    BY <2>1, <2>3, <2>4, <2>5, <2>6, <2>7 DEF CallBounds, CallSpace, Tries
  <2> QED BY <1>0, <2>8 DEF CallTypes
<1>2. ASSUME Called!Resend PROVE CallTypes'
  <2>1. call' = [call EXCEPT !.step = "sending", !.attempt = call.attempt + 1]
        /\ call.step = "sleeping" /\ UNCHANGED <<granted, applied, kept, calls>>
    BY <1>2 DEF Called!Resend
  <2>2. /\ call \in CallSpace /\ call.page \in 1..MaxPages /\ call.attempt \in 1..MaxAttempts
        /\ call.attempt + 1 \in 0..MaxAttempts /\ call.attempt + 1 >= 1
        /\ applied \in Nat /\ applied <= Tries(call.page, call.attempt)
    BY <2>1, CallLimits DEF CallTypes, CallBounds, CallSpace
  <2>3. /\ call' \in CallSpace /\ call'.step = "sending" /\ call'.page = call.page
        /\ call'.attempt = call.attempt + 1
    BY <2>1, <2>2 DEF CallSpace
  <2>4. /\ Tries(call.page, call.attempt + 1) = Tries(call.page, call.attempt) + 1
        /\ Tries(call.page, call.attempt) \in Nat
    BY <2>2, TriesCounted
  <2>5. applied' < Tries(call.page, call.attempt + 1) /\ applied' <= Tries(call.page, call.attempt + 1)
    BY <2>1, <2>2, <2>4
  <2>6. Called!IsInjective(granted)'
    BY <2>1 DEF CallTypes, CallBounds, Called!IsInjective
  <2>7. CallBounds'
    BY <2>1, <2>2, <2>3, <2>5, <2>6 DEF CallTypes, CallBounds, CallSpace, Tries
  <2> QED BY <1>0, <2>7 DEF CallTypes
<1>3. ASSUME Called!Finish PROVE CallTypes'
  <2>1. call' = Called!Idle /\ UNCHANGED <<granted, applied, kept, calls>>
    BY <1>3 DEF Called!Finish
  <2>2. Called!Idle \in CallSpace /\ Called!Idle.step = "idle"
    BY EmptySeq, CallLimits DEF Called!Idle, CallSpace
  <2>3. Called!IsInjective(granted)'
    BY <2>1 DEF CallTypes, CallBounds, Called!IsInjective
  <2>4. CallBounds'
    BY <2>1, <2>2, <2>3 DEF CallTypes, CallBounds, CallSpace
  <2> QED BY <1>0, <2>4 DEF CallTypes
<1>4. ASSUME UNCHANGED callVars PROVE CallTypes'
  <2>1. Called!IsInjective(granted)'
    BY <1>4 DEF callVars, CallTypes, CallBounds, Called!IsInjective
  <2>2. CallBounds'
    BY <1>4, <2>1 DEF callVars, CallTypes, CallBounds, Tries
  <2> QED BY <1>0, <2>2 DEF CallTypes
<1> QED BY <1>0, <1>1, <1>2, <1>3, <1>4, AnswerBounds, LossBounds, GrantBounds DEF Called!Next

LEMMA CalledTypesHold == CallTypes => Called!TypeOK
BY DEF CallTypes, CallBounds, Called!TypeOK

-----------------------------------------------------------------------------
(* Types of the notification center.                                       *)

NoInboxes ==
  /\ readerRole \in [{} -> Saved!Roles] /\ muted \in [{} -> SUBSET PanelTypes]
  /\ event \in [{} -> Saved!Stored] /\ inbox \in [{} -> [{} -> Saved!Entry]]

SavedTypes == SettingsInv /\ settings.version <= MaxSaves /\ NoInboxes

LEMMA SavedTypesInit == Saved!Init => SavedTypes
<1> SUFFICES ASSUME Saved!Init PROVE SavedTypes
  OBVIOUS
<1>1. settings.version = 0 /\ MaxSaves \in Nat
  BY NotificationLimits DEF Saved!Init
<1>2. NoInboxes
  BY DEF Saved!Init, NoInboxes
<1> QED BY <1>1, <1>2, SettingsInit DEF SavedTypes

LEMMA SavedTypesStep ==
  ASSUME SavedTypes, [Saved!Next]_centerVars
  PROVE  SavedTypes'
<1>1. SettingsInv'
  <2>1. CASE Saved!Next
    BY <2>1, SettingsStep DEF SavedTypes
  <2>2. CASE UNCHANGED centerVars
    BY <2>2, SettingsUnchanged DEF SavedTypes, centerVars
  <2> QED BY <2>1, <2>2
<1>2. /\ UNCHANGED <<readerRole, muted, event, inbox>>
      /\ \/ settings' = settings
         \/ settings'.version = settings.version + 1 /\ settings.version < MaxSaves
  <2>1. ASSUME NEW a \in Administrators, Saved!StoreSave(a)
        PROVE  /\ settings'.version = settings.version + 1 /\ settings.version < MaxSaves
               /\ UNCHANGED <<readerRole, muted, event, inbox>>
    BY <2>1 DEF Saved!StoreSave, Saved!StillCurrent, Saved!inboxVars
  <2>2. ASSUME NEW a \in Administrators,
               \/ Saved!Refetch(a) \/ Saved!Edit(a) \/ Saved!SaveClicked(a) \/ Saved!Confirm(a)
               \/ Saved!Cancel(a) \/ Saved!CheckSave(a) \/ Saved!RefuseSave(a)
        PROVE  settings' = settings /\ UNCHANGED <<readerRole, muted, event, inbox>>
    BY <2>2 DEF Saved!Refetch, Saved!Edit, Saved!SaveClicked, Saved!Confirm, Saved!Cancel,
         Saved!CheckSave, Saved!RefuseSave, Saved!inboxVars
  <2>3. CASE UNCHANGED centerVars
    BY <2>3 DEF centerVars
  <2> QED BY <2>1, <2>2, <2>3 DEF Saved!Next
<1>3. settings'.version <= MaxSaves
  <2>1. settings.version \in Nat
    BY DEF SavedTypes, SettingsInv
  <2> QED BY <1>2, <2>1, NotificationLimits DEF SavedTypes
<1>4. NoInboxes'
  BY <1>2 DEF SavedTypes, NoInboxes, Saved!Roles, Saved!Stored, Saved!Entry
<1> QED BY <1>1, <1>3, <1>4 DEF SavedTypes

LEMMA SavedTypesHold == SavedTypes => Saved!TypeOK
<1> SUFFICES ASSUME SavedTypes PROVE Saved!TypeOK
  OBVIOUS
<1>1. AllDeliveries = Saved!Deliveries
  BY NotificationLimits DEF AllDeliveries, Saved!Locked, Saved!Deliveries, Saved!Channels
<1>2. settings \in Saved!Settings /\ settings.version \in 0..MaxSaves
  BY <1>1, NotificationLimits DEF SavedTypes, SettingsInv, Saved!Settings
<1>3. ASSUME NEW a \in Administrators
      PROVE  panel[a] \in Saved!Panel /\ save[a].pc \in {"none", "told", "sent", "checked"}
  <2>1. /\ panel[a] \in PanelRecord /\ panel[a].version <= settings.version
        /\ save[a] \in SaveRecord
    BY DEF SavedTypes, SettingsInv, PanelIsKnown
  <2>2. panel[a].version \in 0..MaxSaves
    BY <1>2, <2>1, NotificationLimits DEF PanelRecord
  <2> QED BY <1>1, <2>1, <2>2 DEF PanelRecord, SaveRecord, Saved!Panel
<1>4. panel \in [Administrators -> Saved!Panel]
  BY <1>3 DEF SavedTypes, SettingsInv
<1> QED BY <1>2, <1>3, <1>4 DEF SavedTypes, NoInboxes, Saved!TypeOK

\* The settings are those the organization started with; members, their mutes and the
\* events they are for are known.
InboxTypes ==
  /\ InboxInv
  /\ settings \in Delivered!Settings /\ panel \in [{} -> Delivered!Panel]
  /\ readerRole \in [InboxMembers -> Delivered!Roles]
  /\ muted \in [InboxMembers -> SUBSET EventTypes]
  /\ event \in [EventTypes -> Delivered!Stored]

LEMMA InboxTypesInit == Delivered!Init => InboxTypes
<1> SUFFICES ASSUME Delivered!Init PROVE InboxTypes
  OBVIOUS
<1>1. settings \in Delivered!Settings
  <2>1. /\ settings.version = 0 /\ settings = [version |-> settings.version, on |-> settings.on]
        /\ settings.on = Delivered!Normalize(
             (EventTypes \X {"in_app"}) \cup ((EventTypes \ MandatoryTypes) \X {"email"}))
    BY DEF Delivered!Init
  <2>2. settings.on \in SUBSET Delivered!Deliveries
    BY <2>1, NotificationLimits
    DEF Delivered!Normalize, Delivered!Locked, Delivered!Deliveries, Delivered!Channels
  <2> QED BY <2>1, <2>2 DEF Delivered!Settings
<1>2. event \in [EventTypes -> Delivered!Stored]
  BY DEF Delivered!Init, Delivered!Stored
<1> QED BY <1>1, <1>2, InboxInit DEF InboxTypes, Delivered!Init, Delivered!Roles

LEMMA InboxTypesStep ==
  ASSUME InboxTypes, [Delivered!Next]_centerVars
  PROVE  InboxTypes'
<1>1. InboxInv' /\ UNCHANGED <<settings, panel, save>>
  BY InboxStep DEF InboxTypes
<1>2. settings' \in Delivered!Settings' /\ panel' \in [{} -> Delivered!Panel']
  BY <1>1 DEF InboxTypes, Delivered!Settings, Delivered!Panel, Delivered!Deliveries,
    Delivered!Channels
<1>3. readerRole' \in [InboxMembers -> Delivered!Roles]
      /\ muted' \in [InboxMembers -> SUBSET EventTypes]
  <2>1. ASSUME NEW m \in InboxMembers, Delivered!ChangeRole(m)
        PROVE  readerRole' \in [InboxMembers -> Delivered!Roles] /\ muted' = muted
    BY <2>1 DEF InboxTypes, Delivered!ChangeRole
  <2>2. ASSUME NEW m \in InboxMembers, Delivered!Mute(m)
        PROVE  muted' \in [InboxMembers -> SUBSET EventTypes] /\ readerRole' = readerRole
    BY <2>2 DEF InboxTypes, Delivered!Mute
  <2>3. ASSUME NEW m \in InboxMembers, Delivered!FindUnread(m) \/ Delivered!MarkFound(m)
        PROVE  UNCHANGED <<readerRole, muted>>
    BY <2>3 DEF Delivered!FindUnread, Delivered!MarkFound
  <2>4. ASSUME NEW e \in EventTypes,
               \/ Delivered!Emit(e) \/ Delivered!Dispatch(e) \/ Delivered!Recur(e)
               \/ \E m \in InboxMembers : Delivered!SetState(m, e)
        PROVE  UNCHANGED <<readerRole, muted>>
    BY <2>4 DEF Delivered!Emit, Delivered!Dispatch, Delivered!Recur, Delivered!SetState
  <2>5. CASE UNCHANGED centerVars
    BY <2>5 DEF centerVars, InboxTypes
  <2>6. CASE Delivered!Next
    BY <2>1, <2>2, <2>3, <2>4, <2>6 DEF Delivered!Next, InboxTypes
  <2> QED BY <2>5, <2>6
<1>4. event' \in [EventTypes -> Delivered!Stored]
  <2>1. ASSUME NEW e \in EventTypes, Delivered!Emit(e)
        PROVE  event' \in [EventTypes -> Delivered!Stored]
    BY <2>1 DEF InboxTypes, Delivered!Emit, Delivered!Stored
  <2>2. ASSUME NEW e \in EventTypes, Delivered!Dispatch(e)
        PROVE  event' \in [EventTypes -> Delivered!Stored]
    <3> DEFINE stored == [pc |-> "dispatched",
                          eligible |-> {m \in InboxMembers : Delivered!MayRead(m, e)}]
    <3>1. stored \in Delivered!Stored /\ event' = [event EXCEPT ![e] = stored]
      BY <2>2 DEF Delivered!Dispatch, Delivered!Stored
    <3> HIDE DEF stored
    <3> QED BY <3>1 DEF InboxTypes
  <2>3. ASSUME NEW e \in EventTypes,
               Delivered!Recur(e) \/ \E m \in InboxMembers : Delivered!SetState(m, e)
        PROVE  event' = event
    BY <2>3 DEF Delivered!Recur, Delivered!SetState
  <2>4. ASSUME NEW m \in InboxMembers,
               \/ Delivered!ChangeRole(m) \/ Delivered!Mute(m) \/ Delivered!FindUnread(m)
               \/ Delivered!MarkFound(m)
        PROVE  event' = event
    BY <2>4 DEF Delivered!ChangeRole, Delivered!Mute, Delivered!FindUnread, Delivered!MarkFound
  <2>5. CASE UNCHANGED centerVars
    BY <2>5 DEF centerVars, InboxTypes
  <2>6. CASE Delivered!Next
    BY <2>1, <2>2, <2>3, <2>4, <2>6 DEF Delivered!Next, InboxTypes
  <2> QED BY <2>5, <2>6
<1> QED BY <1>1, <1>2, <1>3, <1>4 DEF InboxTypes, Delivered!Roles, Delivered!Stored

LEMMA InboxTypesHold == InboxTypes => Delivered!TypeOK
BY DEF InboxTypes, InboxInv, Delivered!TypeOK

-----------------------------------------------------------------------------
(* Types of the lists.                                                     *)

ListTypes ==
  /\ ListInv
  /\ time \in 1..MaxMoments /\ inserted \in 0..MaxListed
  /\ \A x \in DOMAIN rows : rows[x] \in Paged!Row
  /\ reader.seen \in Seq(RowIds \cup {Paged!Owner})

\* A piece of rows in their order is one of rows.
LEMMA PieceOfRows ==
  ASSUME NEW D, NEW s \in Seq(D), NEW a \in Nat, NEW b \in 0..Len(s)
  PROVE  SubSeq(s, a + 1, b) \in Seq(D)
<1>1. Len(s) \in Nat /\ b \in Nat /\ \A i \in 1..Len(s) : s[i] \in D
  BY LenProperties, ElementOfSeq
<1>2. \A i \in (a + 1)..b : s[i] \in D
  BY <1>1
<1> QED BY <1>1, <1>2, SubSeqProperties

\* A page is of rows that there are.
LEMMA SeenRows ==
  ASSUME ListTypes, Paged!ReadPage
  PROVE  reader'.seen \in Seq(RowIds \cup {Paged!Owner})
<1> DEFINE D == RowIds \cup {Paged!Owner}
<1>0. /\ RowsInv /\ reader \in PageReader /\ PageRows \in Nat /\ reader.seen \in Seq(D)
      /\ reader.offset \in Nat
  BY ListedRows DEF ListTypes, ListInv, PlaceInv, PageReader
<1>1. ASSUME NEW S \in SUBSET DOMAIN rows PROVE Paged!Sorted(S) \in Seq(D)
  <2>1. Paged!Sorted(S) \in [1..Cardinality(S) -> S] /\ Cardinality(S) \in Nat /\ S \subseteq D
    BY <1>0, Sorts DEF Arranged, RowsInv
  <2> HIDE DEF D
  <2> QED BY <2>1
<1>2. ASSUME NEW s \in Seq(D)
      PROVE  /\ Len(s) \in Nat
             /\ SubSeq(s, 1, IF Len(s) < PageRows THEN Len(s) ELSE PageRows) \in Seq(D)
  <2> HIDE DEF D
  <2> DEFINE b == IF Len(s) < PageRows THEN Len(s) ELSE PageRows
  <2>1. Len(s) \in Nat /\ b \in 0..Len(s) /\ 0 \in Nat /\ 0 + 1 = 1
    BY <1>0, LenProperties
  <2> HIDE DEF b
  <2>2. SubSeq(s, 0 + 1, b) \in Seq(D)
    BY <2>1, PieceOfRows
  <2> QED BY <2>1, <2>2 DEF b
<1>3. CASE Paged!KeysetPage
  <2> DEFINE F == {id \in Paged!Present : reader.position = <<>> \/ Paged!After(Paged!Key(id), reader.position)}
             found == Paged!Sorted(F)
             page == SubSeq(found, 1, IF Len(found) < PageRows THEN Len(found) ELSE PageRows)
  <2>1. found \in Seq(D)
    BY <1>1 DEF Paged!Present
  <2>2. reader' = [reader EXCEPT !.seen = @ \o page, !.done = Len(found) <= PageRows,
                     !.position = IF Len(found) > PageRows THEN Paged!Key(page[PageRows]) ELSE @]
    BY <1>3 DEF Paged!KeysetPage
  <2> HIDE DEF found
  <2>3. page \in Seq(D)
    BY <1>2, <2>1
  <2> HIDE DEF page
  <2>4. reader'.seen = reader.seen \o page
    BY <1>0, <2>2 DEF PageReader
  <2> QED BY <1>0, <2>3, <2>4, ConcatProperties
<1>4. CASE Paged!OffsetPage
  <2> DEFINE all == Paged!Sorted(Paged!Present)
             b == IF Len(all) < reader.offset + PageRows + 1 THEN Len(all)
                  ELSE reader.offset + PageRows + 1
             fetched == SubSeq(all, reader.offset + 1, b)
             found == IF list = "own members" /\ reader.offset = 0 THEN <<Paged!Owner>> \o fetched ELSE fetched
             page == SubSeq(found, 1, IF Len(found) < PageRows THEN Len(found) ELSE PageRows)
  <2>1. all \in Seq(D)
    BY <1>1 DEF Paged!Present
  <2>2. reader' = [reader EXCEPT !.seen = @ \o page, !.done = Len(found) <= PageRows,
                     !.offset = @ + PageRows]
    BY <1>4 DEF Paged!OffsetPage
  <2> HIDE DEF all
  <2>3. b \in 0..Len(all)
    <3> HIDE DEF D
    <3> QED BY <1>0, <2>1, LenProperties
  <2> HIDE DEF b
  <2>4. fetched \in Seq(D)
    BY <1>0, <2>1, <2>3, PieceOfRows
  <2> HIDE DEF fetched
  <2>5. found \in Seq(D)
    <3>1. <<Paged!Owner>> \in Seq(D)
      OBVIOUS
    <3> QED BY <2>4, <3>1, ConcatProperties
  <2> HIDE DEF found
  <2>6. page \in Seq(D)
    BY <1>2, <2>5
  <2> HIDE DEF page
  <2>7. reader'.seen = reader.seen \o page
    BY <1>0, <2>2 DEF PageReader
  <2> QED BY <1>0, <2>6, <2>7, ConcatProperties
<1> QED BY <1>3, <1>4 DEF Paged!ReadPage

LEMMA ListTypesInit == Paged!Init => ListTypes
<1> SUFFICES ASSUME Paged!Init PROVE ListTypes
  OBVIOUS
<1>1. /\ rows = <<>> /\ time = 1 /\ inserted = 0 /\ reader.seen = <<>>
  BY DEF Paged!Init, Paged!Start
<1>2. DOMAIN rows = {} /\ reader.seen \in Seq(RowIds \cup {Paged!Owner})
  BY <1>1, EmptySeq
<1> QED BY <1>1, <1>2, ListedRows, ListInit DEF ListTypes

LEMMA ListTypesStep ==
  ASSUME ListTypes, [Paged!Next]_listVars
  PROVE  ListTypes'
<1>0. /\ ListInv' /\ RowsInv
      /\ MaxListed \in Nat /\ MaxMoments \in Nat \ {0}
  BY ListStep, ListedRows DEF ListTypes, ListInv
<1>1. CASE Paged!ReadPage
  <2>1. UNCHANGED <<rows, time, inserted>>
    BY <1>1 DEF Paged!ReadPage
  <2>2. reader'.seen \in Seq(RowIds \cup {Paged!Owner})
    BY <1>1, SeenRows
  <2> QED BY <1>0, <2>1, <2>2 DEF ListTypes, Paged!Row, Paged!Owner
<1>2. CASE Paged!Tick
  <2>1. UNCHANGED <<rows, reader, inserted>> /\ time' \in 1..MaxMoments
    BY <1>0, <1>2 DEF Paged!Tick, ListTypes
  <2> QED BY <1>0, <2>1 DEF ListTypes, Paged!Row, Paged!Owner
<1>3. ASSUME NEW id \in RowIds, NEW at \in 1..MaxMoments, NEW rank \in RowRanks,
             Paged!Insert(id, at, rank)
      PROVE  ListTypes'
  <2> DEFINE row == [at |-> at, seq |-> inserted + 1, rank |-> rank]
  <2>1. /\ inserted < MaxListed /\ inserted' = inserted + 1 /\ UNCHANGED <<time, reader>>
        /\ rows' = [i \in DOMAIN rows \cup {id} |-> IF i = id THEN row ELSE rows[i]]
    BY <1>3 DEF Paged!Insert, Paged!Present
  <2>2. inserted \in 0..MaxListed /\ inserted + 1 \in 1..MaxListed /\ inserted + 1 \in 0..MaxListed
    BY <1>0, <2>1 DEF ListTypes
  <2>3. row \in Paged!Row
    BY <2>2 DEF Paged!Row
  <2> HIDE DEF row
  <2>4. \A x \in DOMAIN rows' : rows'[x] \in Paged!Row
    BY <2>1, <2>3 DEF ListTypes
  <2> QED BY <1>0, <2>1, <2>2, <2>4 DEF ListTypes, Paged!Row, Paged!Owner
<1>4. ASSUME NEW id \in RowIds, Paged!Refresh(id) PROVE ListTypes'
  <2>1. /\ id \in DOMAIN rows /\ rows' = [rows EXCEPT ![id].at = time]
        /\ UNCHANGED <<time, reader, inserted>>
    BY <1>4 DEF Paged!Refresh, Paged!Present
  <2>2. time \in 1..MaxMoments /\ \A x \in DOMAIN rows : rows[x] \in Paged!Row
    BY DEF ListTypes
  <2>3. [rows[id] EXCEPT !.at = time] \in Paged!Row
    BY <2>1, <2>2 DEF Paged!Row
  <2>4. \A x \in DOMAIN rows' : rows'[x] \in Paged!Row
    BY <2>1, <2>2, <2>3
  <2> QED BY <1>0, <2>1, <2>4 DEF ListTypes, Paged!Row, Paged!Owner
<1>5. ASSUME NEW id \in RowIds, Paged!Delete(id) PROVE ListTypes'
  <2>1. /\ rows' = [i \in DOMAIN rows \ {id} |-> rows[i]]
        /\ UNCHANGED <<time, reader, inserted>>
    BY <1>5 DEF Paged!Delete, Paged!Present
  <2>2. \A x \in DOMAIN rows' : rows'[x] \in Paged!Row
    BY <2>1 DEF ListTypes
  <2> QED BY <1>0, <2>1, <2>2 DEF ListTypes, Paged!Row, Paged!Owner
<1>6. CASE UNCHANGED listVars
  BY <1>0, <1>6 DEF listVars, ListTypes, Paged!Row, Paged!Owner
<1> QED BY <1>1, <1>2, <1>3, <1>4, <1>5, <1>6 DEF Paged!Next

LEMMA ListTypesHold == ListTypes => Paged!TypeOK
<1> SUFFICES ASSUME ListTypes PROVE Paged!TypeOK
  OBVIOUS
<1>1. RowsInv /\ reader \in PageReader
  BY DEF ListTypes, ListInv, PlaceInv
<1>2. list \in RankedLists \cup {"scans newest", "scans oldest", "violations newest", "violations oldest",
                                 "audit newest", "audit oldest", "notifications", "deliveries", "versions"}
  BY <1>1 DEF RowsInv, PagedKeysets, Paged!KeysetLists, RankedLists
<1>3. rows \in [DOMAIN rows -> Paged!Row]
  BY <1>1 DEF ListTypes, RowsInv
<1> QED BY <1>1, <1>2, <1>3 DEF ListTypes, RowsInv, PageReader, Paged!TypeOK, Paged!Present

-----------------------------------------------------------------------------
(* Types in the behaviours of MCDashboard.                                 *)

LEMMA JudgedTypesHold ==
  ASSUME NEW CONSTANT c, JudgedInv(c)
  PROVE  Judged(c)!TypeOK
<1>1. ApiTypes(c)
  BY DEF JudgedInv
<1>2. ASSUME NEW s \in c.sessions PROVE cookie[s].state \in {"unused", "live", "expired", "ended"}
  BY <1>1 DEF ApiTypes
<1>3. ASSUME NEW t \in c.threads, request[t] # Judged(c)!Idle
      PROVE  /\ request[t].step \in {"arrived", "identified", "timed", "counted", "answered"}
             /\ request[t].status \in Judged(c)!Refusals \cup {"none", "ok"}
             /\ request[t].status # "none" <=> request[t].step = "answered"
             /\ request[t].principal \in [Judged(c)!Places -> Judged(c)!Role]
  BY <1>1, <1>3 DEF ApiTypes, ApiRequest
<1>4. ASSUME NEW k \in Judged(c)!Categories, NEW key \in Judged(c)!Keys
      PROVE  counted[k][key].count \in Nat
  BY <1>1 DEF ApiTypes
<1> QED BY <1>1, <1>2, <1>3, <1>4 DEF ApiTypes, Judged!TypeOK

LEMMA SimulatedTypes == AllSpec => []Simulated!TypeOK
<1>1. Simulating!TypeOK => Simulated!TypeOK
  BY Zenon
  DEF Simulated!TypeOK, Simulating!TypeOK, Simulated!Actions, Simulating!Actions,
      Simulated!Scan, Simulating!Scan, Simulated!Simulation, Simulating!Simulation,
      Simulated!Result, Simulating!Result, Simulated!Cardinality, Simulating!Cardinality
<1>2. Simulating!SimulationBounds
  <2>1. \A S : Simulating!IsFiniteSet(S) <=> IsFiniteSet(S)
    BY Zenon DEF Simulating!IsFiniteSet, IsFiniteSet
  <2> QED BY <2>1, SimulationLimits DEF Simulating!SimulationBounds, Simulating!Actions
<1> QED BY <1>1, <1>2, Simulates, Simulating!TypeCorrect, PTL

\* A step of another component leaves the workflow alone.
LEMMA WorkflowBehaviour == AllSpec => Spec
<1>1. ASSUME [AllNext]_allVars PROVE [Next]_vars
  <2>1. CASE WorkflowStep
    BY <2>1 DEF WorkflowStep
  <2>2. CASE SimulatedStep \/ SignedInStep
    BY <2>2 DEF SimulatedStep, SignedInStep, workflowVars
  <2>3. CASE LimitedStep \/ RoutedStep \/ DemotedStep \/ EndedStep
    BY <2>3 DEF LimitedStep, RoutedStep, DemotedStep, EndedStep, RequestsOnly, workflowVars
  <2>4. CASE DatedStep \/ RankedStep
    BY <2>4 DEF DatedStep, RankedStep, ListsOnly, workflowVars
  <2>5. CASE SavedStep \/ DeliveredStep
    BY <2>5 DEF SavedStep, DeliveredStep, CenterOnly, workflowVars
  <2>6. CASE CalledStep
    BY <2>6 DEF CalledStep, workflowVars
  <2>7. CASE UNCHANGED allVars
    BY <2>7 DEF allVars, workflowVars
  <2> QED BY <1>1, <2>1, <2>2, <2>3, <2>4, <2>5, <2>6, <2>7 DEF AllNext
<1> QED BY <1>1, PTL DEF AllSpec, AllInit, Spec

RunningTypes ==
  /\ CallTypes /\ ListTypes /\ RequestsInv
  /\ IF part = "delivered" THEN InboxTypes ELSE SavedTypes

LEMMA RunningTypesHold == AllSpec => []RunningTypes
<1>1. AllInit => RunningTypes
  <2>1. AllInit => RequestsInv
    BY RequestsStart
  <2> QED BY <2>1, CallTypesInit, ListTypesInit, SavedTypesInit, InboxTypesInit
          DEF AllInit, RunningTypes
<1>2. ASSUME RunningTypes, [AllNext]_allVars PROVE RunningTypes'
  <2>1. CallTypes'
    BY <1>2, OtherParts, CallTypesStep DEF RunningTypes, CalledStep
  <2>2. ListTypes'
    BY <1>2, OtherParts, ListTypesStep DEF RunningTypes, DatedStep, RankedStep
  <2>3. RequestsInv'
    BY <1>2, RequestsGoOn DEF RunningTypes
  <2>4. CASE part = "delivered"
    BY <1>2, <2>1, <2>2, <2>3, <2>4, OtherParts, InboxTypesStep DEF RunningTypes, SavedStep, DeliveredStep
  <2>5. CASE part # "delivered"
    BY <1>2, <2>1, <2>2, <2>3, <2>5, OtherParts, SavedTypesStep DEF RunningTypes, SavedStep, DeliveredStep
  <2> QED BY <2>4, <2>5
<1> QED BY <1>1, <1>2, PTL DEF AllSpec

\* The variables of every component of the dashboard have their types.  Beyond the kinds of
\* their values: a call of GitHub is carried out at most once by attempt and page, a version
\* that is shown or saved is one there is, a page lists rows that there are, and a request
\* has a status exactly when it was answered.
THEOREM DashboardTyped == AllSpec => []Types
<1>1. RunningTypes /\ Simulated!TypeOK /\ AccessInv /\ TypeOK /\ part \in Parts => Types
  <2> SUFFICES ASSUME RunningTypes, Simulated!TypeOK, AccessInv, TypeOK, part \in Parts
               PROVE  Types
    OBVIOUS
  <2>1. SignedIn!TypeOK /\ Called!TypeOK /\ Paged!TypeOK
    BY CalledTypesHold, ListTypesHold DEF RunningTypes, AccessInv
  <2>2. /\ part = "limited" => Judged(Limited)!TypeOK
        /\ part = "routed" => Judged(Routed)!TypeOK
        /\ part = "demoted" => Judged(Demoted)!TypeOK
        /\ part = "ended" => Judged(Ended)!TypeOK
    BY JudgedTypesHold DEF RunningTypes, RequestsInv
  <2>3. /\ part = "delivered" => Delivered!TypeOK
        /\ part = "saved" => Saved!TypeOK
    BY InboxTypesHold, SavedTypesHold DEF RunningTypes
  <2> QED BY <2>1, <2>2, <2>3 DEF Types, Parts
<1>2. AllSpec => [](part \in Parts)
  <2>1. part \in Parts /\ [AllNext]_allVars => (part \in Parts)'
    BY OtherParts DEF Parts
  <2> QED BY <2>1, PTL DEF AllSpec, AllInit
<1>3. AllSpec => []TypeOK
  BY WorkflowBehaviour, TypeCorrect, PTL
<1> QED BY <1>1, <1>2, <1>3, RunningTypesHold, SimulatedTypes, AccessHolds, PTL
=============================================================================
