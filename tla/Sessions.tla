-------------------------------- MODULE Sessions --------------------------------
(***************************************************************************)
(* Dashboard access: sign-in through GitHub and sessions                   *)
(* (controlplane/identity.py), the roles of an organization's members      *)
(* (controlplane/members.py), and the checks every request goes through    *)
(* (DashboardApi._dispatch).  Requests run concurrently; a sign-in calls   *)
(* GitHub between its transactions, and a request reads its session and    *)
(* its role before the transaction it is about.                            *)
(*                                                                         *)
(* Times are ages in units of LAST_SEEN_RESOLUTION.                        *)
(***************************************************************************)
EXTENDS Integers, FiniteSets

CONSTANTS
  Users,       \* GitHub users
  Elsewhere,   \* the users that are members of another organization too
  SignIns,     \* OAuth states
  SessionIds,  \* session tokens
  Threads,     \* request threads
  StateLimit,  \* OAUTH_STATE_LIFETIME
  IdleLimit,   \* SESSION_IDLE_TIMEOUT
  Lifetime,    \* SESSION_LIFETIME
  MaxChanges   \* bound: changes of roles

VARIABLES
  role,     \* memberships of the organization
  signIn,   \* oauth_states
  session,  \* sessions
  thread,   \* what every request thread has read
  changes

vars == <<role, signIn, session, thread, changes>>

-----------------------------------------------------------------------------
Role == {"none", "viewer", "owner"}   \* "viewer": any role without members:manage
Idle == [step |-> "idle"]

Live == [status: {"live"}, user: Users, signIn: SignIns, access: BOOLEAN, age: 0..Lifetime,
         idle: 0..Lifetime]

Request == [step: {"expire", "touch", "roles"}, id: SessionIds, age: 0..Lifetime]
  \cup [step: {"act"}, id: SessionIds, user: Users, role: Role]
SigningIn == [step: {"exchange"}, signIn: SignIns, age: 0..Lifetime]

TypeOK ==
  /\ role \in [Users -> Role]
  /\ signIn \in [SignIns -> [status: {"new", "gone"}] \cup [status: {"pending"}, age: 0..StateLimit]]
  /\ session \in [SessionIds -> [status: {"new", "ended"}] \cup Live]
  /\ thread \in [Threads -> {Idle} \cup Request \cup SigningIn]
  /\ changes \in 0..MaxChanges

Init ==
  /\ role = [u \in Users |-> "none"]
  /\ signIn = [s \in SignIns |-> [status |-> "new"]]
  /\ session = [i \in SessionIds |-> [status |-> "new"]]
  /\ thread = [t \in Threads |-> Idle]
  /\ changes = 0

Owners == {u \in Users : role[u] = "owner"}
SessionsOf(u) == {i \in SessionIds : session[i].status = "live" /\ session[i].user = u}
Begin(t, r) == thread' = [thread EXCEPT ![t] = r]
End(t) == Begin(t, Idle)

\* Deletes the rows of these sessions.
EndSessions(S) ==
  session' = [i \in SessionIds |-> IF i \in S THEN [status |-> "ended"] ELSE session[i]]

-----------------------------------------------------------------------------
(* Time.                                                                   *)

Older(r, limit) == [r EXCEPT !.age = IF @ < limit THEN @ + 1 ELSE @]

Tick ==
  /\ signIn' = [s \in SignIns |->
       IF signIn[s].status = "pending" THEN Older(signIn[s], StateLimit) ELSE signIn[s]]
  /\ session' = [i \in SessionIds |->
       IF session[i].status = "live"
         THEN [Older(session[i], Lifetime) EXCEPT !.idle = IF @ < Lifetime THEN @ + 1 ELSE @]
         ELSE session[i]]
  /\ thread' = [t \in Threads |->
       IF thread[t].step \in {"exchange", "expire", "touch", "roles"}
         THEN Older(thread[t], Lifetime) ELSE thread[t]]
  /\ UNCHANGED <<role, changes>>

Expired(s) == s.age >= Lifetime \/ s.idle >= IdleLimit

Overdue(s) == signIn[s].status = "pending" /\ signIn[s].age = StateLimit
WithoutOverdue == [s \in SignIns |-> IF Overdue(s) THEN [status |-> "gone"] ELSE signIn[s]]

\* purge_expired
Purge ==
  LET expired == {i \in SessionIds : session[i].status = "live" /\ Expired(session[i])}
  IN /\ expired # {} \/ \E s \in SignIns : Overdue(s)
     /\ signIn' = WithoutOverdue
     /\ EndSessions(expired)
     /\ UNCHANGED <<role, thread, changes>>

-----------------------------------------------------------------------------
(* Signing in.                                                             *)

BeginSignIn(s) ==
  /\ signIn[s].status = "new"
  /\ signIn' = [WithoutOverdue EXCEPT ![s] = [status |-> "pending", age |-> 0]]
  /\ UNCHANGED <<role, session, thread, changes>>

\* Mutant: the state is read, and deleted when the session is stored.
PeekState(t, s) ==
  /\ thread[t] = Idle
  /\ signIn[s].status = "pending" /\ signIn[s].age < StateLimit
  /\ Begin(t, [step |-> "exchange", signIn |-> s, age |-> 0])
  /\ UNCHANGED <<role, signIn, session, changes>>

\* complete_sign_in: the state is read and deleted in one transaction.
ConsumeState(t, s) ==
  /\ thread[t] = Idle
  /\ signIn[s].status = "pending"
  /\ signIn' = [signIn EXCEPT ![s] = [status |-> "gone"]]
  /\ IF signIn[s].age < StateLimit
       THEN Begin(t, [step |-> "exchange", signIn |-> s, age |-> 0]) ELSE UNCHANGED thread
  /\ UNCHANGED <<role, session, changes>>

\* GitHub names the user, and whether the organization's installation is accessible
\* (_github_access).  The times of the new session are those of the callback.
StoreSession(t, i, u, access) ==
  /\ thread[t].step = "exchange"
  /\ session[i].status = "new"
  /\ session' = [session EXCEPT ![i] =
       [status |-> "live", user |-> u, signIn |-> thread[t].signIn, access |-> access,
        age |-> thread[t].age, idle |-> thread[t].age]]
  /\ End(t)
  /\ UNCHANGED <<role, signIn, changes>>

\* GitHub refuses the code or cannot be reached.
SignInFails(t) ==
  /\ thread[t].step = "exchange"
  /\ End(t)
  /\ UNCHANGED <<role, signIn, session, changes>>

-----------------------------------------------------------------------------
(* The checks of a request.                                                *)

\* authenticate reads the row of the session, and decides on what to write later.
Authenticate(t, i) ==
  /\ thread[t] = Idle
  /\ session[i].status = "live"
  /\ Begin(t, [step |-> IF Expired(session[i]) THEN "expire"
                       ELSE IF session[i].idle >= 1 THEN "touch" ELSE "roles",
               id |-> i, age |-> 0])
  /\ UNCHANGED <<role, signIn, session, changes>>

\* An expired session is deleted in a later transaction.
Expire(t) ==
  /\ thread[t].step = "expire"
  /\ EndSessions({thread[t].id})
  /\ End(t)
  /\ UNCHANGED <<role, signIn, changes>>

\* last_seen_at is the time of the request, also when a later one wrote a newer time.
Touched(s, since) == [s EXCEPT !.idle = since]

Touch(t) ==
  LET r == thread[t]
  IN /\ r.step = "touch"
     /\ session' = [session EXCEPT ![r.id] = IF @.status = "live" THEN Touched(@, r.age) ELSE @]
     /\ Begin(t, [r EXCEPT !.step = "roles"])
     /\ UNCHANGED <<role, signIn, changes>>

\* _principal: nobody, if the session has ended; otherwise the memberships, of
\* organizations that GitHub reported at sign-in.
ReadRoles(t) ==
  LET s == session[thread[t].id]
  IN /\ thread[t].step = "roles"
     /\ IF s.status = "live"
          THEN Begin(t, [step |-> "act", id |-> thread[t].id, user |-> s.user,
                         role |-> IF s.access THEN role[s.user] ELSE "none"])
          ELSE End(t)
     /\ UNCHANGED <<role, signIn, session, changes>>

\* A request that reads, or is refused.
Serve(t) ==
  /\ thread[t].step = "act"
  /\ End(t)
  /\ UNCHANGED <<role, signIn, session, changes>>

SignOut(t) ==
  /\ thread[t].step = "act"
  /\ EndSessions({thread[t].id})
  /\ End(t)
  /\ UNCHANGED <<role, signIn, changes>>

\* One of the caller's own sessions
RevokeSession(t, i) ==
  /\ thread[t].step = "act"
  /\ i \in SessionsOf(thread[t].user)
  /\ EndSessions({i})
  /\ End(t)
  /\ UNCHANGED <<role, signIn, changes>>

-----------------------------------------------------------------------------
(* Members.                                                                *)

\* Mutant: the owners are not counted.
OthersRemain(u) == TRUE

\* _require_other_owner
OtherOwner(u) == Owners \ {u} # {}

\* The transaction of grant
GrantRole(u, new) ==
  /\ changes < MaxChanges /\ changes' = changes + 1
  /\ role[u] = "owner" /\ new # "owner" => OtherOwner(u)
  /\ role' = [role EXCEPT ![u] = new]

\* The transaction of remove: the sessions of a user without a membership end.
RemoveRole(u) ==
  /\ changes < MaxChanges /\ changes' = changes + 1
  /\ role[u] # "none"
  /\ role[u] = "owner" => OtherOwner(u)
  /\ role' = [role EXCEPT ![u] = "none"]
  /\ EndSessions(IF u \in Elsewhere THEN {} ELSE SessionsOf(u))

\* put_member and delete_member: by an owner, as the request read it, and of others.
May(t, u) == thread[t].step = "act" /\ thread[t].role = "owner" /\ thread[t].user # u

PutMember(t, u, new) ==
  May(t, u) /\ GrantRole(u, new) /\ End(t) /\ UNCHANGED <<signIn, session>>

DeleteMember(t, u) == May(t, u) /\ RemoveRole(u) /\ End(t) /\ UNCHANGED signIn

\* The operator's commands, which are nobody's request
OperatorGrants(u, new) == GrantRole(u, new) /\ UNCHANGED <<signIn, session, thread>>
OperatorRevokes(u) == RemoveRole(u) /\ UNCHANGED <<signIn, thread>>

-----------------------------------------------------------------------------
Next ==
  \/ Tick \/ Purge
  \/ \E s \in SignIns : BeginSignIn(s)
  \/ \E t \in Threads :
       \/ \E s \in SignIns : ConsumeState(t, s)
       \/ \E i \in SessionIds, u \in Users, access \in BOOLEAN : StoreSession(t, i, u, access)
       \/ SignInFails(t)
       \/ \E i \in SessionIds : Authenticate(t, i) \/ RevokeSession(t, i)
       \/ Expire(t) \/ Touch(t) \/ ReadRoles(t) \/ Serve(t) \/ SignOut(t)
       \/ \E u \in Users :
            \/ \E new \in Role \ {"none"} : PutMember(t, u, new)
            \/ DeleteMember(t, u)
  \/ \E u \in Users :
       \/ \E new \in Role \ {"none"} : OperatorGrants(u, new)
       \/ OperatorRevokes(u)

Spec == Init /\ [][Next]_vars

\* Time passes, and the maintenance loop purges.
Fairness == WF_vars(Tick) /\ WF_vars(Purge)

-----------------------------------------------------------------------------
\* "An organisation always keeps at least one explicit owner once it has one"
\* (controlplane/members.py), also when two owners demote each other at a time.
OwnerKept == [][Owners # {} => Owners' # {}]_role

\* A sign-in that GitHub approved once gives one session, although the browser may
\* send the callback twice, while the first is talking to GitHub.
SignInOnce ==
  \A s \in SignIns :
    Cardinality({i \in SessionIds : session[i].status = "live" /\ session[i].signIn = s})
      + Cardinality({t \in Threads : thread[t].step = "exchange" /\ thread[t].signIn = s}) <= 1

\* Every session ends, also one that is used all the time.
SessionsEnd == \A i \in SessionIds : session[i].status = "live" ~> session[i].status # "live"
=============================================================================
