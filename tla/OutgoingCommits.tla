--------------------------- MODULE OutgoingCommits ---------------------------
(***************************************************************************)
(* Which commits an operation introduces, and what becomes of them: a      *)
(* developer commits, amends and merges in a clone and pushes through the  *)
(* pre-push hook, which analyses the outgoing commits and may rewrite the  *)
(* unpushed ones; other people push to the same repository; and the CI     *)
(* check of every push selects its own range and its own trusted policy.   *)
(*                                                                         *)
(* A commit is what the ranges, the analysis and the rewriting tell apart: *)
(* its parents, whether a rule blocks it ("line": text of the message,     *)
(* "identity": author or committer), whether it weakens the repository's   *)
(* configuration, and the work it carries (a copy or an amended commit     *)
(* carries the work of the commit it replaces).                            *)
(***************************************************************************)
EXTENDS Naturals, FiniteSets, Sequences, SequencesExt

CONSTANTS
  Branches,     \* branch names, the same locally and on the remote
  Default,      \* the repository's default branch
  Kinds,        \* kinds of commits that are made, within CommitKinds
  Pushers,      \* git push processes of the developer's clone
  MaxCommits,   \* bound: commits ever made, copies included
  MaxPushes     \* bound: pushes started, by the developer or by others

CommitKinds == {"clean", "line", "identity", "weakens"}

(* A commit: its parents, whether a rule blocks it and why, and the work    *)
(* that its history would lose with it.                                     *)
CommitRecord == [parents : SUBSET (1 .. MaxCommits), kind : CommitKinds,
                 work : SUBSET (1 .. MaxCommits)]

(* Refs of some branches, and a push: what Git tells the hook of each ref,  *)
(* and what the hook makes of it.                                           *)
Refs == UNION {[bs -> 0 .. MaxCommits] : bs \in SUBSET Branches}
Push == [pc : {"idle", "hook", "fix", "move", "send", "sent"}, verify : BOOLEAN, force : BOOLEAN,
         refs : Refs, old : Refs, new : Refs,
         outgoing : UNION {[bs -> SUBSET (1 .. MaxCommits)] : bs \in SUBSET Branches}]

VARIABLES
  commits,    \* the commits made so far; a commit is its position
  local,      \* branch -> its tip in the clone, 0 when it is absent
  known,      \* the commits the clone has
  tracking,   \* branch -> the remote's tip as the clone last saw it
  remote,     \* branch -> its tip on the remote
  push,       \* pusher -> its push
  pushes,     \* pushes started so far
  unchecked,  \* history: commits the remote received past the hook
  events,     \* push events whose CI check has not run
  scanned,    \* history: commits some CI check analysed
  accepted    \* history: blocked commits a CI check let pass

vars == << commits, local, known, tracking, remote, push, pushes, unchecked,
           events, scanned, accepted >>

Ids == 1 .. Len(commits)
None == 0


(* git rev-list <tip>: the commits reachable from a commit. *)
Reach(cs, tip) ==
  LET up[c \in 0 .. Len(cs)] ==
        IF c = None THEN {} ELSE {c} \cup UNION {up[p] : p \in cs[c].parents}
  IN  up[tip]

(* rev_list(include, exclude): what `include` reaches and no excluded commit *)
(* does.                                                                     *)
Introduced(cs, tip, excluded) == Reach(cs, tip) \ UNION {Reach(cs, e) : e \in excluded}

Tips(refs) == {refs[b] : b \in Branches} \ {None}
Blocked(cs, set) == {c \in set : cs[c].kind \in {"line", "identity"}}
Work(cs, set) == UNION {cs[c].work : c \in set}

(* The configuration in the tree of a commit is weaker than the defaults. *)
Weak(cs, tip) == \E c \in Reach(cs, tip) : cs[c].kind = "weakens"

Idle == [pc |-> "idle", verify |-> TRUE, force |-> FALSE, refs |-> <<>>, old |-> <<>>,
         outgoing |-> <<>>, new |-> <<>>]

Init ==
  /\ commits = << [parents |-> {}, kind |-> "clean", work |-> {1}] >>
  /\ local = [b \in Branches |-> IF b = Default THEN 1 ELSE None]
  /\ tracking = local
  /\ remote = local
  /\ known = {1}
  /\ push = [p \in Pushers |-> Idle]
  /\ pushes = 0
  /\ unchecked = {}
  /\ events = {}
  /\ scanned = {1}
  /\ accepted = {}

-----------------------------------------------------------------------------
(* The developer's work, as far as the ranges depend on it. *)

New(b, parents, kind, work) ==
  /\ Len(commits) < MaxCommits
  /\ commits' = Append(commits, [parents |-> parents, kind |-> kind, work |-> work])
  /\ local' = [local EXCEPT ![b] = Len(commits) + 1]
  /\ known' = known \cup {Len(commits) + 1}
  /\ UNCHANGED << tracking, remote, push, pushes, unchecked, events, scanned, accepted >>

Commit(b) ==
  /\ local[b] # None
  /\ \E k \in Kinds : New(b, {local[b]}, k, {Len(commits) + 1})

Amend(b) ==
  /\ local[b] \notin {None, 1}
  /\ \E k \in Kinds :
       New(b, commits[local[b]].parents, k, commits[local[b]].work \cup {Len(commits) + 1})

Merge(b, o) ==
  /\ None \notin {local[b], local[o]}
  /\ local[b] \notin Reach(commits, local[o])
  /\ local[o] \notin Reach(commits, local[b])
  /\ New(b, {local[b], local[o]}, "clean", {Len(commits) + 1})

Branch(b, o) ==
  /\ local[b] = None
  /\ local[o] # None
  /\ local' = [local EXCEPT ![b] = local[o]]
  /\ UNCHANGED << commits, known, tracking, remote, push, pushes, unchecked, events, scanned,
                  accepted >>

Fetch ==
  /\ tracking # remote
  /\ tracking' = remote
  /\ known' = known \cup UNION {Reach(commits, t) : t \in Tips(remote)}
  /\ UNCHANGED << commits, local, remote, push, pushes, unchecked, events, scanned, accepted >>

-----------------------------------------------------------------------------
(* git push: Git chooses the objects and reads the remote's refs, then runs *)
(* the hook with them; `verify` is FALSE for git push --no-verify. A push is *)
(* forced where the remote would refuse it otherwise.                       *)

StartPush(p, verify, force) ==
  /\ push[p].pc = "idle"
  /\ pushes < MaxPushes
  /\ \E bs \in SUBSET {b \in Branches : local[b] \notin {None, remote[b]}} :
       /\ bs # {}
       /\ force <=> \E b \in bs : remote[b] \notin Reach(commits, local[b]) \cup {None}
       /\ push' = [push EXCEPT ![p] =
            [Idle EXCEPT !.pc = IF verify THEN "hook" ELSE "send", !.verify = verify,
                         !.force = force,
                         !.refs = [b \in bs |-> local[b]], !.old = [b \in bs |-> remote[b]]]]
  /\ pushes' = pushes + 1
  /\ UNCHANGED << commits, local, known, tracking, remote, unchecked, events, scanned,
                  accepted >>

(* The commits the remote is known to have: its tracking refs, and the      *)
(* remote's object when it is present locally.                              *)
RemoteHas(q, b) == Tips(tracking) \cup ({q.old[b]} \cap known)

(* plan_push, the analysis of the outgoing commits, and the verdict of      *)
(* _finish when nothing is to be fixed.                                     *)
Outgoing(q, b) == Introduced(commits, q.refs[b], RemoteHas(q, b))

Plan(p) ==
  LET q == push[p]
      out == [b \in DOMAIN q.refs |-> Outgoing(q, b)]
      blocked == Blocked(commits, UNION {out[b] : b \in DOMAIN out})
  IN  /\ q.pc = "hook"
      /\ push' = [push EXCEPT ![p] =
           IF blocked = {} THEN [q EXCEPT !.pc = "send"]
           ELSE [q EXCEPT !.pc = "fix", !.outgoing = out]]
      /\ UNCHANGED << commits, local, known, tracking, remote, pushes, unchecked, events,
                      scanned, accepted >>

(* A push that stops: the commits stay blocked (fix_on_push is off or would *)
(* be unsafe: a signature, an unfinished rebase, a tag or a detached HEAD,  *)
(* a message with nothing left) or the hook fails, and any failure blocks.  *)
Stop(p) ==
  /\ push[p].pc \in {"hook", "fix", "move"}
  /\ push' = [push EXCEPT ![p] = Idle]
  /\ UNCHANGED << commits, local, known, tracking, remote, pushes, unchecked, events, scanned,
                  accepted >>

(* fix_outgoing_commits up to the moves: only branches that carry a blocked *)
(* commit; every blocked commit and what descends from it within them is    *)
(* copied, parents first.                                                   *)
Targets(q) == {b \in DOMAIN q.refs : Blocked(commits, q.outgoing[b]) # {}}

Rewritten(q) ==
  LET within == UNION {q.outgoing[b] : b \in Targets(q)}
  IN  {c \in within : Blocked(commits, Reach(commits, c) \cap within) # {}}

(* _topological: parents before children. A commit is younger than its      *)
(* parents, so ascending is one such order.                                 *)
Ascending(S) ==
  CHOOSE s \in Bijection(1 .. Cardinality(S), S) : \A i, j \in DOMAIN s : i < j => s[i] < s[j]

Fix(p) ==
  LET q == push[p]
      old == Ascending(Rewritten(q))
      copy(c) == Len(commits) + (CHOOSE i \in DOMAIN old : old[i] = c)
      Remapped(c) == {IF d \in Rewritten(q) THEN copy(d) ELSE d : d \in commits[c].parents}
      copies == [i \in DOMAIN old |->
        [parents |-> Remapped(old[i]),
         kind |-> IF commits[old[i]].kind = "line" THEN "clean" ELSE commits[old[i]].kind,
         work |-> commits[old[i]].work]]
  IN  /\ q.pc = "fix"
      /\ \A b \in Targets(q) : \A c \in q.outgoing[b] : commits[c].kind # "identity"
      /\ Rewritten(q) \cap UNION {Reach(commits, t) : t \in Tips(tracking)} = {}
      /\ Len(commits) + Len(old) <= MaxCommits
      /\ commits' = commits \o copies
      /\ known' = known \cup {copy(c) : c \in Rewritten(q)}
      /\ push' = [push EXCEPT ![p].pc = "move",
                              ![p].new = [b \in Targets(q) |-> copy(q.refs[b])]]
      /\ UNCHANGED << local, tracking, remote, pushes, unchecked, events, scanned, accepted >>

(* A mutation: the update does not compare with the old commit. *)
MayMoveAnyway(q) == TRUE

(* move_branches: every branch still points where it did when the push      *)
(* began, or none moves; either way this push does not proceed.             *)
MayMove(q) == \A b \in DOMAIN q.new : local[b] = q.refs[b]

Move(p) ==
  LET q == push[p]
  IN  /\ q.pc = "move"
      /\ local' = IF MayMove(q) THEN [b \in Branches |-> IF b \in DOMAIN q.new THEN q.new[b]
                                                         ELSE local[b]]
                  ELSE local
      /\ push' = [push EXCEPT ![p] = Idle]
      /\ UNCHANGED << commits, known, tracking, remote, pushes, unchecked, events, scanned,
                      accepted >>

-----------------------------------------------------------------------------
(* The remote. *)

Event(b, before, after) == [ref |-> b, before |-> before, after |-> after]

(* The remote takes a ref that still is where the push saw it and moves     *)
(* forward or is forced; each accepted ref is one push event.               *)
Send(p) ==
  LET q == push[p]
      taken == {b \in DOMAIN q.refs :
                  /\ remote[b] = q.old[b]
                  /\ q.force \/ q.old[b] \in Reach(commits, q.refs[b]) \cup {None}}
      sent == UNION {Reach(commits, q.refs[b]) : b \in taken}
  IN  /\ q.pc = "send"
      /\ remote' = [b \in Branches |-> IF b \in taken THEN q.refs[b] ELSE remote[b]]
      /\ unchecked' = IF q.verify THEN unchecked ELSE unchecked \cup sent
      /\ events' = events \cup {Event(b, q.old[b], q.refs[b]) : b \in taken}
      /\ push' = [push EXCEPT ![p] = [q EXCEPT !.pc = "sent", !.new = [b \in taken |-> q.refs[b]]]]
      /\ UNCHANGED << commits, local, known, tracking, pushes, scanned, accepted >>

(* The client then records what it sent in its tracking refs. *)
Track(p) ==
  /\ push[p].pc = "sent"
  /\ tracking' = [b \in Branches |-> IF b \in DOMAIN push[p].new THEN push[p].new[b]
                                     ELSE tracking[b]]
  /\ push' = [push EXCEPT ![p] = Idle]
  /\ UNCHANGED << commits, local, known, remote, pushes, unchecked, events, scanned, accepted >>

(* Somebody else commits on a branch of the remote, or creates one. *)
OthersPush(b) ==
  LET id == Len(commits) + 1
      base == IF remote[b] = None THEN remote[Default] ELSE remote[b]
  IN  /\ pushes < MaxPushes
      /\ Len(commits) < MaxCommits
      /\ base # None
      /\ \E k \in Kinds :
           commits' = Append(commits, [parents |-> {base}, kind |-> k, work |-> {id}])
      /\ remote' = [remote EXCEPT ![b] = id]
      /\ unchecked' = unchecked \cup {id}
      /\ events' = events \cup {Event(b, remote[b], id)}
      /\ pushes' = pushes + 1
      /\ UNCHANGED << local, known, tracking, push, scanned, accepted >>

DeleteRemote(b) ==
  /\ b # Default
  /\ remote[b] # None
  /\ remote' = [remote EXCEPT ![b] = None]
  /\ UNCHANGED << commits, local, known, tracking, push, pushes, unchecked, events, scanned,
                  accepted >>

-----------------------------------------------------------------------------
(* The CI check of one push event, in a clone made when it runs.            *)

Cloned(e) == Reach(commits, e.after) \cup UNION {Reach(commits, t) : t \in Tips(remote)}

(* A mutation: the default branch is trusted for itself too. *)
TrustedDefault(e) ==
  IF e.before # None /\ e.before \in Cloned(e) THEN e.before ELSE remote[Default]

(* plan_ci: the trusted commit that bounds the range and whose tree holds   *)
(* the policy; None stands for the built-in defaults and the whole history. *)
Trusted(e) ==
  IF e.before # None /\ e.before \in Cloned(e) THEN e.before
  ELSE IF e.ref # Default THEN remote[Default] ELSE None

(* iter_commits: the commits the check analyses. *)
Analysed(e) == Introduced(commits, e.after, {Trusted(e)})

(* execute_ci_plan: a policy that was weakened before lets blocked commits  *)
(* pass.                                                                    *)
LetPass(e) ==
  IF Trusted(e) # None /\ Weak(commits, Trusted(e)) THEN Blocked(commits, Analysed(e)) ELSE {}

RunCheck(e) ==
  /\ scanned' = scanned \cup Analysed(e)
  /\ accepted' = accepted \cup LetPass(e)
  /\ events' = events \ {e}
  /\ UNCHANGED << commits, local, known, tracking, remote, push, pushes, unchecked >>

-----------------------------------------------------------------------------
Developer ==
  \/ \E b \in Branches : Commit(b) \/ Amend(b)
  \/ \E b, o \in Branches : Merge(b, o) \/ Branch(b, o)
  \/ Fetch
  \/ \E p \in Pushers, verify, force \in BOOLEAN : StartPush(p, verify, force)
  \/ \E p \in Pushers : Plan(p) \/ Stop(p) \/ Fix(p) \/ Move(p) \/ Send(p) \/ Track(p)

Host ==
  \/ \E b \in Branches : OthersPush(b) \/ DeleteRemote(b)
  \/ \E e \in events : RunCheck(e)

Next == Developer \/ Host

Spec == Init /\ [][Next]_vars

-----------------------------------------------------------------------------
(* What the ranges and the rewriting promise.                              *)

(* Types of the variables. *)
TypeOK ==
  /\ \A c \in Ids : commits[c] \in CommitRecord /\ commits[c].parents \subseteq Ids
  /\ push \in [Pushers -> Push]
  /\ \A refs \in {local, tracking, remote} : refs \in [Branches -> 0 .. Len(commits)]
  /\ UNION {known, unchecked, scanned, accepted} \subseteq Ids
  /\ pushes \in 0 .. MaxPushes

(* The ranges of the hook have no hole (docs of run_pre_push): whatever the *)
(* remote has been moved to meanwhile, a commit a rule blocks is on the     *)
(* remote only if it was pushed past the hook or by somebody else.          *)
CheckedBeforePublished ==
  \A t \in Tips(remote) : Blocked(commits, Reach(commits, t)) \subseteq unchecked

(* The ranges of the CI check have no hole: when the check of every push    *)
(* has run, in whatever order, every commit of every branch was analysed.   *)
EverythingScanned ==
  events = {} => \A t \in Tips(remote) : Reach(commits, t) \subseteq scanned

(* Work is never lost (push_fix.py: only local branches move, and only if   *)
(* each still points where it did): whatever moves a branch of the clone,   *)
(* the work its history carried is still in its history.                    *)
KeepsWork ==
  \A b \in Branches : Work(commits, Reach(commits, local[b]))
                        \subseteq Work(commits', Reach(commits', local'[b]))
WorkIsKept == [][KeepsWork]_vars

(* What the check's notice says of a changed configuration ("Policy changes *)
(* take effect after they reach the trusted branch"): a blocked commit      *)
(* passes only under a weakening the default branch has.                    *)
WeakeningNeedsDefaultBranch ==
  [][\A c \in accepted' \ accepted : remote[Default] # None /\ Weak(commits, remote[Default])]_vars
=============================================================================
