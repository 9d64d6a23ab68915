------------------------------ MODULE HookFiles ------------------------------
(***************************************************************************)
(* The Git hooks CommitGuard installs in a repository and in the global    *)
(* template directory: the wrapper with its managed block, the hook that   *)
(* existed before (renamed and chained), the global init.templateDir, and  *)
(* the user and other tools, who write hooks of their own. Every file      *)
(* system call of install and uninstall is a step, and the process may die *)
(* between two of them.                                                    *)
(*                                                                         *)
(* One hook stands for the three (each has its own pair of files). A file  *)
(* is what the code tells apart: the state of its managed block, and the   *)
(* hook of the user's that it holds besides the block.                     *)
(***************************************************************************)
EXTENDS Naturals, FiniteSets

CONSTANTS
  Hooks,       \* hooks the user or another tool may write
  Meanwhile,   \* whether they write while an operation is between its steps
  MaxWrites    \* bound: hooks written

Dirs == {"repository", "template"}
Blocks == {"none", "installed", "outdated", "modified", "corrupt"}
Settings == {"unset", "ours", "other"}
Managed == {"installed", "outdated", "modified"}

Absent == [block |-> "none", own |-> {}, there |-> FALSE]
File(block, own) == [block |-> block, own |-> own, there |-> TRUE]

VARIABLES
  path,      \* directory -> the hook Git runs
  chained,   \* directory -> the preserved hook (<hook>.pre-commitguard)
  setting,   \* the global init.templateDir: "unset", "ours" or "other"
  op,        \* the running install or uninstall
  kept,      \* directory -> hooks the user wrote there and has not replaced
  writes

vars == << path, chained, setting, op, kept, writes >>

Idle == [kind |-> "idle", dir |-> "repository", step |-> "read", seen |-> Absent]

Init ==
  /\ path = [d \in Dirs |-> Absent]
  /\ chained = [d \in Dirs |-> Absent]
  /\ setting \in {"unset", "other"}
  /\ op = Idle
  /\ kept = [d \in Dirs |-> {}]
  /\ writes = 0

-----------------------------------------------------------------------------
(* install_global refuses a template directory of the user's; a repository  *)
(* has no such condition.                                                   *)
MayInstall(d) == d = "template" => setting # "other"

Begin(kind, d) ==
  /\ op = Idle
  /\ op' = [op EXCEPT !.kind = kind, !.dir = d]
  /\ UNCHANGED << path, chained, setting, kept, writes >>

BeginInstall(d) == MayInstall(d) /\ Begin("install", d)
BeginUninstall(d) == Begin("uninstall", d)

(* install_hook and uninstall_hook first read the hook; what they do later  *)
(* depends on what they read.                                               *)
ReadHook ==
  /\ op.kind # "idle"
  /\ op.step = "read"
  /\ op' = IF path[op.dir].block = "corrupt" THEN Idle
           ELSE [op EXCEPT !.step = "act", !.seen = path[op.dir]]
  /\ UNCHANGED << path, chained, setting, kept, writes >>

Installing(step) == op.kind = "install" /\ op.step = step
Uninstalling(step) == op.kind = "uninstall" /\ op.step = step
Finished == [op EXCEPT !.step = "setting"]

Write(d, file) == path' = [path EXCEPT ![d] = file]

(* No hook: the wrapper is written unless a file appeared meanwhile.        *)
InstallNew ==
  /\ Installing("act")
  /\ ~op.seen.there
  /\ IF path[op.dir].there
       THEN /\ op' = Idle
            /\ UNCHANGED path
       ELSE /\ Write(op.dir, File("installed", {}))
            /\ op' = Finished
  /\ UNCHANGED << chained, setting, kept, writes >>

(* A managed hook: the block is rewritten in place, the rest is kept as it  *)
(* was read; an identical block is left alone.                              *)
InstallOver ==
  /\ Installing("act")
  /\ op.seen.block \in Managed
  /\ IF op.seen.block = "installed" THEN UNCHANGED path
     ELSE Write(op.dir, File("installed", op.seen.own))
  /\ op' = Finished
  /\ UNCHANGED << chained, setting, kept, writes >>

(* A mutation: an earlier preserved hook is not looked for. *)
MayPreserveAnyway(d) == d = "repository"

(* A foreign hook is preserved under the chained name, unless that name is  *)
(* taken; the template directory refuses foreign hooks altogether.          *)
MayPreserve(d) == d = "repository" /\ ~chained[d].there

Preserve ==
  /\ Installing("act")
  /\ op.seen.there
  /\ op.seen.block = "none"
  /\ IF MayPreserve(op.dir)
       THEN /\ chained' = [chained EXCEPT ![op.dir] = path[op.dir]]
            /\ Write(op.dir, Absent)
            /\ op' = [op EXCEPT !.step = "wrap"]
       ELSE /\ op' = Idle
            /\ UNCHANGED << path, chained >>
  /\ UNCHANGED << setting, kept, writes >>

(* The wrapper is written where the foreign hook was. When that fails - also*)
(* because a file appeared - the preserved hook is moved back.              *)
RestorePreserved ==
  /\ Write(op.dir, chained[op.dir])
  /\ chained' = [chained EXCEPT ![op.dir] = Absent]
  /\ op' = Idle

Wrap ==
  /\ Installing("wrap")
  /\ \/ /\ ~path[op.dir].there
        /\ Write(op.dir, File("installed", {}))
        /\ op' = Finished
        /\ UNCHANGED chained
     \/ RestorePreserved
  /\ UNCHANGED << setting, kept, writes >>

(* uninstall_hook: nothing without a block; other content of the file is    *)
(* kept; otherwise the preserved hook replaces the wrapper, or the wrapper  *)
(* is removed.                                                              *)
Uninstall ==
  /\ Uninstalling("act")
  /\ op' = Finished
  /\ IF op.seen.block \notin Managed THEN UNCHANGED << path, chained >>
     ELSE IF op.seen.own # {}
       THEN /\ Write(op.dir, File("none", op.seen.own))
            /\ UNCHANGED chained
     ELSE /\ Write(op.dir, chained[op.dir])
          /\ chained' = [chained EXCEPT ![op.dir] = Absent]
  /\ UNCHANGED << setting, kept, writes >>

(* install_global sets init.templateDir where it was unset; uninstall_global*)
(* unsets it only if it is ours and the directory is empty.                 *)
NewSetting ==
  IF op.kind = "install" THEN "ours"
  ELSE IF setting = "ours" /\ ~path["template"].there /\ ~chained["template"].there
    THEN "unset" ELSE setting

Configure ==
  /\ op.kind # "idle"
  /\ op.step = "setting"
  /\ setting' = IF op.dir = "template" THEN NewSetting ELSE setting
  /\ op' = Idle
  /\ UNCHANGED << path, chained, kept, writes >>

(* The process dies, or a call fails, between two steps. *)
Die ==
  /\ op # Idle
  /\ op' = Idle
  /\ UNCHANGED << path, chained, setting, kept, writes >>

-----------------------------------------------------------------------------
(* The user and other tools: a new hook replaces the file at the path (what *)
(* it held is what its author gives up), is added to the wrapper, or is     *)
(* removed; the managed block is edited or becomes outdated.                *)

MayWrite == writes < MaxWrites /\ (op = Idle \/ Meanwhile)

WriteOwn(d, h) ==
  /\ MayWrite
  /\ h \notin UNION {kept[e] : e \in Dirs}
  /\ \/ Write(d, File("none", {h})) /\ kept' = [kept EXCEPT ![d] = (@ \ path[d].own) \cup {h}]
     \/ /\ path[d].there
        /\ path[d].own = {}
        /\ Write(d, [path[d] EXCEPT !.own = {h}])
        /\ kept' = [kept EXCEPT ![d] = @ \cup {h}]
  /\ writes' = writes + 1
  /\ UNCHANGED << chained, setting, op >>

EditBlock(d) ==
  /\ MayWrite
  /\ path[d].block # "none"
  /\ \E b \in Blocks : Write(d, [path[d] EXCEPT !.block = b])
  /\ writes' = writes + 1
  /\ UNCHANGED << chained, setting, op, kept >>

Next ==
  \/ \E d \in Dirs : BeginInstall(d) \/ BeginUninstall(d)
  \/ ReadHook \/ InstallNew \/ InstallOver \/ Preserve \/ Wrap \/ Uninstall \/ Configure \/ Die
  \/ \E d \in Dirs : EditBlock(d) \/ \E h \in Hooks : WriteOwn(d, h)

Spec == Init /\ [][Next]_vars

-----------------------------------------------------------------------------
(* Types of the variables. *)
TypeOK ==
  /\ \A d \in Dirs : {path[d], chained[d]} \subseteq
       [block : Blocks, own : SUBSET Hooks, there : BOOLEAN]
  /\ setting \in Settings
  /\ kept \in [Dirs -> SUBSET Hooks]
  /\ writes \in 0 .. MaxWrites

(* install_hook: "without destroying existing hooks": a hook the user wrote *)
(* is at the path or preserved under the chained name until the user        *)
(* replaces it, whichever operations complete or die in between.            *)
NothingLost ==
  \A d \in Dirs : kept[d] \subseteq path[d].own \cup chained[d].own

=============================================================================
