-------------------------------- MODULE Nano --------------------------------
(***************************************************************************)
(* `crustcore run` and `crustcore inspect` (crates/crustcore/src/main.rs,  *)
(* crustcore-cli), as processes on one host: each is started, runs one     *)
(* task and may be killed at any step. They share the receipt key file of  *)
(* the state directory and, on one repository, the task's worktree: every  *)
(* run is TaskId(1), and create_for reuses a tree that is registered.      *)
(* A tree is the set of changes on top of HEAD, named by who made them.    *)
(* What a receipt is worth is the matter of Receipts: here it is a call in *)
(* the log, completed under its number.                                    *)
(***************************************************************************)
EXTENDS Receipts, FiniteSets

CONSTANT Proc

VARIABLES
  npc,       \* each process's next step
  worker,    \* whether it has a coding backend
  keyfile,   \* receipt.key: none, empty, full
  tree,      \* the worktree: none, or the one set of its changes
  patch,     \* what each run's PatchRef hashes, likewise
  verified,  \* the tree the verifier passed, likewise
  nlog,      \* each run's frames in memory
  nfile,     \* and on disk
  exit,      \* exit codes, -1 while it runs
  reused,    \* history: the run did not have the tree to itself
  audits     \* what inspect said of each log: none, ok, bad

nanoVars == <<npc, worker, keyfile, tree, patch, verified, nlog, nfile, exit, reused, audits>>

NanoInit ==
  /\ npc = [p \in Proc |-> "parse"] /\ worker = [p \in Proc |-> FALSE]
  /\ keyfile = "none" /\ tree = <<>>
  /\ patch = [p \in Proc |-> <<>>] /\ verified = [p \in Proc |-> <<>>]
  /\ nlog = [p \in Proc |-> <<>>] /\ nfile = [p \in Proc |-> <<>>]
  /\ exit = [p \in Proc |-> -1] /\ reused = [p \in Proc |-> FALSE]
  /\ audits = [p \in Proc |-> "none"]

To(p, step) == npc' = [npc EXCEPT ![p] = step]
ExitWith(p, code) == exit' = [exit EXCEPT ![p] = code] /\ To(p, "done")
Frame(seq, kind) == [seq |-> seq, kind |-> kind]
Logs(p, frames) == nlog' = [nlog EXCEPT ![p] = @ \o frames]

rest == <<keyfile, tree, patch, verified, nfile, reused, audits>>

(* parse_run, -dir, resolve_verify_spec, select_backend, and the goal that *)
(* a verify-only run cannot satisfy: refused with 2, nothing touched.      *)
ParseRun(p) ==
  /\ npc[p] = "parse"
  /\ \/ ExitWith(p, 2) /\ UNCHANGED worker
     \/ To(p, "key") /\ worker' \in {[worker EXCEPT ![p] = b] : b \in BOOLEAN} /\ UNCHANGED exit
  /\ UNCHANGED <<rest, nlog>>

(* MacKey::load_or_create: an existing file must already be whole. *)
LoadKey(p) ==
  /\ npc[p] = "key"
  /\ IF keyfile = "none" THEN To(p, "createkey") /\ UNCHANGED exit
     ELSE IF keyfile = "full" THEN To(p, "worktree") /\ UNCHANGED exit
     ELSE ExitWith(p, 1)
  /\ Logs(p, IF keyfile = "full" THEN <<Frame(1, "TaskCreated"), Frame(2, "JobQueued")>> ELSE <<>>)
  /\ UNCHANGED <<worker, rest>>

(* create_new: whoever loses the race loads the winner's file. *)
CreateKey(p) ==
  /\ npc[p] = "createkey"
  /\ IF keyfile = "none"
       THEN \/ keyfile' = "empty" /\ To(p, "writekey") /\ UNCHANGED exit
            \/ ExitWith(p, 1) /\ UNCHANGED keyfile
       ELSE To(p, "key") /\ UNCHANGED <<keyfile, exit>>
  /\ UNCHANGED <<worker, tree, patch, verified, nlog, nfile, reused, audits>>

WriteKey(p) ==
  /\ npc[p] = "writekey"
  /\ keyfile' = "full" /\ To(p, "key")
  /\ UNCHANGED <<worker, tree, patch, verified, nlog, nfile, exit, reused, audits>>

(* Persisting a failure is best effort. *)
FailWith(p, frames, step) ==
  /\ Logs(p, frames)
  /\ \E ok \in BOOLEAN : nfile' = IF ok THEN [nfile EXCEPT ![p] = nlog'[p]] ELSE nfile
  /\ To(p, step)

Holding(p) == npc[p] \in {"patch", "verify", "persist", "remove"}
Others(p) == {q \in Proc : q # p /\ Holding(q)}
Taint(ps) == reused' = [p \in Proc |-> reused[p] \/ p \in ps]

(* A registered tree is reused as it stands; a new one is shared from the *)
(* start with whoever still works in the place of the old one.            *)
CreateFor(p) ==
  /\ npc[p] = "worktree"
  /\ \/ /\ tree' = IF tree = <<>> THEN <<{}>> ELSE tree
        /\ Taint(IF tree = <<>> /\ Others(p) = {} THEN {} ELSE {p} \cup Others(p))
        /\ Logs(p, <<Frame(3, "JobLeased")>>) /\ To(p, "patch")
        /\ UNCHANGED <<nfile, exit>>
     \/ /\ FailWith(p, <<Frame(3, "TaskFailed")>>, "done")
        /\ exit' = [exit EXCEPT ![p] = 1] /\ UNCHANGED <<tree, reused>>
  /\ UNCHANGED <<worker, keyfile, patch, verified, audits>>

(* Bug: the patch names the commit the tree was made from. *)
PatchOfHead(p, t) == <<{}>>

(* The worktree's own change, or HEAD for a run without a worker. *)
PatchOf(p, t) == IF worker[p] THEN t ELSE <<{}>>

(* The worker runs in the tree and is refused, or its change is derived. *)
ProducePatch(p) ==
  /\ npc[p] = "patch"
  /\ LET t == IF worker[p] /\ tree # <<>> THEN <<tree[1] \cup {p}>> ELSE tree
     IN  /\ tree' = t
         /\ \/ /\ t # <<>>
               /\ patch' = [patch EXCEPT ![p] = PatchOf(p, t)]
               /\ Logs(p, <<Frame(4, "PatchProposed"), Frame(5, "ToolCallStarted")>>)
               /\ To(p, "verify") /\ UNCHANGED nfile
            \/ /\ worker[p]
               /\ FailWith(p, <<Frame(4, "TaskFailed")>>, "remove") /\ UNCHANGED patch
  /\ UNCHANGED <<worker, keyfile, verified, exit, reused, audits>>

(* run_verify_with: refused when the command could not be run, and only a zero  *)
(* exit of a command that ran in the tree is a pass.                           *)
VerifyOutcomes(t) == {"Failed", "Refused"} \cup (IF t = <<>> THEN {} ELSE {"Verified"})
Completed(o) == o = "Verified"

RunVerify(p) ==
  /\ npc[p] = "verify"
  /\ \E o \in VerifyOutcomes(tree) :
     \/ /\ Completed(o)
        /\ verified' = [verified EXCEPT ![p] = tree]
        /\ Logs(p, <<Frame(6, "ToolCallCompleted"), Frame(7, "PatchVerified"), Frame(8, "TaskCompleted")>>)
        /\ To(p, "persist") /\ UNCHANGED nfile
     \/ /\ o = "Failed"
        /\ FailWith(p, <<Frame(6, "CommandCompleted"), Frame(7, "PatchRejected"), Frame(8, "TaskFailed")>>, "remove")
        /\ UNCHANGED verified
     \/ /\ o = "Refused"
        /\ FailWith(p, <<Frame(6, "TaskFailed")>>, "remove") /\ UNCHANGED verified
  /\ UNCHANGED <<worker, keyfile, tree, patch, exit, reused, audits>>

(* The receipt's number is a completed call's in the log. *)
JoinedTo(l, seq) == \E i \in DOMAIN l : l[i] = Frame(seq, "ToolCallCompleted")

(* Bug: gives up over a shared tree once the log is persisted. *)
CompletesUnshared(p, ok) == JoinedTo(nlog[p], 6) /\ ok /\ ~reused[p]
Completes(p, ok) == JoinedTo(nlog[p], 6) /\ ok

(* Joined and persisted, or AUDIT REFUSED. *)
Persist(p) ==
  /\ npc[p] = "persist"
  /\ \E ok \in BOOLEAN :
       /\ nfile' = IF ok /\ JoinedTo(nlog[p], 6) THEN [nfile EXCEPT ![p] = nlog[p]] ELSE nfile
       /\ To(p, IF Completes(p, ok) THEN "complete" ELSE "remove")
  /\ UNCHANGED <<worker, keyfile, tree, patch, verified, nlog, exit, reused, audits>>

(* complete_task; then, completed or not, the tree is removed. *)
RemoveTree(p) ==
  /\ npc[p] \in {"complete", "remove"}
  /\ tree' = <<>> /\ Taint(Others(p))
  /\ ExitWith(p, IF npc[p] = "complete" THEN 0 ELSE 1)
  /\ UNCHANGED <<worker, keyfile, patch, verified, nlog, nfile, audits>>

Killed(p) ==
  /\ npc[p] \notin {"done", "dead"}
  /\ To(p, "dead")
  /\ UNCHANGED <<worker, rest, nlog, exit>>

(* inspect: the chain, then every receipt against the key and the log. *)
Inspect(p) ==
  /\ nfile[p] # <<>> /\ audits[p] = "none"
  /\ audits' = [audits EXCEPT ![p] =
       IF ~\E i \in DOMAIN nfile[p] : nfile[p][i].kind = "ToolCallCompleted" THEN "ok"
       ELSE IF keyfile = "full" /\ JoinedTo(nfile[p], 6) THEN "ok" ELSE "bad"]
  /\ UNCHANGED <<npc, worker, keyfile, tree, patch, verified, nlog, nfile, exit, reused>>

NanoNext ==
  \E p \in Proc :
    \/ ParseRun(p) \/ LoadKey(p) \/ CreateKey(p) \/ WriteKey(p) \/ CreateFor(p)
    \/ ProducePatch(p) \/ RunVerify(p) \/ Persist(p) \/ RemoveTree(p)
    \/ Killed(p) \/ Inspect(p)

NanoSpec == NanoInit /\ [][NanoNext]_nanoVars

(***************************************************************************)
(* A run that had the tree to itself and exits with 0 passed the verifier  *)
(* on exactly the change its patch names, and the log it left inspects     *)
(* clean, whatever was killed around it (run_task, inspect).               *)
(***************************************************************************)
EvidenceIsSound ==
  \A p \in Proc :
    /\ exit[p] = 0 => (nfile[p] # <<>> /\ audits[p] # "bad")
    /\ (exit[p] = 0 /\ ~reused[p]) => patch[p] = verified[p]

(***************************************************************************)
(* The command line carries out the abstract promise: exit 0 is a          *)
(* completion, its log the evidence. A process killed after its log was    *)
(* persisted leaves evidence and no completion.                            *)
(***************************************************************************)
E == INSTANCE Evidence WITH
       Runs <- Proc,
       claim <- [p \in Proc |-> CASE exit[p] = 0 -> "completed"
                                  [] exit[p] > 0 -> "failed" [] OTHER -> "open"],
       proof <- {p \in Proc : JoinedTo(nfile[p], 6)}
NothingCompletesWithoutEvidence == E!EvidenceSpec

\* What is recorded can be relied on: the evidence of a run that had its tree to
\* itself is about the patch that was verified, and only an untampered beginning
\* of some run's receipts verifies (crustcore/src/main.rs, crustcore-receipts).
\* Whose run it was, verify and the join do not tell: docs/receipts.md:240 says
\* that an old receipt cannot be retold for a new call.
RecordsAreSound == EvidenceIsSound /\ OnlyTheChainVerifies

=============================================================================
