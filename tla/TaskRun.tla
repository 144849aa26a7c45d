------------------------------ MODULE TaskRun -------------------------------
(***************************************************************************)
(* One chat-launched task, from its specification to its summary           *)
(* (crates/crustcore-daemon/src/task.rs: run_one_task, open_draft_pr,      *)
(* push_and_create_pr), with run_verify and open_pr of crustcore-backend   *)
(* and the receipt join of crustcore-receipts.                             *)
(*                                                                         *)
(* Beside the task, the operator may ask it to cancel, its approval may    *)
(* run out, and the process may die.  The audit log is numbered by hand on *)
(* every path and persisted with store_atomic, which refuses numbers that  *)
(* do not increase and may fail (EventLog models how).                     *)
(***************************************************************************)
EXTENDS Integers, Sequences

CONSTANTS None

\* What run_one_task can answer.
SummaryLines ==
  {"refused", "no key", "failed", "cancelled", "join failed", "not completed",
   "completed", "integration failed", "PR opened", "PR opened, not audited"}

ASSUME NoneAssumption == None \notin SummaryLines \union {"early", "late"}

VARIABLES
  pc,        \* the next step
  native,    \* TaskBackend::Native: verify the tree as it stands
  pr,        \* whether the launch carries an approved GitHubWriteCap
  cancel,    \* the cancel flag; "early" when set before the last safe point
  lapsed,    \* when the approval ran out: "early" if before open_pr looks at it, or None
  log,       \* audit.log: a sequence of [seq, kind]
  file,      \* the persisted audit log; empty when there is none
  receipt,   \* event_seq of the verifier's receipt, or None
  worktree,  \* "none", "present", or "removed" once remove was called
  helper,    \* whether the credential helper's directory is on disk
  remote,    \* what GitHub has seen: "none", "pushed", "opened"
  summary    \* the line returned, or None

audit == <<log, file, receipt>>
vars == <<pc, native, pr, cancel, lapsed, audit, worktree, helper, remote, summary>>

-----------------------------------------------------------------------------
(* The audit log.                                                          *)

F(seq, kind) == [seq |-> seq, kind |-> kind]

Kinds(l) == {l[i].kind : i \in 1 .. Len(l)}

Increasing(l) == \A i \in 1 .. Len(l) - 1 : l[i].seq < l[i + 1].seq

\* store_atomic: all of the log, or an error and the file as it was.
Store(l, ok) == file' = IF ok THEN l ELSE file
StoreOutcome(l) == IF Increasing(l) THEN BOOLEAN ELSE {FALSE}

\* The receipt's number resolves to a completed tool call; the first frame
\* with a number counts.
Joined(l, seq) ==
  LET at == {i \in 1 .. Len(l) : l[i].seq = seq}
  IN  /\ at # {}
      /\ \E i \in at : /\ \A j \in at : i <= j
                       /\ l[i].kind = "ToolCallCompleted"

-----------------------------------------------------------------------------
(* Steps.                                                                  *)

Init ==
  /\ pc = "resolve" /\ native \in BOOLEAN /\ pr \in BOOLEAN
  /\ cancel = None /\ lapsed = None
  /\ log = << >> /\ file = << >> /\ receipt = None
  /\ worktree = "none" /\ helper = FALSE /\ remote = "none"
  /\ summary = None

inputs == <<native, pr, cancel, lapsed>>

\* Nothing is recorded: the task ends before there is anything to undo.
Return(line) ==
  /\ pc' = "done" /\ summary' = line
  /\ UNCHANGED <<inputs, file, receipt, worktree, helper, remote>>

\* Record the outcome; persisting it is best effort.
Conclude(frames, line, next) ==
  /\ log' = log \o frames
  /\ \E ok \in StoreOutcome(log') : Store(log', ok)
  /\ summary' = line /\ pc' = next
  /\ UNCHANGED <<inputs, receipt, worktree, helper, remote>>

Proceed(next) ==
  /\ pc' = next
  /\ UNCHANGED <<inputs, file, receipt, helper, remote, summary>>

\* No verify command, a goal for the verify-only backend, a bad PR target; or
\* the first two frames and the receipt key.
Resolve ==
  /\ pc = "resolve"
  /\ \/ Return("refused") /\ log' = log
     \/ /\ log' = <<F(1, "TaskCreated"), F(2, "JobQueued")>>
        /\ \/ Return("no key")
           \/ Proceed("create") /\ worktree' = worktree

Create ==
  /\ pc = "create"
  /\ \/ Conclude(<<F(3, "TaskFailed")>>, "failed", "done")
     \/ /\ log' = Append(log, F(3, "JobLeased"))
        /\ worktree' = "present"
        /\ Proceed("check1")

CheckBeforeWork ==
  /\ pc = "check1"
  /\ IF cancel # None
       THEN Conclude(<<F(4, "TaskKilled")>>, "cancelled", "teardown")
       ELSE Proceed("work") /\ UNCHANGED <<log, worktree>>

\* A worker may be rejected; the candidate commit, in PR mode, may fail.
Work ==
  /\ pc = "work"
  /\ \/ ~ native /\ Conclude(<<F(4, "TaskFailed")>>, "failed", "teardown")
     \/ pr /\ Conclude(<<F(4, "TaskFailed")>>, "failed", "teardown")
     \/ Proceed("check2") /\ UNCHANGED <<log, worktree>>

\* Bug: the second safe point is missing.
CheckBeforeVerifySkipped ==
  /\ pc = "check2"
  /\ log' = log \o <<F(4, "PatchProposed"), F(5, "ToolCallStarted")>>
  /\ Proceed("verify") /\ UNCHANGED worktree

CheckBeforeVerify ==
  /\ pc = "check2"
  /\ IF cancel # None
       THEN Conclude(<<F(4, "PatchProposed"), F(5, "TaskKilled")>>,
                     "cancelled", "teardown")
       ELSE /\ log' = log \o <<F(4, "PatchProposed"), F(5, "ToolCallStarted")>>
            /\ Proceed("verify") /\ UNCHANGED worktree

\* Bug: the receipt is minted for the frame that started the call.
VerifyPassedMisnumbered ==
  /\ pc = "verify"
  /\ receipt' = 5
  /\ log' = log \o <<F(6, "ToolCallCompleted"), F(7, "PatchVerified")>>
  /\ IF Joined(log', receipt')
       THEN pc' = "persist" /\ summary' = summary
       ELSE pc' = "teardown" /\ summary' = "join failed"
  /\ UNCHANGED <<inputs, file, worktree, helper, remote>>

\* The verify command exits with zero: receipt, evidence, and the join.
VerifyPassed ==
  /\ pc = "verify"
  /\ receipt' = 6
  /\ log' = log \o <<F(6, "ToolCallCompleted"), F(7, "PatchVerified")>>
  /\ IF Joined(log', receipt')
       THEN pc' = "persist" /\ summary' = summary
       ELSE pc' = "teardown" /\ summary' = "join failed"
  /\ UNCHANGED <<inputs, file, worktree, helper, remote>>

\* It exits otherwise, or the sandbox does not run it.
VerifyNotPassed ==
  /\ pc = "verify"
  /\ \/ Conclude(<<F(6, "CommandCompleted"), F(7, "PatchRejected"),
                   F(8, "TaskFailed")>>, "failed", "teardown")
     \/ Conclude(<<F(6, "TaskFailed")>>, "failed", "teardown")

\* Bug: with a PR to open, a failed store of the evidence does not stop it.
PersistUnchecked ==
  /\ pc = "persist"
  /\ \E ok \in StoreOutcome(log) :
       /\ Store(log, ok)
       /\ IF ok \/ pr
            THEN pc' = (IF pr THEN "intent" ELSE "complete") /\ summary' = summary
            ELSE pc' = "teardown" /\ summary' = "not completed"
  /\ UNCHANGED <<inputs, log, receipt, worktree, helper, remote>>

\* Bug: a failed store ends the task without a word.
PersistSilent ==
  /\ pc = "persist"
  /\ \E ok \in StoreOutcome(log) :
       /\ Store(log, ok)
       /\ pc' = (IF ~ ok THEN "teardown" ELSE IF pr THEN "intent" ELSE "complete")
  /\ UNCHANGED <<inputs, log, receipt, worktree, helper, remote, summary>>

\* Bug: a failed store of the evidence skips the teardown.
PersistReturning ==
  /\ pc = "persist"
  /\ \E ok \in StoreOutcome(log) :
       /\ Store(log, ok)
       /\ IF ok
            THEN pc' = (IF pr THEN "intent" ELSE "complete") /\ summary' = summary
            ELSE pc' = "done" /\ summary' = "not completed"
  /\ UNCHANGED <<inputs, log, receipt, worktree, helper, remote>>

\* The evidence is persisted before anything leaves the machine.
Persist ==
  /\ pc = "persist"
  /\ \E ok \in StoreOutcome(log) :
       /\ Store(log, ok)
       /\ IF ok
            THEN pc' = (IF pr THEN "intent" ELSE "complete") /\ summary' = summary
            ELSE pc' = "teardown" /\ summary' = "not completed"
  /\ UNCHANGED <<inputs, log, receipt, worktree, helper, remote>>

\* Bug: the task is reported complete whether or not the log was stored.
CompleteUnstored ==
  /\ pc = "complete"
  /\ log' = Append(log, F(8, "TaskCompleted"))
  /\ \E ok \in StoreOutcome(log') : Store(log', ok)
  /\ pc' = "teardown" /\ summary' = "completed"
  /\ UNCHANGED <<inputs, receipt, worktree, helper, remote>>

\* Without a PR target; the failure of the store returns at once.
Complete ==
  /\ pc = "complete"
  /\ log' = Append(log, F(8, "TaskCompleted"))
  /\ \E ok \in StoreOutcome(log') :
       /\ Store(log', ok)
       /\ IF ok THEN pc' = "teardown" /\ summary' = "completed"
                ELSE pc' = "done" /\ summary' = "not completed"
  /\ UNCHANGED <<inputs, receipt, worktree, helper, remote>>

\* The integration of a draft PR failed; the helper's directory goes with its
\* lease, unless the lease was never built.  GitHub may have seen the request
\* whose answer is an error.
IntegrationFailed(leftover, seen) ==
  /\ log' = Append(log, F(8, "TaskFailed"))
  /\ \E ok \in StoreOutcome(log') : Store(log', ok)
  /\ summary' = "integration failed" /\ pc' = "teardown"
  /\ helper' = leftover /\ remote' \in seen
  /\ UNCHANGED <<inputs, receipt, worktree>>

\* Bug: the approval is taken for good once the launch was approved.
IntentUndated ==
  /\ pc = "intent"
  /\ \/ IntegrationFailed(FALSE, {remote})
     \/ Proceed("lease") /\ UNCHANGED <<log, worktree>>

\* open_pr and validate_push: the approval is checked now, and once.
Intent ==
  /\ pc = "intent"
  /\ \/ IntegrationFailed(FALSE, {remote})
     \/ lapsed = None /\ Proceed("lease") /\ UNCHANGED <<log, worktree>>

\* The token is read and put behind the credential helper.  An error after
\* the directory was made leaves it.
Lease ==
  /\ pc = "lease"
  /\ \/ \E leftover \in BOOLEAN : IntegrationFailed(leftover, {remote})
     \/ /\ helper' = TRUE /\ pc' = "push"
        /\ UNCHANGED <<inputs, audit, worktree, remote, summary>>

Push ==
  /\ pc = "push"
  /\ \/ IntegrationFailed(FALSE, {remote, "pushed"})
     \/ /\ remote' = "pushed" /\ pc' = "pull"
        /\ UNCHANGED <<inputs, audit, worktree, helper, summary>>

\* create_pull, and the frames that tell of it.
CreatePull ==
  /\ pc = "pull"
  /\ \/ IntegrationFailed(FALSE, {remote, "opened"})
     \/ /\ remote' = "opened"
        /\ log' = log \o <<F(8, "GitHubOperationCompleted"),
                           F(9, "TaskCompleted")>>
        /\ \E ok \in StoreOutcome(log') :
             /\ Store(log', ok)
             /\ summary' = IF ok THEN "PR opened" ELSE "PR opened, not audited"
        /\ pc' = "teardown" /\ helper' = FALSE
        /\ UNCHANGED <<inputs, receipt, worktree>>

Teardown ==
  /\ pc = "teardown"
  /\ worktree' = "removed" /\ pc' = "done"
  /\ UNCHANGED <<inputs, audit, helper, remote, summary>>

Running == pc \notin {"done", "crashed"}

\* The operator, or the drop of the handle, sets the flag at any time.
RequestCancel ==
  /\ Running /\ cancel = None
  /\ cancel' = IF pc \in {"resolve", "create", "check1", "work", "check2"}
                 THEN "early" ELSE "late"
  /\ UNCHANGED <<pc, native, pr, lapsed, audit, worktree, helper, remote, summary>>

ApprovalExpires ==
  /\ Running /\ pr /\ lapsed = None
  /\ lapsed' = IF pc \in {"lease", "push", "pull", "teardown"} THEN "late" ELSE "early"
  /\ UNCHANGED <<pc, native, pr, cancel, audit, worktree, helper, remote, summary>>

Crash ==
  /\ Running /\ pc' = "crashed"
  /\ UNCHANGED <<inputs, audit, worktree, helper, remote, summary>>

Task ==
  \/ Resolve \/ Create \/ CheckBeforeWork \/ Work \/ CheckBeforeVerify
  \/ VerifyPassed \/ VerifyNotPassed \/ Persist \/ Complete
  \/ Intent \/ Lease \/ Push \/ CreatePull \/ Teardown

Next == Task \/ RequestCancel \/ ApprovalExpires \/ Crash

Spec == Init /\ [][Next]_vars

-----------------------------------------------------------------------------
(* Properties.                                                             *)

Terminal == {"TaskCompleted", "TaskFailed", "TaskKilled"}

\* The steps, inputs and resources of a task are well formed, and a task that
\* returns has a summary line.
TypeOK ==
  /\ pc \in {"resolve", "create", "check1", "work", "check2", "verify",
             "persist", "complete", "intent", "lease", "push", "pull",
             "teardown", "done", "crashed"}
  /\ native \in BOOLEAN /\ pr \in BOOLEAN /\ lapsed \in {None, "early", "late"}
  /\ cancel \in {None, "early", "late"} /\ helper \in BOOLEAN
  /\ worktree \in {"none", "present", "removed"}
  /\ remote \in {"none", "pushed", "opened"}
  /\ pc = "done" => summary # None

Persisted == Kinds(file)

\* The token is handed out and a branch reaches GitHub only when the verifier's
\* evidence is already in the persisted audit log and the launch was approved.
EvidenceIsPersisted ==
  helper \/ remote # "none" =>
    pr /\ {"ToolCallCompleted", "PatchVerified"} \subseteq Persisted

\* ... and only when the approval had not run out while the worker and the
\* verifier ran.
ApprovalWasInTime ==
  helper \/ remote # "none" => lapsed # "early"

\* Whatever fails, expires or dies in between, nothing leaves the machine without
\* persisted evidence and an approval in time (run_one_task, open_draft_pr).
EvidencePrecedesEffects == EvidenceIsPersisted /\ ApprovalWasInTime

\* The hand-numbered frames of every path keep the chain storable, and the
\* receipt's number resolves to the verify call.
NumberingIsSound ==
  /\ Increasing(log)
  /\ receipt # None => Joined(log, receipt)

\* The line the operator reads and the persisted log agree on the outcome:
\* success is told exactly when TaskCompleted is on disk, and only the line
\* about an unaudited PR speaks of an opened PR the log lacks.
SummaryMatchesAudit ==
  pc = "done" =>
    /\ summary \in {"completed", "PR opened"} <=> "TaskCompleted" \in Persisted
    /\ summary = "PR opened, not audited" =>
         remote = "opened" /\ Persisted \intersect Terminal = {}
    /\ "TaskKilled" \in Persisted => summary = "cancelled"

\* A cancel that arrives before the second safe point is honoured: nothing is
\* verified and nothing leaves the machine.
EarlyCancelPreventsEffects ==
  cancel = "early" => receipt = None /\ remote = "none"

\* The disposable tree is removed on every path that reaches its end but one:
\* a verified task whose completion could not be stored returns at once.
WorktreeKeptOnlyUnrecorded ==
  pc = "done" /\ worktree = "present" =>
    /\ summary = "not completed"
    /\ "PatchVerified" \in Persisted /\ Persisted \intersect Terminal = {}

\* However a task ends, its numbering, its summary, its audit and its worktree
\* tell the same story (run_one_task).
TaskEndsAreAccounted ==
  /\ TypeOK /\ NumberingIsSound /\ SummaryMatchesAudit
  /\ EarlyCancelPreventsEffects /\ WorktreeKeptOnlyUnrecorded

=============================================================================
