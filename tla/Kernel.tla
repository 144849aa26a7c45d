------------------------------- MODULE Kernel -------------------------------
(***************************************************************************)
(* The CrustCore kernel: the synchronous, deterministic reducer            *)
(* Kernel::step (crates/crustcore-kernel), with the status tables, budgets *)
(* and policy snapshot it is built on (crustcore-types, crustcore-policy). *)
(*                                                                         *)
(* A step consumes one event and yields a bounded list of actions.  The    *)
(* event it consumed and the actions it returned are the variables event   *)
(* and actions, so that properties can relate input, state and output; no  *)
(* transition reads them.                                                  *)
(*                                                                         *)
(* Left out because nothing reads it: next_seq, the entries' last_event,   *)
(* a lease's heartbeat_at, an event's visibility.                          *)
(***************************************************************************)
EXTENDS Integers, Sequences

CONSTANTS
  TaskId, JobId, ToolCallId, LeaseOwner,  \* identifiers
  None,                \* Option::None
  MaxU64,              \* u64::MAX: timestamps, meters and limits
  BudgetAxisCount,     \* number of metered resources
  LeaseTtl,            \* LEASE_TTL_MS
  ApprovalTtl,         \* APPROVAL_TTL_MS
  MaxApprovals,        \* bound on the approvals minted in a behaviour
  Inbound              \* the events the adapters may deliver

VARIABLES
  policy,          \* the RiskProfile of the PolicySnapshot, fixed at creation
  tasks,           \* the task arena
  jobs,            \* the job arena
  approvals,       \* the approval arena: the k-th entry has ApprovalId k
  ready,           \* jobs waiting for a model request
  appliedThrough,  \* the idempotency frontier
  processed,       \* history: the sequence numbers of the events applied
  event,           \* the event the last step consumed
  actions          \* the actions the last step returned

state == <<policy, tasks, jobs, approvals, ready, appliedThrough, processed>>
vars == <<policy, tasks, jobs, approvals, ready, appliedThrough, processed,
          event, actions>>

-----------------------------------------------------------------------------
(* Types.                                                                  *)

U64 == 0 .. MaxU64
Axis == 1 .. BudgetAxisCount
Option(S) == S \union {None}

TerminalTask == {"Completed", "Failed", "Killed", "Archived"}
TaskStatus ==
  {"Created", "Queued", "Planning", "Running", "AwaitingApproval", "Blocked",
   "Retrying", "Integrating", "AwaitingUserReview"} \union TerminalTask

TerminalJob == {"Completed", "Failed", "Killed", "Expired"}
ActiveJob == {"Leased", "Running", "HeartbeatMissing"}
JobStatus == {"Queued", "Retrying"} \union ActiveJob \union TerminalJob

ApprovalStatus == {"Pending", "Approved", "Denied", "Expired"}
Reversibility ==
  {"Reversible", "ReversibleWithCleanup", "Irreversible", "Destructive"}
RiskProfile == {"ReadOnly", "Supervised", "Full"}
Actor == {"Kernel", "User", "Model", "Subagent", "ExternalWorker", "Adapter"}

Request == {"ToolCallRequested", "GitHubOperationRequested"}
Started ==
  {"ModelRequestStarted", "ToolCallStarted", "CommandStarted", "SandboxStarted"}
Finished == {"CommandCompleted", "ToolCallCompleted"}
Activity == Started \union Finished \union {"CommandOutputCaptured"}
EventKind ==
  {"TaskCreated", "TaskPlanned", "JobQueued", "JobLeased",
   "ModelOutputReceived", "ToolCallApproved", "ToolCallDenied",
   "PatchProposed", "PatchVerified", "PatchRejected", "ApprovalRequested",
   "ApprovalResolved", "UserMessageQueued", "UserSteerReceived",
   "GitHubOperationCompleted", "SecretRequested", "SecretHandleStored",
   "RiskDetected", "TaskCompleted", "TaskFailed", "TaskKilled"}
  \union Request \union Activity

Event ==
  [kind : EventKind, seq : Nat, ts : U64, actor : Actor,
   task : Option(TaskId), job : Option(JobId), owner : Option(LeaseOwner),
   rev : Option(Reversibility), call : Option(ToolCallId),
   approval : Option(Nat), resolution : Option({"Approve", "Deny"}),
   delta : Option([Axis -> U64]), budget : Option([Axis -> U64])]

BlockReason ==
  [why : {"BudgetExhausted", "PolicyDenied", "ApprovalDenied",
          "ApprovalExpired", "RiskDetected"},
   axis : Option(Axis)]

\* An identifier not in an arena has an entry of status "Absent".
TaskEntry ==
  [status : TaskStatus \union {"Absent"}, used : [Axis -> U64],
   limit : [Axis -> U64], awaiting : Option(Nat),
   reason : Option(BlockReason)]

JobEntry ==
  [task : Option(TaskId), status : JobStatus \union {"Absent"},
   owner : Option(LeaseOwner), expires : U64]

ApprovalEntry ==
  [task : TaskId, job : Option(JobId), status : ApprovalStatus,
   call : ToolCallId, expires : U64]

ASSUME ConstantsAssumption ==
  /\ MaxU64 \in Nat /\ BudgetAxisCount \in Nat /\ MaxApprovals \in Nat
  /\ LeaseTtl \in U64 /\ ApprovalTtl \in U64
  /\ Inbound \subseteq Event
  /\ None \notin TaskId \union JobId \union ToolCallId \union LeaseOwner
  /\ None \notin Nat /\ None \notin Reversibility /\ None \notin BlockReason

-----------------------------------------------------------------------------
(* Actions the kernel returns.                                             *)

AppendEvent(t) == [type |-> "AppendEvent", id |-> t]
RequestModel(j) == [type |-> "RequestModel", id |-> j]
RunTool(j) == [type |-> "RunTool", id |-> j]
RequestApproval(a) == [type |-> "RequestApproval", id |-> a]
TaskFinished(t) == [type |-> "TaskFinished", id |-> t]

-----------------------------------------------------------------------------
(* Budgets and policy.                                                     *)

\* Mutants: addition that does not saturate, and addition that wraps.
UncappedAdd(a, b) == a + b
WrappingAdd(a, b) == (a + b) % (MaxU64 + 1)

SatAdd(a, b) == IF a + b > MaxU64 THEN MaxU64 ELSE a + b

\* Budget::record folds the event's consumption into every meter, saturating.
Recorded(used, delta) == [a \in Axis |-> SatAdd(used[a], delta[a])]

OverLimit(used, limit, a) == used[a] > limit[a]

\* Budget::check reports the first axis over its limit.
ExhaustedAxis(used, limit) ==
  CHOOSE a \in Axis :
    /\ OverLimit(used, limit, a)
    /\ \A b \in Axis : OverLimit(used, limit, b) => a <= b

\* PolicySnapshot::classify.
Classify(rev) ==
  IF policy = "ReadOnly" THEN "Deny"
  ELSE IF rev \in {"Irreversible", "Destructive"} THEN "RequireApproval"
  ELSE "Allow"

-----------------------------------------------------------------------------
(* The pure transition tables.                                             *)

\* task_next, for a status that is not terminal.
TaskNext(status, kind) ==
  CASE kind = "TaskPlanned" /\ status = "Created" -> "Planning"
    [] kind = "JobQueued" /\ status \in {"Created", "Planning", "Retrying"}
         -> "Queued"
    [] kind \in {"JobLeased", "ModelRequestStarted"}
         /\ status \in {"Queued", "Planning"} -> "Running"
    [] kind = "PatchVerified" /\ status = "Running" -> "Integrating"
    [] kind = "PatchRejected" /\ status \in {"Running", "Blocked"} -> "Retrying"
    [] kind = "UserSteerReceived"
         /\ status \in {"Blocked", "AwaitingUserReview"} -> "Running"
    [] kind = "GitHubOperationCompleted" /\ status = "Integrating"
         -> "AwaitingUserReview"
    [] kind = "RiskDetected" -> "Blocked"
    [] kind = "TaskCompleted" -> "Completed"
    [] kind = "TaskFailed" -> "Failed"
    [] kind = "TaskKilled" -> "Killed"
    [] OTHER -> "Stay"

\* job_next, for a status that is not terminal; the kinds apply_job handles
\* before it consults the table (JobQueued, TaskKilled, TaskFailed) are there.
JobNext(status, kind) ==
  CASE kind = "JobLeased" /\ status = "Queued" -> "Leased"
    [] kind \in Started /\ status \in {"Leased", "HeartbeatMissing"} -> "Running"
    [] kind = "CommandOutputCaptured" /\ status = "HeartbeatMissing" -> "Running"
    [] kind \in Finished /\ status \in {"Running", "Leased"} -> "Completed"
    [] OTHER -> status

-----------------------------------------------------------------------------
(* Task entries.                                                           *)

AbsentTask ==
  [status |-> "Absent", used |-> [a \in Axis |-> 0],
   limit |-> [a \in Axis |-> 0], awaiting |-> None, reason |-> None]

NewTask(limit) == [AbsentTask EXCEPT !.status = "Created", !.limit = limit]

\* Mutant: blocking leaves the pending approval in place.
BlockedStillAwaiting(entry, why, axis) ==
  [entry EXCEPT !.status = "Blocked", !.reason = [why |-> why, axis |-> axis]]

\* set_blocked: blocking drops the approval the task was waiting for.
BlockedEntry(entry, why, axis) ==
  [entry EXCEPT !.status = "Blocked", !.awaiting = None,
                !.reason = [why |-> why, axis |-> axis]]

\* set_task_status.
MovedEntry(entry, to) ==
  IF to = "Blocked" THEN BlockedEntry(entry, "RiskDetected", None)
  ELSE [entry EXCEPT !.status = to, !.awaiting = None, !.reason = None]

-----------------------------------------------------------------------------
(* Jobs: what apply_job makes of the arena.                                *)

AbsentJob ==
  [task |-> None, status |-> "Absent", owner |-> None, expires |-> 0]

NewJob(t) == [AbsentJob EXCEPT !.task = t, !.status = "Queued"]

\* Mutant: the owner is compared only once the job runs.
StaleOwnerWhenRunning(e, job) ==
  job.status = "Running" /\ job.owner # None /\ e.owner # None
    /\ job.owner # e.owner

\* Two named owners that differ; an event without an owner is not stale.
StaleOwner(e, job) ==
  job.owner # None /\ e.owner # None /\ job.owner # e.owner

\* LeaseState::refresh.
Refreshed(job, owner, now) ==
  [job EXCEPT !.owner = owner, !.expires = SatAdd(now, LeaseTtl)]

\* The event reaches the transition table: its job is live and, when active,
\* neither held by another worker nor past its lease.
Accepted(e, job) ==
  /\ job.status \notin TerminalJob \union {"Absent"}
  /\ job.status \in ActiveJob =>
       ~StaleOwner(e, job) /\ e.ts <= job.expires

\* An active job touched, by its own worker, after its lease ran out.
Lapsed(e, job) ==
  job.status \in ActiveJob /\ ~StaleOwner(e, job) /\ e.ts > job.expires

\* The transition, then the lease: JobLeased grants it, to whoever the event
\* names, and activity of a held job renews it.
AdvancedJob(e, job) ==
  LET moved == [job EXCEPT !.status = JobNext(job.status, e.kind)] IN
  CASE e.kind = "JobLeased" -> Refreshed(moved, e.owner, e.ts)
    [] e.kind \in Activity /\ job.owner # None ->
         Refreshed(moved, job.owner, e.ts)
    [] OTHER -> moved

TouchedJob(e, job) ==
  CASE Lapsed(e, job) -> [job EXCEPT !.status = "Expired"]
    [] Accepted(e, job) -> AdvancedJob(e, job)
    [] OTHER -> job

QueuedJob(e, job) ==
  CASE job.status = "Absent" -> NewJob(e.task)
    [] job.status = "Retrying" -> [job EXCEPT !.status = "Queued"]
    [] OTHER -> job

\* Mutants: the cascade overwrites ended jobs; it misses jobs not yet leased.
EndedJobAgain(e, job) ==
  IF job.task = e.task
  THEN [job EXCEPT !.status = IF e.kind = "TaskKilled" THEN "Killed" ELSE "Failed"]
  ELSE job
EndedJobIfActive(e, job) ==
  IF job.task = e.task /\ job.status \in ActiveJob
  THEN [job EXCEPT !.status = IF e.kind = "TaskKilled" THEN "Killed" ELSE "Failed"]
  ELSE job

\* TaskKilled and TaskFailed end every live job of the task.
EndedJob(e, job) ==
  IF job.task = e.task /\ job.status \notin TerminalJob
  THEN [job EXCEPT !.status = IF e.kind = "TaskKilled" THEN "Killed" ELSE "Failed"]
  ELSE job

JobAfter(e, j) ==
  IF e.kind \in {"TaskKilled", "TaskFailed"} THEN EndedJob(e, jobs[j])
  ELSE IF j # e.job THEN jobs[j]
  ELSE IF e.kind = "JobQueued" THEN QueuedJob(e, jobs[j])
  ELSE TouchedJob(e, jobs[j])

ApplyJob(e) == jobs' = [j \in JobId |-> JobAfter(e, j)]

\* A lease that takes effect queues its job for a model request.
ReadyAfter(e) ==
  IF e.kind = "JobLeased" /\ e.job # None /\ Accepted(e, jobs[e.job])
  THEN Append(ready, e.job) ELSE ready

\* Mutant: a job that nobody has leased may run.
RunnableIfLive(j) == jobs'[j].status \notin TerminalJob \union {"Absent"}

\* is_runnable_job and the job half of drain_ready's test, after apply_job.
RunnableJob(j) == jobs'[j].status \in {"Leased", "Running"}

-----------------------------------------------------------------------------
(* The common frame of a step.                                             *)

\* Mutant: the frontier itself counts as new.
FreshAtFrontier(e) == e.seq = 0 \/ e.seq >= appliedThrough

Fresh(e) == e.seq = 0 \/ e.seq > appliedThrough

\* The bookkeeping of Kernel::step around process.
Apply(e) ==
  /\ Fresh(e)
  /\ policy' = policy
  /\ event' = e
  /\ appliedThrough' = IF e.seq = 0 THEN appliedThrough ELSE e.seq
  /\ processed' = IF e.seq = 0 THEN processed ELSE processed \union {e.seq}

\* A step whose process returns before it reaches the jobs and the queue.
Early(e) ==
  /\ Apply(e)
  /\ actions' = <<AppendEvent(e.task)>>
  /\ UNCHANGED <<jobs, ready>>

\* The tail of process: announce a finished task, then drain_ready, which
\* takes READY_DRAIN_MAX = 1 job off the queue and drops it when it may not run.
Finish(e, effects) ==
  LET queue == ReadyAfter(e)
      finished == IF tasks'[e.task].status \in TerminalTask
                  THEN <<TaskFinished(e.task)>> ELSE <<>>
      drained == IF /\ queue # <<>>
                    /\ RunnableJob(Head(queue))
                    /\ tasks'[jobs'[Head(queue)].task].status = "Running"
                 THEN <<RequestModel(Head(queue))>> ELSE <<>>
  IN /\ ready' = IF queue = <<>> THEN <<>> ELSE Tail(queue)
     /\ actions' = <<AppendEvent(e.task)>> \o effects \o finished \o drained

\* The event is about a task that exists and has not ended.
Live(e) ==
  /\ e.kind # "TaskCreated"
  /\ e.task # None
  /\ tasks[e.task].status \notin TerminalTask \union {"Absent"}

\* The task waits for an approval whose deadline the event's time has passed.
Overdue(e) ==
  LET task == tasks[e.task] IN
  /\ task.status = "AwaitingApproval"
  /\ task.awaiting # None
  /\ e.ts > approvals[task.awaiting].expires

Charged(e) ==
  IF e.delta = None THEN tasks[e.task]
  ELSE [tasks[e.task] EXCEPT !.used = Recorded(@, e.delta)]

Exceeds(e) ==
  /\ e.delta # None
  /\ \E a \in Axis : OverLimit(Charged(e).used, Charged(e).limit, a)

\* The event passes the sweep and the budget: apply_job has run, and the
\* handler of the event's kind decides the rest.
Handled(e) ==
  /\ Live(e) /\ ~Overdue(e) /\ ~Exceeds(e)
  /\ Apply(e)
  /\ ApplyJob(e)

SetTask(e, entry) == tasks' = [tasks EXCEPT ![e.task] = entry]

-----------------------------------------------------------------------------
(* The early returns of step and process.                                  *)

\* A sequenced event at or below the frontier was applied before.
Redeliver(e) ==
  /\ ~Fresh(e)
  /\ event' = e
  /\ actions' = <<>>
  /\ UNCHANGED state

Creatable(e) ==
  /\ e.task # None
  /\ tasks[e.task].status = "Absent"
  /\ e.budget # None
  /\ \A a \in Axis : e.budget[a] # MaxU64

CreateTask(e) ==
  /\ e.kind = "TaskCreated"
  /\ Creatable(e)
  /\ Early(e)
  /\ SetTask(e, NewTask(e.budget))
  /\ UNCHANGED approvals

\* Refused creations, events about no known task, and a terminal task.
Absorb(e) ==
  /\ IF e.kind = "TaskCreated" THEN ~Creatable(e) ELSE ~Live(e)
  /\ Early(e)
  /\ UNCHANGED <<tasks, approvals>>

ExpireApproval(e) ==
  /\ Live(e) /\ Overdue(e)
  /\ Early(e)
  /\ approvals' = [approvals EXCEPT ![tasks[e.task].awaiting].status = "Expired"]
  /\ SetTask(e, BlockedEntry(tasks[e.task], "ApprovalExpired", None))

ExhaustBudget(e) ==
  /\ Live(e) /\ ~Overdue(e) /\ Exceeds(e)
  /\ Early(e)
  /\ SetTask(e, BlockedEntry(Charged(e), "BudgetExhausted",
                             ExhaustedAxis(Charged(e).used, Charged(e).limit)))
  /\ UNCHANGED approvals

-----------------------------------------------------------------------------
(* classify_request.                                                       *)

\* The source-state gate of process.
Admitted(e) ==
  \/ tasks[e.task].status = "Running"
  \/ /\ e.kind = "GitHubOperationRequested"
     /\ tasks[e.task].status = "Integrating"

\* A request that names no reversibility is taken to be irreversible.
Verdict(e) == Classify(IF e.rev = None THEN "Irreversible" ELSE e.rev)

\* The effect of an admitted request for a job: only a runnable job of this
\* very task runs.
Release(j, t) ==
  IF j # None /\ jobs'[j].task = t /\ RunnableJob(j) THEN <<RunTool(j)>> ELSE <<>>

AllowRequest(e) ==
  /\ e.kind \in Request /\ Handled(e)
  /\ Admitted(e) /\ Verdict(e) = "Allow"
  /\ SetTask(e, Charged(e))
  /\ UNCHANGED approvals
  /\ Finish(e, Release(e.job, e.task))

AskApproval(e) ==
  /\ e.kind \in Request /\ Handled(e)
  /\ Admitted(e) /\ Verdict(e) = "RequireApproval"
  /\ tasks[e.task].awaiting = None /\ e.call # None
  /\ Len(approvals) < MaxApprovals
  /\ approvals' = Append(approvals,
       [task |-> e.task, job |-> e.job, status |-> "Pending", call |-> e.call,
        expires |-> SatAdd(e.ts, ApprovalTtl)])
  /\ SetTask(e, [Charged(e) EXCEPT !.status = "AwaitingApproval",
                                   !.awaiting = Len(approvals) + 1])
  /\ Finish(e, <<RequestApproval(Len(approvals) + 1)>>)

\* An approval cannot be bound to a request without an operation id.
BlockUntagged(e) ==
  /\ e.kind \in Request /\ Handled(e)
  /\ Admitted(e) /\ Verdict(e) = "RequireApproval"
  /\ tasks[e.task].awaiting = None /\ e.call = None
  /\ SetTask(e, BlockedEntry(Charged(e), "RiskDetected", None))
  /\ UNCHANGED approvals
  /\ Finish(e, <<>>)

DenyRequest(e) ==
  /\ e.kind \in Request /\ Handled(e)
  /\ Admitted(e) /\ Verdict(e) = "Deny"
  /\ SetTask(e, BlockedEntry(Charged(e), "PolicyDenied", None))
  /\ UNCHANGED approvals
  /\ Finish(e, <<>>)

\* A request from a status where the effect is not legitimate, or a second
\* one while an approval is pending, is only audited.
AuditRequest(e) ==
  /\ e.kind \in Request /\ Handled(e)
  /\ Admitted(e) =>
       Verdict(e) = "RequireApproval" /\ tasks[e.task].awaiting # None
  /\ SetTask(e, Charged(e))
  /\ UNCHANGED approvals
  /\ Finish(e, <<>>)

-----------------------------------------------------------------------------
(* resolve_approval.                                                       *)

\* Mutants: the resolver is not checked; any pending approval is resolvable.
ResolvesByAnyone(e) ==
  /\ e.approval # None
  /\ tasks[e.task].awaiting = e.approval
  /\ approvals[e.approval].call = e.call
  /\ e.resolution # None
ResolvesOrphan(e) ==
  /\ e.actor = "User"
  /\ e.approval \in DOMAIN approvals
  /\ approvals[e.approval].status = "Pending"
  /\ approvals[e.approval].call = e.call
  /\ e.resolution # None

\* Guards 1, 1b and 2.  Guard 3 (expiry at use time) repeats the sweep's test
\* on the same approval, so an event that reaches resolve_approval passes it.
Resolves(e) ==
  /\ e.actor = "User"
  /\ e.approval # None
  /\ tasks[e.task].awaiting = e.approval
  /\ approvals[e.approval].status = "Pending"
  /\ approvals[e.approval].call = e.call
  /\ e.resolution # None

Approve(e) ==
  /\ e.kind = "ApprovalResolved" /\ Handled(e)
  /\ Resolves(e) /\ e.resolution = "Approve"
  /\ approvals' = [approvals EXCEPT ![e.approval].status = "Approved"]
  /\ SetTask(e, MovedEntry(Charged(e), "Running"))
  /\ Finish(e, Release(approvals[e.approval].job, e.task))

Deny(e) ==
  /\ e.kind = "ApprovalResolved" /\ Handled(e)
  /\ Resolves(e) /\ e.resolution = "Deny"
  /\ approvals' = [approvals EXCEPT ![e.approval].status = "Denied"]
  /\ SetTask(e, BlockedEntry(Charged(e), "ApprovalDenied", None))
  /\ Finish(e, <<>>)

IgnoreResolution(e) ==
  /\ e.kind = "ApprovalResolved" /\ Handled(e)
  /\ ~Resolves(e)
  /\ SetTask(e, Charged(e))
  /\ UNCHANGED approvals
  /\ Finish(e, <<>>)

-----------------------------------------------------------------------------
(* Every other kind goes through the task table.                           *)

MoveTask(e) ==
  LET to == TaskNext(tasks[e.task].status, e.kind) IN
  /\ e.kind \notin Request \union {"ApprovalResolved"} /\ Handled(e)
  /\ SetTask(e, IF to = "Stay" THEN Charged(e) ELSE MovedEntry(Charged(e), to))
  /\ UNCHANGED approvals
  /\ Finish(e, <<>>)

-----------------------------------------------------------------------------
NoEvent ==
  [kind |-> "UserMessageQueued", seq |-> 0, ts |-> 0, actor |-> "Kernel",
   task |-> None, job |-> None, owner |-> None, rev |-> None, call |-> None,
   approval |-> None, resolution |-> None, delta |-> None, budget |-> None]

\* Kernel::new.
Init ==
  /\ policy \in RiskProfile
  /\ tasks = [t \in TaskId |-> AbsentTask]
  /\ jobs = [j \in JobId |-> AbsentJob]
  /\ approvals = <<>>
  /\ ready = <<>>
  /\ appliedThrough = 0
  /\ processed = {}
  /\ event = NoEvent
  /\ actions = <<>>

\* Kernel::step.
Step(e) ==
  \/ Redeliver(e)
  \/ CreateTask(e)
  \/ Absorb(e)
  \/ ExpireApproval(e)
  \/ ExhaustBudget(e)
  \/ AllowRequest(e)
  \/ AskApproval(e)
  \/ BlockUntagged(e)
  \/ DenyRequest(e)
  \/ AuditRequest(e)
  \/ Approve(e)
  \/ Deny(e)
  \/ IgnoreResolution(e)
  \/ MoveTask(e)

Next == \E e \in Inbound : Step(e)

Spec == Init /\ [][Next]_vars
-----------------------------------------------------------------------------
(* What a step returned, and which statuses may act.                       *)

Emitted == {actions[i] : i \in DOMAIN actions}
LiveTask(status) == status \notin TerminalTask \union {"Absent"}
LiveJob(status) == status \notin TerminalJob \union {"Absent"}

(***************************************************************************)
(* Invariants.                                                             *)
(***************************************************************************)

\* Every arena entry, queue and counter of the Kernel struct is well formed.
TypeOK ==
  /\ policy \in RiskProfile
  /\ tasks \in [TaskId -> TaskEntry]
  /\ jobs \in [JobId -> JobEntry]
  /\ approvals \in Seq(ApprovalEntry)
  /\ ready \in Seq(JobId)
  /\ appliedThrough \in Nat
  /\ processed \subseteq Nat
  /\ event \in Event

\* The task and approval arenas agree, whatever order requests, resolutions,
\* blocks and deadlines come in: a task is AwaitingApproval exactly when it
\* names an approval, that approval is its own and still pending, and a block
\* reason is there exactly while the task is Blocked.
AwaitingLinked ==
  \A t \in TaskId :
    LET task == tasks[t] IN
    /\ task.status = "AwaitingApproval" <=> task.awaiting # None
    /\ task.awaiting # None =>
         /\ task.awaiting \in DOMAIN approvals
         /\ approvals[task.awaiting].task = t
         /\ approvals[task.awaiting].status = "Pending"
    /\ task.status = "Blocked" <=> task.reason # None

\* Killing or failing a task leaves no job of it alive, and no later event
\* (of this or another task, naming any job) brings one back.
EndedTaskHasNoLiveJob ==
  \A t \in TaskId, j \in JobId :
    /\ tasks[t].status \in {"Killed", "Failed"}
    /\ jobs[j].task = t
    => ~LiveJob(jobs[j].status)

(***************************************************************************)
(* Action properties.                                                      *)
(***************************************************************************)

\* A tool runs, or the model is asked, only for a job that is leased or
\* running, of a task that is at work when the step ends: a paused, ended or
\* unknown task never drives an effect, whichever event names its job.
EffectsNeedLiveWork ==
  \A j \in JobId :
    /\ RunTool(j) \in Emitted' =>
         /\ jobs'[j].status \in {"Leased", "Running"}
         /\ tasks'[jobs'[j].task].status \in {"Running", "Integrating"}
    /\ RequestModel(j) \in Emitted' =>
         /\ jobs'[j].status \in {"Leased", "Running"}
         /\ tasks'[jobs'[j].task].status = "Running"

\* A tool runs either on a request that declares itself reversible, under a
\* profile that permits effects, or because the user resolved, in time, the
\* pending approval bound to that very operation, job and task.
ToolRunIsAuthorized ==
  \A j \in JobId :
    RunTool(j) \in Emitted' =>
      \/ /\ event'.kind \in Request
         /\ event'.rev \in {"Reversible", "ReversibleWithCleanup"}
         /\ policy # "ReadOnly"
      \/ /\ event'.actor = "User"
         /\ \E a \in DOMAIN approvals :
              /\ approvals[a].status = "Pending"
              /\ approvals'[a].status = "Approved"
              /\ approvals[a].call = event'.call
              /\ approvals[a].job = j
              /\ approvals[a].task = jobs'[j].task
              /\ event'.ts <= approvals[a].expires

\* An approval changes at most once, and only while its task waits for it:
\* one that was superseded by a block or an ended task stays pending for ever.
ApprovalsSettleOnce ==
  \A a \in DOMAIN approvals :
    /\ a \in DOMAIN approvals'
    /\ approvals'[a] # approvals[a] =>
         /\ approvals[a].status = "Pending"
         /\ tasks[approvals[a].task].awaiting = a
         /\ tasks'[approvals[a].task].awaiting = None
         /\ approvals'[a] = [approvals[a] EXCEPT !.status = approvals'[a].status]

\* The step that takes a meter over its limit pauses the task and does
\* nothing else; meters never run backwards, and limits never move.
BudgetPauses ==
  \A t \in TaskId, a \in Axis :
    tasks[t].status # "Absent" =>
      /\ tasks'[t].used[a] >= tasks[t].used[a]
      /\ tasks'[t].limit = tasks[t].limit
      /\ ~OverLimit(tasks[t].used, tasks[t].limit, a)
         /\ OverLimit(tasks'[t].used, tasks'[t].limit, a) =>
           /\ tasks'[t].status = "Blocked"
           /\ Emitted' = {AppendEvent(t)}

\* No sequence number is applied twice, however events are repeated and
\* reordered on their way to the kernel.
AppliedOnce ==
  [][actions' # <<>> /\ event'.seq # 0 => event'.seq \notin processed]_vars

\* An ended task or job keeps its status and its task for ever.
EndIsFinal ==
  [][/\ \A t \in TaskId :
          tasks[t].status \in TerminalTask => tasks'[t] = tasks[t]
     /\ \A j \in JobId :
          /\ jobs[j].status \in TerminalJob => jobs'[j] = jobs[j]
          /\ jobs[j].status # "Absent" => jobs'[j].task = jobs[j].task]_vars

\* While a named worker holds a lease, no event of another worker touches the
\* job, and the job makes no progress once the lease has run out.
LeaseGuardsJob ==
  \A j \in JobId :
    /\ jobs[j].status \in ActiveJob
    /\ jobs[j].owner # None
    /\ event'.kind \notin {"TaskKilled", "TaskFailed"}
    /\ jobs'[j] # jobs[j]
    => /\ event'.owner \in {None, jobs[j].owner}
       /\ event'.ts > jobs[j].expires => jobs'[j].status = "Expired"

\* What a step asks the world to do is warranted by the work it is for and by
\* who asked (Kernel::step, drain_ready).
EffectsAreWarranted == [][EffectsNeedLiveWork /\ ToolRunIsAuthorized]_vars

\* What was given out is held to: approvals, budgets and leases, whatever order
\* events come in.
GrantsAreKept == [][ApprovalsSettleOnce /\ BudgetPauses /\ LeaseGuardsJob]_vars

(***************************************************************************)
(* Statements of the repository that the code does not meet.               *)
(***************************************************************************)

Delivered(e) == actions' # <<>> /\ e.task # None /\ LiveTask(tasks[e.task].status)

\* state.rs, "The safety edges every active task must honor": a task that has
\* not ended is killed by TaskKilled.
KillIsHonored ==
  [][event'.kind = "TaskKilled" /\ Delivered(event') =>
       tasks'[event'.task].status = "Killed"]_vars

=============================================================================
