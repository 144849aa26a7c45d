---------------------------- MODULE KernelProofs ----------------------------
(***************************************************************************)
(* Proofs about Kernel, for every set of identifiers, every policy, every  *)
(* width of a meter and every set of inbound events.                       *)
(***************************************************************************)
EXTENDS Kernel, WellFoundedInduction, TLAPS

-----------------------------------------------------------------------------
(* The inductive invariant.                                                *)

\* A job in the arena belongs to a task in the arena, for apply_job creates
\* jobs only for the live task its event names.
JobsLinked ==
  \A j \in JobId :
    /\ jobs[j].status = "Absent" <=> jobs[j].task = None
    /\ jobs[j].task # None => tasks[jobs[j].task].status # "Absent"

\* drain_ready empties the queue in the very step that filled it.
QueueDrained == ready = <<>>

\* Kernel::step keeps applied_through at the largest number it applied.
FrontierIsLargest == \A n \in processed : n <= appliedThrough

IInv ==
  /\ TypeOK
  /\ AwaitingLinked
  /\ QueueDrained
  /\ JobsLinked
  /\ EndedTaskHasNoLiveJob
  /\ FrontierIsLargest

-----------------------------------------------------------------------------
(* Operators.                                                              *)

\* Saturating u64 addition stays within u64.
LEMMA SatAddType ==
  ASSUME NEW a \in U64, NEW b \in U64
  PROVE  SatAdd(a, b) \in U64
  BY ConstantsAssumption DEF SatAdd, U64

\* Budget::check finds an axis to report whenever some axis is over its limit.
LEMMA ExhaustedAxisType ==
  ASSUME NEW used, NEW limit, \E a \in Axis : OverLimit(used, limit, a)
  PROVE  ExhaustedAxis(used, limit) \in Axis
<1> DEFINE T == {a \in Axis : OverLimit(used, limit, a)}
           R == {x \in Nat \X Nat : x[1] < x[2]}
<1>1. T \subseteq Nat /\ T # {}
  BY ConstantsAssumption DEF Axis
<1>2. R = OpToRel(<, Nat)
  BY DEF OpToRel
<1>3. IsWellFoundedOn(R, Nat)
  BY <1>2, NatLessThanWellFounded
<1> HIDE DEF R
<1>4. PICK x \in T : \A y \in T : <<y, x>> \notin R
  BY <1>1, <1>3, WFMin
<1>5. ASSUME NEW y \in T PROVE x <= y
  <2>1. x \in Nat /\ y \in Nat
    BY <1>1
  <2>2. y < x => <<y, x>> \in R
    BY <2>1 DEF R
  <2> QED
    BY <1>4, <2>1, <2>2
<1>6. /\ x \in Axis /\ OverLimit(used, limit, x)
      /\ \A b \in Axis : OverLimit(used, limit, b) => x <= b
  BY <1>5
<1> QED
  BY <1>6 DEF ExhaustedAxis

\* The Option of a set has the set's members and None.
LEMMA OptionMember ==
  ASSUME NEW S, NEW x \in Option(S), x # None
  PROVE  x \in S
  BY DEF Option

\* set_blocked yields a blocked entry that waits for nothing.
LEMMA BlockedEntryType ==
  ASSUME NEW entry \in TaskEntry, NEW axis \in Option(Axis),
         NEW why \in {"BudgetExhausted", "PolicyDenied", "ApprovalDenied",
                      "ApprovalExpired", "RiskDetected"}
  PROVE  LET b == BlockedEntry(entry, why, axis) IN
         /\ b \in TaskEntry
         /\ b.status = "Blocked" /\ b.awaiting = None /\ b.reason # None
<1>1. [why |-> why, axis |-> axis] \in BlockReason
  BY DEF BlockReason
<1>2. [why |-> why, axis |-> axis] # None
  BY <1>1, ConstantsAssumption
<1> QED
  BY <1>1, <1>2 DEF BlockedEntry, TaskEntry, TaskStatus, Option

\* set_task_status keeps entries well formed: a reason exactly when Blocked,
\* and no approval awaited.
LEMMA MovedEntryType ==
  ASSUME NEW entry \in TaskEntry, NEW to \in TaskStatus \ {"AwaitingApproval"}
  PROVE  LET m == MovedEntry(entry, to) IN
         /\ m \in TaskEntry
         /\ m.status = to /\ m.awaiting = None
         /\ m.reason # None <=> to = "Blocked"
<1>1. CASE to = "Blocked"
  <2>1. None \in Option(Axis)
    BY DEF Option
  <2> QED
    BY <1>1, <2>1, BlockedEntryType DEF MovedEntry
<1>2. CASE to # "Blocked"
  BY <1>2 DEF MovedEntry, TaskEntry, Option
<1> QED
  BY <1>1, <1>2

\* Budget::record keeps the meters within u64 and touches nothing else.
LEMMA ChargedType ==
  ASSUME TypeOK, NEW e \in Event, e.task \in TaskId
  PROVE  /\ Charged(e) \in TaskEntry
         /\ Charged(e).status = tasks[e.task].status
         /\ Charged(e).awaiting = tasks[e.task].awaiting
         /\ Charged(e).reason = tasks[e.task].reason
<1>1. tasks[e.task] \in TaskEntry
  BY DEF TypeOK
<1>2. CASE e.delta = None
  BY <1>1, <1>2 DEF Charged
<1>3. CASE e.delta # None
  <2>1. e.delta \in [Axis -> U64]
    BY <1>3, OptionMember DEF Event
  <2>2. tasks[e.task].used \in [Axis -> U64]
    BY <1>1 DEF TaskEntry
  <2>3. Recorded(tasks[e.task].used, e.delta) \in [Axis -> U64]
    BY <2>1, <2>2, SatAddType DEF Recorded
  <2> QED
    BY <1>1, <1>3, <2>3 DEF Charged, TaskEntry
<1> QED
  BY <1>2, <1>3

\* task_next never enters AwaitingApproval, ends a task as Killed or Failed
\* only on the event of that name, and never forgets a task.
LEMMA TaskNextType ==
  ASSUME NEW status \in TaskStatus, NEW kind \in EventKind
  PROVE  LET to == TaskNext(status, kind) IN
         /\ to \in (TaskStatus \ {"AwaitingApproval"}) \union {"Stay"}
         /\ to = "Killed" <=> kind = "TaskKilled"
         /\ to = "Failed" <=> kind = "TaskFailed"
<1> DEFINE to == TaskNext(status, kind)
<1>1. to \in (TaskStatus \ {"AwaitingApproval"}) \union {"Stay"}
  BY DEF TaskNext, TaskStatus, TerminalTask, EventKind, Request, Activity,
         Started, Finished
<1>2. to = "Killed" <=> kind = "TaskKilled"
  BY DEF TaskNext, TaskStatus, TerminalTask, EventKind, Request, Activity,
         Started, Finished
<1>3. to = "Failed" <=> kind = "TaskFailed"
  BY DEF TaskNext, TaskStatus, TerminalTask, EventKind, Request, Activity,
         Started, Finished
<1> QED
  BY <1>1, <1>2, <1>3

-----------------------------------------------------------------------------
(* What apply_job does to one job.                                         *)

\* LeaseState::refresh keeps the entry's task and status.
LEMMA RefreshedType ==
  ASSUME NEW job \in JobEntry, NEW owner \in Option(LeaseOwner), NEW now \in U64
  PROVE  LET r == Refreshed(job, owner, now) IN
         r \in JobEntry /\ r.task = job.task /\ r.status = job.status
<1>1. SatAdd(now, LeaseTtl) \in U64
  BY SatAddType, ConstantsAssumption
<1> QED
  BY <1>1 DEF Refreshed, JobEntry

\* job_next moves a live job to a live or completed status.
LEMMA JobNextType ==
  ASSUME NEW status \in JobStatus, NEW kind
  PROVE  JobNext(status, kind) \in JobStatus
  BY DEF JobNext, JobStatus, ActiveJob, TerminalJob

\* An event that names a job, other than JobQueued, leaves its task alone and
\* leaves an ended or unknown job as it is.
LEMMA TouchedJobType ==
  ASSUME NEW e \in Event, NEW job \in JobEntry
  PROVE  LET n == TouchedJob(e, job) IN
         /\ n \in JobEntry
         /\ n.task = job.task
         /\ n.status = "Absent" <=> job.status = "Absent"
         /\ job.status \in TerminalJob => n = job
<1> DEFINE moved == [job EXCEPT !.status = JobNext(job.status, e.kind)]
<1>1. CASE Accepted(e, job)
  <2>1. job.status \in JobStatus \ TerminalJob
    BY <1>1 DEF Accepted, JobEntry
  <2>2. moved \in JobEntry /\ moved.task = job.task /\ moved.status \in JobStatus
    BY <2>1, JobNextType DEF JobEntry
  <2>3. e.owner \in Option(LeaseOwner) /\ job.owner \in Option(LeaseOwner)
        /\ e.ts \in U64
    BY DEF Event, JobEntry
  <2>4. AdvancedJob(e, job) \in {moved, Refreshed(moved, e.owner, e.ts),
                                 Refreshed(moved, job.owner, e.ts)}
    BY DEF AdvancedJob
  <2>5. /\ AdvancedJob(e, job) \in JobEntry
        /\ AdvancedJob(e, job).task = job.task
        /\ AdvancedJob(e, job).status \in JobStatus
    <3> HIDE DEF moved
    <3> QED BY <2>2, <2>3, <2>4, RefreshedType
  <2>6. ~Lapsed(e, job)
    BY <1>1, <2>3 DEF Accepted, Lapsed, JobEntry, U64
  <2>7. TouchedJob(e, job) = AdvancedJob(e, job)
    BY <1>1, <2>6 DEF TouchedJob
  <2>8. "Absent" \notin JobStatus
    BY DEF JobStatus, ActiveJob, TerminalJob
  <2> QED
    BY <2>1, <2>5, <2>7, <2>8
<1>2. CASE ~Accepted(e, job) /\ Lapsed(e, job)
  BY <1>2 DEF TouchedJob, Lapsed, JobEntry, JobStatus, ActiveJob, TerminalJob
<1>3. CASE ~Accepted(e, job) /\ ~Lapsed(e, job)
  BY <1>3 DEF TouchedJob
<1> QED
  BY <1>1, <1>2, <1>3

\* apply_job as a whole: ended jobs stay ended, a job never changes its task,
\* jobs appear only through JobQueued, and TaskKilled and TaskFailed leave no
\* live job of the task.
LEMMA ApplyJobStep ==
  ASSUME TypeOK, JobsLinked, NEW e \in Event, Live(e), ApplyJob(e)
  PROVE  /\ jobs' \in [JobId -> JobEntry]
         /\ \A j \in JobId :
              /\ jobs[j].status \in TerminalJob => jobs'[j] = jobs[j]
              /\ jobs[j].status # "Absent" =>
                   jobs'[j].task = jobs[j].task /\ jobs'[j].status # "Absent"
              /\ jobs[j].status = "Absent" =>
                   \/ jobs'[j] = jobs[j]
                   \/ /\ e.kind = "JobQueued"
                      /\ jobs'[j].task = e.task /\ jobs'[j].status = "Queued"
              /\ e.kind \in {"TaskKilled", "TaskFailed"} /\ jobs'[j].task = e.task
                   => ~LiveJob(jobs'[j].status)
<1>0. e.task \in TaskId
  BY OptionMember DEF Live, Event
<1> SUFFICES ASSUME NEW j \in JobId
    PROVE  /\ JobAfter(e, j) \in JobEntry
           /\ jobs[j].status \in TerminalJob => JobAfter(e, j) = jobs[j]
           /\ jobs[j].status # "Absent" =>
                JobAfter(e, j).task = jobs[j].task /\ JobAfter(e, j).status # "Absent"
           /\ jobs[j].status = "Absent" =>
                \/ JobAfter(e, j) = jobs[j]
                \/ /\ e.kind = "JobQueued"
                   /\ JobAfter(e, j).task = e.task
                   /\ JobAfter(e, j).status = "Queued"
           /\ e.kind \in {"TaskKilled", "TaskFailed"} /\ JobAfter(e, j).task = e.task
                => ~LiveJob(JobAfter(e, j).status)
  BY DEF ApplyJob
<1>1. jobs[j] \in JobEntry /\ (jobs[j].status = "Absent" <=> jobs[j].task = None)
  BY DEF TypeOK, JobsLinked
<1>2. CASE e.kind \in {"TaskKilled", "TaskFailed"}
  BY <1>0, <1>1, <1>2, ConstantsAssumption
     DEF JobAfter, EndedJob, JobEntry, JobStatus, TerminalJob, LiveJob
<1>3. CASE e.kind \notin {"TaskKilled", "TaskFailed"} /\ j # e.job
  BY <1>1, <1>3 DEF JobAfter
<1>4. CASE e.kind = "JobQueued" /\ j = e.job
  <2>1. U64 # {} /\ 0 \in U64
    BY ConstantsAssumption DEF U64
  <2>2. NewJob(e.task) \in JobEntry /\ NewJob(e.task).task = e.task
        /\ NewJob(e.task).status = "Queued"
    BY <1>0, <2>1 DEF NewJob, AbsentJob, JobEntry, JobStatus, Option
  <2> QED
    BY <1>1, <1>4, <2>2
       DEF JobAfter, QueuedJob, JobEntry, JobStatus, ActiveJob, TerminalJob
<1>5. CASE /\ e.kind \notin {"TaskKilled", "TaskFailed", "JobQueued"}
           /\ j = e.job
  <2>1. JobAfter(e, j) = TouchedJob(e, jobs[j])
    BY <1>5 DEF JobAfter
  <2> HIDE DEF JobAfter
  <2> QED
    BY <1>1, <1>5, <2>1, TouchedJobType, ConstantsAssumption DEF TouchedJob, Lapsed, Accepted, ActiveJob
<1> QED
  BY <1>2, <1>3, <1>4, <1>5

-----------------------------------------------------------------------------
(* The parts of a step that several handlers share.                        *)

\* The bookkeeping of Kernel::step.
LEMMA ApplyStep ==
  ASSUME TypeOK, FrontierIsLargest, NEW e \in Event, Apply(e)
  PROVE  /\ appliedThrough' \in Nat /\ processed' \in SUBSET Nat
         /\ event' \in Event /\ policy' \in RiskProfile
         /\ FrontierIsLargest'
<1>1. e.seq \in Nat
  BY DEF Event
<1>2. event' \in Event /\ policy' \in RiskProfile
  BY DEF Apply, TypeOK
<1>3. appliedThrough \in Nat /\ processed \subseteq Nat
  BY DEF TypeOK
<1>4. appliedThrough' \in Nat /\ processed' \in SUBSET Nat
  BY <1>1, <1>3 DEF Apply
<1>5. FrontierIsLargest'
  BY <1>1, <1>3 DEF Apply, Fresh, FrontierIsLargest
<1> QED
  BY <1>2, <1>4, <1>5

\* drain_ready empties the queue: at most the event's own job was in it.
LEMMA FinishDrains ==
  ASSUME QueueDrained, NEW e \in Event, NEW effects, Finish(e, effects)
  PROVE  QueueDrained'
<1>1. CASE ReadyAfter(e) = <<>>
  BY <1>1 DEF Finish, QueueDrained
<1>2. CASE ReadyAfter(e) = Append(<<>>, e.job)
  <2>1. Append(<<>>, e.job) = <<e.job>> /\ Tail(<<e.job>>) = <<>> /\ <<e.job>> # <<>>
    OBVIOUS
  <2> QED
    BY <1>2, <2>1 DEF Finish, QueueDrained
<1> QED
  BY <1>1, <1>2 DEF ReadyAfter, QueueDrained

\* Replacing one task's entry by a live one, or ending it together with its
\* jobs, keeps the job arena linked to the task arena.
LEMMA SetTaskKeepsJobs ==
  ASSUME IInv, NEW e \in Event, Live(e), NEW entry \in TaskEntry,
         SetTask(e, entry), entry.status # "Absent",
         \/ ApplyJob(e) /\ (entry.status \in {"Killed", "Failed"} =>
                             e.kind \in {"TaskKilled", "TaskFailed"})
         \/ jobs' = jobs /\ entry.status \notin {"Killed", "Failed"},
         e.kind = "JobQueued" => entry.status \notin {"Killed", "Failed"}
  PROVE  /\ tasks' \in [TaskId -> TaskEntry] /\ jobs' \in [JobId -> JobEntry]
         /\ JobsLinked' /\ EndedTaskHasNoLiveJob'
<1>0. e.task \in TaskId
  BY OptionMember DEF Live, Event
<1>1. tasks \in [TaskId -> TaskEntry] /\ jobs \in [JobId -> JobEntry]
  BY DEF IInv, TypeOK
<1>2. /\ tasks' \in [TaskId -> TaskEntry]
      /\ tasks'[e.task] = entry
      /\ \A t \in TaskId : t # e.task => tasks'[t] = tasks[t]
  BY <1>0, <1>1 DEF SetTask
<1>3. tasks[e.task].status \notin TerminalTask \union {"Absent"}
  BY DEF Live
<1>4. CASE jobs' = jobs /\ entry.status \notin {"Killed", "Failed"}
  BY <1>0, <1>1, <1>2, <1>4 DEF IInv, JobsLinked, EndedTaskHasNoLiveJob, JobEntry, Option
<1>5. CASE /\ ApplyJob(e)
           /\ entry.status \in {"Killed", "Failed"} =>
                e.kind \in {"TaskKilled", "TaskFailed"}
  <2>1. /\ jobs' \in [JobId -> JobEntry]
        /\ \A j \in JobId :
             /\ jobs[j].status \in TerminalJob => jobs'[j] = jobs[j]
             /\ jobs[j].status # "Absent" =>
                  jobs'[j].task = jobs[j].task /\ jobs'[j].status # "Absent"
             /\ jobs[j].status = "Absent" =>
                  \/ jobs'[j] = jobs[j]
                  \/ /\ e.kind = "JobQueued"
                     /\ jobs'[j].task = e.task /\ jobs'[j].status = "Queued"
             /\ e.kind \in {"TaskKilled", "TaskFailed"} /\ jobs'[j].task = e.task
                  => ~LiveJob(jobs'[j].status)
    BY <1>5, ApplyJobStep DEF IInv
  <2>2. JobsLinked'
    <3> SUFFICES ASSUME NEW j \in JobId
        PROVE  /\ jobs'[j].status = "Absent" <=> jobs'[j].task = None
               /\ jobs'[j].task # None => tasks'[jobs'[j].task].status # "Absent"
      BY DEF JobsLinked
    <3>1. /\ jobs[j].status = "Absent" <=> jobs[j].task = None
          /\ jobs[j].task # None => /\ jobs[j].task \in TaskId
                                    /\ tasks[jobs[j].task].status # "Absent"
      BY <1>1 DEF IInv, JobsLinked, JobEntry, Option
    <3>2. e.task # None
      BY DEF Live
    <3> QED
      BY <1>0, <1>2, <2>1, <3>1, <3>2
  <2>3. EndedTaskHasNoLiveJob'
    <3> SUFFICES ASSUME NEW t \in TaskId, NEW j \in JobId,
                        tasks'[t].status \in {"Killed", "Failed"}, jobs'[j].task = t
        PROVE  ~LiveJob(jobs'[j].status)
      BY DEF EndedTaskHasNoLiveJob
    <3>1. CASE t = e.task
      BY <1>2, <1>5, <2>1, <3>1
    <3>2. CASE t # e.task
      <4>1. tasks[t].status \in {"Killed", "Failed"}
        BY <1>2, <3>2
      <4>2. jobs[j].status # "Absent"
        BY <2>1, <2>2, <3>2, ConstantsAssumption DEF IInv, JobsLinked
      <4>3. jobs[j].task = t
        BY <2>1, <4>2
      <4>4. jobs[j].status \in TerminalJob
        BY <4>1, <4>2, <4>3 DEF IInv, EndedTaskHasNoLiveJob, LiveJob
      <4> QED
        BY <2>1, <4>4 DEF LiveJob
    <3> QED
      BY <3>1, <3>2
  <2> QED
    BY <1>2, <2>1, <2>2, <2>3
<1> QED
  BY <1>4, <1>5

\* Giving a task an entry that waits for nothing, while the approvals of the
\* other tasks stay as they are, keeps tasks and approvals linked.
LEMMA SettledKeepsLinks ==
  ASSUME IInv, NEW e \in Event, e.task \in TaskId, NEW entry \in TaskEntry,
         SetTask(e, entry),
         entry.status # "AwaitingApproval", entry.awaiting = None,
         entry.status = "Blocked" <=> entry.reason # None,
         approvals' \in Seq(ApprovalEntry), Len(approvals') = Len(approvals),
         \A a \in DOMAIN approvals :
           approvals[a].task # e.task => approvals'[a] = approvals[a]
  PROVE  AwaitingLinked'
<1>1. /\ tasks'[e.task] = entry
      /\ \A t \in TaskId : t # e.task => tasks'[t] = tasks[t]
  BY DEF IInv, TypeOK, SetTask
<1>2. DOMAIN approvals' = DOMAIN approvals
  BY DEF IInv, TypeOK
<1> SUFFICES ASSUME NEW t \in TaskId
    PROVE  /\ tasks'[t].status = "AwaitingApproval" <=> tasks'[t].awaiting # None
           /\ tasks'[t].awaiting # None =>
                /\ tasks'[t].awaiting \in DOMAIN approvals'
                /\ approvals'[tasks'[t].awaiting].task = t
                /\ approvals'[tasks'[t].awaiting].status = "Pending"
           /\ tasks'[t].status = "Blocked" <=> tasks'[t].reason # None
  BY DEF AwaitingLinked
<1>3. CASE t = e.task
  BY <1>1, <1>3
<1>4. CASE t # e.task
  <2>1. tasks'[t] = tasks[t]
    BY <1>1, <1>4
  <2> QED
    BY <1>2, <1>4, <2>1 DEF IInv, AwaitingLinked
<1> QED
  BY <1>3, <1>4

\* Changing the status of one approval keeps the arena a sequence of entries.
LEMMA ApprovalStatusType ==
  ASSUME NEW s \in Seq(ApprovalEntry), NEW k \in DOMAIN s, NEW st \in ApprovalStatus
  PROVE  LET u == [s EXCEPT ![k].status = st] IN
         /\ u \in Seq(ApprovalEntry) /\ Len(u) = Len(s)
         /\ \A a \in DOMAIN s : a # k => u[a] = s[a]
<1>1. s[k] \in ApprovalEntry
  OBVIOUS
<1>2. [s[k] EXCEPT !.status = st] \in ApprovalEntry
  BY <1>1 DEF ApprovalEntry
<1> QED
  BY <1>2

-----------------------------------------------------------------------------
(* Preservation, one lemma for each kind of handler.                       *)

\* A step that settles the task's approval, if it has one: every handler but
\* the one that asks for an approval gives the task an entry of this form.
LEMMA SettlingStep ==
  ASSUME IInv, NEW e \in Event, Live(e), Apply(e), NEW entry \in TaskEntry,
         SetTask(e, entry),
         entry.status \notin {"Absent", "AwaitingApproval"}, entry.awaiting = None,
         entry.status = "Blocked" <=> entry.reason # None,
         approvals' \in Seq(ApprovalEntry), Len(approvals') = Len(approvals),
         \A a \in DOMAIN approvals :
           approvals[a].task # e.task => approvals'[a] = approvals[a],
         \/ ApplyJob(e) /\ (entry.status \in {"Killed", "Failed"} =>
                             e.kind \in {"TaskKilled", "TaskFailed"})
         \/ jobs' = jobs /\ entry.status \notin {"Killed", "Failed"},
         e.kind = "JobQueued" => entry.status \notin {"Killed", "Failed"},
         QueueDrained'
  PROVE  IInv'
<1>1. e.task \in TaskId
  BY OptionMember DEF Live, Event
<1>2. /\ tasks' \in [TaskId -> TaskEntry] /\ jobs' \in [JobId -> JobEntry]
      /\ JobsLinked' /\ EndedTaskHasNoLiveJob'
  BY SetTaskKeepsJobs
<1>3. AwaitingLinked'
  BY <1>1, SettledKeepsLinks
<1>4. /\ appliedThrough' \in Nat /\ processed' \in SUBSET Nat
      /\ event' \in Event /\ policy' \in RiskProfile /\ FrontierIsLargest'
  BY ApplyStep DEF IInv
<1>5. ready' \in Seq(JobId)
  BY DEF QueueDrained
<1>6. TypeOK'
  BY <1>2, <1>4, <1>5 DEF TypeOK
<1> QED
  BY <1>2, <1>3, <1>4, <1>6 DEF IInv

\* A step that leaves the task's status, approval and reason alone.
LEMMA ChargingStep ==
  ASSUME IInv, NEW e \in Event, Live(e), Apply(e), ApplyJob(e),
         SetTask(e, Charged(e)), approvals' = approvals, QueueDrained'
  PROVE  IInv'
<1>1. e.task \in TaskId
  BY OptionMember DEF Live, Event
<1>2. /\ Charged(e) \in TaskEntry
      /\ Charged(e).status = tasks[e.task].status
      /\ Charged(e).awaiting = tasks[e.task].awaiting
      /\ Charged(e).reason = tasks[e.task].reason
  BY <1>1, ChargedType DEF IInv
<1>3. Charged(e).status \notin TerminalTask \union {"Absent"}
  BY <1>2 DEF Live
<1>4. /\ tasks' \in [TaskId -> TaskEntry] /\ jobs' \in [JobId -> JobEntry]
      /\ JobsLinked' /\ EndedTaskHasNoLiveJob'
  BY <1>2, <1>3, SetTaskKeepsJobs DEF TerminalTask
<1>5. \A t \in TaskId : /\ tasks'[t].status = tasks[t].status
                        /\ tasks'[t].awaiting = tasks[t].awaiting
                        /\ tasks'[t].reason = tasks[t].reason
  BY <1>1, <1>2 DEF SetTask, IInv, TypeOK
<1>6. AwaitingLinked'
  BY <1>5 DEF IInv, AwaitingLinked
<1>7. /\ appliedThrough' \in Nat /\ processed' \in SUBSET Nat
      /\ event' \in Event /\ policy' \in RiskProfile /\ FrontierIsLargest'
  BY ApplyStep DEF IInv
<1>8. ready' \in Seq(JobId)
  BY DEF QueueDrained
<1>9. TypeOK'
  BY <1>4, <1>7, <1>8 DEF TypeOK, IInv
<1> QED
  BY <1>4, <1>6, <1>7, <1>9 DEF IInv

\* classify_request mints an approval: the one handler that links a task and
\* an approval.
LEMMA AskApprovalStep ==
  ASSUME IInv, NEW e \in Event, AskApproval(e)
  PROVE  IInv'
<1> DEFINE entry == [Charged(e) EXCEPT !.status = "AwaitingApproval",
                                       !.awaiting = Len(approvals) + 1]
           new == [task |-> e.task, job |-> e.job, status |-> "Pending",
                   call |-> e.call, expires |-> SatAdd(e.ts, ApprovalTtl)]
<1>1. /\ Live(e) /\ Apply(e) /\ ApplyJob(e) /\ SetTask(e, entry)
      /\ approvals' = Append(approvals, new)
      /\ e.kind \in Request /\ e.call # None /\ Admitted(e)
  BY DEF AskApproval, Handled
<1>2. e.task \in TaskId /\ e.call \in ToolCallId
  BY <1>1, OptionMember DEF Live, Event
<1>3. approvals \in Seq(ApprovalEntry) /\ Len(approvals) + 1 \in Nat
  BY DEF IInv, TypeOK
<1>4. SatAdd(e.ts, ApprovalTtl) \in U64
  BY SatAddType, ConstantsAssumption DEF Event
<1>5. new \in ApprovalEntry
  BY <1>2, <1>4 DEF ApprovalEntry, ApprovalStatus, Event
<1>6. /\ approvals' \in Seq(ApprovalEntry)
      /\ Len(approvals) + 1 \in DOMAIN approvals'
      /\ approvals'[Len(approvals) + 1] = new
      /\ \A a \in DOMAIN approvals :
           a \in DOMAIN approvals' /\ approvals'[a] = approvals[a]
  <2> HIDE DEF new
  <2> QED BY <1>1, <1>3, <1>5
<1>7. Charged(e) \in TaskEntry /\ Charged(e).reason = tasks[e.task].reason
  BY <1>2, ChargedType DEF IInv
<1>8. entry \in TaskEntry
  BY <1>3, <1>7 DEF TaskEntry, TaskStatus, Option
<1>9. /\ tasks' \in [TaskId -> TaskEntry] /\ jobs' \in [JobId -> JobEntry]
      /\ JobsLinked' /\ EndedTaskHasNoLiveJob'
  <2>1. entry.status = "AwaitingApproval" /\ e.kind # "JobQueued"
    BY <1>1, <1>7 DEF TaskEntry, Request
  <2> HIDE DEF entry
  <2> QED BY <1>1, <1>8, <2>1, SetTaskKeepsJobs
<1>10. AwaitingLinked'
  <2> SUFFICES ASSUME NEW t \in TaskId
      PROVE  /\ tasks'[t].status = "AwaitingApproval" <=> tasks'[t].awaiting # None
             /\ tasks'[t].awaiting # None =>
                  /\ tasks'[t].awaiting \in DOMAIN approvals'
                  /\ approvals'[tasks'[t].awaiting].task = t
                  /\ approvals'[tasks'[t].awaiting].status = "Pending"
             /\ tasks'[t].status = "Blocked" <=> tasks'[t].reason # None
    BY DEF AwaitingLinked
  <2>1. CASE t = e.task
    <3>1. tasks'[t] = entry
      BY <1>1, <1>2, <2>1 DEF SetTask, IInv, TypeOK
    <3>2. /\ entry.status = "AwaitingApproval"
          /\ entry.awaiting = Len(approvals) + 1
          /\ entry.reason = tasks[e.task].reason
      BY <1>7 DEF TaskEntry
    <3>3. tasks[e.task].reason = None
      BY <1>1, <1>2 DEF Admitted, IInv, AwaitingLinked
    <3>4. entry.awaiting # None
      BY <1>3, <3>2, ConstantsAssumption
    <3>5. new.task = t /\ new.status = "Pending"
      BY <2>1
    <3> HIDE DEF entry, new
    <3> QED
      BY <1>6, <3>1, <3>2, <3>3, <3>4, <3>5
  <2>2. CASE t # e.task
    <3>1. tasks'[t] = tasks[t]
      BY <1>1, <2>2 DEF SetTask, IInv, TypeOK
    <3> QED
      BY <1>6, <3>1 DEF IInv, AwaitingLinked
  <2> QED
    BY <2>1, <2>2
<1>11. /\ appliedThrough' \in Nat /\ processed' \in SUBSET Nat
       /\ event' \in Event /\ policy' \in RiskProfile /\ FrontierIsLargest'
  BY <1>1, ApplyStep DEF IInv
<1>12. QueueDrained'
  BY FinishDrains DEF AskApproval, IInv
<1>13. TypeOK'
  <2>1. ready' \in Seq(JobId)
    BY <1>12 DEF QueueDrained
  <2> QED
    BY <1>6, <1>9, <1>11, <2>1 DEF TypeOK
<1> QED
  BY <1>9, <1>10, <1>11, <1>12, <1>13 DEF IInv

-----------------------------------------------------------------------------
(* The invariant.                                                          *)

\* Kernel::new satisfies the invariant.
LEMMA InitEstablishes == Init => IInv
<1> SUFFICES ASSUME Init PROVE IInv
  OBVIOUS
<1>1. 0 \in U64
  BY ConstantsAssumption DEF U64
<1>2. AbsentTask \in TaskEntry /\ AbsentJob \in JobEntry
  BY <1>1 DEF AbsentTask, AbsentJob, TaskEntry, JobEntry, Option
<1>3. NoEvent \in Event
  BY <1>1 DEF NoEvent, Event, EventKind, Request, Activity, Started, Finished,
              Actor, Option
<1>4. TypeOK
  BY <1>2, <1>3 DEF Init, TypeOK
<1>5. AwaitingLinked /\ JobsLinked /\ EndedTaskHasNoLiveJob
  BY DEF Init, AbsentTask, AbsentJob, AwaitingLinked, JobsLinked,
         EndedTaskHasNoLiveJob
<1> QED
  BY <1>4, <1>5 DEF Init, IInv, QueueDrained, FrontierIsLargest

\* Every step of the kernel keeps the invariant.
LEMMA StepPreserves ==
  ASSUME IInv, NEW e \in Event, Step(e)
  PROVE  IInv'
<1>t. TypeOK
  BY DEF IInv
<1>a. approvals \in Seq(ApprovalEntry)
  BY <1>t DEF TypeOK
<1>b. None \in Option(Axis)
  BY DEF Option
<1>1. CASE Redeliver(e)
  <2>1. event' \in Event /\ UNCHANGED state
    BY <1>1 DEF Redeliver
  <2> QED
    BY <2>1 DEF state, IInv, TypeOK, AwaitingLinked, QueueDrained, JobsLinked,
                EndedTaskHasNoLiveJob, FrontierIsLargest
<1>2. CASE CreateTask(e)
  <2>1. /\ Apply(e) /\ UNCHANGED <<jobs, ready, approvals>>
        /\ SetTask(e, NewTask(e.budget))
        /\ e.task \in TaskId /\ tasks[e.task].status = "Absent"
        /\ e.budget \in [Axis -> U64]
    BY <1>2, OptionMember DEF CreateTask, Creatable, Early, Event
  <2>2. /\ NewTask(e.budget) \in TaskEntry
        /\ NewTask(e.budget).status = "Created"
        /\ NewTask(e.budget).awaiting = None /\ NewTask(e.budget).reason = None
    <3>1. 0 \in U64
      BY ConstantsAssumption DEF U64
    <3> QED
      BY <2>1, <3>1 DEF NewTask, AbsentTask, TaskEntry, TaskStatus, Option
  <2>3. /\ tasks' \in [TaskId -> TaskEntry]
        /\ tasks'[e.task].status = "Created"
        /\ \A t \in TaskId : t # e.task => tasks'[t] = tasks[t]
    BY <1>t, <2>1, <2>2 DEF SetTask, TypeOK
  <2>4. AwaitingLinked'
    BY <1>a, <2>1, <2>2, SettledKeepsLinks
  <2>5. /\ appliedThrough' \in Nat /\ processed' \in SUBSET Nat
        /\ event' \in Event /\ policy' \in RiskProfile /\ FrontierIsLargest'
    BY <2>1, ApplyStep DEF IInv
  <2>6. TypeOK'
    BY <2>1, <2>3, <2>5 DEF TypeOK, IInv
  <2>7. QueueDrained'
    BY <2>1 DEF QueueDrained, IInv
  <2>8. JobsLinked' /\ EndedTaskHasNoLiveJob'
    <3>1. \A j \in JobId : jobs[j].task \in TaskId \union {None}
      BY <1>t DEF TypeOK, JobEntry, Option
    <3> QED
      BY <2>1, <2>3, <3>1 DEF IInv, JobsLinked, EndedTaskHasNoLiveJob
  <2> QED
    BY <2>4, <2>5, <2>6, <2>7, <2>8 DEF IInv
<1>3. CASE Absorb(e)
  <2>1. Apply(e) /\ UNCHANGED <<jobs, ready, tasks, approvals>>
    BY <1>3 DEF Absorb, Early
  <2>2. /\ appliedThrough' \in Nat /\ processed' \in SUBSET Nat
        /\ event' \in Event /\ policy' \in RiskProfile /\ FrontierIsLargest'
    BY <2>1, ApplyStep DEF IInv
  <2> QED
    BY <2>1, <2>2 DEF IInv, TypeOK, AwaitingLinked, QueueDrained, JobsLinked,
                      EndedTaskHasNoLiveJob
<1>4. ASSUME Live(e)
      PROVE  /\ e.task \in TaskId /\ Charged(e) \in TaskEntry
             /\ Charged(e).status = tasks[e.task].status
             /\ Charged(e).awaiting = tasks[e.task].awaiting
             /\ tasks[e.task] \in TaskEntry
  <2>1. e.task \in TaskId
    BY <1>4, OptionMember DEF Live, Event
  <2> QED
    BY <1>t, <2>1, ChargedType DEF TypeOK
<1>5. CASE ExpireApproval(e)
  <2> DEFINE entry == BlockedEntry(tasks[e.task], "ApprovalExpired", None)
             k == tasks[e.task].awaiting
  <2>1. /\ Live(e) /\ Overdue(e) /\ Apply(e) /\ SetTask(e, entry)
        /\ approvals' = [approvals EXCEPT ![k].status = "Expired"]
        /\ UNCHANGED <<jobs, ready>>
    BY <1>5 DEF ExpireApproval, Early
  <2>2. k \in DOMAIN approvals /\ approvals[k].task = e.task
    BY <1>4, <2>1 DEF Overdue, IInv, AwaitingLinked
  <2>3. /\ approvals' \in Seq(ApprovalEntry) /\ Len(approvals') = Len(approvals)
        /\ \A a \in DOMAIN approvals : a # k => approvals'[a] = approvals[a]
    <3>1. "Expired" \in ApprovalStatus
      BY DEF ApprovalStatus
    <3> HIDE DEF k
    <3> QED
      BY <1>a, <2>1, <2>2, <3>1, ApprovalStatusType
  <2>4. entry \in TaskEntry /\ entry.status = "Blocked" /\ entry.awaiting = None
        /\ entry.reason # None
    BY <1>4, <1>b, <2>1, BlockedEntryType
  <2>5. QueueDrained'
    BY <2>1 DEF QueueDrained, IInv
  <2> HIDE DEF entry, k
  <2> QED
    BY <2>1, <2>2, <2>3, <2>4, <2>5, SettlingStep
<1>6. CASE ExhaustBudget(e)
  <2> DEFINE axis == ExhaustedAxis(Charged(e).used, Charged(e).limit)
             entry == BlockedEntry(Charged(e), "BudgetExhausted", axis)
  <2>1. /\ Live(e) /\ Exceeds(e) /\ Apply(e) /\ SetTask(e, entry)
        /\ UNCHANGED <<jobs, ready, approvals>>
    BY <1>6 DEF ExhaustBudget, Early
  <2>2. axis \in Option(Axis)
    BY <2>1, ExhaustedAxisType DEF Exceeds, Option
  <2>3. entry \in TaskEntry /\ entry.status = "Blocked" /\ entry.awaiting = None
        /\ entry.reason # None
    <3> HIDE DEF axis
    <3> QED
      BY <1>4, <2>1, <2>2, BlockedEntryType
  <2>4. QueueDrained'
    BY <2>1 DEF QueueDrained, IInv
  <2> HIDE DEF entry
  <2> QED
    BY <1>a, <2>1, <2>3, <2>4, SettlingStep
<1>7. CASE AllowRequest(e) \/ AuditRequest(e) \/ IgnoreResolution(e)
  <2>1. QueueDrained'
    BY <1>7, FinishDrains DEF AllowRequest, AuditRequest, IgnoreResolution, IInv
  <2> QED
    BY <1>7, <2>1, ChargingStep
       DEF AllowRequest, AuditRequest, IgnoreResolution, Handled
<1>8. CASE AskApproval(e)
  BY <1>8, AskApprovalStep
<1>9. CASE BlockUntagged(e) \/ DenyRequest(e)
  <2>1. PICK why \in {"RiskDetected", "PolicyDenied"} :
          SetTask(e, BlockedEntry(Charged(e), why, None))
    BY <1>9 DEF BlockUntagged, DenyRequest
  <2>2. /\ Live(e) /\ Apply(e) /\ ApplyJob(e) /\ UNCHANGED approvals
        /\ e.kind \in Request
    BY <1>9 DEF BlockUntagged, DenyRequest, Handled
  <2> DEFINE entry == BlockedEntry(Charged(e), why, None)
  <2>3. entry \in TaskEntry /\ entry.status = "Blocked" /\ entry.awaiting = None
        /\ entry.reason # None
    <3>1. why \in {"BudgetExhausted", "PolicyDenied", "ApprovalDenied",
                  "ApprovalExpired", "RiskDetected"}
      OBVIOUS
    <3> QED
      BY <1>4, <1>b, <2>2, <3>1, BlockedEntryType
  <2>4. QueueDrained'
    BY <1>9, FinishDrains DEF BlockUntagged, DenyRequest, IInv
  <2> HIDE DEF entry
  <2> QED
    BY <1>a, <2>1, <2>2, <2>3, <2>4, SettlingStep DEF entry
<1>10. CASE Approve(e) \/ Deny(e)
  <2>1. PICK st \in {"Approved", "Denied"}, entry \in TaskEntry :
          /\ approvals' = [approvals EXCEPT ![e.approval].status = st]
          /\ SetTask(e, entry)
          /\ entry.status \in {"Running", "Blocked"} /\ entry.awaiting = None
          /\ entry.status = "Blocked" <=> entry.reason # None
    <3>1. CASE Approve(e)
      <4>1. "Running" \in TaskStatus \ {"AwaitingApproval"}
        BY DEF TaskStatus
      <4>2. LET m == MovedEntry(Charged(e), "Running") IN
            /\ m \in TaskEntry /\ m.status = "Running" /\ m.awaiting = None
            /\ m.reason = None
        BY <1>4, <3>1, <4>1, MovedEntryType DEF Approve, Handled
      <4> QED
        BY <3>1, <4>2 DEF Approve
    <3>2. CASE Deny(e)
      <4>1. LET b == BlockedEntry(Charged(e), "ApprovalDenied", None) IN
            /\ b \in TaskEntry /\ b.status = "Blocked" /\ b.awaiting = None
            /\ b.reason # None
        BY <1>4, <1>b, <3>2, BlockedEntryType DEF Deny, Handled
      <4> QED
        BY <3>2, <4>1 DEF Deny
    <3> QED
      BY <1>10, <3>1, <3>2
  <2>2. Live(e) /\ Apply(e) /\ ApplyJob(e) /\ Resolves(e)
    BY <1>10 DEF Approve, Deny, Handled
  <2>3. e.approval \in DOMAIN approvals /\ approvals[e.approval].task = e.task
    BY <1>4, <2>2 DEF Resolves, IInv, AwaitingLinked
  <2>4. /\ approvals' \in Seq(ApprovalEntry) /\ Len(approvals') = Len(approvals)
        /\ \A a \in DOMAIN approvals : a # e.approval => approvals'[a] = approvals[a]
    <3>1. st \in ApprovalStatus
      BY DEF ApprovalStatus
    <3> QED
      BY <1>a, <2>1, <2>3, <3>1, ApprovalStatusType
  <2>5. QueueDrained'
    BY <1>10, FinishDrains DEF Approve, Deny, IInv
  <2>6. e.kind = "ApprovalResolved"
    BY <1>10 DEF Approve, Deny
  <2> QED
    BY <2>1, <2>2, <2>3, <2>4, <2>5, <2>6, SettlingStep
<1>11. CASE MoveTask(e)
  <2> DEFINE to == TaskNext(tasks[e.task].status, e.kind)
             entry == MovedEntry(Charged(e), to)
  <2>1. /\ Live(e) /\ Apply(e) /\ ApplyJob(e) /\ approvals' = approvals
        /\ SetTask(e, IF to = "Stay" THEN Charged(e) ELSE entry)
    BY <1>11 DEF MoveTask, Handled
  <2>2. QueueDrained'
    BY <1>11, FinishDrains DEF MoveTask, IInv
  <2>3. tasks[e.task].status \in TaskStatus /\ e.kind \in EventKind
    BY <1>4, <2>1 DEF Live, TaskEntry, Event
  <2>4. /\ to \in (TaskStatus \ {"AwaitingApproval"}) \union {"Stay"}
        /\ to = "Killed" <=> e.kind = "TaskKilled"
        /\ to = "Failed" <=> e.kind = "TaskFailed"
    BY <2>3, TaskNextType
  <2>5. CASE to = "Stay"
    BY <2>1, <2>2, <2>5, ChargingStep
  <2>6. CASE to # "Stay"
    <3>1. /\ entry \in TaskEntry /\ entry.status = to /\ entry.awaiting = None
          /\ entry.reason # None <=> to = "Blocked"
      <4> HIDE DEF to
      <4> QED
        BY <1>4, <2>1, <2>4, <2>6, MovedEntryType
    <3>2. to # "Absent"
      BY <2>4, <2>6 DEF TaskStatus, TerminalTask
    <3>3. SetTask(e, entry)
      BY <2>1, <2>6
    <3> HIDE DEF entry, to
    <3> QED
      BY <1>a, <2>1, <2>2, <2>4, <2>6, <3>1, <3>2, <3>3, SettlingStep
  <2> QED
    BY <2>5, <2>6
<1> QED
  BY <1>1, <1>2, <1>3, <1>5, <1>6, <1>7, <1>8, <1>9, <1>10, <1>11 DEF Step

\* The invariant holds in every reachable state of the kernel.
THEOREM KernelInvariant == Spec => []IInv
<1>1. IInv /\ [Next]_vars => IInv'
  <2> SUFFICES ASSUME IInv, [Next]_vars PROVE IInv'
    OBVIOUS
  <2>1. CASE Next
    <3>1. PICK e \in Inbound : Step(e)
      BY <2>1 DEF Next
    <3>2. e \in Event
      BY ConstantsAssumption
    <3> QED
      BY <3>1, <3>2, StepPreserves
  <2>2. CASE UNCHANGED vars
    BY <2>2 DEF vars, IInv, TypeOK, AwaitingLinked, QueueDrained, JobsLinked,
                EndedTaskHasNoLiveJob, FrontierIsLargest
  <2> QED
    BY <2>1, <2>2
<1> QED
  BY <1>1, InitEstablishes, PTL DEF Spec

\* The Kernel struct is well formed after any sequence of events.
THEOREM KernelTypeOK == Spec => []TypeOK
<1>1. IInv => TypeOK
  BY DEF IInv
<1> QED
  BY <1>1, KernelInvariant, PTL

\* A task waits exactly for its own pending approval, after any sequence of
\* requests, resolutions, blocks and deadlines.
THEOREM TaskAndApprovalAgree == Spec => []AwaitingLinked
<1>1. IInv => AwaitingLinked
  BY DEF IInv
<1> QED
  BY <1>1, KernelInvariant, PTL

\* A killed or failed task has no live job, however many jobs and tasks share
\* the arena and whatever jobs their events name.
THEOREM EndedTaskLeavesNoJob == Spec => []EndedTaskHasNoLiveJob
<1>1. IInv => EndedTaskHasNoLiveJob
  BY DEF IInv
<1> QED
  BY <1>1, KernelInvariant, PTL

-----------------------------------------------------------------------------
(* Action properties.                                                      *)

\* process returns before it touches an ended task, and apply_job before it
\* touches an ended job: no event revives either or moves a job to another
\* task.
THEOREM EndedStaysEnded == Spec => EndIsFinal
<1> DEFINE Final ==
      /\ \A t \in TaskId : tasks[t].status \in TerminalTask => tasks'[t] = tasks[t]
      /\ \A j \in JobId :
           /\ jobs[j].status \in TerminalJob => jobs'[j] = jobs[j]
           /\ jobs[j].status # "Absent" => jobs'[j].task = jobs[j].task
<1>1. ASSUME IInv, NEW e \in Event, Step(e) PROVE Final
  <2>0. tasks \in [TaskId -> TaskEntry] /\ TypeOK /\ JobsLinked
    BY <1>1 DEF IInv, TypeOK
  <2>1. \A t \in TaskId : tasks[t].status \in TerminalTask => tasks'[t] = tasks[t]
    <3>1. CASE Redeliver(e) \/ Absorb(e)
      BY <3>1 DEF Redeliver, Absorb, state
    <3>2. CASE CreateTask(e)
      <4>1. tasks[e.task].status \notin TerminalTask
        BY <3>2 DEF CreateTask, Creatable, TerminalTask
      <4> QED
        BY <2>0, <3>2, <4>1 DEF CreateTask, SetTask
    <3>3. CASE Live(e) /\ \E entry : SetTask(e, entry)
      BY <2>0, <3>3 DEF Live, SetTask
    <3> QED
      BY <1>1, <3>1, <3>2, <3>3
         DEF Step, ExpireApproval, ExhaustBudget, AllowRequest, AskApproval,
             BlockUntagged, DenyRequest, AuditRequest, Approve, Deny,
             IgnoreResolution, MoveTask, Handled
  <2>2. \/ jobs' = jobs
        \/ Live(e) /\ ApplyJob(e)
    BY <1>1 DEF Step, Redeliver, CreateTask, Absorb, ExpireApproval, ExhaustBudget,
             Early, AllowRequest, AskApproval, BlockUntagged, DenyRequest,
             AuditRequest, Approve, Deny, IgnoreResolution, MoveTask, Handled, state
  <2> QED
    BY <1>1, <2>0, <2>1, <2>2, ApplyJobStep
<1>2. IInv /\ [Next]_vars => [Final]_vars
  BY <1>1, ConstantsAssumption DEF Next
<1> QED
  BY <1>2, KernelInvariant, PTL DEF Spec, EndIsFinal

\* The idempotency frontier of Kernel::step: a sequence number is applied at
\* most once, for every way of repeating and reordering a log of any length.
THEOREM EventsApplyOnce == Spec => AppliedOnce
<1> DEFINE Once == actions' # <<>> /\ event'.seq # 0 => event'.seq \notin processed
<1>1. ASSUME IInv, NEW e \in Event, Step(e) PROVE Once
  <2>1. CASE Redeliver(e)
    BY <2>1 DEF Redeliver
  <2>2. CASE Apply(e)
    <3>1. e.seq \in Nat /\ appliedThrough \in Nat /\ processed \subseteq Nat
          /\ FrontierIsLargest
      BY <1>1 DEF Event, IInv, TypeOK
    <3>2. event' = e /\ (e.seq = 0 \/ e.seq > appliedThrough)
      BY <2>2 DEF Apply, Fresh
    <3> QED
      BY <3>1, <3>2 DEF FrontierIsLargest
  <2> QED
    BY <1>1, <2>1, <2>2
       DEF Step, CreateTask, Absorb, ExpireApproval, ExhaustBudget, Early,
           AllowRequest, AskApproval, BlockUntagged, DenyRequest, AuditRequest,
           Approve, Deny, IgnoreResolution, MoveTask, Handled
<1>2. IInv /\ [Next]_vars => [Once]_vars
  BY <1>1, ConstantsAssumption DEF Next
<1> QED
  BY <1>2, KernelInvariant, PTL DEF Spec, AppliedOnce

-----------------------------------------------------------------------------
(* Approvals, budgets and leases.                                          *)

\* A saturating meter never runs backwards.
LEMMA SatAddGrows ==
  ASSUME NEW a \in U64, NEW b \in U64
  PROVE  SatAdd(a, b) >= a
  BY ConstantsAssumption DEF SatAdd, U64

\* Budget::record only adds to the meters, and never touches a limit.
LEMMA ChargedMeters ==
  ASSUME TypeOK, NEW e \in Event, e.task \in TaskId
  PROVE  /\ Charged(e).limit = tasks[e.task].limit
         /\ \A a \in Axis : Charged(e).used[a] >= tasks[e.task].used[a]
         /\ e.delta = None => Charged(e).used = tasks[e.task].used
<1>1. tasks[e.task] \in TaskEntry
  BY DEF TypeOK
<1>2. tasks[e.task].used \in [Axis -> U64]
  BY <1>1 DEF TaskEntry
<1>3. CASE e.delta = None
  BY <1>2, <1>3, ConstantsAssumption DEF Charged, U64
<1>4. CASE e.delta # None
  <2>1. e.delta \in [Axis -> U64]
    BY <1>4, OptionMember DEF Event
  <2>2. \A a \in Axis : Recorded(tasks[e.task].used, e.delta)[a] >= tasks[e.task].used[a]
    BY <1>2, <2>1, SatAddGrows DEF Recorded
  <2>3. /\ Charged(e).used = Recorded(tasks[e.task].used, e.delta)
        /\ Charged(e).limit = tasks[e.task].limit
    BY <1>1, <1>4 DEF Charged, TaskEntry
  <2> QED
    BY <1>4, <2>2, <2>3
<1> QED
  BY <1>3, <1>4

\* set_blocked and set_task_status leave the budget alone.
LEMMA EntryKeepsMeters ==
  ASSUME NEW entry \in TaskEntry, NEW why, NEW axis, NEW to
  PROVE  /\ BlockedEntry(entry, why, axis).used = entry.used
         /\ BlockedEntry(entry, why, axis).limit = entry.limit
         /\ MovedEntry(entry, to).used = entry.used
         /\ MovedEntry(entry, to).limit = entry.limit
  BY DEF BlockedEntry, MovedEntry, TaskEntry

\* What every handler past the budget check does to the entry of its task: the
\* meters are the charged ones, whatever status it sets.
LEMMA HandledEntry ==
  ASSUME TypeOK, NEW e \in Event, Step(e), Handled(e)
  PROVE  \E entry : /\ SetTask(e, entry)
                    /\ entry.used = Charged(e).used
                    /\ entry.limit = Charged(e).limit
<1>1. e.task \in TaskId /\ Live(e) /\ ~Overdue(e) /\ ~Exceeds(e)
  BY OptionMember DEF Handled, Live, Event
<1>2. Charged(e) \in TaskEntry
  BY <1>1, ChargedType
<1>3. Fresh(e) /\ e.kind # "TaskCreated"
  BY <1>1 DEF Handled, Apply, Live
<1>4. CASE AllowRequest(e) \/ AuditRequest(e) \/ IgnoreResolution(e)
  BY <1>4 DEF AllowRequest, AuditRequest, IgnoreResolution
<1>5. CASE AskApproval(e)
  <2>1. LET entry == [Charged(e) EXCEPT !.status = "AwaitingApproval",
                                        !.awaiting = Len(approvals) + 1]
        IN SetTask(e, entry) /\ entry.used = Charged(e).used
           /\ entry.limit = Charged(e).limit
    BY <1>2, <1>5 DEF AskApproval, TaskEntry
  <2> QED
    BY <2>1
<1>6. CASE BlockUntagged(e) \/ DenyRequest(e) \/ Deny(e)
  BY <1>2, <1>6, EntryKeepsMeters DEF BlockUntagged, DenyRequest, Deny
<1>7. CASE Approve(e)
  BY <1>2, <1>7, EntryKeepsMeters DEF Approve
<1>8. CASE MoveTask(e)
  BY <1>2, <1>8, EntryKeepsMeters DEF MoveTask
<1> QED
  BY <1>1, <1>3, <1>4, <1>5, <1>6, <1>7, <1>8
     DEF Step, Redeliver, CreateTask, Absorb, ExpireApproval, ExhaustBudget

\* A step settles at most the approval its own task waits for.
LEMMA ApprovalsStep ==
  ASSUME IInv, NEW e \in Event, Step(e)
  PROVE  ApprovalsSettleOnce
<1>1. approvals \in Seq(ApprovalEntry) /\ tasks \in [TaskId -> TaskEntry]
  BY DEF IInv, TypeOK
<1>2. CASE approvals' = approvals
  BY <1>2 DEF ApprovalsSettleOnce
<1>3. CASE AskApproval(e)
  <2>1. PICK x : approvals' = Append(approvals, x)
    BY <1>3 DEF AskApproval
  <2>2. \A a \in DOMAIN approvals : a \in DOMAIN approvals' /\ approvals'[a] = approvals[a]
    BY <1>1, <2>1
  <2> QED
    BY <2>2 DEF ApprovalsSettleOnce
<1>4. ASSUME NEW k, NEW st, NEW entry, Live(e),
             tasks[e.task].awaiting = k, k # None,
             approvals' = [approvals EXCEPT ![k].status = st],
             SetTask(e, entry), entry.awaiting = None
      PROVE  ApprovalsSettleOnce
  <2>1. e.task \in TaskId
    BY <1>4, OptionMember DEF Live, Event
  <2>2. /\ k \in DOMAIN approvals /\ approvals[k].task = e.task
        /\ approvals[k].status = "Pending"
    BY <1>4, <2>1 DEF IInv, AwaitingLinked
  <2>3. /\ DOMAIN approvals' = DOMAIN approvals
        /\ approvals'[k] = [approvals[k] EXCEPT !.status = st]
        /\ \A a \in DOMAIN approvals : a # k => approvals'[a] = approvals[a]
    BY <1>1, <1>4, <2>2
  <2>4. tasks'[e.task].awaiting = None
    BY <1>1, <1>4, <2>1 DEF SetTask
  <2>5. approvals[k] \in ApprovalEntry
    BY <1>1, <2>2
  <2>6. approvals'[k].status = st
    BY <2>3, <2>5 DEF ApprovalEntry
  <2> QED
    BY <1>4, <2>2, <2>3, <2>4, <2>6 DEF ApprovalsSettleOnce
<1>5. ASSUME Live(e)
      PROVE  Charged(e) \in TaskEntry /\ tasks[e.task] \in TaskEntry
  <2>1. e.task \in TaskId
    BY <1>5, OptionMember DEF Live, Event
  <2> QED
    BY <1>1, <2>1, ChargedType DEF IInv
<1>6. CASE ExpireApproval(e)
  <2>1. BlockedEntry(tasks[e.task], "ApprovalExpired", None).awaiting = None
    BY <1>5, <1>6 DEF ExpireApproval, BlockedEntry, TaskEntry
  <2> QED
    BY <1>4, <1>6, <2>1 DEF ExpireApproval, Overdue
<1>7. CASE Approve(e)
  <2>1. MovedEntry(Charged(e), "Running").awaiting = None
    BY <1>5, <1>7 DEF Approve, Handled, MovedEntry, TaskEntry
  <2> QED
    BY <1>4, <1>7, <2>1 DEF Approve, Handled, Resolves
<1>8. CASE Deny(e)
  <2>1. BlockedEntry(Charged(e), "ApprovalDenied", None).awaiting = None
    BY <1>5, <1>8 DEF Deny, Handled, BlockedEntry, TaskEntry
  <2> QED
    BY <1>4, <1>8, <2>1 DEF Deny, Handled, Resolves
<1> QED
  BY <1>2, <1>3, <1>6, <1>7, <1>8
     DEF Step, Redeliver, CreateTask, Absorb, ExhaustBudget, AllowRequest,
         BlockUntagged, DenyRequest, AuditRequest, IgnoreResolution, MoveTask, state

\* Only the budget check takes a meter over its limit, and it pauses the task.
LEMMA BudgetStep ==
  ASSUME IInv, NEW e \in Event, Step(e)
  PROVE  BudgetPauses
<1>t. TypeOK /\ tasks \in [TaskId -> TaskEntry]
  BY DEF IInv, TypeOK
<1> SUFFICES ASSUME NEW t \in TaskId, NEW a \in Axis, tasks[t].status # "Absent"
    PROVE  /\ tasks'[t].used[a] >= tasks[t].used[a]
           /\ tasks'[t].limit = tasks[t].limit
           /\ ~OverLimit(tasks[t].used, tasks[t].limit, a)
              /\ OverLimit(tasks'[t].used, tasks'[t].limit, a) =>
                /\ tasks'[t].status = "Blocked"
                /\ Emitted' = {AppendEvent(t)}
  BY DEF BudgetPauses
<1>u. tasks[t].used[a] \in U64 /\ tasks[t].limit[a] \in U64
  BY <1>t DEF TaskEntry
<1>s. tasks[t].used[a] >= tasks[t].used[a]
  BY <1>u, ConstantsAssumption DEF U64
<1>1. CASE tasks'[t] = tasks[t]
  BY <1>s, <1>1
<1>2. CASE CreateTask(e)
  <2>1. t # e.task
    BY <1>2 DEF CreateTask, Creatable
  <2> QED
    BY <1>1, <1>t, <1>2, <2>1 DEF CreateTask, SetTask
<1>3. CASE ExpireApproval(e)
  <2>1. e.task \in TaskId
    BY <1>3, OptionMember DEF ExpireApproval, Live, Event
  <2>2. CASE t = e.task
    BY <1>t, <1>s, <1>3, <2>1, <2>2, EntryKeepsMeters DEF ExpireApproval, SetTask
  <2> QED
    BY <1>t, <1>1, <1>3, <2>1, <2>2 DEF ExpireApproval, SetTask
<1>4. CASE ExhaustBudget(e)
  <2>1. e.task \in TaskId
    BY <1>4, OptionMember DEF ExhaustBudget, Live, Event
  <2>2. CASE t = e.task
    <3> DEFINE axis == ExhaustedAxis(Charged(e).used, Charged(e).limit)
               entry == BlockedEntry(Charged(e), "BudgetExhausted", axis)
    <3>1. Charged(e) \in TaskEntry
      BY <1>t, <2>1, ChargedType
    <3>2. entry.used = Charged(e).used /\ entry.limit = Charged(e).limit
          /\ entry.status = "Blocked"
      BY <3>1 DEF BlockedEntry, TaskEntry
    <3>3. tasks'[t] = entry
      BY <1>t, <1>4, <2>1, <2>2 DEF ExhaustBudget, SetTask
    <3>4. actions' = <<AppendEvent(t)>>
      BY <1>4, <2>2 DEF ExhaustBudget, Early
    <3>5. Emitted' = {AppendEvent(t)}
      BY <3>4 DEF Emitted
    <3> HIDE DEF entry
    <3> QED
      BY <1>t, <2>1, <2>2, <3>2, <3>3, <3>5, ChargedMeters
  <2> QED
    BY <1>t, <1>1, <1>4, <2>1, <2>2 DEF ExhaustBudget, SetTask
<1>5. CASE Handled(e)
  <2>1. e.task \in TaskId /\ ~Exceeds(e)
    BY <1>5, OptionMember DEF Handled, Live, Event
  <2>2. PICK entry : /\ SetTask(e, entry) /\ entry.used = Charged(e).used
                     /\ entry.limit = Charged(e).limit
    BY <1>t, <1>5, HandledEntry
  <2>3. CASE t = e.task
    <3>1. tasks'[t] = entry
      BY <1>t, <2>1, <2>2, <2>3 DEF SetTask
    <3>2. CASE e.delta = None
      BY <1>t, <2>1, <2>2, <2>3, <3>1, <3>2, ChargedMeters
    <3>3. CASE e.delta # None
      <4>1. ~OverLimit(Charged(e).used, Charged(e).limit, a)
        BY <2>1, <3>3 DEF Exceeds
      <4> QED
        BY <1>t, <2>1, <2>2, <2>3, <3>1, <4>1, ChargedMeters
    <3> QED
      BY <3>2, <3>3
  <2> QED
    BY <1>t, <1>1, <2>1, <2>2, <2>3 DEF SetTask
<1> QED
  BY <1>1, <1>2, <1>3, <1>4, <1>5
     DEF Step, Redeliver, Absorb, AllowRequest, AskApproval, BlockUntagged,
         DenyRequest, AuditRequest, Approve, Deny, IgnoreResolution, MoveTask, state

\* apply_job compares the owner and the lease before anything else.
LEMMA LeaseStep ==
  ASSUME IInv, NEW e \in Event, Step(e)
  PROVE  LeaseGuardsJob
<1> SUFFICES ASSUME NEW j \in JobId, jobs[j].status \in ActiveJob,
                    jobs[j].owner # None,
                    event'.kind \notin {"TaskKilled", "TaskFailed"},
                    jobs'[j] # jobs[j]
    PROVE  /\ event'.owner \in {None, jobs[j].owner}
           /\ event'.ts > jobs[j].expires => jobs'[j].status = "Expired"
  BY DEF LeaseGuardsJob
<1>1. Apply(e) /\ ApplyJob(e)
  BY DEF Step, Redeliver, CreateTask, Absorb, ExpireApproval, ExhaustBudget,
         Early, AllowRequest, AskApproval, BlockUntagged, DenyRequest,
         AuditRequest, Approve, Deny, IgnoreResolution, MoveTask, Handled, state
<1>2. event' = e /\ jobs'[j] = JobAfter(e, j)
  BY <1>1 DEF Apply, ApplyJob
<1>3. jobs[j] \in JobEntry /\ e.ts \in U64
  BY DEF IInv, TypeOK, Event
<1>4. jobs[j].expires \in U64
  BY <1>3 DEF JobEntry
<1>5. JobAfter(e, j) = TouchedJob(e, jobs[j])
  BY <1>2 DEF JobAfter, QueuedJob, ActiveJob
<1>6. CASE Lapsed(e, jobs[j])
  <2>0. ~Accepted(e, jobs[j])
    BY <1>3, <1>4, <1>6, ConstantsAssumption DEF Accepted, Lapsed, U64
  <2>1. jobs'[j].status = "Expired"
    BY <1>2, <1>3, <1>5, <1>6, <2>0 DEF TouchedJob, JobEntry
  <2> QED
    BY <1>2, <1>6, <2>1 DEF Lapsed, StaleOwner
<1>7. CASE ~Lapsed(e, jobs[j])
  <2>1. Accepted(e, jobs[j])
    BY <1>2, <1>5, <1>7 DEF TouchedJob
  <2> QED
    BY <1>2, <1>3, <1>4, <2>1, ConstantsAssumption DEF Accepted, StaleOwner, U64
<1> QED
  BY <1>6, <1>7

\* Approvals, budgets and leases, once given out, are held to: an approval is
\* settled at most once and only by the step its task waits for, a meter that
\* runs over pauses the task with no other effect, and a lease keeps every
\* other worker's events, and late ones, off the job.
THEOREM GrantsHold == Spec => GrantsAreKept
<1> DEFINE Kept == ApprovalsSettleOnce /\ BudgetPauses /\ LeaseGuardsJob
<1>1. ASSUME IInv, NEW e \in Event, Step(e) PROVE Kept
  BY <1>1, ApprovalsStep, BudgetStep, LeaseStep
<1>2. IInv /\ [Next]_vars => [Kept]_vars
  BY <1>1, ConstantsAssumption DEF Next
<1> QED
  BY <1>2, KernelInvariant, PTL DEF Spec, GrantsAreKept

-----------------------------------------------------------------------------
(* Effects.                                                                *)

\* What drain_ready may ask for: the model, for a runnable job of a task that
\* is running when the step ends.
Drainable == {k \in JobId : /\ RunnableJob(k)
                            /\ tasks'[jobs'[k].task].status = "Running"}

\* process returns the event, the handler's effects, the end of the task and
\* what drain_ready took off the queue, and nothing else.
LEMMA FinishEmits ==
  ASSUME QueueDrained, NEW e \in Event, NEW S, NEW effects \in Seq(S),
         Finish(e, effects)
  PROVE  Emitted' \subseteq S \union {AppendEvent(e.task), TaskFinished(e.task)}
                              \union {RequestModel(k) : k \in Drainable}
<1> DEFINE T == S \union {AppendEvent(e.task), TaskFinished(e.task)}
                  \union {RequestModel(k) : k \in Drainable}
           queue == ReadyAfter(e)
           finished == IF tasks'[e.task].status \in TerminalTask
                       THEN <<TaskFinished(e.task)>> ELSE <<>>
           drained == IF /\ queue # <<>>
                         /\ RunnableJob(Head(queue))
                         /\ tasks'[jobs'[Head(queue)].task].status = "Running"
                      THEN <<RequestModel(Head(queue))>> ELSE <<>>
<1>1. queue = <<>> \/ (queue = <<e.job>> /\ e.job \in JobId)
  <2>1. e.job # None => e.job \in JobId
    BY OptionMember DEF Event
  <2>2. Append(<<>>, e.job) = <<e.job>>
    OBVIOUS
  <2> QED
    BY <2>1, <2>2 DEF ReadyAfter, QueueDrained
<1>2. drained \in Seq(T)
  <2>1. CASE drained = <<>>
    BY <2>1
  <2>2. CASE drained # <<>>
    <3>1. queue = <<e.job>> /\ Head(queue) = e.job /\ e.job \in Drainable
      BY <1>1, <2>2 DEF Drainable
    <3>2. drained = <<RequestModel(e.job)>>
      BY <2>2, <3>1
    <3>3. RequestModel(e.job) \in T
      BY <3>1
    <3> HIDE DEF drained, T
    <3> QED
      BY <3>2, <3>3
  <2> QED
    BY <2>1, <2>2
<1>3. /\ <<AppendEvent(e.task)>> \in Seq(T) /\ effects \in Seq(T)
      /\ finished \in Seq(T)
  <2>1. AppendEvent(e.task) \in T /\ TaskFinished(e.task) \in T /\ S \subseteq T
    OBVIOUS
  <2> HIDE DEF T
  <2>2. effects \in Seq(T)
    <3>1. Len(effects) \in Nat /\ effects \in [1 .. Len(effects) -> S]
      OBVIOUS
    <3>2. effects \in [1 .. Len(effects) -> T]
      BY <2>1, <3>1
    <3> QED
      BY <3>1, <3>2
  <2> QED
    BY <2>1, <2>2
<1>4. actions' = <<AppendEvent(e.task)>> \o effects \o finished \o drained
  BY DEF Finish
<1> HIDE DEF finished, drained, T
<1>5. actions' \in Seq(T)
  BY <1>2, <1>3, <1>4
<1> QED
  BY <1>5 DEF Emitted, T

\* A list of one effect.
LEMMA OneEffect ==
  ASSUME NEW S, NEW x \in S
  PROVE  <<x>> \in Seq(S) /\ <<>> \in Seq(S)
  OBVIOUS

\* Release runs at most the job it is asked about, which is runnable and of
\* the task.
LEMMA ReleaseRuns ==
  ASSUME NEW j, NEW t
  PROVE  Release(j, t) \in Seq({RunTool(k) : k \in {x \in {j} \ {None} :
                                  jobs'[x].task = t /\ RunnableJob(x)}})
<1> DEFINE Ran == {RunTool(k) : k \in {x \in {j} \ {None} :
                     jobs'[x].task = t /\ RunnableJob(x)}}
<1>1. CASE Release(j, t) = <<>>
  BY <1>1
<1>2. CASE Release(j, t) # <<>>
  <2>1. Release(j, t) = <<RunTool(j)>> /\ RunTool(j) \in Ran
    BY <1>2 DEF Release
  <2> HIDE DEF Ran
  <2>2. Release(j, t) \in Seq(Ran)
    BY <2>1, OneEffect
  <2> QED
    BY <2>2 DEF Ran
<1> QED
  BY <1>1, <1>2

\* A step that runs a tool is one of the two that release a request: it is
\* admitted by policy now, or the user approved it in time.
LEMMA ToolRunsFrom ==
  ASSUME IInv, NEW e \in Event, Step(e), NEW j \in JobId,
         RunTool(j) \in Emitted'
  PROVE  /\ AllowRequest(e) \/ Approve(e)
         /\ j # None /\ RunnableJob(j) /\ jobs'[j].task = e.task
         /\ j = IF AllowRequest(e) THEN e.job ELSE approvals[e.approval].job
<1> DEFINE Ran(i) == {RunTool(k) : k \in {x \in {i} \ {None} :
                        jobs'[x].task = e.task /\ RunnableJob(x)}}
<1>1. /\ RunTool(j) # AppendEvent(e.task) /\ RunTool(j) # TaskFinished(e.task)
      /\ \A k : RunTool(j) # RequestModel(k) /\ RunTool(j) # RequestApproval(k)
  BY DEF RunTool, AppendEvent, TaskFinished, RequestModel, RequestApproval
<1>2. \A k : RunTool(j) = RunTool(k) => j = k
  BY DEF RunTool
<1>3. CASE actions' = <<>> \/ actions' = <<AppendEvent(e.task)>>
  BY <1>1, <1>3 DEF Emitted
<1>f. ASSUME NEW S, NEW effects \in Seq(S), Finish(e, effects)
      PROVE  RunTool(j) \in S
  BY <1>1, <1>f, FinishEmits DEF IInv
<1>4. ~Finish(e, <<>>)
  <2>1. <<>> \in Seq({})
    OBVIOUS
  <2> QED
    BY <1>f, <2>1
<1>5. ~AskApproval(e)
  <2>1. <<RequestApproval(Len(approvals) + 1)>> \in Seq({RequestApproval(Len(approvals) + 1)})
    OBVIOUS
  <2> QED
    BY <1>1, <1>f, <2>1 DEF AskApproval
<1>6. ASSUME NEW i, Finish(e, Release(i, e.task))
      PROVE  j = i /\ j # None /\ RunnableJob(j) /\ jobs'[j].task = e.task
  <2>1. Release(i, e.task) \in Seq(Ran(i))
    BY ReleaseRuns
  <2>2. RunTool(j) \in Ran(i)
    <3> HIDE DEF Ran
    <3> QED
      BY <1>f, <1>6, <2>1
  <2> QED
    BY <1>2, <2>2
<1>7. CASE AllowRequest(e)
  BY <1>6, <1>7 DEF AllowRequest
<1>8. CASE Approve(e)
  <2>1. ~AllowRequest(e)
    BY <1>8 DEF Approve, AllowRequest, Request
  <2> QED
    BY <1>6, <1>8, <2>1 DEF Approve
<1> QED
  BY <1>3, <1>4, <1>5, <1>7, <1>8
     DEF Step, Redeliver, CreateTask, Absorb, ExpireApproval, ExhaustBudget,
         Early, BlockUntagged, DenyRequest, AuditRequest, Deny,
         IgnoreResolution, MoveTask

\* A released tool finds its task at work: Running, or Integrating for an
\* operation on the forge.
LEMMA ToolRunFindsWork ==
  ASSUME IInv, NEW e \in Event, AllowRequest(e) \/ Approve(e)
  PROVE  tasks'[e.task].status \in {"Running", "Integrating"}
<1>1. e.task \in TaskId
  BY OptionMember DEF AllowRequest, Approve, Handled, Live, Event
<1>2. TypeOK /\ tasks \in [TaskId -> TaskEntry]
  BY DEF IInv, TypeOK
<1>3. Charged(e) \in TaskEntry /\ Charged(e).status = tasks[e.task].status
  BY <1>1, <1>2, ChargedType
<1>4. CASE AllowRequest(e)
  BY <1>1, <1>2, <1>3, <1>4 DEF AllowRequest, Admitted, SetTask
<1>5. CASE Approve(e)
  <2>1. "Running" \in TaskStatus \ {"AwaitingApproval"}
    BY DEF TaskStatus
  <2>2. MovedEntry(Charged(e), "Running").status = "Running"
    BY <1>3, <2>1, MovedEntryType
  <2> QED
    BY <1>1, <1>2, <1>5, <2>2 DEF Approve, SetTask
<1> QED
  BY <1>4, <1>5

\* A released tool was permitted by the profile, or approved by the user
\* before the approval's deadline.
LEMMA ToolRunIsPermitted ==
  ASSUME IInv, NEW e \in Event, Step(e)
  PROVE  ToolRunIsAuthorized
<1> SUFFICES ASSUME NEW j \in JobId, RunTool(j) \in Emitted'
    PROVE  \/ /\ event'.kind \in Request
              /\ event'.rev \in {"Reversible", "ReversibleWithCleanup"}
              /\ policy # "ReadOnly"
           \/ /\ event'.actor = "User"
              /\ \E a \in DOMAIN approvals :
                   /\ approvals[a].status = "Pending"
                   /\ approvals'[a].status = "Approved"
                   /\ approvals[a].call = event'.call
                   /\ approvals[a].job = j
                   /\ approvals[a].task = jobs'[j].task
                   /\ event'.ts <= approvals[a].expires
  BY DEF ToolRunIsAuthorized
<1>1. /\ AllowRequest(e) \/ Approve(e)
      /\ jobs'[j].task = e.task
      /\ j = IF AllowRequest(e) THEN e.job ELSE approvals[e.approval].job
  BY ToolRunsFrom
<1>2. CASE AllowRequest(e)
  <2>1. event' = e
    BY <1>2 DEF AllowRequest, Handled, Apply
  <2>2. e.rev \in Option(Reversibility)
    BY DEF Event
  <2> QED
    BY <1>2, <2>1, <2>2
       DEF AllowRequest, Verdict, Classify, Option, Reversibility
<1>3. CASE Approve(e) /\ ~AllowRequest(e)
  <2>1. event' = e /\ Live(e) /\ ~Overdue(e) /\ Resolves(e)
    BY <1>3 DEF Approve, Handled, Apply
  <2>2. e.task \in TaskId
    BY <2>1, OptionMember DEF Live, Event
  <2>3. approvals \in Seq(ApprovalEntry) /\ e.ts \in U64
    BY DEF IInv, TypeOK, Event
  <2>4. /\ e.approval \in DOMAIN approvals
        /\ approvals[e.approval].task = e.task
        /\ tasks[e.task].status = "AwaitingApproval"
    BY <2>1, <2>2 DEF Resolves, IInv, AwaitingLinked
  <2>5. approvals[e.approval] \in ApprovalEntry
    BY <2>3, <2>4
  <2>6. approvals'[e.approval].status = "Approved"
    BY <1>3, <2>3, <2>4, <2>5 DEF Approve, ApprovalEntry
  <2>7. approvals[e.approval].expires \in U64
    BY <2>5 DEF ApprovalEntry
  <2>8. e.ts <= approvals[e.approval].expires
    BY <2>1, <2>3, <2>4, <2>7, ConstantsAssumption DEF Overdue, Resolves, U64
  <2> QED
    BY <1>1, <1>3, <2>1, <2>4, <2>6, <2>8 DEF Resolves
<1> QED
  BY <1>1, <1>2, <1>3

\* The model is asked only by drain_ready.
LEMMA ModelIsAskedByDrain ==
  ASSUME IInv, NEW e \in Event, Step(e), NEW j \in JobId,
         RequestModel(j) \in Emitted'
  PROVE  j \in Drainable
<1>1. /\ RequestModel(j) # AppendEvent(e.task) /\ RequestModel(j) # TaskFinished(e.task)
      /\ \A k : RequestModel(j) # RunTool(k) /\ RequestModel(j) # RequestApproval(k)
  BY DEF RunTool, AppendEvent, TaskFinished, RequestModel, RequestApproval
<1>2. \A k : RequestModel(j) = RequestModel(k) => j = k
  BY DEF RequestModel
<1>3. CASE actions' = <<>> \/ actions' = <<AppendEvent(e.task)>>
  BY <1>1, <1>3 DEF Emitted
<1>4. ASSUME NEW S, NEW effects \in Seq(S), Finish(e, effects),
             RequestModel(j) \notin S
      PROVE  j \in Drainable
  BY <1>1, <1>2, <1>4, FinishEmits DEF IInv
<1>5. CASE Finish(e, <<>>)
  <2>1. <<>> \in Seq({})
    OBVIOUS
  <2> QED
    BY <1>4, <1>5, <2>1
<1>6. CASE AskApproval(e)
  <2>1. <<RequestApproval(Len(approvals) + 1)>> \in Seq({RequestApproval(Len(approvals) + 1)})
    OBVIOUS
  <2> QED
    BY <1>1, <1>4, <1>6, <2>1 DEF AskApproval
<1>7. CASE AllowRequest(e) \/ Approve(e)
  <2>1. PICK i : Finish(e, Release(i, e.task))
    BY <1>7 DEF AllowRequest, Approve
  <2>2. Release(i, e.task) \in Seq({RunTool(i)})
    BY OneEffect DEF Release
  <2> QED
    BY <1>1, <1>4, <2>1, <2>2
<1> QED
  BY <1>3, <1>5, <1>6, <1>7
     DEF Step, Redeliver, CreateTask, Absorb, ExpireApproval, ExhaustBudget,
         Early, BlockUntagged, DenyRequest, AuditRequest, Deny,
         IgnoreResolution, MoveTask

\* Every tool run and every model request the kernel returns is for a leased
\* or running job of a task at work, and every tool run was permitted by the
\* risk profile or approved, in time, by the user.
THEOREM EffectsWarranted == Spec => EffectsAreWarranted
<1> DEFINE Warranted == EffectsNeedLiveWork /\ ToolRunIsAuthorized
<1>1. ASSUME IInv, NEW e \in Event, Step(e) PROVE Warranted
  <2>1. ASSUME NEW j \in JobId, RunTool(j) \in Emitted'
        PROVE  /\ jobs'[j].status \in {"Leased", "Running"}
               /\ tasks'[jobs'[j].task].status \in {"Running", "Integrating"}
    BY <1>1, <2>1, ToolRunsFrom, ToolRunFindsWork DEF RunnableJob
  <2>2. ASSUME NEW j \in JobId, RequestModel(j) \in Emitted'
        PROVE  /\ jobs'[j].status \in {"Leased", "Running"}
               /\ tasks'[jobs'[j].task].status = "Running"
    BY <1>1, <2>2, ModelIsAskedByDrain DEF Drainable, RunnableJob
  <2>3. EffectsNeedLiveWork
    BY <2>1, <2>2 DEF EffectsNeedLiveWork
  <2> QED
    BY <1>1, <2>3, ToolRunIsPermitted
<1>2. IInv /\ [Next]_vars => [Warranted]_vars
  BY <1>1, ConstantsAssumption DEF Next
<1> QED
  BY <1>2, KernelInvariant, PTL DEF Spec, EffectsAreWarranted

=============================================================================
