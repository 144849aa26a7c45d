------------------------------ MODULE MCKernel ------------------------------
(***************************************************************************)
(* Event alphabets for model-checking Kernel.  A field that the handlers   *)
(* of a kind never read is left at None, and each alphabet lets the fields *)
(* one question is about range freely.                                     *)
(***************************************************************************)
EXTENDS Kernel, TLC

CONSTANTS t1, t2, j1, j2, c1, c2, w1, w2

\* An event of kind k at time now about task t and job j.
About(k, now, t, j) ==
  [NoEvent EXCEPT !.kind = k, !.ts = now, !.actor = "Adapter",
                  !.task = t, !.job = j]

Flat(n) == [a \in Axis |-> n]
Create(t, limit) ==
  [About("TaskCreated", 0, t, None) EXCEPT !.budget = limit]

Plain == EventKind \ (Request \union {"TaskCreated", "ApprovalResolved"})

Requests(times, ts, js, revs, calls) ==
  {[About(k, now, t, j) EXCEPT !.actor = "Model", !.rev = r, !.call = c] :
     k \in Request, now \in times, t \in ts, j \in js, r \in revs, c \in calls}

Resolutions(times, ts, actors, ids, calls, answers) ==
  {[About("ApprovalResolved", now, t, None) EXCEPT
      !.actor = who, !.approval = a, !.call = c, !.resolution = r] :
     now \in times, t \in ts, who \in actors, a \in ids, c \in calls,
     r \in answers}

-----------------------------------------------------------------------------
(* One task, every kind of event: the approval life cycle.                 *)
ApprovalInbound ==
  LET times == {0, ApprovalTtl, ApprovalTtl + 1} IN
  {Create(t1, Flat(1)), Create(t1, Flat(MaxU64)), Create(None, Flat(1)),
   [Create(t1, Flat(1)) EXCEPT !.budget = None]}
  \union {About(k, now, t1, j1) : k \in Plain, now \in times}
  \union Requests({0, ApprovalTtl}, {t1}, {j1, None},
                  {"Reversible", "Destructive", None}, {c1, None})
  \union Resolutions(times, {t1}, {"User"}, Option(1 .. MaxApprovals),
                     {c1}, {"Approve", "Deny"})
  \union Resolutions({0}, {t1}, {"User", "Model"}, 1 .. MaxApprovals,
                     {c1, c2, None}, {"Approve", None})
  \union {About("TaskKilled", 0, None, None)}

-----------------------------------------------------------------------------
(* One job, two workers and an unnamed one, and the lease's clock.         *)
LeaseInbound ==
  {Create(t1, Flat(1))}
  \union {[About(k, now, t1, j1) EXCEPT !.owner = w] :
            k \in {"JobQueued", "JobLeased", "CommandStarted", "RiskDetected",
                   "CommandOutputCaptured", "CommandCompleted", "TaskCompleted",
                   "TaskFailed", "UserSteerReceived", "PatchRejected"},
            now \in 0 .. MaxU64, w \in Option(LeaseOwner)}
  \union Requests(0 .. MaxU64, {t1}, {j1}, {"Reversible"}, {None})

-----------------------------------------------------------------------------
(* Two meters near their limits and near the width of a meter.             *)
BudgetInbound ==
  {Create(t1, [a \in Axis |-> a])}
  \union {[About(k, 0, t1, j1) EXCEPT !.delta = d] :
            k \in {"JobQueued", "JobLeased", "ModelOutputReceived",
                   "UserSteerReceived", "PatchRejected", "TaskCompleted"},
            d \in Option([Axis -> {0, 1, MaxU64}])}
  \union {[e EXCEPT !.delta = d] :
            e \in Requests({0}, {t1}, {j1}, {"Reversible", "Irreversible"}, {c1})
                  \union Resolutions({0, 3}, {t1}, {"User"}, {1}, {c1}, {"Approve"}),
            d \in {None, Flat(1)}}

-----------------------------------------------------------------------------
(* Two tasks whose events name each other's jobs.                          *)
SharedInbound ==
  {Create(t, Flat(1)) : t \in TaskId}
  \union {About(k, 0, t, None) :
            k \in {"UserSteerReceived", "TaskCompleted", "TaskFailed"}, t \in TaskId}
  \union {About("JobQueued", 0, t, j) : t \in TaskId, j \in JobId}
  \union {About(k, now, t, j) :
            k \in {"JobLeased", "CommandStarted"}, now \in {0, 3},
            t \in TaskId, j \in JobId}
  \union {About("TaskKilled", 3, t, None) : t \in TaskId}
  \union {e \in Requests({0}, TaskId, JobId, {"Reversible", "Destructive"}, {c1}) :
            e.kind = "ToolCallRequested"}
  \union Resolutions({0, 3}, TaskId, {"User"}, {1}, {c1}, {"Approve", "Deny"})

-----------------------------------------------------------------------------
(* A sequenced log, delivered in any order and any number of times.        *)
SequencedInbound ==
  {[e EXCEPT !.seq = s] :
     e \in {Create(t1, Flat(1)), Create(t2, Flat(1))}
           \union {About(k, 0, t, j1) :
                     k \in {"JobQueued", "JobLeased", "TaskFailed"}, t \in {t1, t2}},
     s \in 0 .. 5}

-----------------------------------------------------------------------------
(* A behaviour keeps to one of the alphabets; in all but the first one     *)
(* approval is enough.  Classify treats the profiles Supervised and Full   *)
(* alike, and the first alphabet has every event a read-only kernel meets. *)

Alphabet == [approval |-> ApprovalInbound, lease |-> LeaseInbound,
             budget |-> BudgetInbound, shared |-> SharedInbound,
             sequenced |-> SequencedInbound]

MCInbound == UNION {Alphabet[a] : a \in DOMAIN Alphabet}

VARIABLE alphabet

MCInit ==
  /\ Init /\ alphabet \in DOMAIN Alphabet
  /\ \/ policy = "Supervised"
     \/ policy = "ReadOnly" /\ alphabet = "approval"

MCNext ==
  /\ \E e \in Alphabet[alphabet] : Step(e)
  /\ alphabet # "approval" => Len(approvals') <= 1
  /\ UNCHANGED alphabet

MCSpec == MCInit /\ [][MCNext]_<<vars, alphabet>>

\* No transition reads what the last one returned.
View == <<state, alphabet>>

=============================================================================
