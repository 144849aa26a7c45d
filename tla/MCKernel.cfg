\* Approvals, leases, budgets, shared jobs and sequenced delivery.
SPECIFICATION MCSpec
CONSTANTS
  t1 = t1  t2 = t2  j1 = j1  j2 = j2  c1 = c1  c2 = c2  w1 = w1  w2 = w2
  None = None
  TaskId = {t1, t2}
  JobId = {j1, j2}
  ToolCallId = {c1, c2}
  LeaseOwner = {w1, w2}
  MaxU64 = 4
  BudgetAxisCount = 2
  LeaseTtl = 2
  ApprovalTtl = 2
  MaxApprovals = 2
  Inbound <- MCInbound
VIEW View
INVARIANTS
  TypeOK
  AwaitingLinked
  EndedTaskHasNoLiveJob
PROPERTIES
  EffectsAreWarranted
  GrantsAreKept
  EndIsFinal
  AppliedOnce
CHECK_DEADLOCK FALSE
