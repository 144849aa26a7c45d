\* A cancel whose thread does not reach a safe point.
SPECIFICATION Spec
CONSTANTS
  c1 = c1  None = None
  ChatId = {c1}
  Budgets <- Ample
  MaxConcurrent = 1
  LeaseTtl = 1
  MaxTime = 3
  MaxTasks = 1
INVARIANTS
  CancelEscalates
