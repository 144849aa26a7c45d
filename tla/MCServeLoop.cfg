\* One slot and two launches: a slot is given back before its thread ends.
SPECIFICATION FairSpec
CONSTANTS
  c1 = c1  None = None
  ChatId = {c1}
  Budgets <- MCBudgets
  MaxConcurrent = 1
  LeaseTtl = 1
  MaxTime = 2
  MaxTasks = 2
INVARIANTS
  EveryThreadIsHeld
PROPERTIES
  TasksRetire
