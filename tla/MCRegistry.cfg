\* Every sequence of calls and admin connections on one registry, and one restart.
SPECIFICATION AdminSpec
CONSTANTS
  c1 = c1  c2 = c2  None = None
  ChatId = {c1}
  Budgets <- MCBudgets
  Outputs = {1}
  MaxConcurrent = 2
  LeaseTtl = 1
  MaxTime = 2
  MaxTasks = 3
  MaxCarried = 2
  MaxRestarts = 1
  Connections <- MCConnections
INVARIANTS
  RegistryIsGuarded
PROPERTIES
  RecordsStand
CHECK_DEADLOCK FALSE
