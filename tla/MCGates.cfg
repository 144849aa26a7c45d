\* Asks, taps and commands over one restart; every path of one task; two tasks on one repository.
SPECIFICATION GatesSpec
CONSTANTS
  a = a  b = b  NoPrompt = NoPrompt
  Prompt = {a, b}
  ApprovalTtl = 1
  MaxTime = 2
  MaxApprovals = 2
  MaxRestarts = 1
  MaxLost = 1
  None = None
  Absent = Absent  t1 = t1  t2 = t2
  TreeTask = {t1, t2}
  MaxWrites = 2
  Nearby <- MCNearby
  NearbyDirs <- MCNearbyDirs
  Names <- MCNames
  MaxGuardEntries = 3
  MaxGuardDepth = 1
  MaxGitOutput = 1
  MaxDiff = 1
  MaxEdits = 2
INVARIANTS
  SettledOnce
  ButtonStartsWhatItShowed
  LaunchWasAsked
  EvidencePrecedesEffects
  TaskEndsAreAccounted
  WorkersAreGuarded
SYMMETRY Symmetry
CHECK_DEADLOCK FALSE
