\* An approval nobody gives.
SPECIFICATION GatesSpec
CONSTANTS
  a = a  b = b  NoPrompt = NoPrompt
  Prompt = {a, b}
  ApprovalTtl = 1
  MaxTime = 2
  MaxApprovals = 1
  MaxRestarts = 0
  MaxLost = 1
  None = None
  Absent = Absent  t1 = t1  t2 = t2
  TreeTask = {t1}
  MaxWrites = 2
  Nearby <- MCNearby
  NearbyDirs <- MCNearbyDirs
  Names <- MCNames
  MaxGuardEntries = 3
  MaxGuardDepth = 1
  MaxGitOutput = 2
  MaxDiff = 2
  MaxEdits = 1
INVARIANTS
  ParkedCanBeApproved
CHECK_DEADLOCK FALSE
