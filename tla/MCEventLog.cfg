\* store_atomic against I/O errors and crashes, and readers of a file that
\* storage damaged.
SPECIFICATION Spec
CONSTANTS
  t1 = t1  p1 = p1  p2 = p2  None = None
  Metas <- MCMetas
  Payloads = {p1, p2}
  MaxFrames = 3
  MaxFaults = 1
INVARIANTS
  StoredIsWhole
  LogIsHonest
CHECK_DEADLOCK FALSE
