\* The allocation holds whatever was there.  Threads are not used.
CONSTANTS
  MinN = 0
  MaxN = 4
  MaxThreads = 1
  MinParallel = 16
  Garbage = {0, 1, 2}
SPECIFICATION OrderSpec
CHECK_DEADLOCK FALSE
INVARIANTS RealBlocksInOrder
