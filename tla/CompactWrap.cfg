\* The smallest array that the program shares out between threads.
CONSTANTS
  MinN = 16
  MaxN = 16
  MaxThreads = 2
  MinParallel = 16
SPECIFICATION Spec
CHECK_DEADLOCK FALSE
INVARIANTS RealBlocksMovedToStart
