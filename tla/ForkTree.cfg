SPECIFICATION TreeSpec
CONSTANTS
  N = 4
  Jobs = {1,2,3,4}
  Throwing = {}
  NoJob = none
  MaxForks = 3
  MaxSwaps = 1
INVARIANTS
  NeverBusy
  ChildrenJoined
  FailureSurfaces
  SwapsConserved
PROPERTIES
  PoolCloses
