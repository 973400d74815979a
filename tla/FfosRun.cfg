CONSTANTS
  MaxN = 6
  MaxK = 4
  MaxThreads = 4
  MinBlocks = 3
SPECIFICATION Spec
CHECK_DEADLOCK FALSE
INVARIANTS InputIntact ForksFit TapesComplete SamplesDelivered LayoutAgrees
PROPERTIES Ends
