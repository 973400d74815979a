\* Rests of three records are already shared out, so that small arrays meet
\* every kind of call.  The allocation happens to be zero.  The vectors have few
\* lanes that count to little, so that sixteen records meet all of them.  Seven
\* controls are two bytes, read across from one into the other and on.
CONSTANTS
  MinN = 0
  MaxN = 9
  MaxThreads = 4
  MinParallel = 3
  Garbage = {0}
  MaxRecords = 7
  MaxRouted = 6
  MaxPower = 16
  ByteValues = 4
  ShortValues = 4
  IntValues = 64
  ByteLanes = 4
  ShortLanes = 2
  IntLanes = 2
  PrefixStride = 1
  PrefixLength = 8
  MaxControls = 7
  MaxCalls = 2
  Groups = {1, 2, 4}
SPECIFICATION NetworksSpec
INVARIANTS Compacts WorkersIdle DrawsDecideOrder SpansApart RealBlocksInOrder ResponsibilityKept Delivered ReplayAgrees ControlsKept
