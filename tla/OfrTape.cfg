\* Two-bit OFR controls over two bytes and a gate of the third, in up to three
\* spans cut anywhere, set one or four at a time from both ends inward.
SPECIFICATION MCSpec
CONSTANTS
  Length = 18
  Writers = 3
  Unit = 2
  Grains = {2, 8}
  Source <- MCSource
INVARIANTS NoByteRace TapeComplete
PROPERTY KeepsPromise
