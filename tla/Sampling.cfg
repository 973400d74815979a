\* 60 coins are divided evenly among up to five records.  Words of two bits let
\* memberships take several, and six samples are halved twice.  The keys of grids
\* of up to four cells are arbitrary.  A buffer of random numbers holds one batch of
\* coins and a half.
CONSTANTS
  Coins = 60
  MaxN = 5
  WordBits = 2
  MaxRecords = 6
  MinSamples = 1
  MaxSamples = 6
  MaxCells = 10
  MaxRepeats = 2
  MaxGrid = 4
  MaxThreads = 2
  BufferSize = 3
  MaxCoins = 2
  VectorSize = 2
  Bits = 2
  MaxPools = 2
  MaxFills = 3
  Samplers = {"subSample", "subSampleMulti", "subSampleMulti_opt"}
SPECIFICATION SamplingSpec
CHECK_DEADLOCK FALSE
INVARIANTS MarksExact Unbiased SerialDelivered StreamUsedOnce PrpIsPermutation BaselinesDeliver
