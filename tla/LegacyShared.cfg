\* Four samples of up to four records: the left half of them is halved again.
CONSTANTS
  WordBits = 2
  MaxCells = 16
  Samplers = {"subSampleMulti"}
  MaxRecords = 4
  MinSamples = 4
  MaxSamples = 4
SPECIFICATION Spec
CHECK_DEADLOCK FALSE
INVARIANT SamplesFollowMarks
