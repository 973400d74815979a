\* One sample.
CONSTANTS
  WordBits = 2
  MaxCells = 16
  Samplers = {"subSampleMulti", "subSampleMulti_opt"}
  MaxRecords = 4
  MinSamples = 1
  MaxSamples = 1
SPECIFICATION Spec
CHECK_DEADLOCK FALSE
INVARIANT SamplesFollowMarks
