\* The sound a stop hands over.
SPECIFICATION AudioSpec
CONSTANTS
  MaxSamples = 6
  MaxChunk = 3
  MaxFrames = 7
  MaxMergeGap = 1
CHECK_DEADLOCK FALSE
INVARIANT TakeIsWhole
