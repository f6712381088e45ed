SPECIFICATION FairSpec
CONSTANTS
  a = a
  Data = {a}
  DEPTH = 5
  WATERMARK = 2
  Ready = {TRUE, FALSE}
  Overtake = {1, 2}
  Pausing = FALSE
INVARIANT TypeOK
INVARIANT ReaderBehind
INVARIANT SkipOfWriter
INVARIANT WatermarkInTime
PROPERTY NeverStuck
CHECK_DEADLOCK FALSE
