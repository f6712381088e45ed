SPECIFICATION FairSpec
CONSTANTS
  CHIPS = 3
  HEADER = 3
  SPACING = 3
  DEPTH = 5
  WATERMARK = 2
  Frames <- MCFrames
INVARIANTS TypeOK OffersFrames NeverBusy
PROPERTY FramesArrive
