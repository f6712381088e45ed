SPECIFICATION FairSpec
CONSTANTS
  Frames <- MCFrames
  DEPTH = 4
  WATERMARK = 2
  TxModes = {FALSE, TRUE}
  Liberties = {}
INVARIANT TypeOK
INVARIANT OffersPromised
PROPERTY PromiseKept
CHECK_DEADLOCK FALSE
