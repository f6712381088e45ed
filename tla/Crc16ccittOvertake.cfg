SPECIFICATION Spec
CONSTANTS
  Frames <- LongThenBad
  DEPTH = 8
  WATERMARK = 2
  TxModes = {FALSE}
  Liberties = {"overtake"}
INVARIANT NothingUnpromised
CHECK_DEADLOCK FALSE
