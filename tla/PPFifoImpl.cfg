SPECIFICATION ImplSpec
CONSTANTS
  a = a
  b = b
  Data = {a, b}
  DEPTH = 4
  WATERMARK = 2
  Ready = {TRUE}
  Overtake = {2}
  Pausing = TRUE
PROPERTY ImplementsBuffer
CHECK_DEADLOCK FALSE
