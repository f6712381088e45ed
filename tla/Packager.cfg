SPECIFICATION FairSpec
CONSTANTS
  Lengths <- MCLengths
  Highs <- MCHighs
  Payload <- MCPayload
  Spacing = 2
  Ready = {TRUE}
INVARIANTS TypeOK WritesFrame ReleasedAtEnd
PROPERTY BytesWritten
