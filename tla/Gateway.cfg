SPECIFICATION GatewaySpec
CONSTANTS
  MaxLen = 7
  Requests <- AllRequests
  Programs <- AllPrograms
  Pairs <- SomePairs
  PipeSize = 2
  PostSize = 12
  IntMax = 15
\* An embrace and a killed server are real ends.
CHECK_DEADLOCK FALSE
INVARIANT GatewayTypeOK
INVARIANT LineByLine
INVARIANT BodyWhole
INVARIANT Padded
INVARIANT LengthKnown
INVARIANT PipeFilled
INVARIANT SumRight
INVARIANT Delivered
INVARIANT KilledOnly
PROPERTY Through
