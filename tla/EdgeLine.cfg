SPECIFICATION Spec
CONSTANTS
  MaxLen = 7
  Requests <- EdgeRequests
INVARIANT LengthKnown
