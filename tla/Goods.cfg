SPECIFICATION Spec
CONSTANTS
  b1 = b1
  b2 = b2
  Browsers = {b1, b2}
  GoodsIds <- OneGoods
  TypeIds <- TwoTypes
  FirstTypes = 1
  Entries <- Whole
  Searches <- AllSearches
  Within <- Inside
  Prices <- Steps
  MaxConnections = 4
  Failing = {}
SYMMETRY Symmetry
INVARIANT TypeOK
INVARIANT Entered
PROPERTY CrashExcused
PROPERTY AlertsExplained
PROPERTY SearchExact
