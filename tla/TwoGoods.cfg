SPECIFICATION Spec
CONSTANTS
  b1 = b1
  b2 = b2
  Browsers = {b1, b2}
  GoodsIds <- TwoGoods
  TypeIds <- OneType
  FirstTypes = 1
  Entries <- Nameless
  Searches = {}
  Within <- Inside
  Prices <- Steps
  MaxConnections = 2
  Failing = {"store"}
SYMMETRY Symmetry
INVARIANT FormFresh
INVARIANT Freed
PROPERTY NeverBack
PROPERTY AlertsExplained
