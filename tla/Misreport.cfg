SPECIFICATION Spec
CONSTANTS
  b1 = b1
  b2 = b2
  Browsers = {b1, b2}
  GoodsIds <- OneGoods
  TypeIds <- OneType
  FirstTypes = 1
  Entries <- One
  Searches <- NoSearch
  Within <- Inside
  Prices <- Steps
  MaxConnections = 1
  Failing = {"query"}
PROPERTY Honest
