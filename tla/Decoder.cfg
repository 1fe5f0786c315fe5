CONSTANTS
  Record <- Records
  Part <- Parts
  Depth <- Depths
  MaxDepth = 3
  Key = {"a", "b", "c", "bad"}
  BadKey = {"bad"}
  MaxKeys = 2
  MaxCalls = 2
SPECIFICATION Spec
INVARIANTS TypeOK ResultIsRecord NoDoubleBorrow
