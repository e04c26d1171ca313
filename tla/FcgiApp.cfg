SPECIFICATION FairSpec
CONSTANTS
  HeaderLen = 2
  BeginLen = 1
  ParamBytes <- MCParams
  BodyBytes <- MCBody
  BuffLen = 32
  Forgeries <- MCForgeries
  MaxConnections = 1
  MaxOdd = 1
  MaxPrints = 1
  MaxWire = 4
  Writes <- MCWrites
INVARIANTS TypeOK InputIntact ReplyWhole
CHECK_DEADLOCK FALSE
PROPERTIES Served
