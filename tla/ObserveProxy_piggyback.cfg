\* A node answers an observe request without Observe.
SPECIFICATION Spec
CONSTANTS
  w1 = w1
  Ws = {w1}
  HttpReqs = {}
  Names <- OneName
  Asks <- OneName
  Values = {1}
  Types = {"ACK"}
  Methods = {"POST"}
  StrayTokens = {}
  InitIds <- MCIds
  InitTokens <- MCTokens
  SocketCap = 1
  MaxDatagrams = 1
  MaxRd = 1
CHECK_DEADLOCK FALSE
PROPERTIES PiggybackedIsRemoved
