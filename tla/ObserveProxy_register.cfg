\* A node registers twice.
SPECIFICATION Spec
CONSTANTS
  w1 = w1
  Ws = {w1}
  HttpReqs = {}
  Names <- OneName
  Asks <- OneName
  Values = {1}
  Types = {"ACK"}
  Methods = {"POST"}
  StrayTokens = {}
  InitIds <- MCIds
  InitTokens <- MCTokens
  SocketCap = 1
  MaxDatagrams = 0
  MaxRd = 2
CHECK_DEADLOCK FALSE
INVARIANTS RegisteredOnce
