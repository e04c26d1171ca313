\* Every socket of the loop in use, the loop itself fair.
SPECIFICATION FairSpec
CONSTANTS
  w1 = w1
  w2 = w2
  h1 = h1
  Ws = {w1, w2}
  HttpReqs = {h1}
  Names <- OneName
  Asks <- OneName
  Values = {1}
  Types = {"CON", "ACK"}
  Methods = {"POST", "PUT"}
  StrayTokens = {}
  InitIds <- MCIds
  InitTokens <- MCLongTokens
  SocketCap = 1
  MaxDatagrams = 1
  MaxRd = 1
CHECK_DEADLOCK FALSE
PROPERTIES EverySocketServed
