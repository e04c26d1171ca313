\* An HTTP request for a registered name.
SPECIFICATION FairSpec
CONSTANTS
  w1 = w1
  h1 = h1
  Ws = {w1}
  HttpReqs = {h1}
  Names <- OneName
  Asks <- OneName
  Values = {1}
  Types = {"ACK"}
  Methods = {"POST"}
  StrayTokens = {}
  InitIds <- MCIds
  InitTokens <- MCTokens
  SocketCap = 1
  MaxDatagrams = 0
  MaxRd = 1
CHECK_DEADLOCK FALSE
PROPERTIES HttpIsAnswered
