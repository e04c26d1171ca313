\* Two observed names: the second observation gets a notification.
SPECIFICATION Spec
CONSTANTS
  w1 = w1
  w2 = w2
  Ws = {w1, w2}
  HttpReqs = {}
  Names <- MCNames
  Asks <- MCNames
  Values = {1}
  Types = {"CON"}
  Methods = {"POST"}
  StrayTokens = {}
  InitIds <- MCIds
  InitTokens <- MCLongTokens
  SocketCap = 1
  MaxDatagrams = 1
  MaxRd = 2
CHECK_DEADLOCK FALSE
PROPERTIES MatchedIsHandled
