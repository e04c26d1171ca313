\* Three browsers on one entry, two notifications in any order.
SPECIFICATION Spec
CONSTANTS
  w1 = w1
  w2 = w2
  w3 = w3
  Ws = {w1, w2, w3}
  HttpReqs = {}
  Names <- OneName
  Asks <- OneName
  Values = {1, 2}
  Types = {"CON","ACK"}
  Methods = {"POST"}
  StrayTokens <- MCStray
  InitIds <- MCIds
  InitTokens <- MCTokens
  SocketCap = 1
  MaxDatagrams = 2
  MaxRd = 1
SYMMETRY WsSymmetry
CHECK_DEADLOCK FALSE
INVARIANTS OneObservation Accounts FanOut
