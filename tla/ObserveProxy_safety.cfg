\* Two browsers, two names, two datagrams, two requests to the directory.
SPECIFICATION Spec
CONSTANTS
  w1 = w1
  w2 = w2
  Ws = {w1, w2}
  HttpReqs = {}
  Names <- MCNames
  Asks <- MCAsks
  Values = {1}
  Types = {"CON","ACK"}
  Methods = {"POST", "DELETE"}
  StrayTokens = {}
  InitIds <- MCSpellingIds
  InitTokens <- MCTokens
  SocketCap = 1
  MaxDatagrams = 2
  MaxRd = 2
SYMMETRY WsSymmetry
CHECK_DEADLOCK FALSE
INVARIANTS TypeOK NoForeignDelivery
PROPERTIES OneFramePerDatagram ImplementsPubSub
