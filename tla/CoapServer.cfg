SPECIFICATION FairSpec
CONSTANTS
  Requests <- MCRequests
  Rows <- MCRows
  InitIds <- MCIds
  InitTokens <- MCTokens
  SocketCap = 2
  MaxRequests = 2
  MaxStarts = 2
INVARIANTS
  TypeOK
  Settled
  Ledger
PROPERTIES
  ImplementsDirectory
  Settles
CHECK_DEADLOCK FALSE
