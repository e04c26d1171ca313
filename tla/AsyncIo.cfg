SPECIFICATION FairSpec
CONSTANTS
  Fds <- MCFds
  FdSetSize = 2
  MaxRequests = 3
  InitialTableSize = 2
INVARIANTS TypeOK Tally NoneForgotten BegunWhenReady
CHECK_DEADLOCK FALSE
PROPERTIES Completes
