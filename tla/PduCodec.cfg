\* Three codes, lengths on both sides of every boundary.
SPECIFICATION Spec
CONSTANTS
  Codes <- MCCodes
  Datas <- MCDatas
  Payloads <- MCPayloads
  Ids = {0, 258}
  Methods = {"GET", "PUT"}
  Packets <- MCPackets
  MaxReads = 2
CHECK_DEADLOCK FALSE
INVARIANTS TypeOK WellKept RoundTrip
