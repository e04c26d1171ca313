\* A request for a path of 15 characters.
SPECIFICATION Spec
CONSTANTS
  Codes = {9}
  Datas <- MCDatas
  Payloads <- MCPayloads
  Ids = {0}
  Methods = {"GET"}
  Packets = {}
  MaxReads = 1
CHECK_DEADLOCK FALSE
INVARIANTS PathsArrive
