CONSTANTS
  PacketMax = 4096
  PacketSize = 4096
  Lengths <- MCLengths
  DocLen = 1200
  Wants <- MCWants
  MaxOutput = 2
  MaxRequests = 4
  MaxNaks = 4
  MaxInts = 2
SPECIFICATION Spec
INVARIANTS TypeOK DocumentIsWhole
PROPERTIES RequestAnswered RpcSpec
CHECK_DEADLOCK FALSE
