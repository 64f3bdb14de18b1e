CONSTANTS
  Bits = {0, 1}
  PageSize = 4
  WordSize = 2
  NPages = 4
  FlashBase = 32
  AliasSpan = 24
  Chunk = 4
  Protected = {}
  InitFlash <- MCInitFlash
  CallSet <- MCCalls
  Follows <- MCFollows
  MaxFaults = 1
  MaxCalls = 2
SPECIFICATION Spec
INVARIANT SuccessKeepsRest
