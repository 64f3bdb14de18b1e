CONSTANTS
  Bits = {0, 1}
  PageSize = 4
  WordSize = 2
  NPages = 4
  FlashBase = 32
  AliasSpan = 24
  Chunk = 4
  Protected = {3}
  InitFlash <- MCInitFlash
  CallSet <- MCCalls
  Follows <- MCFollows
  MaxFaults = 2
  MaxCalls = 2
SPECIFICATION Spec
INVARIANTS TypeOK ImageWritten Confined FailureExplained
PROPERTIES CallReturns StoreSpec
