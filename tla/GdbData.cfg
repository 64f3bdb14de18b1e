CONSTANTS
  Base = 2
  NBytes = 8
  Registers <- MCRegisters
  InitMem <- MCInitMem
  InitRegs <- MCInitRegs
  OpSet <- MCOps
  RequestSet <- MCRequests
  Follows <- MCFollows
  MemoryMax = 8
  StaleAuto = TRUE
  MaxFaults = 2
  MaxHangs = 1
  MaxOps = 2
SPECIFICATION GSpec
INVARIANT TypeOK
PROPERTIES OkIsTrue OnlyAskedWrites FailureExplained AnswerIsTrue OperationReturns
