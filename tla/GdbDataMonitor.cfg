CONSTANTS
  Base = 2
  NBytes = 8
  Registers <- MCRegisters
  InitMem <- MCInitMem
  InitRegs <- MCInitRegs
  OpSet = {}
  RequestSet <- MCMonitor
  Follows <- MCFollows
  MemoryMax = 8
  StaleAuto = FALSE
  MaxFaults = 0
  MaxHangs = 0
  MaxOps = 1
SPECIFICATION GSpec
PROPERTY MonitorReachesAddress
