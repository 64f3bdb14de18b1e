CONSTANTS
  Prog = {"p1", "p2", "p3"}
  Serial <- MCSerial
  Requests <- MCRequests
  MaxLinks = 2
  MaxPolls = 2
  MaxAddress = 3
  MaxFaults = 1
  MaxEvents = 1
SPECIFICATION Spec
INVARIANTS TypeOK OpenedIsWanted ReadyIsUsed
PROPERTIES OnlyWantedRebooted CallReturns
CHECK_DEADLOCK FALSE
