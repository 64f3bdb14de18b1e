CONSTANTS
  Prog = {"p1", "p2"}
  Serial <- MCSerial
  Requests <- MCOpen
  MaxLinks = 2
  MaxPolls = 2
  MaxAddress = 3
  MaxFaults = 0
  MaxEvents = 1
SPECIFICATION Spec
INVARIANT OnlySwitchedPickedUp
CHECK_DEADLOCK FALSE
