CONSTANTS
  Chips <- MCChips
  Parts <- MCParts
  Version <- MCVersion
  FailAttach = TRUE
  CommandSet <- MCCommands
  MaxFaults = 2
  MaxCommands = 3
  MaxAccesses = 2
SPECIFICATION Spec
INVARIANTS TypeOK StatusIsTrue IdentifySucceeds Released CorePreserved ChipIsReal
PROPERTIES OwnUntilFailed CommandReturns
