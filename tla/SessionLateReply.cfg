CONSTANTS
  Chips <- MCChips
  Parts <- MCParts
  Version <- MCVersion
  FailAttach = TRUE
  CommandSet <- MCCommands
  MaxFaults = 1
  MaxCommands = 1
  MaxAccesses = 2
SPECIFICATION Spec
PROPERTY RegisterReadIsTrue
