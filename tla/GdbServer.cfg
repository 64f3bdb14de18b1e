CONSTANTS
  NUnits = 5
  FlashUnits <- MCFlashUnits
  PageUnits = 2
  NSlots = 2
  Places <- MCPlaces
  MaxFaults = 1
SPECIFICATION Spec
INVARIANTS TypeOK MemoryMatchesTable StopReportIsTrue ContinueIsArmed DamageConfined
PROPERTIES StopReported SessionEnds
CHECK_DEADLOCK FALSE
