CONSTANTS
  Shapes = {"evt", "ch32fun"}
  Replies <- MCReplies
  MaxBytes = 8
  MaxReplies = 1
  MaxFaults = 2
SPECIFICATION Spec
INVARIANTS TypeOK ExactlyOnce NothingLost
PROPERTY RegistersReturned
CHECK_DEADLOCK FALSE
