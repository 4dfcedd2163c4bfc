SPECIFICATION FairSpec
CONSTANTS
  BACKLOG = 1
  NCallers = 2
  Setups <- Some
INVARIANTS Counted MessagesTrue
PROPERTIES WaitsEnd
CHECK_DEADLOCK FALSE
