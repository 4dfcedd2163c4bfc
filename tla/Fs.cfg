SPECIFICATION Spec
CONSTANTS
  Setups <- Some
INVARIANTS DiskSound FilesTrue
CHECK_DEADLOCK FALSE
