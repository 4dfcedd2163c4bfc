SPECIFICATION Spec
CONSTANTS
  Setups <- Some
INVARIANTS FilesThere NothingLeft NeedsKept
CHECK_DEADLOCK FALSE
