SPECIFICATION Spec
CONSTANTS
  Setups <- Some
INVARIANTS CountTrue DataTrue
