SPECIFICATION Spec
CONSTANT Setups <- Some
INVARIANTS OpenCounted PositionsShared BytesKept
CHECK_DEADLOCK FALSE
