SPECIFICATION Spec
CONSTANTS
  Setups <- Some
  KEYS = 5
  EVENTS = 3
  SLOTS = 2
  KBDS = 2
  WIRE = 6
INVARIANTS ScreenTrue LineDrawn LineRead TypedTrue EventsTrue
CHECK_DEADLOCK FALSE
