SPECIFICATION Spec
CONSTANTS
  Spaces = {a, b, c}
  NPages = 2
  Frames = {f1, f2, f3}
  FILL_PAGES = 2
  MaxOpen = 2
  Vals = {0, 1}
  None = None
  Untouched = Untouched
  Screen = Screen
  Setups <- Some
INVARIANTS OnePlace KeyTrue
PROPERTIES MemoryIsOwn
SYMMETRY Alike
CHECK_DEADLOCK FALSE
