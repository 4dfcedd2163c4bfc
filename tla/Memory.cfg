SPECIFICATION Spec
CONSTANTS
  Machines <- Some
INVARIANTS PagesTrue
PROPERTIES WorstLast
