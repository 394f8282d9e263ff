CONSTANTS
  Modules = {a, b}
  MaxDepth = 3
SPECIFICATION Spec
INVARIANT RecursionStops
SYMMETRY Names
CHECK_DEADLOCK FALSE
