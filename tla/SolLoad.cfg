CONSTANTS
  Modules = {a, b, c}
  MaxDepth = 4
SPECIFICATION AcyclicSpec
INVARIANTS TypeOK LoadedOnce
PROPERTIES DependenciesFirst Returns
CHECK_DEADLOCK FALSE
