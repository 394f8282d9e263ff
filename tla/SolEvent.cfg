CONSTANTS
  Objects = {o}
  Types = {t}
  Events = {e}
  Callbacks = {f, g}
  Nodes = {n1, n2}
  NULL = NULL
  Limit = 4
  MaxHeld = 1
  MaxTimers = 2
  MaxDepth = 4
  MaxVain = 1
  MaxLost = 1
SPECIFICATION Spec
INVARIANTS TypeOK Linked ObjectCount WorkCounted
PROPERTIES Delivered LoopDrains
CHECK_DEADLOCK FALSE
