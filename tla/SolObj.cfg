CONSTANTS
  Objs = {o1, o2}
  Funcs = {f}
  Names = {n}
  NULL = NULL
  Absent = Absent
  Uninit = Uninit
  MaxCount = 3
  MaxUses = 2
  MaxHeld = 1
  MaxCalls = 2
SPECIFICATION CarefulSpec
INVARIANTS TypeOK ObjectCount
PROPERTY IsStore
SYMMETRY Addresses
CHECK_DEADLOCK FALSE
