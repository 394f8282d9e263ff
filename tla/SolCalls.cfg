CONSTANTS
  Error = Error
  TypeError = TypeError
  Program = Program
  Binary = Binary
  f = f
  m = m
  Funcs = {f, m}
  Macros = {m}
  ErrorTypes = {Error, TypeError}
  Parent <- MCParent
  Global = Global
  NULL = NULL
  MaxDepth = 5
SPECIFICATION Spec
INVARIANTS TypeOK FrameStack ScopesMatch ErrorPending
PROPERTIES Structured HandlingEnds
CHECK_DEADLOCK FALSE
