CONSTANTS
  x = x
  u = u
  tx = tx
  tu = tu
  Idents = {x, u}
  Undefined = u
  Data = {}
  Tokens = {tx, tu}
  IdentOf <- MCIdentOf
  Funcs = {f}
  Scopes = {s, t}
  Bindings = {b1, b2}
  Nil = Nil
  NULL = NULL
  MaxHeld = 1
SPECIFICATION Spec
INVARIANT UpdateEnds
SYMMETRY Addresses
CHECK_DEADLOCK FALSE
