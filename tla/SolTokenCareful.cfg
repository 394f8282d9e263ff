CONSTANTS
  x = x
  u = u
  tx = tx
  tu = tu
  Idents = {x, u}
  Undefined = u
  Data = {}
  Tokens = {tx}
  IdentOf <- MCIdentOf
  Funcs = {f, g}
  Scopes = {s, t}
  Bindings = {b1, b2}
  Nil = Nil
  NULL = NULL
  MaxHeld = 1
SPECIFICATION CarefulSpec
INVARIANTS NoFault NoLeak
PROPERTIES Completes IsScope
SYMMETRY Addresses
CHECK_DEADLOCK FALSE
