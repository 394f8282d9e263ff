CONSTANTS
  x = x
  u = u
  tx = tx
  tu = tu
  Idents = {x, u}
  Undefined = u
  Data = {}
  Tokens = {tx}
  IdentOf <- MCIdentOf
  Funcs = {f, g}
  Scopes = {s, t}
  Bindings = {b1, b2}
  Nil = Nil
  NULL = NULL
  MaxHeld = 1
SPECIFICATION Spec
INVARIANTS TypeOK BindingCount ObjectCount NoDangling
PROPERTY ClosureFixed
SYMMETRY Addresses
CHECK_DEADLOCK FALSE
