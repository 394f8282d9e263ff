CONSTANTS
  l1 = l1
  l2 = l2
  n1 = n1
  n2 = n2
  n3 = n3
  n4 = n4
  n5 = n5
  n6 = n6
  a = a
  Lists = {l1}
  Nodes = {n1, n2, n3, n4}
  Objects = {a}
  NULL = NULL
  Free = Free
  None = None
  MaxLength = 3
  Edits = {"insert"}
SPECIFICATION SpecEdit
PROPERTY InsertsElement
CHECK_DEADLOCK FALSE
