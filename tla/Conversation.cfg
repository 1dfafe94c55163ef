CONSTANTS
  i1 = i1
  i2 = i2
  i3 = i3
  i4 = i4
  a = a
  b = b
  NoId = NoId
  Ids = {i1, i2, i3, i4}
  Tenants = {a, b}
  Items <- TwoItems
  Additions <- ShortAdditions
SPECIFICATION Spec
INVARIANT Lineage
CHECK_DEADLOCK FALSE
