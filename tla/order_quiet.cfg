SPECIFICATION QuietSpec
CONSTANTS
  ProjectIds = {1, 2, 3, 4}
  Legacy = {1, 2}
  Reorderers = {t1, t2}
  MaxOrder = 5
  None = None
SYMMETRY Symmetric
INVARIANTS
  OrderUnique
PROPERTIES
  ReorderExact
  ManualOrderKept
