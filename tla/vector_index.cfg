SPECIFICATION QuietSpec
CONSTANTS
  ProjectIds = {1, 2}
  RowIds = {1, 2}
  Roots = {A, B}
  Entities = {e1, e2}
  Creators = {c1}
  Scanners = {s1}
  Deleters = {d1}
  Builders = {b1}
  BatchSize = 2
  None = None
SYMMETRY Symmetric
INVARIANTS
  CollectionWhole
  NoOrphanCollection
