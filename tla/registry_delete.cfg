SPECIFICATION Spec
CONSTANTS
  ProjectIds = {1, 2}
  RowIds = {1, 2}
  Roots = {A, B}
  Entities = {e1}
  Creators = {c1, c2}
  Scanners = {s1, s2}
  Deleters = {d1}
  None = None
SYMMETRY Symmetric
INVARIANTS
  TypeOK
  LockDiscipline
  NoStuckScanning
  RootsUnique
