\* Scans of two projects by two threads, no deletion; no symmetry, as TLC
\* checks a leads-to property.
SPECIFICATION FairSpec
CONSTANTS
  ProjectIds = {1, 2}
  RowIds = {1, 2, 3}
  Roots = {A, B}
  Entities = {e1, e2}
  Creators = {c1}
  Scanners = {s1, s2}
  Deleters = {}
  None = None
INVARIANTS
  IndexWhole
PROPERTIES
  ImplementsPromise
  LockReleased
