CONSTANTS
  Trees <- MCTrees
  Ignored = {"target"}
  Languages <- MCLanguages
  MaxBytes = 1
  Broken = Broken
  ParamSegments = {"{param}", "{id}", "42"}
  Folded <- MCFolded
  Examples = 1
  Absent = Absent
SPECIFICATION TreeSpec
INVARIANTS
  EveryFileAccounted
  RequestsReachRoutes
  CallsUnambiguous
  ReportsAddUp
  SnapshotIdentifies
