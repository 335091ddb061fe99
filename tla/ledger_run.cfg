SPECIFICATION Spec
CONSTANTS
  Cases = {1, 2, 3}
  SmokeCases = {1, 2}
  MaxInvocations = 4
  Corrupt = Corrupt
INVARIANTS
  NeverResent
  CompletedExactly
  Resumable
CHECK_DEADLOCK FALSE
