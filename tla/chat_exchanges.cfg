SPECIFICATION Spec
CONSTANTS
  ProjectIds = {1, 2}
  ConvIds = {1, 2}
  MsgIds = {1, 2, 3, 4}
  Roots = {A, B}
  Clients = {a1, a2}
  Deleters = {d1}
  MaxMemory = 2
  None = None
SYMMETRY Symmetric
INVARIANTS
  ExchangesWhole
  IsolatedIfQuiet
