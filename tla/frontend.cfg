SPECIFICATION Spec
CONSTANTS
  None = None
  A = A
  B = B
  Other = Other
  MaxRequests = 3
  MaxProjects = 2
  MaxHistory = 2
  Roots <- MCRoots
  Pages <- MCPages
  Projects <- MCProjects
  Queries <- MCQueries
  Lower <- MCLower
  ChatProjects <- MCChatProjects
  Starts <- MCStarts
CHECK_DEADLOCK FALSE
INVARIANTS
  OwnAnswers
  ListInStep
  HistoryTrue
  ChatInStep
  ReferenceAlone
