\* Three pieces in groups of two; every queue holds one element.  Nothing is
\* left to do once the iteration is over.
SPECIFICATION FairSpec
CONSTANTS
  p1 = p1  p2 = p2  p3 = p3
  Piece <- MCPiece
  GroupRows = 2
  Capacity = 1
  Stream = 1
  Permits = 2
  Window = 1
  None = None
INVARIANTS
  TypeOK
  StreamExact
  CleanExit
PROPERTY IterationEnds
CHECK_DEADLOCK FALSE
