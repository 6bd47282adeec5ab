CONSTANTS
  p1 = p1
  p2 = p2
  p3 = p3
  k1 = k1
  k2 = k2
  n1 = n1
  n2 = n2
  NoName = NoName
  Callers = {p1, p2}
  Keys = {k1, k2}
  Names = {n1, n2}
  MaxCheckpoints = 3
  MaxCalls = 5
  MaxFaults = 1
SPECIFICATION Spec
INVARIANTS
  TypeOK
  ReadsAreBehind
  ChangesHaveOneAuthor
  ConflictsAreTrue
PROPERTIES
  CursorsClimb
CHECK_DEADLOCK FALSE
