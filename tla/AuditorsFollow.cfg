CONSTANTS
  a1 = a1
  a2 = a2
  v1 = v1
  v2 = v2
  i1 = i1
  point = point
  system = system
  NoName = NoName
  Readers = {a1, a2}
  Auditors = {a1, a2}
  AccessPoint = point
  SystemName = system
  Rows <- Reports
  Versions = {v1, v2}
  Keyring <- OneLacksAKey
  Limits = {2}
  MaxQueries = 0
  MaxFaults = 1
  MaxCalls = 10
SPECIFICATION AuditFairSpec
INVARIANTS
  AcknowledgedIsStored
  TakenIsExact
  GivenCursorsAreGood
  AuditorsAreInductive
PROPERTIES
  PagesContinue
  CursorCatchesUp
CHECK_DEADLOCK FALSE
