CONSTANTS
  MaxSize = 17
SPECIFICATION Spec
INVARIANTS
  InclusionIsExact
  ConsistencyIsExact
  ChangedHistoryIsNoticed
  MixedReceiptsAreRefused
  OnlyUnreadChangesPass
  KeysDecide
CHECK_DEADLOCK FALSE
