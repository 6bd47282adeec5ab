CONSTANTS
  k1 = k1
  k2 = k2
  i1 = i1
  i2 = i2
  c1 = c1
  c2 = c2
  w1 = w1
  w2 = w2
  NoWorker = NoWorker
  Keys = {k1, k2}
  Instruments = {i1, i2}
  FirstEvent <- SecondInstrumentIsLate
  Clients = {c1}
  Requests <- TwoRequests
  Workers = {w1, w2}
  Readable <- OneLacksAKey
  Lease = 1
  MaxAge = 2
  MaxCheckpoints = 1
  MaxCalls = 3
  MaxAttempts = 3
  MaxFaults = 1
SPECIFICATION Spec
INVARIANTS
  RowsKeepTheirShape
  PackagesAreInductive
PROPERTIES
  ImplementsLifecycle
  OnlyTheOwnerRecords
