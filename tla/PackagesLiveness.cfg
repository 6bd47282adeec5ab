CONSTANTS
  k1 = k1
  k2 = k2
  i1 = i1
  i2 = i2
  c1 = c1
  c2 = c2
  w1 = w1
  w2 = w2
  NoWorker = NoWorker
  Keys = {k1}
  Instruments = {i1, i2}
  FirstEvent <- SecondInstrumentIsLate
  Clients = {c1, c2}
  Requests <- RacingRequests
  Workers = {w1, w2}
  Readable <- OneLacksAKey
  Lease = 1
  MaxAge = 1
  MaxCheckpoints = 2
  MaxCalls = 3
  MaxAttempts = 4
  MaxFaults = 1
SPECIFICATION FairSpec
INVARIANTS
  CreationsAgree
  NeverBuiltByTwo
PROPERTIES
  EveryPackageSettles
