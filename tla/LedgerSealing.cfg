CONSTANTS
  w1 = w1
  w2 = w2
  w3 = w3
  s1 = s1
  s2 = s2
  k1 = k1
  k2 = k2
  k3 = k3
  a = a
  b = b
  i1 = i1
  i2 = i2
  v1 = v1
  v2 = v2
  NoInstrument = NoInstrument
  Writers = {w1, w2}
  Sealers = {s1, s2}
  Keys = {k1, k2, k3}
  Contents = {a, b}
  Instruments = {i1, i2}
  Versions = {v1, v2}
  Calls <- SealCalls
  Keyring <- RotatingKeyring
  CurrentKey <- RotatingKey
  BatchSize = 2
  Attempts = 2
  MaxCalls = 3
  MaxFaults = 1
SPECIFICATION Spec
INVARIANTS
  CheckpointsCoverTheirPrefix
  SealsAreNeverRejected
  OneChain
  SealingIsInductive
PROPERTIES
  ImplementsLog
