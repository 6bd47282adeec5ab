CONSTANTS
  r1 = r1
  v1 = v1
  v2 = v2
  i1 = i1
  i2 = i2
  Readers = {r1}
  Rows <- OneRevoked
  Versions = {v1, v2}
  Keyring <- OldKeyring
  Limits = {1, 2}
  MaxQueries = 2
  MaxFaults = 1
SPECIFICATION ReadsSpec
INVARIANTS
  ReadsAreInductive
  NoFalseAlarms
  AnswersStayTrue
PROPERTIES
  WitnessesAreNeverWithdrawn
CHECK_DEADLOCK FALSE
