SPECIFICATION Spec
CONSTANTS
  a = a  b = b  c = c
  NoBackup = NoBackup
  Ids = {a, b}
  Blacklisted = {}
  Skip = {b}
  MaxPasses = 3
  MaxTries = 3
  BatchSize = 2
  Faults = TRUE
  Failures = TRUE
  MaxSeq = 3
CHECK_DEADLOCK FALSE
INVARIANTS
  TypeOK
  UpToLastSequence
  EveryDocRestored
PROPERTIES
  EndsAsSnapshot
