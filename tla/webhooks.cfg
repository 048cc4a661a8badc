SPECIFICATION FairSpec
CONSTANTS
  Builder = Builder
  NoDoc = NoDoc
  c1 = c1  s1 = s1
  Size = 2
  Clients = {c1}
  Sweepers = {s1}
  Bodies <- MCBodies
  MaxAttempts = 2
  MaxFaults = 1
CHECK_DEADLOCK FALSE
INVARIANTS
  TypeOK
  ToldTheOutcome
  
PROPERTIES
  ProgressKept
  Settles
