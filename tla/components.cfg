SPECIFICATION Spec
CONSTANTS
  peer = peer  cluster = cluster
  del = del  forced = forced  sweep = sweep
  n1 = n1  n2 = n2
  id1 = id1  id2 = id2
  Nobody = Nobody  NoDoc = NoDoc
  Provisions = {peer, cluster}
  Clusters = {cluster}
  Deletions = {del, forced}
  Forced = {forced}
  Offboards = {del, forced}
  Sweeps = {sweep}
  Names = {n1, n2}
  DocIds = {id1, id2}
  Nodes <- MCNodes
  Target <- MCTarget
  MaxAttempts = 1
  MaxFaults = 2
CHECK_DEADLOCK FALSE
INVARIANTS
  TypeOK
  NoOrphans
  FailureCleaned
  OneDocEach
  DeletedForGood
PROPERTIES
  KeptUntilDeleted
