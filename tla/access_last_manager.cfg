SPECIFICATION Spec
CONSTANTS
  ann = ann  bob = bob  cat = cat
  r1 = r1  r2 = r2  i1 = i1  i2 = i2
  NoUser = NoUser  NoInput = NoInput  NoLoad = NoLoad  Asked = Asked
  Users = {ann, bob, cat}
  Instances = {i1, i2}
  Requests = {r1, r2}
  Home <- MCHome
  Inputs <- Removals
  MayAsk <- RemovalsBy
  InitialList <- MCInitialList
  MaxAttempts = 5
  Faults = FALSE
CHECK_DEADLOCK TRUE
INVARIANTS
  ManagerRemains
