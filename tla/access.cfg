SPECIFICATION FairSpec
CONSTANTS
  ann = ann  bob = bob  cat = cat
  r1 = r1  r2 = r2  i1 = i1  i2 = i2
  NoUser = NoUser  NoInput = NoInput  NoLoad = NoLoad  Asked = Asked
  Users = {ann, bob, cat}
  Instances = {i1, i2}
  Requests = {r1, r2}
  Home <- MCHome
  Inputs <- Edits
  MayAsk <- EditsBy
  InitialList <- MCInitialList
  MaxAttempts = 2
  Faults = TRUE
CHECK_DEADLOCK TRUE
INVARIANTS
  TypeOK
  ManagerRemains
PROPERTIES
  FirstWriteMerges
  RequestsEnd
  SettingsArrive
