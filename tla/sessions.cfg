SPECIFICATION Spec
CONSTANTS
  p1 = p1  p2 = p2
  older = older  login = login  ending = ending
  NoEntry = NoEntry
  Processes = {p1, p2}
  Requests = {older, login, ending}
  Home <- MCHome
  May <- MCMay
  Unsure = {p2}
  Messages <- MCMessages
  MaxRev = 2
  MaxFaults = 1
CHECK_DEADLOCK FALSE
INVARIANTS
  TypeOK
  CacheWasStored
  FlushTellsOfLogin
PROPERTIES
  ProfileStays
  GoneForGood
