SPECIFICATION FairSpec
CONSTANTS
  t1 = t1  t2 = t2  t3 = t3  i1 = i1  i2 = i2
  NoDoc = NoDoc
  Nobody = Nobody
  Tasks = {t1, t2, t3}
  Instances = {i1, i2}
  Home <- MCHome
  Offset <- MCOffset
  Lease <- MCLease
  MaxHold <- MCMaxHold
  Skew = 1
  LeaseTicks = 3
  HoldTicks = 2
  MaxAge = 5
  Faults = TRUE
  Forced = {}
CHECK_DEADLOCK TRUE
INVARIANTS
  TypeOK
  MutualExclusion
  ReleasesOwnLock
PROPERTIES
  NoLiveLockTaken
  LockComesFree
  SomeoneWins
  ImplementsLockService
