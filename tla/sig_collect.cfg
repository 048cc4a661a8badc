SPECIFICATION FairSpec
CONSTANTS
  c1 = c1  c2 = c2
  o1 = o1  o2 = o2  o3 = o3
  create = create  sign1 = sign1  sign2 = sign2  sign3 = sign3  delete = delete
  NoDoc = NoDoc  NotAsked = NotAsked
  Consoles = {c1, c2}
  Orgs = {o1, o2, o3}
  Url <- MCUrl
  Requests = {create, sign1, sign3, delete}
  At <- AllAt
  Body <- AllBody
  Trusts <- NotO3
  MaxAttempts = 2
  MaxSends = 2
  Resent = {sign3}
CHECK_DEADLOCK FALSE
INVARIANTS
  TypeOK
  SignaturesTrusted
  SameSigners
PROPERTIES
  FirstWriteKeeps
  RequestsEnd
