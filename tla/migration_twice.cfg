SPECIFICATION Spec
CONSTANTS
  s1 = s1
  c1 = c1
  c2 = c2
  p1 = p1
  p2 = p2
  Processes = {p1, p2}
  Starters = {s1}
  Pollers = {c1, c2}
  Nobody = Nobody
  Home <- Homes
  MaxPending = 1
  MaxFaults = 0
  MaxPosts = 2
CHECK_DEADLOCK FALSE
INVARIANTS
  AskedOnce
