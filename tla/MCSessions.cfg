SPECIFICATION FairSpec
CONSTANTS
  c1 = c1  r1 = r1  r2 = r2  s1 = s1  s2 = s2
  Clients = {c1}
  Routers = {r1, r2}
  Shards = {s1, s2}
  Boots = {0}
  MaxRequests <- Three
  MaxOverlap = 2
  None = None
INVARIANTS AckedWritesCommit
PROPERTIES HandlersEnd
CHECK_DEADLOCK FALSE
