SPECIFICATION PartsSpec
CONSTANTS
  s1 = s1  s2 = s2  s3 = s3
  Nodes = {n1, n2}
  LogicalSize = 3
  MaxPhysical = 1
  Txs = {t1, t2, t3}
  Keys = {k1, k2}
  Writers = {t1}
  VersionSpace = 4
  Shards = {s1, s2, s3}
  VirtualNodes = 2
  HashSpace = 6
  HashFunctions <- FewCollisions
  Nobody = Nobody
  MaxRing = 6
  Workers = {w1, w2}
  Addresses = {a1, a2}
  None = None
  MaxConns = 3
SYMMETRY Symmetric
INVARIANTS PartsTypeOK Exclusive TablesAgree DeniedByOther ComputesClock ReadsAgree RoutesByMembership ReplicasInOrder PoolOwnsConnections
PROPERTIES PhysicalForward GCKeepsSnapshots MovesOnlyItsKeys NothingOnlyIfRemoved
CHECK_DEADLOCK FALSE
