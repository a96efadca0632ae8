SPECIFICATION FairSpec
CONSTANTS
  r1 = r1  r2 = r2  s1 = s1  s2 = s2  t1 = t1  t2 = t2  k1 = k1  k2 = k2
  Shards = {s1, s2}
  Routers = {r1, r2}
  Txs <- TwoTxs
  Keys <- TwoKeys
  Home <- OneKeyEach
  RouterOf <- RouterEach
  Level <- AllRA
  Wall <- NoWall
  None = None
  Times <- UpTo12
  Leads <- UpTo12
  Access <- AnyAccess
  Requests <- BothWriteOneKey
  FaultKinds = {"context", "crash"}
  MaxFaults = 1
PROPERTIES RequestsEnd
CHECK_DEADLOCK FALSE
