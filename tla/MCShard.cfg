SPECIFICATION ShardSpec
CONSTANTS
  s1 = s1  t1 = t1  t2 = t2  k1 = k1  k2 = k2
  Shards <- OneShard
  Txs <- TwoTxs
  Keys <- TwoKeys
  Home <- HomeTwo
  Level <- SerAndRA
  Access <- ReaderAndWriter
  Wall <- NoWall
  None = None
  Times <- UpTo6
  Leads = {0, 2}
INVARIANTS WriteLocked AppliesOnTop CASHolds NoLostUpdate ShardInv
CHECK_DEADLOCK FALSE
