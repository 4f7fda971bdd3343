SPECIFICATION FairSpec
CONSTANTS
  Peers = {c, e1}
  Committer = c
  NoBlock = NoBlock
  g = g
  b1 = b1
  b2 = b2
  x = x
  t0 = t0
  t1 = t1
  t2 = t2
  Blocks <- MCBlocks
  TxIDs <- MCTxIDs
  Num <- MCNum
  Prev <- MCPrev
  Txs <- MCTxs
  CacheSize = 1
  MaxFaults = 2
INVARIANTS
  StoreConsistent
  ServesItsHeight
PROPERTIES
  ImplementsLedger
  AllCatchUp
CHECK_DEADLOCK FALSE
