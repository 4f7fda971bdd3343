SPECIFICATION MCSpec
CONSTANTS
  MaxBlock = 3
  Requests <- MCRequests
  BlockOf <- MCBlockOf
  r1 = r1
  r2 = r2
  r2b = r2b
  r3 = r3
  Peers = {1, 2, 3}
  MaxGroupBlock = 2
  MaxTx = 4
  CommitterThreshold = 2
  SinglePeerThreshold = 3
  Blocks = {1, 2, 3}
  ChanSize = 1
  MaxPayloads = 5
INVARIANTS
  NoRequestStranded
CHECK_DEADLOCK FALSE
