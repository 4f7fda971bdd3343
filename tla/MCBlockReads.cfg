SPECIFICATION MCSpec
CONSTANTS
  Itrs = {i1, i2}
  MaxBlock = 2
  Free = Free
  MaxCached = 3
  ConfigBlocks = {0, 1, 3}
  Readers = {"r1"}
  CacheSize = 2
  NoBlock = NoBlock
INVARIANTS
  ReadsCheckpointed
  LastConfigPinned
PROPERTIES
  NoLostWakeUp
CHECK_DEADLOCK FALSE
