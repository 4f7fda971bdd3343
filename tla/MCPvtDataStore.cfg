CONSTANTS
    Colls <- MCColls
    BTL <- MCBTL
    Items <- MCItems
    Contents <- MCContents
    MaxBlock = 3
    MaxUint64 = 7
    PurgeInterval = 3
    MaxOldBlocks = 1
    MaxFaults = 1
SPECIFICATION Spec
INVARIANTS
  ItemsKept
  ExpiryFound
  ReadsInStep

  
CHECK_DEADLOCK FALSE
