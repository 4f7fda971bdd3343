CONSTANTS
    Peers = {"e", "c"}
    Committers = {"c"}
    Keys = {"h", "k"}
    DCAS = {"h"}
    Hash <- HashOf
    Reserved = {"r"}
    Unauthorized = {}
    Txs = {"dcas", "bad", "first", "second", "delete", "json"}
    Readers = {"reader"}
    Write <- Writes
    TTL <- TTLs
    Disseminated = {"h"}
    Opened = {}
    Nil = Nil
    MaxTime = 3
    MaxRev = 2
    MaxFaults = 1
    TKeys = {"k", "low"}
    LowKeys = {"low"}
    Persisters = {1, 2, 3}
    KeyOf <- KeyOfCall
    Earlier = {3}
    TimeToLive = 1
    CacheSize = 1
    TMaxTime = 2
    TMaxFaults = 1
SPECIFICATION MCSpec
INVARIANTS
  
  CachesExact
PROPERTIES
  ValuesKept
  AllPurged
CHECK_DEADLOCK FALSE
