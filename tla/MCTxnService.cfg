CONSTANTS
    Requests <- Calls
    KeyOrder <- Order
    Saved <- Both
    txnCfgKey <- General
    sdkCfgKey <- SDK
    TxnApp = "txn"
    TxnComps = {"general", "sdk"}
    MaxTxs = 3
    BufferSize = 1
    Invokers = {1, 2}
SPECIFICATION Spec
INVARIANTS
  IndexExact
  
  NotClosedInUse
PROPERTIES
  ServiceGoesOn
CHECK_DEADLOCK FALSE
ACTION_CONSTRAINT Bound
