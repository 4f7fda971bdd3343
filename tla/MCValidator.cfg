SPECIFICATION FairSpec
CONSTANTS
  MaxBlock = 2
  MaxTx = 2
  MaxRemote = 1
  Faults = {"localError", "remoteError", "unsigned", "hour"}
  MaxFaults = 1
  Code <- MCCode
  TxID <- MCTxID
INVARIANTS
  SameAsSinglePeer
PROPERTIES
  RejectsOnlyOnFault
  ValidateReturns
CHECK_DEADLOCK FALSE
