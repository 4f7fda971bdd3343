CONSTANTS
    TxIDs = {1, 2, 3}
    Heights = {1, 2}
    Persisters = {1, 2, 3}
    Arguments <- Calls
    MaxRunning = 2
    MaxCalls = 1
SPECIFICATION Spec
INVARIANTS
  AllReached
PROPERTIES
  PurgesExact
CHECK_DEADLOCK FALSE
