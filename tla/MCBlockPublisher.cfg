SPECIFICATION MCSpec
CONSTANTS
    Providers <- MCProviders
    Unsupported = "unsupported"
    Chaincodes <- MCChaincodes
    Channels = {"ch1", "ch2"}
    UCC = "ucc"
    LsccID = "lscc"
    CollConfigKeys = {"cc~collection"}
    Malformed = {"bad"}
    Channel = "ch1"
    Chain <- MCChain
    IsCommitter = FALSE
    Registered <- MCRegistered
    Early <- MCEarly
    Subscribers = {"upgrade"}
    Notifiers = {"publisher", "updateHandler", "notifier", "ucc"}
    Closables = {"publisher"}
    KindOf <- MCKindOf
    Lifecycle = "_lifecycle"
INVARIANTS
  InitializeExact
  EventsExact
  DeliveredInTime
PROPERTIES
  HeightGrows
  NobodyStuck
CHECK_DEADLOCK FALSE
