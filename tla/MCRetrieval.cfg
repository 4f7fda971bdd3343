SPECIFICATION MCSpec
CONSTANTS
  Peers = {1, 2, 3, 4, 5}
  Self = 1
  OrgOf <- MCOrgOf
  Endorsers = {1, 2, 3, 4}
  Committers = {3, 5}
  ImplicitOrg = 0
  MaximumPeerCount = 2
  RequiredPeerCount = 1
  MaxPeersForRetrieval = 2
  Clustered = FALSE
  Hash <- MCHash
  Retrievers = {"offledger", "transient"}
  MaxUpgrades = 2
  Calls = {"c1", "c2"}
  Keys = {"k1", "k2", "t", "a"}
  Policy <- MCPolicy
  TransientKey = "t"
  AppKey = "a"
  MaxRetrievalAttempts = 2
  GossipMaxPeers = 1
  Period = 2
INVARIANTS
  ResultExact
  RequestsEnd
  
PROPERTIES
  CallsReturn
CHECK_DEADLOCK FALSE
