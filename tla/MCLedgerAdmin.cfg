SPECIFICATION MCSpec
CONSTANTS
  MaxBlock = 9
  Ops = {"rollback", "reset"}
  MaxOps = 3
  MaxCrashes = 1
  Ledgers = {l1, l2}
  NoLedger = NoLedger
  Commands = {c1, c2}
  MaxDeaths = 2
INVARIANTS
  LedgerIntact
  CreationRecovers
  CommandsObeyed
PROPERTIES
CHECK_DEADLOCK FALSE
