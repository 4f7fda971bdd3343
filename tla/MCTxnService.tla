---------------------------- MODULE MCTxnService ----------------------------
EXTENDS TxnService

General == NewKey("Org1", "peer1", "txn", "general")
SDK == NewKey("Org1", "peer1", "txn", "sdk")
Other == NewKey("Org1", "", "app", "")

Order == <<Other, General, SDK>>
Both == {General, SDK}

Config(peers, apps) == [msp |-> "Org1", peers |-> peers, apps |-> apps]
App(app, cfg, comps) == [app |-> app, cfg |-> cfg, comps |-> comps]
Peer(comps) == [peer |-> "peer1", apps |-> {App("txn", FALSE, comps)}]
Criteria(app, comp) == [msp |-> "Org1", peer |-> "", app |-> app, comp |-> comp]

SaveCall(c) == [fcn |-> "save", arg |-> c]
DeleteCall(c) == [fcn |-> "delete", arg |-> c]

\* One transaction while clients are invoked, two otherwise.
Bound == txs' < MaxTxs \/ \A i \in Invokers : inv'[i].pc = "idle"

Calls == {SaveCall(Config({Peer({"general", "sdk"})}, {})), SaveCall(Config({}, {App("app", TRUE, {})})),
          SaveCall(Config({Peer({"sdk", ""})}, {})), DeleteCall(Criteria("txn", "sdk"))}
=============================================================================
