----------------------------- MODULE MCRetrieval -----------------------------
(***************************************************************************)
(* Retrieval on five peers of three organisations, one situation at a      *)
(* time: the plans for a write set, a call for transient data while peers  *)
(* come and go, a call for off-ledger data with partial answers, two such  *)
(* calls at a time, two calls whose components ask for the request manager *)
(* together, and calls while the chaincode is upgraded.                    *)
(***************************************************************************)
EXTENDS Retrieval

VARIABLES situation, changes

MCvars == <<vars, situation, changes>>

MCOrgOf == <<3, 1, 1, 2, 3>>
MCPolicy == <<{1, 2, 3}, {1, 3}, {2, 0}>>
MCHash == [k \in Keys |-> IF k = "t" THEN 3 ELSE 1]

OneManager == table = 1 /\ managers = 1 /\ looked = {} /\ mgr = [u \in Users |-> 1]

NoManager == table = 0 /\ managers = 0 /\ looked = {} /\ mgr = [u \in Users |-> 0]

KindsAre(k1, k2) == call = [c1 |-> IdleCall(k1), c2 |-> IdleCall(k2)]

MCInit ==
    /\ held = [p \in Peers |-> CASE p = 1 -> {"k1"} [] p = 2 -> {"k1", "t"} [] p = 3 -> {"k2"}
                                 [] p = 4 -> {} [] OTHER -> {"k2", "a"}]
    /\ nextID = [m \in Managers |-> 0]
    /\ registered = {} /\ net = {} /\ blocked = {} /\ req = [r \in Reqs |-> NoReq]
    /\ plan = NoPlan /\ up = TRUE
    /\ ConfigInit
    /\ changes = 0
    /\ \/ /\ situation = "plan" /\ KindsAre("offledger", "transient") /\ NoManager
          /\ members \in {m \in SUBSET Peers : Self \in m}
       \/ /\ situation = "membership" /\ KindsAre("transient", "transient") /\ OneManager
          /\ members \in {Peers, {1, 2, 4, 5}}
       \/ /\ situation = "partial" /\ KindsAre("offledger", "offledger") /\ OneManager
          /\ members \in {Peers, {1, 2, 3}, {1, 3}}
       \/ /\ situation = "calls" /\ KindsAre("offledger", "offledger") /\ OneManager /\ members = {1, 5}
       \/ /\ situation = "managers" /\ KindsAre("offledger", "appdata") /\ NoManager /\ members = {1, 5}
       \/ /\ situation = "upgrade" /\ KindsAre("offledger", "transient") /\ OneManager /\ members = {1}

\* One call only in the first two situations; membership, managers and upgrades change in
\* the situation that is about them.
Bound ==
    /\ situation' = situation
    /\ changes' = IF members' # members THEN changes + 1 ELSE changes
    /\ changes' <= 2
    /\ members' # members => situation = "membership"
    /\ committed' # committed => situation = "upgrade"
    /\ mgr'["transient"] = mgr["transient"] /\ looked' \subseteq Users \ {"transient"}
    /\ situation \in {"membership", "partial"} => call'["c2"].pc = "idle"

\* Next, with the plans made in a situation of their own.
MCNext ==
    /\ up
    /\ \/ situation = "plan" /\ plan = NoPlan /\ \E writes \in WriteSets : Disseminate(writes)
       \/ situation # "plan" /\ Step
    /\ Bound

MCSpec == MCInit /\ [][MCNext]_MCvars /\ Fairness
=============================================================================
