---------------------- MODULE MCDistributedValidation ----------------------
(***************************************************************************)
(* Distributed validation, one part at a time: the requests for the blocks *)
(* 1, 2 (twice) and 3 on a validator, which peer validates which           *)
(* transactions of a block, and the committer sending the requests.        *)
(***************************************************************************)
EXTENDS ValidationHandler

CONSTANTS r1, r2, r2b, r3,
          Peers, MaxGroupBlock, MaxTx, CommitterThreshold, SinglePeerThreshold,
          Blocks, ChanSize, MaxPayloads

ASSUME DispatchAssumption == Blocks \subseteq Nat \ {0} /\ ChanSize \in Nat

VARIABLES part,
          committers, validators, blockNum, numTx, members, share,
          payloads, adding, requestChan, contexts, sending, answering, requests

MCRequests == {r1, r2, r2b, r3}
MCBlockOf == [r \in MCRequests |-> IF r = r1 THEN 1 ELSE IF r = r3 THEN 3 ELSE 2]

Groups == INSTANCE PeerGroupSelector WITH MaxBlock <- MaxGroupBlock

groupVars == <<committers, validators, blockNum, numTx, members, share>>
Dispatch == INSTANCE RequestDispatch

dispatchVars == <<payloads, adding, requestChan, contexts, sending, answering, requests>>
MCvars == <<vars, groupVars, dispatchVars, part>>

\* Only one part moves.
MCInit ==
  /\ Init /\ Groups!Init /\ Dispatch!Init
  /\ \/ part = "groups"
     \/ /\ part \in {"requests", "dispatch"}
        /\ committers = {} /\ validators = {} /\ blockNum = 1 /\ numTx = 1
        /\ members = [p \in Peers |-> CHOOSE s \in Groups!Members(p) : TRUE]

MCNext ==
  /\ UNCHANGED part
  /\ \/ part = "requests" /\ Next /\ UNCHANGED <<groupVars, dispatchVars>>
     \/ part = "groups" /\ Groups!Next /\ UNCHANGED <<vars, dispatchVars>>
     \/ part = "dispatch" /\ Dispatch!Next /\ UNCHANGED <<vars, groupVars>>

MCSpec == /\ MCInit /\ [][MCNext]_MCvars /\ (part = "requests" => Fairness)
          /\ WF_MCvars(part = "dispatch" /\ Dispatch!submitValidationRequest /\ UNCHANGED <<part, vars, groupVars>>)
          /\ WF_MCvars(part = "dispatch" /\ Dispatch!Dispatcher /\ UNCHANGED <<part, vars, groupVars>>)

-----------------------------------------------------------------------------
\* The variables of all parts hold values of their kind.
ValidationTypeOK == TypeOK /\ Groups!TypeOK /\ Dispatch!TypeOK

\* Without a word between them the peers divide the transactions of a block exactly
\* (groups, GetTxFilter).
EveryTxOneValidator == ValidationTypeOK /\ Groups!EveryTxOneValidator

\* The committer asks the validators about every block that came to it in order, once, and
\* about blocks in their order (create, dispatchValidationRequests).
AskedExactly == Dispatch!AskedExactly

\* Validation never holds up the blocks: a validator follows the committer although StoreBlock
\* validates pending requests itself, and AddPayload of the committer gets past a full
\* channel, whatever the validators do (StoreBlock, submitValidationRequest).
BlocksGoOn == (part = "requests" => FollowsCommitter) /\ Dispatch!PayloadsAdded
============================================================================
