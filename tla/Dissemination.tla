---------------------------- MODULE Dissemination ----------------------------
(***************************************************************************)
(* Which peers the data of a collection is sent to and asked from: the     *)
(* disseminators and the dissemination plans of pkg/collections/offledger  *)
(* and pkg/collections/transientdata, on discovery.GetMembers.             *)
(*                                                                         *)
(* ms is the membership as gossip reports it at that moment, the local     *)
(* peer included.  A peer is its endpoint and an organisation its MSP ID,  *)
(* both as numbers, which orders them.  orgs is what the policy of the     *)
(* collection says.  A shuffled list cut off at n is any n of its members. *)
(***************************************************************************)
EXTENDS Naturals, Sequences, FiniteSets, FiniteSetsExt, SequencesExt

CONSTANTS Peers, Self,              \* endpoints
          OrgOf,                    \* the organisation of a peer
          Endorsers, Committers,    \* the peers with that role
          ImplicitOrg,              \* stands for the organisation of the local peer
          MaximumPeerCount, RequiredPeerCount,   \* of the policy
          MaxPeersForRetrieval, Clustered,
          Hash                      \* getHash32 of a key

MemberOrgs(orgs) == {IF o = ImplicitOrg THEN OrgOf[Self] ELSE o : o \in orgs}

Remote(group) == group \ {Self}

\* filterPeers and getRandomPeers on a shuffled list.
UpTo(n, group) == kSubset(Min({n, Cardinality(group)}), group)

---------------------------------------------------------------------------
(* Off-ledger and DCAS collections. *)

getPeersWithRole(ms, role, orgs) == {p \in ms : p \in role /\ OrgOf[p] \in orgs}

\* The peers, and the length of the list, in which a peer with both roles may stand twice.
resolvePeersForDissemination(ms, orgs) ==
    LET committers == Remote(getPeersWithRole(ms, Committers, orgs))
        endorsers  == Remote(getPeersWithRole(ms, Endorsers, orgs))
    IN  UNION {{[peers |-> c \cup e, maxPeers |-> Cardinality(c) + Cardinality(e)] :
                  e \in UpTo(MaximumPeerCount - Cardinality(c), endorsers)} :
               c \in UpTo(MaximumPeerCount, committers)}

\* DCAS keys are checked against their values; a wrong one fails the plan.
validateAll(writes) == \A i \in DOMAIN writes : writes[i].delete \/ writes[i].valid

ComputeOffLedgerPlan(ms, writes, orgs) ==
    IF ~validateAll(writes) THEN {}
    ELSE {[to |-> d.peers, maxPeers |-> d.maxPeers, minAck |-> RequiredPeerCount] :
              d \in resolvePeersForDissemination(ms, MemberOrgs(orgs))}

resolveOrgsForRetrieval(orgs) == IF Clustered THEN orgs \ {OrgOf[Self]} ELSE orgs

\* A list: first endorsers, then committers.  An element is a peer and the list it came from.
ResolvePeersForRetrieval(ms, orgs, attempted) ==
    LET from(role) == Remote(getPeersWithRole(ms, role, resolveOrgsForRetrieval(orgs))) \ attempted
    IN  UNION {{(e \X {1}) \cup (c \X {2}) :
                  c \in UpTo(MaxPeersForRetrieval - Cardinality(e), from(Committers))} :
               e \in UpTo(MaxPeersForRetrieval, from(Endorsers))}

---------------------------------------------------------------------------
(* Transient data: the peers follow from the hash of the key. *)

getEndorsers(ms, orgs, exclude) == {p \in ms \ exclude : OrgOf[p] \in orgs /\ p \in Endorsers}

chooseOrgs(h, orgs) ==
    LET sorted == SetToSortSeq(orgs, <)
    IN  [i \in 1..Min({MaximumPeerCount, Len(sorted)}) |-> sorted[((h + i - 1) % Len(sorted)) + 1]]

\* One round: from each organisation the endorser that h points to, unless chosen before.
appendEndorsersFromOrgs(ms, endorsers, h, orgs) ==
    FoldLeft(LAMBDA chosen, org :
                 LET sorted == SetToSortSeq(getEndorsers(ms, {org}, {}), <)
                 IN  IF Cardinality(chosen) = MaximumPeerCount \/ sorted = <<>> THEN chosen
                     ELSE chosen \cup {sorted[(h % Len(sorted)) + 1]},
             endorsers, orgs)

\* The loop of chooseEndorsers over a membership that does not change: the endorsers after
\* enough rounds to have pointed to each endorser of each organisation.
chooseEndorsers(ms, h, orgs) ==
    LET round[i \in 0..Cardinality(ms)] ==
            IF i = 0 THEN {} ELSE appendEndorsersFromOrgs(ms, round[i - 1], h + i - 1, orgs)
    IN  round[Cardinality(ms)]

ResolveEndorsers(ms, key, orgs) == chooseEndorsers(ms, Hash[key], chooseOrgs(Hash[key], orgs))

ResolveAllEndorsersInOrgsForKey(ms, key, orgs, exclude) ==
    getEndorsers(ms, Range(chooseOrgs(Hash[key], orgs)), exclude)

ResolveAllEndorsers(ms, orgs, exclude) == getEndorsers(ms, orgs, exclude)

getKeysByEndorser(ms, writes, orgs) ==
    [e \in Remote(ms) |->
        {writes[i].key : i \in {j \in DOMAIN writes :
            ~writes[j].delete /\ e \in ResolveEndorsers(ms, writes[j].key, orgs)}}]

\* newRWSetForKeys: every write to one of the keys, deletes included.
newRWSetForKeys(writes, keys) == SelectSeq(writes, LAMBDA w : w.key \in keys)

\* The data of a plan goes to one peer, which has to acknowledge it.
computeDisseminationPlanForEndorser(e, msg) == [to |-> e, msg |-> msg, maxPeers |-> 1, minAck |-> 1]

\* One plan for each endorser that has to store a key; none when a key has no endorsers.  The
\* organisations are those of the policy as it stands, an implicit one is not replaced.
ComputeDisseminationPlan(ms, writes, orgs) ==
    LET byEndorser == getKeysByEndorser(ms, writes, orgs)
    IN  IF \E i \in DOMAIN writes : ~writes[i].delete /\ ResolveEndorsers(ms, writes[i].key, orgs) = {}
        THEN {}
        ELSE {computeDisseminationPlanForEndorser(e, newRWSetForKeys(writes, byEndorser[e])) :
                  e \in {p \in Remote(ms) : byEndorser[p] # {}}}
=============================================================================
