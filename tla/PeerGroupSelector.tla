-------------------------- MODULE PeerGroupSelector --------------------------
(***************************************************************************)
(* Which peer validates which transaction of a block:                      *)
(* validationpolicy/peergroupselector.go, GetTxFilter of the policy        *)
(* evaluator, and discovery.GetMembers, on the peers of one organisation.  *)
(*                                                                         *)
(* No message carries the decision: every peer computes it from its own    *)
(* list of the members, in which the others come in the order in which     *)
(* gossip has them and the peer itself comes last.  An endpoint is a       *)
(* number, and peers are ordered by it.                                    *)
(***************************************************************************)
EXTENDS Naturals, FiniteSets, Sequences, SequencesExt

CONSTANTS Peers,             \* endpoints
          MaxBlock, MaxTx,
          CommitterThreshold, SinglePeerThreshold

VARIABLES committers, validators,  \* the peers with that role
          blockNum, numTx,         \* the block
          members,                 \* members[p]: the peers as p lists them
          share                    \* share[p]: the transactions p validates, once it knows

vars == <<committers, validators, blockNum, numTx, members, share>>
channel == <<committers, validators, blockNum, numTx, members>>

Undecided == {MaxTx + 1}

\* discovery.GetMembers: PeersOfChannel in any order, then the peer itself.
Members(p) == {Append(s, p) : s \in SetToSeqs(Peers \ {p})}

Init == /\ committers \in SUBSET Peers /\ validators \in SUBSET Peers
        /\ blockNum \in 1..MaxBlock /\ numTx \in 1..MaxTx
        /\ members \in [Peers -> UNION {Members(p) : p \in Peers}]
        /\ \A p \in Peers : members[p] \in Members(p)
        /\ share = [p \in Peers |-> Undecided]

\* peersWithRole
WithRole(p, role) == SelectSeq(members[p], LAMBDA q : q \in role)

\* selectCommitter and selectValidator: a peer, or none.
selectCommitter(p) == IF WithRole(p, committers) = <<>> THEN <<>> ELSE <<Head(WithRole(p, committers))>>

selectValidator(p) ==
  LET both == WithRole(p, committers \cap validators)
      list == WithRole(p, validators)
  IN IF both # <<>> THEN <<Head(both)>>
     ELSE IF list = <<>> THEN <<>>
     ELSE <<list[(blockNum % Len(list)) + 1]>>

\* groups: the peers that share the block, sorted by endpoint.  Every group is one peer.
SelectedFor(p) ==
  LET byCommitter == IF numTx < CommitterThreshold THEN selectCommitter(p) ELSE <<>>
      bySingle == IF byCommitter = <<>> /\ numTx < SinglePeerThreshold THEN selectValidator(p)
                  ELSE byCommitter
  IN IF bySingle = <<>> /\ WithRole(p, validators) = <<>> THEN selectCommitter(p) ELSE bySingle

\* Mutant: the groups are not sorted.
groups_Unsorted(p) == IF SelectedFor(p) # <<>> THEN SelectedFor(p) ELSE WithRole(p, validators)

groups(p) == IF SelectedFor(p) # <<>> THEN SelectedFor(p)
             ELSE SortSeq(WithRole(p, validators), LAMBDA a, b : a < b)

\* GetTxFilter accepts the transactions of the local peer's turns; all of them when there
\* are no groups.
GetTxFilter(p) ==
  /\ share[p] = Undecided
  /\ share' = [share EXCEPT ![p] =
       {i \in 0..numTx - 1 : groups(p) = <<>> \/ groups(p)[(i % Len(groups(p))) + 1] = p}]
  /\ UNCHANGED channel

Next == \E p \in Peers : GetTxFilter(p)

Spec == Init /\ [][Next]_vars

-----------------------------------------------------------------------------
\* Every variable holds a value of its kind.
TypeOK == /\ committers \subseteq Peers /\ validators \subseteq Peers
          /\ blockNum \in 1..MaxBlock /\ numTx \in 1..MaxTx
          /\ \A p \in Peers : members[p] \in Members(p)
          /\ \A p \in Peers : share[p] = Undecided \/ share[p] \subseteq 0..numTx - 1

\* Without a word between them the peers of an organisation with one committer share the
\* block out exactly: every transaction is validated by one peer and by no other, although
\* each peer lists the members in an order of its own (groups, GetTxFilter).  Left out is
\* the small block for which selectValidator has to choose between several validators
\* that do not commit: it takes the one at an index of a list that is not sorted.
EveryTxOneValidator ==
  /\ \A p \in Peers : share[p] # Undecided
  /\ Cardinality(committers) = 1
  /\ \/ numTx < CommitterThreshold \/ numTx >= SinglePeerThreshold
     \/ committers \subseteq validators \/ Cardinality(validators) < 2
  => \A i \in 0..numTx - 1 : \E p \in Peers : \A q \in Peers : i \in share[q] <=> q = p
=============================================================================
