-------------------------- MODULE BlockStoreProofs --------------------------
(***************************************************************************)
(* Proofs about BlockStore, for any set of peers, any blocks the ordering  *)
(* service may deliver and any number of crashes.                          *)
(***************************************************************************)
EXTENDS BlockStore, Sequences, FiniteSetTheorems, TLAPS

\* Steps are proved by Zenon unless they name another prover.
USE Zenon

\* Every transaction of block b has a document that leads to b or to a block below.
Indexed(b) == \A t \in Txs[b] : txns[t] # NoBlock /\ Num[txns[t]] <= Num[b]

Committed(b) == Stored(b) /\ Indexed(b)

\* The steps of a peer between taking up a block and being done with it.
Busy == {"stored", "indexed", "cached", "saved", "informed"}

\* Of the stored blocks at most the last one is not indexed yet.
IndexedBelow ==
  \A n \in Nums : docs[n] # NoBlock => \A m \in 0..n : m < n => Indexed(docs[m])

\* What a peer holds in memory is in the shared store.
PeerInv(p) ==
  /\ pc[p] # "panicked"
  /\ cpInfo[p] # NoBlock => Committed(cpInfo[p])
  /\ bcInfo[p] # NoBlock => Committed(bcInfo[p])
  /\ blk[p] # NoBlock => Stored(blk[p])
  /\ pc[p] \in Busy => blk[p] # NoBlock
  /\ pc[p] \in Busy \ {"stored"} => Indexed(blk[p])
  /\ \A b \in cache[p] : Stored(b)

\* The inductive invariant: the stored documents form a chain, everything that
\* refers to a block refers to a stored one, and to an indexed one once the
\* committer has gone past storeTransactions.
Ind == /\ TypeOK
       /\ StoredChain
       /\ IndexLeadsToBlock
       /\ IndexedBelow
       /\ checkpoint # NoBlock => Committed(checkpoint)
       /\ \A b \in gossip : Committed(b)
       /\ \A p \in Peers : PeerInv(p)

USE PeersAssumption, BlocksAssumption, OrderingAssumption, BoundsAssumption

\* Num and Prev of a block.
LEMMA BlockFacts ==
  ASSUME NEW b \in Blocks
  PROVE  Num[b] \in Nat /\ Num[b] \in Nums /\ Prev[b] \in MaybeBlock
BY DEF Nums, MaybeBlock

LEMMA NumsNat == Nums \subseteq Nat
BY SMT DEF Nums

\* The cache of a peer holds, after a put, what it held before and the new block.
LEMMA CachePutFacts ==
  ASSUME NEW p, NEW b, NEW c \in CacheAfterPut(p, b)
  PROVE  c \subseteq cache[p] \cup {b}
<1>1. CASE CacheSize = 0
  BY <1>1 DEF CacheAfterPut
<1>2. CASE CacheSize # 0
  <2>1. PICK kept \in SUBSET cache[p] : c = kept \cup {b}
    BY <1>2 DEF CacheAfterPut
  <2> QED
    BY <2>1
<1> QED
  BY <1>1, <1>2

LEMMA InitInd == Init => Ind
<1> SUFFICES ASSUME Init PROVE Ind
  OBVIOUS
<1>1. TypeOK
  BY SMT DEF Init, TypeOK, MaybeBlock, Status
<1>2. StoredChain /\ IndexLeadsToBlock /\ IndexedBelow
  BY DEF Init, StoredChain, IndexLeadsToBlock, IndexedBelow
<1>3. \A p \in Peers : PeerInv(p)
  BY DEF Init, PeerInv, Busy
<1> QED
  BY <1>1, <1>2, <1>3 DEF Init, Ind

-----------------------------------------------------------------------------
(* Steps that leave the block and transaction documents alone, or add to   *)
(* them, keep every stored block stored and every indexed block indexed.   *)

Grows == /\ \A n \in Nums : docs[n] # NoBlock => docs'[n] = docs[n]
         /\ \A t \in TxIDs : txns[t] # NoBlock => txns'[t] = txns[t]

LEMMA GrowsKeeps ==
  ASSUME Grows, NEW b \in Blocks
  PROVE  /\ Stored(b) => Stored(b)'
         /\ Indexed(b) => Indexed(b)'
<1>1. Stored(b) => Stored(b)'
  BY BlockFacts, SMT DEF Grows, Stored
<1>2. Txs[b] \subseteq TxIDs
  OBVIOUS
<1>3. Indexed(b) => Indexed(b)'
  BY <1>2 DEF Grows, Indexed
<1> QED
  BY <1>1, <1>3

\* The block a step storeBlock writes links to a stored block or is the genesis
\* block, so a document that is there already is the same block.
LEMMA StoreSame ==
  ASSUME Ind, NEW p \in Peers, NEW b \in Delivered(p), storeBlock(p, b)
  PROVE  /\ b \in Blocks
         /\ docs[Num[b]] # NoBlock => docs[Num[b]] = b
         /\ Num[b] > 0 => /\ Num[b] - 1 \in Nums
                          /\ docs[Num[b] - 1] # NoBlock
                          /\ Prev[b] = docs[Num[b] - 1]
                          /\ Committed(docs[Num[b] - 1])
<1>1. b \in Blocks /\ Num[b] \in Nat /\ Num[b] \in Nums
  BY BlockFacts DEF Delivered
<1>2. validateBlock(p, b)
  BY DEF storeBlock
<1>3. Num[b] > 0 => /\ Num[b] - 1 \in Nums
                    /\ docs[Num[b] - 1] # NoBlock
                    /\ Prev[b] = docs[Num[b] - 1]
                    /\ Committed(docs[Num[b] - 1])
  <2> SUFFICES ASSUME Num[b] > 0
               PROVE  /\ Num[b] - 1 \in Nums
                      /\ docs[Num[b] - 1] # NoBlock
                      /\ Prev[b] = docs[Num[b] - 1]
                      /\ Committed(docs[Num[b] - 1])
    OBVIOUS
  <2>1. cpInfo[p] # NoBlock
    BY <1>1, SMT DEF Delivered
  <2>2. cpInfo[p] \in Blocks /\ Committed(cpInfo[p])
    BY <2>1 DEF Ind, PeerInv, TypeOK, MaybeBlock
  <2>3. Num[cpInfo[p]] \in Nat /\ Num[cpInfo[p]] \in Nums
    BY <2>2, BlockFacts
  <2>4. Num[b] = Num[cpInfo[p]] + 1 /\ Prev[b] = cpInfo[p]
    BY <1>2, <2>1 DEF validateBlock
  <2>5. Num[b] - 1 = Num[cpInfo[p]]
    BY <2>3, <2>4, SMT
  <2>6. docs[Num[b] - 1] = cpInfo[p]
    BY <2>2, <2>5 DEF Committed, Stored
  <2> QED
    BY <2>1, <2>2, <2>3, <2>4, <2>5, <2>6
<1>4. ASSUME docs[Num[b]] # NoBlock PROVE docs[Num[b]] = b
  <2>1. docs[Num[b]] \in Blocks
    BY <1>1, <1>4, SMT DEF Ind, TypeOK, MaybeBlock
  <2>2. Num[docs[Num[b]]] = Num[b] /\ (Num[b] > 0 => Prev[docs[Num[b]]] = docs[Num[b] - 1])
    BY <1>1, <1>4 DEF Ind, StoredChain
  <2>3. CASE Num[b] = 0
    BY <1>1, <2>1, <2>2, <2>3
  <2>4. CASE Num[b] > 0
    BY <1>1, <1>3, <2>1, <2>2, <2>4
  <2> QED
    BY <1>1, <2>3, <2>4, SMT
<1> QED
  BY <1>1, <1>3, <1>4

-----------------------------------------------------------------------------
(* What a step owes the invariant.                                         *)

LEMMA SameDocuments ==
  ASSUME Ind, UNCHANGED <<docs, txns>>
  PROVE  Grows /\ StoredChain' /\ IndexLeadsToBlock' /\ IndexedBelow'
BY SMT DEF Ind, Grows, StoredChain, IndexLeadsToBlock, IndexedBelow, Stored, Indexed

\* A block that p or the database refers to stays committed.
LEMMA CommittedKept ==
  ASSUME Grows, NEW b \in MaybeBlock, b # NoBlock => Committed(b)
  PROVE  b # NoBlock => Committed(b)'
BY GrowsKeeps DEF Committed, MaybeBlock

LEMMA PeerInvKept ==
  ASSUME Ind, Grows, NEW q \in Peers,
         pc'[q] = pc[q], cpInfo'[q] = cpInfo[q], bcInfo'[q] = bcInfo[q],
         blk'[q] = blk[q], cache'[q] = cache[q]
  PROVE  PeerInv(q)'
<1>1. PeerInv(q) /\ cpInfo[q] \in MaybeBlock /\ bcInfo[q] \in MaybeBlock
      /\ blk[q] \in MaybeBlock /\ cache[q] \subseteq Blocks
  BY DEF Ind, TypeOK
<1>2. /\ cpInfo[q] # NoBlock => Committed(cpInfo[q])'
      /\ bcInfo[q] # NoBlock => Committed(bcInfo[q])'
  BY <1>1, CommittedKept DEF PeerInv
<1>3. /\ blk[q] # NoBlock => Stored(blk[q])'
      /\ pc[q] \in Busy => blk[q] # NoBlock
      /\ pc[q] \in Busy \ {"stored"} => Indexed(blk[q])'
  BY <1>1, GrowsKeeps DEF PeerInv, MaybeBlock, Busy
<1>4. \A b \in cache[q] : Stored(b)'
  BY <1>1, GrowsKeeps DEF PeerInv
<1> QED
  BY <1>1, <1>2, <1>3, <1>4 DEF PeerInv, Committed, Stored, Indexed, Busy

\* Collects the parts of a step's proof.
LEMMA Collect ==
  ASSUME Ind, NEW p \in Peers, TypeOK', Grows,
         StoredChain', IndexLeadsToBlock', IndexedBelow',
         checkpoint' # NoBlock => Committed(checkpoint)',
         \A b \in gossip' : Committed(b)',
         PeerInv(p)',
         \A q \in Peers \ {p} : /\ pc'[q] = pc[q]
                                /\ cpInfo'[q] = cpInfo[q]
                                /\ bcInfo'[q] = bcInfo[q]
                                /\ blk'[q] = blk[q]
                                /\ cache'[q] = cache[q]
  PROVE  Ind'
<1>1. \A q \in Peers : PeerInv(q)'
  <2> TAKE q \in Peers
  <2>1. CASE q = p
    BY <2>1
  <2>2. CASE q # p
    BY <2>2, PeerInvKept
  <2> QED
    BY <2>1, <2>2
<1> QED
  BY <1>1 DEF Ind

\* The parts of the database and of gossip that a step leaves alone.
LEMMA CheckpointKept ==
  ASSUME Ind, Grows, checkpoint' = checkpoint
  PROVE  checkpoint' # NoBlock => Committed(checkpoint)'
BY CommittedKept DEF Ind, TypeOK

LEMMA GossipKept ==
  ASSUME Ind, Grows, gossip' = gossip
  PROVE  \A b \in gossip' : Committed(b)'
BY GrowsKeeps DEF Ind, TypeOK, Committed

-----------------------------------------------------------------------------
(* One lemma per action.                                                   *)

LEMMA LoadCheckpointInd ==
  ASSUME Ind, NEW p \in Peers, LoadCheckpoint(p)
  PROVE  Ind'
<1>1. TypeOK'
  BY DEF Ind, TypeOK, LoadCheckpoint, Status
<1>2. Grows /\ StoredChain' /\ IndexLeadsToBlock' /\ IndexedBelow'
  BY SameDocuments DEF LoadCheckpoint
<1>3. PeerInv(p)'
  <2>1. cpInfo'[p] = checkpoint /\ bcInfo'[p] = bcInfo[p] /\ blk'[p] = blk[p]
        /\ cache'[p] = cache[p] /\ pc'[p] = "loaded"
    BY DEF LoadCheckpoint, Ind, TypeOK
  <2>2. docs' = docs /\ txns' = txns
    BY DEF LoadCheckpoint
  <2> QED
    BY <2>1, <2>2, SMT DEF Ind, PeerInv, Committed, Stored, Indexed, Busy
<1> QED
  BY <1>1, <1>2, <1>3, Collect, CheckpointKept, GossipKept DEF LoadCheckpoint, Ind, TypeOK

LEMMA SaveLoadedCheckpointInd ==
  ASSUME Ind, NEW p \in Peers, SaveLoadedCheckpoint(p)
  PROVE  Ind'
<1>0. docs' = docs /\ txns' = txns /\ gossip' = gossip /\ checkpoint' = cpInfo[p]
      /\ pc[p] = "loaded" /\ cpInfo' = cpInfo /\ blk' = blk /\ cache' = cache
  BY DEF SaveLoadedCheckpoint
<1>1. cpInfo[p] \in MaybeBlock /\ (cpInfo[p] # NoBlock => Committed(cpInfo[p]))
  BY DEF Ind, TypeOK, PeerInv
<1>2. bcInfo'[p] = cpInfo[p] /\ pc'[p] = "idle"
      /\ pc' = [pc EXCEPT ![p] = "idle"] /\ bcInfo' = [bcInfo EXCEPT ![p] = cpInfo[p]]
  BY <1>1 DEF SaveLoadedCheckpoint, Committed, Stored, Ind, TypeOK
<1>3. TypeOK'
  BY <1>0, <1>1, <1>2, SMT DEF Ind, TypeOK, SaveLoadedCheckpoint, Status
<1>4. Grows /\ StoredChain' /\ IndexLeadsToBlock' /\ IndexedBelow'
  BY <1>0, SameDocuments
<1>5. PeerInv(p)'
  BY <1>0, <1>1, <1>2, SMT DEF Ind, PeerInv, Committed, Stored, Indexed, Busy
<1>6. checkpoint' # NoBlock => Committed(checkpoint)'
  BY <1>0, <1>1 DEF Committed, Stored, Indexed
<1> QED
  BY <1>0, <1>2, <1>3, <1>4, <1>5, <1>6, Collect, GossipKept DEF Ind, TypeOK

LEMMA storeBlockInd ==
  ASSUME Ind, NEW p \in Peers, NEW b \in Delivered(p), storeBlock(p, b)
  PROVE  Ind' /\ Grows
<1>0. /\ b \in Blocks /\ Num[b] \in Nat /\ Num[b] \in Nums
      /\ docs' = [docs EXCEPT ![Num[b]] = b] /\ docs \in [Nums -> MaybeBlock]
      /\ txns' = txns
  BY StoreSame, BlockFacts DEF storeBlock, Ind, TypeOK
<1>1. TypeOK'
  BY <1>0, SMT DEF Ind, TypeOK, storeBlock, Status, MaybeBlock
<1>2. Grows
  BY <1>0, StoreSame DEF Grows
<1>3. StoredChain'
  <2> SUFFICES ASSUME NEW n \in Nums, docs'[n] # NoBlock
               PROVE  /\ Num[docs'[n]] = n
                      /\ \A m \in 0..n : m \in Nums /\ docs'[m] # NoBlock
                      /\ n > 0 => Prev[docs'[n]] = docs'[n - 1]
    BY DEF StoredChain
  <2>1. CASE docs[n] # NoBlock
    <3>1. /\ docs'[n] = docs[n]
          /\ Num[docs[n]] = n
          /\ \A m \in 0..n : m \in Nums /\ docs[m] # NoBlock
          /\ n > 0 => Prev[docs[n]] = docs[n - 1]
      BY <2>1, <1>2 DEF Ind, StoredChain, Grows
    <3>2. \A m \in 0..n : docs'[m] = docs[m]
      BY <3>1, <1>2 DEF Grows
    <3>3. n > 0 => n - 1 \in 0..n
      BY NumsNat, SMT
    <3> QED
      BY <3>1, <3>2, <3>3
  <2>2. CASE docs[n] = NoBlock
    <3>1. n = Num[b] /\ docs'[n] = b
      BY <2>2, <1>0
    <3>2. CASE n = 0
      BY <3>1, <3>2, <1>0, SMT
    <3>3. CASE n > 0
      <4>1. n - 1 \in Nums /\ docs[n - 1] # NoBlock /\ Prev[b] = docs[n - 1]
        BY <3>1, <3>3, StoreSame
      <4>2. \A m \in 0..(n - 1) : m \in Nums /\ docs[m] # NoBlock
        BY <4>1 DEF Ind, StoredChain
      <4>3. \A m \in 0..n : m \in Nums /\ docs'[m] # NoBlock
        <5> TAKE m \in 0..n
        <5>1. CASE m = n
          BY <5>1, <3>1, <1>0
        <5>2. CASE m # n
          <6>1. m \in 0..(n - 1)
            BY <5>2, <3>1, <1>0, SMT
          <6> QED
            BY <6>1, <4>2, <1>2 DEF Grows
        <5> QED
          BY <5>1, <5>2
      <4>4. docs'[n - 1] = docs[n - 1]
        BY <4>1, <1>2 DEF Grows
      <4> QED
        BY <3>1, <4>1, <4>3, <4>4
    <3> QED
      BY <3>1, <3>2, <3>3, <1>0, SMT
  <2> QED
    BY <2>1, <2>2
<1>4. IndexLeadsToBlock'
  <2> SUFFICES ASSUME NEW t \in TxIDs, txns[t] # NoBlock
               PROVE  Stored(txns[t])' /\ t \in Txs[txns[t]]
    BY <1>0 DEF IndexLeadsToBlock
  <2>1. Stored(txns[t]) /\ t \in Txs[txns[t]] /\ txns[t] \in Blocks
    BY DEF Ind, IndexLeadsToBlock, Stored
  <2> QED
    BY <1>0, <1>2, <2>1 DEF Stored, Grows, Nums
<1>5. IndexedBelow'
  <2> SUFFICES ASSUME NEW n \in Nums, docs'[n] # NoBlock, NEW m \in 0..n, m < n
               PROVE  Indexed(docs[m])'
    BY DEF IndexedBelow
  <2>1. m \in Nums /\ docs[m] \in Blocks /\ docs'[m] = docs[m] /\ Indexed(docs[m])
    <3>1. CASE docs[n] # NoBlock
      BY <3>1, <1>0, <1>2, SMT DEF Ind, IndexedBelow, StoredChain, Grows, MaybeBlock
    <3>2. CASE docs[n] = NoBlock
      <4>1. n = Num[b] /\ n > 0
        BY <3>2, <1>0, SMT
      <4>2. n - 1 \in Nums /\ docs[n - 1] # NoBlock /\ Committed(docs[n - 1])
        BY <4>1, StoreSame
      <4>3. m \in 0..(n - 1)
        BY <4>1, <1>0, SMT
      <4>4. m \in Nums /\ docs[m] # NoBlock
        BY <4>2, <4>3 DEF Ind, StoredChain
      <4>5. Indexed(docs[m])
        <5>1. CASE m = n - 1
          BY <5>1, <4>2 DEF Committed
        <5>2. CASE m # n - 1
          BY <5>2, <4>1, <4>2, <4>3, <1>0, SMT DEF Ind, IndexedBelow
        <5> QED
          BY <5>1, <5>2
      <4> QED
        BY <4>4, <4>5, <1>0, <1>2, SMT DEF Grows, MaybeBlock
    <3> QED
      BY <3>1, <3>2
  <2> QED
    BY <2>1, <1>0 DEF Indexed
<1>6. PeerInv(p)'
  <2>1. pc'[p] = "stored" /\ blk'[p] = b /\ cpInfo'[p] = cpInfo[p]
        /\ bcInfo'[p] = bcInfo[p] /\ cache'[p] = cache[p] /\ docs'[Num[b]] = b
    BY <1>0 DEF storeBlock, Ind, TypeOK
  <2>2. PeerInv(p) /\ cpInfo[p] \in MaybeBlock /\ bcInfo[p] \in MaybeBlock
        /\ cache[p] \subseteq Blocks
    BY DEF Ind, TypeOK
  <2>3. /\ cpInfo[p] # NoBlock => Committed(cpInfo[p])'
        /\ bcInfo[p] # NoBlock => Committed(bcInfo[p])'
    BY <1>2, <2>1, <2>2, CommittedKept DEF PeerInv
  <2>4. \A c \in cache[p] : Stored(c)'
    BY <1>2, <2>2, GrowsKeeps DEF PeerInv
  <2>5. Stored(b)' /\ b # NoBlock
    BY <1>0, <2>1 DEF Stored
  <2> QED
    BY <2>1, <2>3, <2>4, <2>5 DEF PeerInv, Busy, Committed, Stored, Indexed
<1> QED
  BY <1>1, <1>2, <1>3, <1>4, <1>5, <1>6, Collect, CheckpointKept, GossipKept
  DEF storeBlock, Ind, TypeOK

\* A transaction ID that is in use already was used by the block itself or by one
\* below: a use above would mean that this block was indexed before.
LEMMA storeTransactionsInd ==
  ASSUME Ind, NEW p \in Peers, storeTransactions(p)
  PROVE  Ind' /\ Grows
<1> DEFINE b == blk[p]
<1>0. /\ b \in Blocks /\ Num[b] \in Nat /\ Num[b] \in Nums /\ docs[Num[b]] = b
      /\ docs' = docs /\ pc[p] = "stored"
      /\ txns' = [t \in TxIDs |-> IF t \in Txs[b] /\ txns[t] = NoBlock THEN b ELSE txns[t]]
      /\ Txs[b] \subseteq TxIDs
  BY DEF storeTransactions, Ind, PeerInv, Busy, Stored, Nums
<1>1. TypeOK'
  BY <1>0 DEF Ind, TypeOK, storeTransactions, Status, MaybeBlock
<1>2. Grows
  BY <1>0 DEF Grows
<1>3. StoredChain'
  BY <1>0 DEF Ind, StoredChain
<1>4. IndexLeadsToBlock'
  <2> SUFFICES ASSUME NEW t \in TxIDs, txns'[t] # NoBlock
               PROVE  /\ txns'[t] \in Blocks
                      /\ docs[Num[txns'[t]]] = txns'[t]
                      /\ t \in Txs[txns'[t]]
    BY <1>0 DEF IndexLeadsToBlock, Stored
  <2>1. CASE t \in Txs[b] /\ txns[t] = NoBlock
    BY <1>0, <2>1
  <2>2. CASE ~(t \in Txs[b] /\ txns[t] = NoBlock)
    BY <1>0, <2>2 DEF Ind, IndexLeadsToBlock, Stored
  <2> QED
    BY <2>1, <2>2
<1>5. IndexedBelow'
  <2> SUFFICES ASSUME NEW n \in Nums, docs[n] # NoBlock, NEW m \in 0..n, m < n
               PROVE  Indexed(docs[m])'
    BY <1>0 DEF IndexedBelow
  <2>1. docs[m] \in Blocks /\ Indexed(docs[m])
    BY SMT DEF Ind, IndexedBelow, StoredChain, TypeOK, MaybeBlock
  <2> QED
    BY <1>0, <1>2, <2>1 DEF Indexed, Grows
<1>6. \A t \in Txs[b] : txns'[t] # NoBlock /\ Num[txns'[t]] <= Num[b]
  <2> TAKE t \in Txs[b]
  <2>1. CASE txns[t] = NoBlock
    BY <1>0, <2>1, SMT
  <2>2. CASE txns[t] # NoBlock
    <3>1. txns'[t] = txns[t] /\ txns[t] \in Blocks /\ docs[Num[txns[t]]] = txns[t]
          /\ Num[txns[t]] \in Nat /\ Num[txns[t]] \in Nums
      BY <1>0, <2>2 DEF Ind, IndexLeadsToBlock, Stored, Nums
    <3>2. CASE Num[txns[t]] > Num[b]
      <4>1. Indexed(docs[Num[b]])
        BY <1>0, <3>1, <3>2, SMT DEF Ind, IndexedBelow
      <4> QED
        BY <1>0, <3>1, <3>2, <4>1 DEF Indexed
    <3> QED
      BY <1>0, <2>2, <3>1, <3>2, SMT
  <2> QED
    BY <2>1, <2>2
<1>7. PeerInv(p)'
  <2>1. pc'[p] = "indexed" /\ blk' = blk /\ cpInfo' = cpInfo
        /\ bcInfo' = bcInfo /\ cache' = cache
    BY DEF storeTransactions, Ind, TypeOK
  <2>2. PeerInv(p) /\ cpInfo[p] \in MaybeBlock /\ bcInfo[p] \in MaybeBlock
    BY DEF Ind, TypeOK
  <2>3. /\ cpInfo[p] # NoBlock => Committed(cpInfo[p])'
        /\ bcInfo[p] # NoBlock => Committed(bcInfo[p])'
    BY <1>2, <2>1, <2>2, CommittedKept DEF PeerInv
  <2> QED
    BY <1>0, <1>6, <2>1, <2>2, <2>3 DEF PeerInv, Busy, Committed, Stored, Indexed
<1> QED
  BY <1>1, <1>2, <1>3, <1>4, <1>5, <1>7, Collect, CheckpointKept, GossipKept
  DEF storeTransactions, Ind, TypeOK

LEMMA committerCachePutInd ==
  ASSUME Ind, NEW p \in Peers, committerCachePut(p)
  PROVE  Ind'
<1>1. PICK c \in CacheAfterPut(p, blk[p]) : cache' = [cache EXCEPT ![p] = c]
  BY DEF committerCachePut
<1>2. c \subseteq cache[p] \cup {blk[p]}
  BY CachePutFacts
<1>3. docs' = docs /\ txns' = txns /\ pc[p] = "indexed" /\ blk' = blk
      /\ cpInfo' = cpInfo /\ bcInfo' = bcInfo /\ pc'[p] = "cached" /\ cache'[p] = c
  BY <1>1 DEF committerCachePut, couch, Ind, TypeOK
<1>4. blk[p] # NoBlock /\ Stored(blk[p]) /\ blk[p] \in Blocks
  BY <1>3 DEF Ind, PeerInv, Busy, Stored
<1>5. TypeOK'
  BY <1>1, <1>2, <1>4 DEF Ind, TypeOK, committerCachePut, couch, Status
<1>6. Grows /\ StoredChain' /\ IndexLeadsToBlock' /\ IndexedBelow'
  BY <1>3, SameDocuments
<1>7. PeerInv(p)'
  BY <1>2, <1>3, <1>4, SMT DEF Ind, PeerInv, Committed, Stored, Indexed, Busy
<1> QED
  BY <1>1, <1>5, <1>6, <1>7, Collect, CheckpointKept, GossipKept
  DEF committerCachePut, couch, Ind, TypeOK

LEMMA saveCurrentInfoInd ==
  ASSUME Ind, NEW p \in Peers, saveCurrentInfo(p)
  PROVE  Ind'
<1>1. docs' = docs /\ txns' = txns /\ pc[p] = "cached" /\ blk' = blk /\ cache' = cache
      /\ cpInfo' = cpInfo /\ bcInfo' = bcInfo /\ pc'[p] = "saved" /\ checkpoint' = blk[p]
  BY DEF saveCurrentInfo, Ind, TypeOK
<1>2. TypeOK'
  BY <1>1, SMT DEF Ind, TypeOK, saveCurrentInfo, Status
<1>3. Grows /\ StoredChain' /\ IndexLeadsToBlock' /\ IndexedBelow'
  BY <1>1, SameDocuments
<1>4. PeerInv(p)'
  BY <1>1, SMT DEF Ind, PeerInv, Committed, Stored, Indexed, Busy
<1>5. checkpoint' # NoBlock => Committed(checkpoint)'
  BY <1>1 DEF Ind, PeerInv, Committed, Stored, Indexed, Busy
<1> QED
  BY <1>2, <1>3, <1>4, <1>5, Collect, GossipKept DEF saveCurrentInfo, Ind, TypeOK

LEMMA AddBlockErrorInd ==
  ASSUME Ind, NEW p \in Peers, AddBlockError(p)
  PROVE  Ind'
<1>1. docs' = docs /\ txns' = txns /\ blk'[p] = NoBlock /\ cache' = cache
      /\ cpInfo' = cpInfo /\ bcInfo' = bcInfo /\ pc'[p] = "idle"
  BY DEF AddBlockError, couch, Ind, TypeOK
<1>2. TypeOK'
  BY SMT DEF Ind, TypeOK, AddBlockError, couch, Status, MaybeBlock
<1>3. Grows /\ StoredChain' /\ IndexLeadsToBlock' /\ IndexedBelow'
  BY <1>1, SameDocuments
<1>4. PeerInv(p)'
  BY <1>1, SMT DEF Ind, PeerInv, Committed, Stored, Indexed, Busy
<1> QED
  BY <1>2, <1>3, <1>4, Collect, CheckpointKept, GossipKept DEF AddBlockError, couch, Ind, TypeOK

\* A validated block that reaches a peer was committed, whether it was gossiped or
\* read from the store below a height some peer announced.
LEMMA PayloadCommitted ==
  ASSUME Ind, NEW payload \in Payloads, isBlockValidated(payload)
  PROVE  payload.block \in Blocks /\ Committed(payload.block)
<1>1. payload.block \in (gossip \cup RequestBlocksInRange) \ {NoBlock}
  BY DEF Payloads, isBlockValidated
<1>2. CASE payload.block \in gossip
  BY <1>2 DEF Ind, TypeOK
<1>3. CASE payload.block \in RequestBlocksInRange
  <2>1. PICK n \in Nums, q \in Peers : n < Height(bcInfo[q]) /\ payload.block = docs[n]
    BY <1>3 DEF RequestBlocksInRange
  <2>2. docs[n] # NoBlock /\ docs[n] \in Blocks /\ n \in Nat
    BY <1>1, <2>1, NumsNat DEF Ind, TypeOK, MaybeBlock
  <2>3. Stored(docs[n])
    BY <2>2 DEF Ind, StoredChain, Stored
  <2>4. bcInfo[q] \in Blocks /\ Committed(bcInfo[q]) /\ Num[bcInfo[q]] \in Nat
        /\ Num[bcInfo[q]] \in Nums /\ n <= Num[bcInfo[q]]
    BY <2>1, <2>2, BlockFacts, SMT DEF Height, Ind, PeerInv, TypeOK, MaybeBlock
  <2>5. Indexed(docs[n])
    <3>1. CASE n = Num[bcInfo[q]]
      BY <3>1, <2>4 DEF Committed, Stored
    <3>2. CASE n # Num[bcInfo[q]]
      BY <3>2, <2>2, <2>4, SMT DEF Ind, IndexedBelow, Committed, Stored
    <3> QED
      BY <3>1, <3>2
  <2> QED
    BY <2>1, <2>2, <2>3, <2>5 DEF Committed
<1> QED
  BY <1>1, <1>2, <1>3

LEMMA StoreValidatedBlockInd ==
  ASSUME Ind, NEW p \in Peers, NEW payload \in Payloads, StoreValidatedBlock(p, payload)
  PROVE  Ind'
<1> DEFINE b == payload.block
<1>1. b \in Blocks /\ Committed(b)
  BY PayloadCommitted DEF StoreValidatedBlock
<1>2. PICK c \in CacheAfterPut(p, b) : cache' = [cache EXCEPT ![p] = c]
  BY DEF StoreValidatedBlock
<1>3. c \subseteq cache[p] \cup {b}
  BY CachePutFacts
<1>4. docs' = docs /\ txns' = txns /\ blk' = [blk EXCEPT ![p] = b] /\ blk'[p] = b
      /\ cpInfo' = cpInfo /\ bcInfo' = bcInfo /\ pc'[p] = "cached" /\ cache'[p] = c
      /\ checkpoint' = checkpoint /\ gossip' = gossip /\ pc' = [pc EXCEPT ![p] = "cached"]
      /\ db' = db /\ faults' = faults
  BY <1>2 DEF StoreValidatedBlock, couch, Ind, TypeOK
<1>5. TypeOK'
  BY <1>1, <1>2, <1>3, <1>4 DEF Ind, TypeOK, Status, MaybeBlock
<1>6. Grows /\ StoredChain' /\ IndexLeadsToBlock' /\ IndexedBelow'
  BY <1>4, SameDocuments
<1>7. PeerInv(p)'
  BY <1>1, <1>3, <1>4, SMT DEF Ind, PeerInv, Committed, Stored, Indexed, Busy
<1> QED
  BY <1>2, <1>4, <1>5, <1>6, <1>7, Collect, CheckpointKept, GossipKept DEF Ind, TypeOK

LEMMA setBlockchainInfoInd ==
  ASSUME Ind, NEW p \in Peers, setBlockchainInfo(p)
  PROVE  Ind'
<1>1. docs' = docs /\ txns' = txns /\ blk' = blk /\ cache' = cache /\ bcInfo'[p] = blk[p]
      /\ cpInfo' = cpInfo /\ pc'[p] = "informed" /\ pc[p] \in {"saved", "cached"}
  BY DEF setBlockchainInfo, couch, Ind, TypeOK
<1>2. TypeOK'
  BY DEF Ind, TypeOK, setBlockchainInfo, couch, Status
<1>3. Grows /\ StoredChain' /\ IndexLeadsToBlock' /\ IndexedBelow'
  BY <1>1, SameDocuments
<1>4. PeerInv(p)'
  BY <1>1, SMT DEF Ind, PeerInv, Committed, Stored, Indexed, Busy
<1> QED
  BY <1>2, <1>3, <1>4, Collect, CheckpointKept, GossipKept
  DEF setBlockchainInfo, couch, Ind, TypeOK

LEMMA updateCheckpointInd ==
  ASSUME Ind, NEW p \in Peers, updateCheckpoint(p)
  PROVE  Ind'
<1>1. docs' = docs /\ txns' = txns /\ cache' = cache /\ bcInfo' = bcInfo /\ pc'[p] = "idle"
      /\ cpInfo'[p] = blk[p] /\ blk'[p] = NoBlock /\ pc[p] = "informed"
      /\ gossip' \subseteq gossip \cup {blk[p]}
  BY DEF updateCheckpoint, gossipBlockAndPrivateData, couch, Ind, TypeOK
<1>2. blk[p] \in Blocks /\ Committed(blk[p])
  BY <1>1 DEF Ind, TypeOK, PeerInv, Busy, Committed, Stored
<1>3. TypeOK'
  BY <1>1, <1>2 DEF Ind, TypeOK, updateCheckpoint, gossipBlockAndPrivateData, couch, Status, MaybeBlock
<1>4. Grows /\ StoredChain' /\ IndexLeadsToBlock' /\ IndexedBelow'
  BY <1>1, SameDocuments
<1>5. PeerInv(p)'
  BY <1>1, <1>2, SMT DEF Ind, PeerInv, Committed, Stored, Indexed, Busy
<1>6. \A b \in gossip' : Committed(b)'
  BY <1>1, <1>2 DEF Ind, Committed, Stored, Indexed
<1> QED
  BY <1>3, <1>4, <1>5, <1>6, Collect, CheckpointKept
  DEF updateCheckpoint, gossipBlockAndPrivateData, couch, Ind, TypeOK

LEMMA loadBlockByNumberInd ==
  ASSUME Ind, NEW p \in Peers, NEW n \in Nums, loadBlockByNumber(p, n)
  PROVE  Ind'
<1>1. PICK c \in CacheAfterPut(p, docs[n]) : cache' = [cache EXCEPT ![p] = c]
  BY DEF loadBlockByNumber
<1>2. c \subseteq cache[p] \cup {docs[n]}
  BY CachePutFacts
<1>3. docs' = docs /\ txns' = txns /\ pc' = pc /\ blk' = blk
      /\ cpInfo' = cpInfo /\ bcInfo' = bcInfo /\ cache'[p] = c /\ docs[n] # NoBlock
  BY <1>1 DEF loadBlockByNumber, couch, Ind, TypeOK
<1>4. Stored(docs[n]) /\ docs[n] \in Blocks
  BY <1>3, SMT DEF Ind, StoredChain, TypeOK, MaybeBlock, Stored
<1>5. TypeOK'
  BY <1>1, <1>2, <1>4 DEF Ind, TypeOK, loadBlockByNumber, couch
<1>6. Grows /\ StoredChain' /\ IndexLeadsToBlock' /\ IndexedBelow'
  BY <1>3, SameDocuments
<1>7. PeerInv(p)'
  BY <1>2, <1>3, <1>4, SMT DEF Ind, PeerInv, Committed, Stored, Indexed, Busy
<1> QED
  BY <1>1, <1>5, <1>6, <1>7, Collect, CheckpointKept, GossipKept
  DEF loadBlockByNumber, couch, Ind, TypeOK

LEMMA CrashInd ==
  ASSUME Ind, NEW p \in Peers, Crash(p)
  PROVE  Ind'
<1>1. docs' = docs /\ txns' = txns /\ cache'[p] = {} /\ bcInfo'[p] = NoBlock
      /\ cpInfo'[p] = NoBlock /\ blk'[p] = NoBlock /\ pc'[p] = "down"
  BY DEF Crash, couch, Ind, TypeOK
<1>2. TypeOK'
  BY SMT DEF Ind, TypeOK, Crash, couch, Status, MaybeBlock
<1>3. Grows /\ StoredChain' /\ IndexLeadsToBlock' /\ IndexedBelow'
  BY <1>1, SameDocuments
<1>4. PeerInv(p)'
  BY <1>1 DEF PeerInv, Busy
<1> QED
  BY <1>2, <1>3, <1>4, Collect, CheckpointKept, GossipKept DEF Crash, couch, Ind, TypeOK

LEMMA StutterInd ==
  ASSUME Ind, UNCHANGED vars
  PROVE  Ind'
BY SMT DEF Ind, vars, TypeOK, StoredChain, IndexLeadsToBlock, IndexedBelow, PeerInv,
       Committed, Stored, Indexed

-----------------------------------------------------------------------------
\* Every step keeps the invariant and the documents.
LEMMA NextInd ==
  ASSUME Ind, [Next]_vars
  PROVE  Ind' /\ Grows
<1>1. CASE UNCHANGED vars
  BY <1>1, StutterInd, SameDocuments DEF vars
<1>2. ASSUME NEW p \in Peers, Open(p) PROVE Ind' /\ Grows
  BY <1>2, LoadCheckpointInd, SaveLoadedCheckpointInd, SameDocuments
  DEF Open, LoadCheckpoint, SaveLoadedCheckpoint
<1>3. ASSUME NEW p \in Peers, AddBlock(p) PROVE Ind' /\ Grows
  <2>1. ASSUME NEW b \in Delivered(p), storeBlock(p, b) PROVE Ind' /\ Grows
    BY <2>1, storeBlockInd
  <2>2. CASE storeTransactions(p)
    BY <2>2, storeTransactionsInd
  <2>3. CASE committerCachePut(p)
    BY <2>3, committerCachePutInd, SameDocuments DEF committerCachePut, couch
  <2>4. CASE saveCurrentInfo(p)
    BY <2>4, saveCurrentInfoInd, SameDocuments DEF saveCurrentInfo
  <2> QED
    BY <1>3, <2>1, <2>2, <2>3, <2>4 DEF AddBlock
<1>4. ASSUME NEW p \in Peers, AddBlockError(p) PROVE Ind' /\ Grows
  BY <1>4, AddBlockErrorInd, SameDocuments DEF AddBlockError, couch
<1>5. ASSUME NEW p \in Peers, Follow(p) PROVE Ind' /\ Grows
  BY <1>5, StoreValidatedBlockInd, SameDocuments DEF Follow, StoreValidatedBlock, couch
<1>6. ASSUME NEW p \in Peers, FinishCheckpoint(p) PROVE Ind' /\ Grows
  BY <1>6, setBlockchainInfoInd, updateCheckpointInd, SameDocuments
  DEF FinishCheckpoint, setBlockchainInfo, updateCheckpoint, gossipBlockAndPrivateData, couch
<1>7. ASSUME NEW p \in Peers, NEW n \in Nums, loadBlockByNumber(p, n) PROVE Ind' /\ Grows
  BY <1>7, loadBlockByNumberInd, SameDocuments DEF loadBlockByNumber, couch
<1>8. ASSUME NEW p \in Peers, Crash(p) PROVE Ind' /\ Grows
  BY <1>8, CrashInd, SameDocuments DEF Crash, couch
<1> QED
  BY <1>1, <1>2, <1>3, <1>4, <1>5, <1>6, <1>7, <1>8 DEF Next

LEMMA Invariance == Spec => []Ind
<1>1. Ind /\ [Next]_vars => Ind'
  BY NextInd
<1> QED
  BY InitInd, <1>1, PTL DEF Spec

\* What the inductive invariant says to a user of the store.
LEMMA IndImplies ==
  ASSUME Ind
  PROVE  NeverPanics /\ ServesItsHeight /\ CommittedTxsIndexed
<1>1. NeverPanics
  BY DEF Ind, PeerInv, NeverPanics, Committed
<1>2. ServesItsHeight
  <2> SUFFICES ASSUME NEW p \in Peers, NEW n \in 0..Height(bcInfo[p]) - 1
               PROVE  n \in Nums /\ docs[n] # NoBlock /\ RetrieveBlockByNumber(p, n) = docs[n]
    BY DEF ServesItsHeight
  <2>1. bcInfo[p] \in Blocks /\ Stored(bcInfo[p]) /\ Num[bcInfo[p]] \in Nat
        /\ Num[bcInfo[p]] \in Nums /\ n \in 0..Num[bcInfo[p]]
    BY BlockFacts, SMTT(30) DEF Height, Ind, PeerInv, TypeOK, MaybeBlock, Committed
  <2>2. n \in Nums /\ docs[n] # NoBlock
    BY <2>1, SMT DEF Ind, StoredChain, Stored
  <2>3. \A b \in cache[p] : Num[b] = n => b = docs[n]
    BY DEF Ind, PeerInv, Stored
  <2> QED
    BY <2>2, <2>3 DEF RetrieveBlockByNumber
<1>3. CommittedTxsIndexed
  <2> SUFFICES ASSUME NEW n \in 0..Height(checkpoint) - 1
               PROVE  Indexed(docs[n]) /\ Num[docs[n]] = n
    BY SMT DEF CommittedTxsIndexed, Indexed
  <2>1. checkpoint \in Blocks /\ Committed(checkpoint) /\ Num[checkpoint] \in Nat
        /\ Num[checkpoint] \in Nums /\ n \in 0..Num[checkpoint]
    BY BlockFacts, SMT DEF Height, Ind, TypeOK, MaybeBlock
  <2>2. n \in Nums /\ docs[n] # NoBlock
    BY <2>1 DEF Ind, StoredChain, Committed, Stored
  <2>3. CASE n = Num[checkpoint]
    BY <2>1, <2>3 DEF Committed, Stored
  <2>4. CASE n # Num[checkpoint]
    BY <2>1, <2>2, <2>4, SMT DEF Ind, IndexedBelow, StoredChain, Committed, Stored
  <2> QED
    BY <2>3, <2>4
<1> QED
  BY <1>1, <1>2, <1>3

-----------------------------------------------------------------------------
\* The variables keep their types.
THEOREM TypeCorrect == Spec => []TypeOK
<1>1. Ind => TypeOK
  BY DEF Ind
<1> QED
  BY Invariance, <1>1, PTL

\* The stored block documents always form one gap-free hash-linked chain, however
\* AddBlock is interrupted and repeated.
THEOREM ChainIntact == Spec => []StoredChain
<1>1. Ind => StoredChain
  BY DEF Ind
<1> QED
  BY Invariance, <1>1, PTL

\* No peer ever finds a checkpoint that names a missing block.
THEOREM OpenNeverPanics == Spec => []NeverPanics
<1>1. Ind => NeverPanics
  BY IndImplies
<1> QED
  BY Invariance, <1>1, PTL

\* Every peer serves, below its height, exactly the blocks of the shared chain.
THEOREM HeightServed == Spec => []ServesItsHeight
<1>1. Ind => ServesItsHeight
  BY IndImplies
<1> QED
  BY Invariance, <1>1, PTL

\* The transaction index is complete up to the checkpoint, names the first use of an
\* ID and never dangles.
THEOREM IndexCorrect == Spec => [](IndexLeadsToBlock /\ CommittedTxsIndexed)
<1>1. Ind => IndexLeadsToBlock /\ CommittedTxsIndexed
  BY IndImplies DEF Ind
<1> QED
  BY Invariance, <1>1, PTL

\* A stored block document is never overwritten with another block and never removed,
\* although SaveDoc overwrites whatever it finds.
THEOREM DocumentsImmutable == Spec => DocsImmutable
<1>1. Ind /\ [Next]_vars => [\A n \in Nums : docs[n] # NoBlock => docs'[n] = docs[n]]_vars
  BY NextInd DEF Grows
<1> QED
  BY Invariance, <1>1, PTL DEF Spec, DocsImmutable

\* For any peers, blocks, crashes and database errors, the chain, the checkpoint and the
\* transaction index fit together between any two database calls (AddBlock,
\* newCDBBlockStore).
THEOREM AlwaysConsistent == Spec => []StoreConsistent
<1>1. Ind => StoreConsistent
  BY IndImplies DEF Ind, StoreConsistent
<1> QED
  BY Invariance, <1>1, PTL

-----------------------------------------------------------------------------
(***************************************************************************)
(* The peers implement the abstract ledger.  The chain is what is stored,  *)
(* which is an initial segment of the numbers (Extent), and a peer that is *)
(* storing a block is at the one above the height it reports (Steady).     *)
(***************************************************************************)
Extent(k) == \A n \in Nat : (n \in Nums /\ docs[n] # NoBlock) <=> n < k

Steady(p) ==
  /\ pc[p] \in {"down", "loaded"} => bcInfo[p] = NoBlock
  /\ pc[p] \in {"idle", "stored", "indexed", "cached", "saved"} => bcInfo[p] = cpInfo[p]
  /\ pc[p] \in {"stored", "indexed", "cached", "saved"} => Num[blk[p]] = Height(bcInfo[p])
  /\ pc[p] = "informed" => bcInfo[p] = blk[p]

Refines == (\E k \in Nat : Extent(k)) /\ \A p \in Peers : Steady(p)

\* The abstract chain of k blocks.
LEMMA ChainOf ==
  ASSUME NEW k \in Nat, Extent(k)
  PROVE  StoredCount = k
<1>1. {n \in Nums : docs[n] # NoBlock} = 0..k - 1
  <2>1. ASSUME NEW n \in Nums, docs[n] # NoBlock PROVE n \in 0..k - 1
    <3>1. n \in Nat
      BY NumsNat
    <3> QED
      BY <2>1, <3>1, SMT DEF Extent
  <2>2. 0..k - 1 \subseteq {n \in Nums : docs[n] # NoBlock}
    BY SMT DEF Extent
  <2> QED
    BY <2>1, <2>2
<1>2. Cardinality(0..k - 1) = k
  <2>1. CASE k = 0
    BY <2>1, FS_Interval, SMT
  <2>2. CASE k > 0
    BY <2>2, FS_Interval, SMT
  <2> QED
    BY <2>1, <2>2, SMT
<1> QED
  BY <1>1, <1>2 DEF StoredCount

LEMMA HeightNat == ASSUME NEW b \in MaybeBlock PROVE Height(b) \in Nat
BY BlockFacts, SMT DEF Height, MaybeBlock

LEMMA InitRefines == Init => Refines
<1> SUFFICES ASSUME Init PROVE Refines
  OBVIOUS
<1>1. Extent(0)
  BY SMT DEF Init, Extent
<1>2. \A p \in Peers : Steady(p)
  BY DEF Init, Steady
<1> QED
  BY <1>1, <1>2 DEF Refines

\* A step of p leaves the other peers as they are.
LEMMA SteadyOthers ==
  ASSUME Refines, NEW p \in Peers, Steady(p)',
         \A q \in Peers \ {p} : /\ pc'[q] = pc[q] /\ cpInfo'[q] = cpInfo[q]
                                /\ bcInfo'[q] = bcInfo[q] /\ blk'[q] = blk[q]
  PROVE  \A q \in Peers : Steady(q)'
<1> TAKE q \in Peers
<1>1. CASE q = p
  BY <1>1
<1>2. CASE q # p
  BY <1>2, SMT DEF Refines, Steady, Height
<1> QED
  BY <1>1, <1>2

LEMMA SameExtent ==
  ASSUME Refines, UNCHANGED docs
  PROVE  \E k \in Nat : Extent(k) /\ Extent(k)'
BY DEF Refines, Extent

\* storeBlock writes a block that is stored already, or the one above the chain.
LEMMA StoreExtent ==
  ASSUME Ind, NEW k \in Nat, Extent(k), NEW p \in Peers, NEW b \in Delivered(p), storeBlock(p, b)
  PROVE  \/ UNCHANGED docs /\ Extent(k)'
         \/ /\ Num[b] = k /\ docs' = [docs EXCEPT ![k] = b] /\ Extent(k + 1)'
            /\ k > 0 => Prev[b] = docs[k - 1]
<1>1. /\ b \in Blocks /\ Num[b] \in Nat /\ Num[b] \in Nums
      /\ docs[Num[b]] # NoBlock => docs[Num[b]] = b
      /\ Num[b] > 0 => /\ Num[b] - 1 \in Nums /\ docs[Num[b] - 1] # NoBlock
                       /\ Prev[b] = docs[Num[b] - 1]
  BY StoreSame, BlockFacts DEF Delivered
<1>2. docs' = [docs EXCEPT ![Num[b]] = b] /\ docs \in [Nums -> MaybeBlock] /\ b # NoBlock
  BY <1>1 DEF storeBlock, Ind, TypeOK
<1>3. CASE docs[Num[b]] # NoBlock
  <2>1. docs' = docs
    BY <1>1, <1>2, <1>3
  <2> QED
    BY <2>1 DEF Extent
<1>4. CASE docs[Num[b]] = NoBlock
  <2>1. ~(Num[b] < k)
    BY <1>1, <1>4 DEF Extent
  <2>2. Num[b] > 0 => Num[b] - 1 < k
    BY <1>1, SMT DEF Extent
  <2>3. Num[b] = k
    BY <1>1, <2>1, <2>2, SMT
  <2>4. Extent(k + 1)'
    <3> SUFFICES ASSUME NEW n \in Nat
                 PROVE  (n \in Nums /\ docs'[n] # NoBlock) <=> n < k + 1
      BY DEF Extent
    <3>1. CASE n = k
      BY <1>1, <1>2, <2>3, <3>1, SMT
    <3>2. CASE n # k
      <4>1. n \in Nums => docs'[n] = docs[n]
        BY <1>2, <2>3, <3>2
      <4> QED
        BY <3>2, <4>1, SMT DEF Extent
    <3> QED
      BY <3>1, <3>2
  <2> QED
    BY <1>1, <1>2, <2>3, <2>4
<1> QED
  BY <1>3, <1>4

-----------------------------------------------------------------------------
(* Every step is one of the abstract ledger, or changes nothing of it.     *)

chain == [i \in 1..StoredCount |-> docs[i - 1]]
height == [p \in Peers |-> Height(bcInfo[p])]

\* A step that changes neither the documents nor the height of a peer.
LEMMA ViewSame ==
  ASSUME UNCHANGED <<docs, bcInfo>>
  PROVE  UNCHANGED LedgerView!vars
<1>1. chain' = chain
  BY DEF chain, StoredCount
<1>2. height' = height
  BY DEF height, Height
<1> QED
  BY <1>1, <1>2 DEF LedgerView!vars, chain, height

\* A step that changes the height of p only.
LEMMA ViewHeight ==
  ASSUME Ind, NEW p \in Peers, NEW h, Height(bcInfo'[p]) = h, UNCHANGED docs,
         \A q \in Peers \ {p} : bcInfo'[q] = bcInfo[q]
  PROVE  /\ UNCHANGED chain /\ height' = [height EXCEPT ![p] = h]
<1>1. chain' = chain
  BY DEF chain, StoredCount
<1>2. \A q \in Peers : height'[q] = [height EXCEPT ![p] = h][q]
  BY DEF height, Height
<1>3. height' = [height EXCEPT ![p] = h]
  BY <1>2 DEF height
<1> QED
  BY <1>1, <1>3

\* storeBlock appends a block, or repeats a write.
LEMMA StoreAppends ==
  ASSUME Ind, Refines, NEW p \in Peers, NEW b \in Delivered(p), storeBlock(p, b)
  PROVE  LedgerView!Next \/ UNCHANGED LedgerView!vars
<1>1. PICK k \in Nat : Extent(k)
  BY DEF Refines
<1>2. bcInfo' = bcInfo
  BY DEF storeBlock
<1>3. CASE UNCHANGED docs
  BY <1>2, <1>3, ViewSame
<1>4. CASE /\ Num[b] = k /\ docs' = [docs EXCEPT ![k] = b] /\ Extent(k + 1)'
           /\ k > 0 => Prev[b] = docs[k - 1]
  <2>1. StoredCount = k
    BY <1>1, ChainOf
  <2>2. StoredCount' = k + 1
    <3>1. {n \in Nums : docs'[n] # NoBlock} = 0..k
      <4>1. ASSUME NEW n \in Nums, docs'[n] # NoBlock PROVE n \in 0..k
        <5>1. n \in Nat
          BY NumsNat
        <5> QED
          BY <1>4, <4>1, <5>1, SMT DEF Extent
      <4>2. 0..k \subseteq {n \in Nums : docs'[n] # NoBlock}
        BY <1>4, SMT DEF Extent
      <4> QED
        BY <4>1, <4>2
    <3>2. Cardinality(0..k) = k + 1
      BY FS_Interval, SMT
    <3> QED
      BY <3>1, <3>2 DEF StoredCount
  <2>3. chain = [i \in 1..k |-> docs[i - 1]] /\ chain' = [i \in 1..k + 1 |-> docs'[i - 1]]
    BY <2>1, <2>2 DEF chain
  <2>4. b \in Blocks /\ k \in Nums /\ docs \in [Nums -> MaybeBlock]
    BY <1>4, BlockFacts DEF Delivered, Ind, TypeOK
  <2>5. \A i \in 1..k : docs'[i - 1] = docs[i - 1]
    BY <1>4, <2>4, SMT
  <2>6. docs'[k] = b
    BY <1>4, <2>4
  <2>7. /\ Len(chain) = k /\ k > 0 => chain[k] = docs[k - 1]
        /\ Append(chain, b) = [i \in 1..k + 1 |-> IF i <= k THEN docs[i - 1] ELSE b]
    BY <2>3, SMT
  <2>8. chain' = Append(chain, b)
    BY <2>3, <2>5, <2>6, <2>7, SMT
  <2>9. Len(chain) > 0 => Prev[b] = chain[Len(chain)]
    BY <1>4, <2>7, SMT
  <2>10. UNCHANGED height
    BY <1>2 DEF height, Height
  <2>11. LedgerView!Append1(b)
    BY <2>8, <2>9, <2>10 DEF LedgerView!Append1, LedgerView!LinksTo, chain, height
  <2> QED
    BY <2>4, <2>11 DEF LedgerView!Next
<1> QED
  BY <1>1, <1>3, <1>4, StoreExtent

\* A peer whose height is 0 comes back at a height that the chain covers.
LEMMA SaveOpens ==
  ASSUME Ind, Refines, NEW p \in Peers, SaveLoadedCheckpoint(p)
  PROVE  /\ LedgerView!Next \/ UNCHANGED LedgerView!vars
         /\ Steady(p)'
<1>0. pc[p] = "loaded" /\ UNCHANGED <<docs, cpInfo, blk>> /\ bcInfo[p] = NoBlock
  BY DEF SaveLoadedCheckpoint, Refines, Steady
<1>1. cpInfo[p] \in MaybeBlock /\ (cpInfo[p] # NoBlock => Committed(cpInfo[p]))
  BY DEF Ind, TypeOK, PeerInv
<1>2. pc' = [pc EXCEPT ![p] = "idle"] /\ bcInfo' = [bcInfo EXCEPT ![p] = cpInfo[p]]
      /\ pc'[p] = "idle" /\ bcInfo'[p] = cpInfo[p]
  BY <1>1 DEF SaveLoadedCheckpoint, Committed, Stored, Ind, TypeOK
<1>3. Steady(p)'
  BY <1>0, <1>2 DEF Steady
<1>4. CASE cpInfo[p] = NoBlock
  <2>1. bcInfo' = bcInfo
    BY <1>0, <1>2, <1>4 DEF Ind, TypeOK
  <2> QED
    BY <1>0, <1>3, <2>1, ViewSame
<1>5. CASE cpInfo[p] # NoBlock
  <2>1. cpInfo[p] \in Blocks /\ Stored(cpInfo[p])
    BY <1>1, <1>5 DEF MaybeBlock, Committed
  <2>2. PICK k \in Nat : Extent(k)
    BY DEF Refines
  <2>3. Height(cpInfo[p]) \in 1..k
    <3>1. Num[cpInfo[p]] \in Nat /\ Num[cpInfo[p]] \in Nums /\ docs[Num[cpInfo[p]]] # NoBlock
      BY <1>5, <2>1, BlockFacts DEF Stored
    <3>2. Num[cpInfo[p]] < k
      BY <2>2, <3>1 DEF Extent
    <3> QED
      BY <1>5, <3>1, <3>2, SMT DEF Height
  <2>4. StoredCount = k
    BY <2>2, ChainOf
  <2>5. Len(chain) = k
    BY <2>4, SMT DEF chain
  <2>6. UNCHANGED chain /\ height' = [height EXCEPT ![p] = Height(cpInfo[p])]
    BY <1>0, <1>2, ViewHeight DEF Ind, TypeOK
  <2>7. height[p] = 0
    BY <1>0 DEF height, Height
  <2>8. LedgerView!Open(p)
    BY <2>3, <2>5, <2>6, <2>7 DEF LedgerView!Open, chain, height
  <2> QED
    BY <1>3, <2>8 DEF LedgerView!Next
<1> QED
  BY <1>4, <1>5

\* The height of a peer grows by one, to a block that is stored.
LEMMA InfoAdvances ==
  ASSUME Ind, Refines, NEW p \in Peers, setBlockchainInfo(p)
  PROVE  /\ LedgerView!Next /\ Steady(p)'
<1>1. /\ pc[p] \in {"cached", "saved"} /\ UNCHANGED <<docs, cpInfo, blk>>
      /\ bcInfo' = [bcInfo EXCEPT ![p] = blk[p]] /\ pc' = [pc EXCEPT ![p] = "informed"]
  BY DEF setBlockchainInfo, couch
<1>2. bcInfo'[p] = blk[p] /\ pc'[p] = "informed" /\ bcInfo[p] \in MaybeBlock
  BY <1>1 DEF Ind, TypeOK
<1>3. Steady(p)'
  BY <1>1, <1>2 DEF Steady
<1>4. blk[p] \in Blocks /\ Stored(blk[p]) /\ blk[p] # NoBlock
  BY <1>1 DEF Ind, PeerInv, TypeOK, MaybeBlock, Busy
<1>5. Num[blk[p]] = Height(bcInfo[p])
  BY <1>1 DEF Refines, Steady
<1>6. PICK k \in Nat : Extent(k)
  BY DEF Refines
<1>7. Num[blk[p]] \in Nat /\ Num[blk[p]] < k
  BY <1>4, <1>6, BlockFacts DEF Stored, Extent
<1>8. Height(blk[p]) = Height(bcInfo[p]) + 1
  BY <1>4, <1>5 DEF Height
<1>9. StoredCount = k
  BY <1>6, ChainOf
<1>10. Len(chain) = k /\ height[p] = Height(bcInfo[p])
  BY <1>9, SMT DEF chain, height
<1>11. UNCHANGED chain /\ height' = [height EXCEPT ![p] = height[p] + 1]
  BY <1>1, <1>2, <1>8, <1>10, ViewHeight, SMT DEF Ind, TypeOK
<1>12. LedgerView!Advance(p)
  BY <1>5, <1>7, <1>10, <1>11 DEF LedgerView!Advance, chain, height
<1> QED
  BY <1>3, <1>12 DEF LedgerView!Next

LEMMA CrashCloses ==
  ASSUME Ind, Refines, NEW p \in Peers, Crash(p)
  PROVE  LedgerView!Next /\ Steady(p)'
<1>1. UNCHANGED docs /\ bcInfo' = [bcInfo EXCEPT ![p] = NoBlock] /\ pc' = [pc EXCEPT ![p] = "down"]
  BY DEF Crash, couch
<1>2. bcInfo'[p] = NoBlock /\ pc'[p] = "down"
  BY <1>1 DEF Ind, TypeOK
<1>3. Steady(p)'
  BY <1>2 DEF Steady
<1>4. UNCHANGED chain /\ height' = [height EXCEPT ![p] = 0]
  BY <1>1, <1>2, ViewHeight DEF Ind, TypeOK, Height
<1>5. LedgerView!Close(p)
  BY <1>4 DEF LedgerView!Close, chain, height
<1> QED
  BY <1>3, <1>5 DEF LedgerView!Next

\* What a peer does between is not seen in the ledger.
LEMMA UnseenSteps ==
  ASSUME Ind, Refines, NEW p \in Peers,
         \/ LoadCheckpoint(p) \/ storeTransactions(p) \/ committerCachePut(p)
         \/ saveCurrentInfo(p) \/ AddBlockError(p) \/ Follow(p) \/ updateCheckpoint(p)
         \/ \E n \in Nums : loadBlockByNumber(p, n)
  PROVE  UNCHANGED <<docs, bcInfo>> /\ Steady(p)'
<1>0. /\ Steady(p) /\ pc \in [Peers -> Status] /\ blk \in [Peers -> MaybeBlock]
      /\ cpInfo \in [Peers -> MaybeBlock]
  BY DEF Refines, Ind, TypeOK
<1>1. UNCHANGED <<docs, bcInfo>>
  BY DEF LoadCheckpoint, storeTransactions, committerCachePut, saveCurrentInfo, AddBlockError, Follow,
         StoreValidatedBlock, updateCheckpoint, loadBlockByNumber, couch
<1>2. CASE LoadCheckpoint(p)
  BY <1>0, <1>1, <1>2 DEF LoadCheckpoint, Steady
<1>3. CASE storeTransactions(p) \/ committerCachePut(p) \/ saveCurrentInfo(p)
  BY <1>0, <1>1, <1>3 DEF storeTransactions, committerCachePut, saveCurrentInfo, Steady, Height
<1>4. CASE AddBlockError(p)
  BY <1>0, <1>1, <1>4 DEF AddBlockError, Steady
<1>5. CASE Follow(p)
  <2>1. PICK payload \in Payloads : StoreValidatedBlock(p, payload)
    BY <1>5 DEF Follow
  <2>2. /\ pc[p] = "idle" /\ pc'[p] = "cached" /\ blk'[p] = payload.block /\ UNCHANGED cpInfo
        /\ Num[payload.block] = Height(bcInfo[p])
    BY <1>0, <2>1 DEF StoreValidatedBlock
  <2> QED
    BY <1>0, <1>1, <2>2 DEF Steady, Height
<1>6. CASE updateCheckpoint(p)
  BY <1>0, <1>1, <1>6 DEF updateCheckpoint, Steady
<1>7. CASE \E n \in Nums : loadBlockByNumber(p, n)
  BY <1>0, <1>1, <1>7 DEF loadBlockByNumber, Steady, Height
<1> QED
  BY <1>1, <1>2, <1>3, <1>4, <1>5, <1>6, <1>7

\* The block that is stored is the one above the height of the committer.
LEMMA StoreSteady ==
  ASSUME Ind, Refines, NEW p \in Peers, NEW b \in Delivered(p), storeBlock(p, b)
  PROVE  Steady(p)'
<1>0. Steady(p) /\ pc \in [Peers -> Status] /\ blk \in [Peers -> MaybeBlock]
  BY DEF Refines, Ind, TypeOK
<1>1. /\ pc[p] = "idle" /\ pc'[p] = "stored" /\ blk'[p] = b /\ UNCHANGED <<cpInfo, bcInfo>>
      /\ validateBlock(p, b)
  BY <1>0 DEF storeBlock
<1>2. Num[b] = Height(cpInfo[p])
  BY <1>1 DEF validateBlock, Delivered, Height
<1> QED
  BY <1>0, <1>1, <1>2 DEF Steady, Height

\* Every step keeps Refines and maps to a step of the abstract ledger or to a stutter.
LEMMA StepRefines ==
  ASSUME Ind, Refines, [Next]_vars
  PROVE  Refines' /\ (LedgerView!Next \/ UNCHANGED LedgerView!vars)
<1> DEFINE Step == LedgerView!Next \/ UNCHANGED LedgerView!vars
<1> HIDE DEF Step
<1>1. CASE UNCHANGED vars
  <2>1. UNCHANGED <<docs, bcInfo, pc, cpInfo, blk>>
    BY <1>1 DEF vars
  <2>2. Refines'
    BY <2>1 DEF Refines, Extent, Steady, Height
  <2> QED
    BY <2>1, <2>2, ViewSame DEF Step
<1>2. ASSUME NEW p \in Peers,
             \/ Open(p) \/ AddBlock(p) \/ AddBlockError(p) \/ Follow(p) \/ FinishCheckpoint(p)
             \/ \E n \in Nums : loadBlockByNumber(p, n)
             \/ Crash(p)
      PROVE  Refines' /\ Step
  <2>0. \/ LoadCheckpoint(p) \/ storeTransactions(p) \/ committerCachePut(p)
        \/ saveCurrentInfo(p) \/ AddBlockError(p) \/ Follow(p) \/ updateCheckpoint(p)
        \/ \E n \in Nums : loadBlockByNumber(p, n)
        \/ SaveLoadedCheckpoint(p) \/ setBlockchainInfo(p) \/ Crash(p)
        \/ \E b \in Delivered(p) : storeBlock(p, b)
    BY <1>2 DEF Open, AddBlock, FinishCheckpoint
  <2>1. \A q \in Peers \ {p} : /\ pc'[q] = pc[q] /\ cpInfo'[q] = cpInfo[q]
                               /\ bcInfo'[q] = bcInfo[q] /\ blk'[q] = blk[q]
    <3> SUFFICES ASSUME NEW q \in Peers \ {p}
                 PROVE  /\ pc'[q] = pc[q] /\ cpInfo'[q] = cpInfo[q]
                        /\ bcInfo'[q] = bcInfo[q] /\ blk'[q] = blk[q]
      OBVIOUS
    <3>0. pc = [r \in Peers |-> pc[r]] /\ cpInfo = [r \in Peers |-> cpInfo[r]]
          /\ bcInfo = [r \in Peers |-> bcInfo[r]] /\ blk = [r \in Peers |-> blk[r]]
      BY DEF Ind, TypeOK
    <3>1. CASE LoadCheckpoint(p) \/ SaveLoadedCheckpoint(p)
      BY <3>0, <3>1 DEF LoadCheckpoint, SaveLoadedCheckpoint
    <3>2. ASSUME NEW b \in Delivered(p), storeBlock(p, b)
          PROVE  /\ pc'[q] = pc[q] /\ cpInfo'[q] = cpInfo[q]
                 /\ bcInfo'[q] = bcInfo[q] /\ blk'[q] = blk[q]
      BY <3>0, <3>2 DEF storeBlock
    <3>3. CASE storeTransactions(p) \/ committerCachePut(p) \/ saveCurrentInfo(p)
      BY <3>0, <3>3 DEF storeTransactions, committerCachePut, saveCurrentInfo
    <3>4. CASE AddBlockError(p) \/ Follow(p) \/ \E n \in Nums : loadBlockByNumber(p, n)
      BY <3>0, <3>4 DEF AddBlockError, Follow, StoreValidatedBlock, loadBlockByNumber
    <3>5. CASE setBlockchainInfo(p) \/ updateCheckpoint(p) \/ Crash(p)
      BY <3>0, <3>5 DEF setBlockchainInfo, updateCheckpoint, Crash
    <3> QED BY <2>0, <3>1, <3>2, <3>3, <3>4, <3>5
  <2>2. SUFFICES (\E k \in Nat : Extent(k)') /\ Steady(p)' /\ Step
    BY <2>1, SteadyOthers DEF Refines
  <2>3. CASE \/ LoadCheckpoint(p) \/ storeTransactions(p) \/ committerCachePut(p)
             \/ saveCurrentInfo(p) \/ AddBlockError(p) \/ Follow(p) \/ updateCheckpoint(p)
             \/ \E n \in Nums : loadBlockByNumber(p, n)
    BY <2>3, UnseenSteps, SameExtent, ViewSame DEF Step
  <2>4. CASE SaveLoadedCheckpoint(p)
    BY <2>4, SaveOpens, SameExtent DEF SaveLoadedCheckpoint, Step
  <2>5. CASE setBlockchainInfo(p)
    BY <2>5, InfoAdvances, SameExtent DEF setBlockchainInfo, couch, Step
  <2>6. CASE Crash(p)
    BY <2>6, CrashCloses, SameExtent DEF Crash, couch, Step
  <2>7. ASSUME NEW b \in Delivered(p), storeBlock(p, b)
        PROVE  (\E k \in Nat : Extent(k)') /\ Steady(p)' /\ Step
    <3>1. PICK k \in Nat : Extent(k)
      BY DEF Refines
    <3>2. Extent(k)' \/ Extent(k + 1)'
      BY <2>7, <3>1, StoreExtent
    <3>3. k + 1 \in Nat
      BY SMT
    <3> QED
      BY <2>7, <3>2, <3>3, StoreSteady, StoreAppends DEF Step
  <2> QED
    BY <2>0, <2>3, <2>4, <2>5, <2>6, <2>7
<1> QED
  BY <1>1, <1>2 DEF Next, Step

\* For any peers, blocks, crashes and database errors, the shared store and the peers that
\* follow it implement the abstract ledger: one chain that only grows, and at every peer a
\* height that moves one block at a time within it (AddBlock, CheckpointBlock,
\* newCDBBlockStore).
THEOREM RefinesLedger == Spec => ImplementsLedger
<1>1. Init => LedgerView!Init
  <2> SUFFICES ASSUME Init PROVE LedgerView!Init
    OBVIOUS
  <2>1. Extent(0)
    BY SMT DEF Init, Extent
  <2>2. StoredCount = 0
    BY <2>1, ChainOf
  <2>3. chain = << >>
    BY <2>2, SMT DEF chain
  <2>4. height = [p \in Peers |-> 0]
    BY DEF Init, height, Height
  <2> QED
    BY <2>3, <2>4 DEF LedgerView!Init, chain, height
<1>2. Ind /\ Refines /\ [Next]_vars => Refines' /\ [LedgerView!Next]_(LedgerView!vars)
  BY StepRefines
<1> QED
  BY <1>1, <1>2, InitRefines, InitInd, NextInd, PTL DEF Spec, ImplementsLedger, LedgerView!Spec
=============================================================================
