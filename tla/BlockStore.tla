----------------------------- MODULE BlockStore -----------------------------
(***************************************************************************)
(* The CouchDB block store of one channel, shared by the peers of an       *)
(* organisation (pkg/blkstorage/cdbblkstorage), driven by the gossip state *)
(* extension (mod/peer/gossip/state).  The committer writes block          *)
(* documents, transaction documents and the checkpoint document, one       *)
(* database call at a time; the other peers follow it by checkpointing the *)
(* validated blocks it publishes in their own memory.  Any peer may crash  *)
(* between two calls and open the store again.                             *)
(*                                                                         *)
(* A block stands for its header hash: hashes are collision free, so       *)
(* "the previous hash in b's header is the hash of c" is Prev[b] = c.      *)
(***************************************************************************)
EXTENDS Naturals, FiniteSets

CONSTANTS Peers,       \* the peers that open the store
          Committer,   \* the one peer with the committer role
          Blocks,      \* every block that may be delivered
          NoBlock,     \* a missing document, an empty chain
          Num,         \* Num[b]: the number in b's header
          Prev,        \* Prev[b]: the block whose hash is in b's header
          TxIDs,       \* transaction IDs
          Txs,         \* Txs[b]: the IDs of the transactions in b
          CacheSize,   \* capacity of the block-by-number cache, 0 when disabled
          MaxFaults   \* bound on the crashes and database errors of one behaviour

Nums == {Num[b] : b \in Blocks}

ASSUME PeersAssumption == Committer \in Peers

ASSUME BlocksAssumption ==
  /\ NoBlock \notin Blocks
  /\ Num \in [Blocks -> Nat]
  /\ Prev \in [Blocks -> Blocks \cup {NoBlock}]
  /\ Txs \in [Blocks -> SUBSET TxIDs]

\* The ordering service delivers one genesis block and does not fork: two
\* blocks with the same number and the same predecessor are the same block.
\* Other blocks (a wrong number or a wrong predecessor) may still arrive.
ASSUME OrderingAssumption ==
  /\ \A b, c \in Blocks : Num[b] = 0 /\ Num[c] = 0 => b = c
  /\ \A b, c \in Blocks : Num[b] = Num[c] /\ Prev[b] = Prev[c] => b = c

ASSUME BoundsAssumption == CacheSize \in Nat /\ MaxFaults \in Nat

VARIABLES
  db,         \* whether the channel's databases and their index exist
  docs,       \* block documents: docs[n] is the block stored under number n
  txns,       \* transaction documents: txns[t] is the block t's document names
  checkpoint, \* the checkpoint document: the last block, NoBlock if chain empty
  pc,         \* pc[p]: where p is in opening the store or in storing a block
  cpInfo,     \* cpInfo[p]: p's checkpoint information, in memory
  bcInfo,     \* bcInfo[p]: the last block of p's blockchain information
  cache,      \* cache[p]: the blocks in p's block cache
  blk,        \* blk[p]: the block p is storing
  gossip,     \* the validated blocks the committer has gossiped
  faults

couch == <<db, docs, txns, checkpoint>>
vars == <<db, docs, txns, checkpoint, pc, cpInfo, bcInfo, cache, blk, gossip, faults>>

MaybeBlock == Blocks \cup {NoBlock}

IsCommitter(p) == p = Committer

\* The height that belongs to a last block.
Height(b) == IF b = NoBlock THEN 0 ELSE Num[b] + 1

-----------------------------------------------------------------------------
Init == /\ db = "absent"
        /\ docs = [n \in Nums |-> NoBlock]
        /\ txns = [t \in TxIDs |-> NoBlock]
        /\ checkpoint = NoBlock
        /\ pc = [p \in Peers |-> "down"]
        /\ cpInfo = [p \in Peers |-> NoBlock]
        /\ bcInfo = [p \in Peers |-> NoBlock]
        /\ cache = [p \in Peers |-> {}]
        /\ blk = [p \in Peers |-> NoBlock]
        /\ gossip = {}
        /\ faults = 0

\* The cache after b is put into it: b, and of the others as many as fit.  Which
\* ones the LRU policy evicts is left open.
CacheAfterPut(p, b) ==
  IF CacheSize = 0 THEN {{}}
  ELSE {kept \cup {b} : kept \in {s \in SUBSET cache[p] : Cardinality(s \ {b}) < CacheSize}}

\* Opening the store: the committer creates the databases if need be, another peer
\* fails if there are none; then the checkpoint document is read ...
LoadCheckpoint(p) ==
  /\ pc[p] = "down"
  /\ IsCommitter(p) \/ db = "present"
  /\ db' = "present"
  /\ cpInfo' = [cpInfo EXCEPT ![p] = checkpoint]
  /\ pc' = [pc EXCEPT ![p] = "loaded"]
  /\ UNCHANGED <<docs, txns, checkpoint, bcInfo, cache, blk, gossip, faults>>

\* ... and saved back, whatever the role of the peer, and the blockchain
\* information is built from the last block, whose absence is a panic.
SaveLoadedCheckpoint(p) ==
  /\ pc[p] = "loaded"
  /\ checkpoint' = cpInfo[p]
  /\ LET last == IF cpInfo[p] = NoBlock THEN NoBlock ELSE docs[Num[cpInfo[p]]]
         panic == cpInfo[p] # NoBlock /\ last = NoBlock
     IN /\ bcInfo' = [bcInfo EXCEPT ![p] = last]
        /\ pc' = [pc EXCEPT ![p] = IF panic THEN "panicked" ELSE "idle"]
  /\ UNCHANGED <<db, docs, txns, cpInfo, cache, blk, gossip, faults>>

-----------------------------------------------------------------------------
(* The committer adds a block.                                             *)

\* What is delivered to the committer: a ledger is created with its genesis block,
\* after that any block may come.
Delivered(p) == {b \in Blocks : cpInfo[p] = NoBlock => Num[b] = 0}

\* Mutant: the hash of the previous block is not compared.
validateBlock_NoHash(p, b) == cpInfo[p] # NoBlock => Num[b] = Num[cpInfo[p]] + 1

validateBlock(p, b) ==
  cpInfo[p] # NoBlock => /\ Num[b] = Num[cpInfo[p]] + 1
                         /\ Prev[b] = cpInfo[p]

storeBlock(p, b) ==
  /\ pc[p] = "idle"
  /\ IsCommitter(p)
  /\ validateBlock(p, b)
  /\ docs' = [docs EXCEPT ![Num[b]] = b]
  /\ blk' = [blk EXCEPT ![p] = b]
  /\ pc' = [pc EXCEPT ![p] = "stored"]
  /\ UNCHANGED <<db, txns, checkpoint, cpInfo, bcInfo, cache, gossip, faults>>

\* The documents carry no revision: CouchDB refuses the ones that exist already
\* and the responses of the batch are not looked at.
storeTransactions(p) ==
  /\ pc[p] = "stored"
  /\ txns' = [t \in TxIDs |-> IF t \in Txs[blk[p]] /\ txns[t] = NoBlock
                              THEN blk[p] ELSE txns[t]]
  /\ pc' = [pc EXCEPT ![p] = "indexed"]
  /\ UNCHANGED <<db, docs, checkpoint, cpInfo, bcInfo, cache, blk, gossip, faults>>

\* CheckpointBlock, first step: the block goes into the cache.
committerCachePut(p) ==
  /\ pc[p] = "indexed"
  /\ \E c \in CacheAfterPut(p, blk[p]) : cache' = [cache EXCEPT ![p] = c]
  /\ pc' = [pc EXCEPT ![p] = "cached"]
  /\ UNCHANGED <<couch, cpInfo, bcInfo, blk, gossip, faults>>

saveCurrentInfo(p) ==
  /\ pc[p] = "cached"
  /\ IsCommitter(p)
  /\ checkpoint' = blk[p]
  /\ pc' = [pc EXCEPT ![p] = "saved"]
  /\ UNCHANGED <<db, docs, txns, cpInfo, bcInfo, cache, blk, gossip, faults>>

\* A database call of the committer fails and AddBlock returns its error.
AddBlockError(p) ==
  /\ IsCommitter(p)
  /\ pc[p] \in {"stored", "cached"}
  /\ faults < MaxFaults
  /\ faults' = faults + 1
  /\ pc' = [pc EXCEPT ![p] = "idle"]
  /\ blk' = [blk EXCEPT ![p] = NoBlock]
  /\ UNCHANGED <<couch, cpInfo, bcInfo, cache, gossip>>

-----------------------------------------------------------------------------
(* The other peers follow.                                                 *)

\* RequestBlocksInRange: a peer that is behind the height some peer announces reads
\* the missing blocks from the shared store.
RequestBlocksInRange == {docs[n] : n \in {m \in Nums : \E q \in Peers : m < Height(bcInfo[q])}}

\* What reaches a peer: blocks straight from the ordering service, with no
\* validation flags, and validated ones, by gossip or read from the shared store.
Payloads == [block : Blocks, validated : {FALSE}]
            \cup [block : (gossip \cup RequestBlocksInRange) \ {NoBlock}, validated : {TRUE}]

\* Mutant: a block from the ordering service is taken for validated.
isBlockValidated_Any(payload) == TRUE

isBlockValidated(payload) == payload.validated

\* Mutant: any block is stored, whatever its number.
StoreValidatedBlock_AnyNumber(p, payload) ==
  /\ pc[p] = "idle"
  /\ ~IsCommitter(p)
  /\ isBlockValidated(payload)
  /\ \E c \in CacheAfterPut(p, payload.block) : cache' = [cache EXCEPT ![p] = c]
  /\ blk' = [blk EXCEPT ![p] = payload.block]
  /\ pc' = [pc EXCEPT ![p] = "cached"]
  /\ UNCHANGED <<couch, cpInfo, bcInfo, gossip, faults>>

\* StoreBlock of a peer that is not the committer, up to the end of cache.put.
\* The payload buffer hands over the block at the peer's height and no other.
StoreValidatedBlock(p, payload) ==
  /\ pc[p] = "idle"
  /\ ~IsCommitter(p)
  /\ isBlockValidated(payload)
  /\ Num[payload.block] = Height(bcInfo[p])
  /\ \E c \in CacheAfterPut(p, payload.block) : cache' = [cache EXCEPT ![p] = c]
  /\ blk' = [blk EXCEPT ![p] = payload.block]
  /\ pc' = [pc EXCEPT ![p] = "cached"]
  /\ UNCHANGED <<couch, cpInfo, bcInfo, gossip, faults>>

-----------------------------------------------------------------------------
(* The end of CheckpointBlock, the same for every peer.                    *)

setBlockchainInfo(p) ==
  /\ pc[p] = IF IsCommitter(p) THEN "saved" ELSE "cached"
  /\ bcInfo' = [bcInfo EXCEPT ![p] = blk[p]]
  /\ pc' = [pc EXCEPT ![p] = "informed"]
  /\ UNCHANGED <<couch, cpInfo, cache, blk, gossip, faults>>

\* When the block is stored the committer gossips it to the rest of its organisation.
gossipBlockAndPrivateData(p) == gossip' = IF IsCommitter(p) THEN gossip \cup {blk[p]} ELSE gossip

\* Mutant: the checkpoint in memory is not updated.
updateCheckpoint_Forgotten(p) ==
  /\ pc[p] = "informed"
  /\ gossipBlockAndPrivateData(p)
  /\ blk' = [blk EXCEPT ![p] = NoBlock]
  /\ pc' = [pc EXCEPT ![p] = "idle"]
  /\ UNCHANGED <<couch, cpInfo, bcInfo, cache, faults>>

\* updateCheckpoint; then CheckpointBlock returns and StoreBlock goes on.
updateCheckpoint(p) ==
  /\ pc[p] = "informed"
  /\ cpInfo' = [cpInfo EXCEPT ![p] = blk[p]]
  /\ gossipBlockAndPrivateData(p)
  /\ blk' = [blk EXCEPT ![p] = NoBlock]
  /\ pc' = [pc EXCEPT ![p] = "idle"]
  /\ UNCHANGED <<couch, bcInfo, cache, faults>>

\* RetrieveBlockByNumber of a block that is not cached loads it into the cache,
\* at any moment, also while another goroutine stores a block.
loadBlockByNumber(p, n) ==
  /\ pc[p] \notin {"down", "loaded", "panicked"}
  /\ docs[n] # NoBlock
  /\ docs[n] \notin cache[p]
  /\ \E c \in CacheAfterPut(p, docs[n]) : cache' = [cache EXCEPT ![p] = c]
  /\ UNCHANGED <<couch, pc, cpInfo, bcInfo, blk, gossip, faults>>

\* What a peer holds in memory is gone; the database is not.
Crash(p) ==
  /\ pc[p] # "down"
  /\ faults < MaxFaults
  /\ faults' = faults + 1
  /\ pc' = [pc EXCEPT ![p] = "down"]
  /\ cpInfo' = [cpInfo EXCEPT ![p] = NoBlock]
  /\ bcInfo' = [bcInfo EXCEPT ![p] = NoBlock]
  /\ cache' = [cache EXCEPT ![p] = {}]
  /\ blk' = [blk EXCEPT ![p] = NoBlock]
  /\ UNCHANGED <<couch, gossip>>

-----------------------------------------------------------------------------
Open(p) == LoadCheckpoint(p) \/ SaveLoadedCheckpoint(p)

AddBlock(p) == \/ \E b \in Delivered(p) : storeBlock(p, b)
               \/ storeTransactions(p)
               \/ committerCachePut(p)
               \/ saveCurrentInfo(p)

Follow(p) == \E payload \in Payloads : StoreValidatedBlock(p, payload)

FinishCheckpoint(p) == setBlockchainInfo(p) \/ updateCheckpoint(p)

Next == \E p \in Peers : \/ Open(p)
                         \/ AddBlock(p)
                         \/ AddBlockError(p)
                         \/ Follow(p)
                         \/ FinishCheckpoint(p)
                         \/ \E n \in Nums : loadBlockByNumber(p, n)
                         \/ Crash(p)

Spec == Init /\ [][Next]_vars

\* A peer that is down is started again, the ordering service and the anti-entropy
\* of the gossip layer keep offering the blocks a peer has not stored yet, and a
\* goroutine that is storing a block keeps running.
Fairness == \A p \in Peers : /\ WF_vars(Open(p))
                             /\ WF_vars(AddBlock(p))
                             /\ WF_vars(Follow(p))
                             /\ WF_vars(FinishCheckpoint(p))

FairSpec == Spec /\ Fairness

-----------------------------------------------------------------------------
(* Properties.                                                             *)

Status == {"down", "loaded", "panicked", "idle", "stored", "indexed", "cached", "saved", "informed"}

\* Every variable holds a value of its kind.
TypeOK == /\ db \in {"absent", "present"}
          /\ docs \in [Nums -> MaybeBlock]
          /\ txns \in [TxIDs -> MaybeBlock]
          /\ checkpoint \in MaybeBlock
          /\ pc \in [Peers -> Status]
          /\ cpInfo \in [Peers -> MaybeBlock]
          /\ bcInfo \in [Peers -> MaybeBlock]
          /\ cache \in [Peers -> SUBSET Blocks]
          /\ blk \in [Peers -> MaybeBlock]
          /\ gossip \in SUBSET Blocks
          /\ faults \in 0..MaxFaults

\* Block b is stored, under its own number.
Stored(b) == b \in Blocks /\ docs[Num[b]] = b

\* The stored documents are one hash-linked chain without a gap: AddBlock accepts
\* only the next block, and neither a crash between its database calls nor a block
\* added again after a restart leaves a document that does not link to the one below.
StoredChain ==
  \A n \in Nums : docs[n] # NoBlock =>
    /\ Num[docs[n]] = n
    /\ \A m \in 0..n : m \in Nums /\ docs[m] # NoBlock
    /\ n > 0 => Prev[docs[n]] = docs[n - 1]

\* The checkpoint document never names a block that is not stored, so newCDBBlockStore
\* never panics, whatever a crash interrupted and whoever saved the checkpoint last.
NeverPanics == /\ checkpoint # NoBlock => Stored(checkpoint)
               /\ \A p \in Peers : pc[p] # "panicked"

\* RetrieveBlockByNumber of peer p: the cached block, else the document.
RetrieveBlockByNumber(p, n) ==
  IF \E b \in cache[p] : Num[b] = n THEN CHOOSE b \in cache[p] : Num[b] = n ELSE docs[n]

\* Every block below the height a peer reports in GetBlockchainInfo can be read from
\* that peer, and it is the block of the shared chain, on the committer as well as on
\* the peers that only follow it.
ServesItsHeight ==
  \A p \in Peers : \A n \in 0..Height(bcInfo[p]) - 1 :
    n \in Nums /\ docs[n] # NoBlock /\ RetrieveBlockByNumber(p, n) = docs[n]

\* A transaction document always leads to a stored block that holds the transaction
\* (RetrieveBlockByTxID never dangles).
IndexLeadsToBlock ==
  \A t \in TxIDs : txns[t] # NoBlock => Stored(txns[t]) /\ t \in Txs[txns[t]]

\* The transactions of every block up to the checkpoint are indexed, and an ID that
\* was used twice leads to its first use.
CommittedTxsIndexed ==
  \A n \in 0..Height(checkpoint) - 1 : \A t \in Txs[docs[n]] :
    txns[t] # NoBlock /\ Num[txns[t]] <= n

\* Between any two database calls, crashes and errors included, what is in the database fits
\* together: one chain, a checkpoint that names a block of it, and a transaction index that
\* leads into it and misses nothing below the checkpoint (AddBlock, newCDBBlockStore).
StoreConsistent == TypeOK /\ StoredChain /\ NeverPanics /\ IndexLeadsToBlock /\ CommittedTxsIndexed

\* A stored block document is never changed or removed by what the peers do.
DocsImmutable == [][\A n \in Nums : docs[n] # NoBlock => docs'[n] = docs[n]]_vars

\* Every peer ends up at the last block of the chain and stays there: crashes, errors
\* and the checkpoint being set back do not strand a peer.
AllCatchUp ==
  <>[](\A p \in Peers : /\ bcInfo[p] # NoBlock
                        /\ \A b \in Blocks : ~(Num[b] = Height(bcInfo[p]) /\ Prev[b] = bcInfo[p]))

StoredCount == Cardinality({n \in Nums : docs[n] # NoBlock})
LedgerView == INSTANCE Ledger WITH
                chain <- [i \in 1..StoredCount |-> docs[i - 1]],
                height <- [p \in Peers |-> Height(bcInfo[p])]

\* The peers together implement the abstract ledger: one chain that only grows, and a prefix of
\* it at every peer (AddBlock, CheckpointBlock, and the crashes between their writes).
ImplementsLedger == LedgerView!Spec
=============================================================================
