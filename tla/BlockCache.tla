------------------------------ MODULE BlockCache ------------------------------
(***************************************************************************)
(* The block cache of a peer's block store (cdbblkstorage/blockcache.go):  *)
(* blocks by number, evicted least recently used first, and the last       *)
(* config block, which is pinned outside of the evicted part.              *)
(*                                                                         *)
(* CheckpointBlock puts blocks in order from one goroutine; any goroutine  *)
(* may read a block, and the loader pins what it reads too.  setConfigBlock*)
(* reads the pin, compares and writes it with no lock around the three.    *)
(* A block is its number; the cache by hash does the same for the same pin.*)
(***************************************************************************)
EXTENDS Naturals, FiniteSets

CONSTANTS MaxBlock, ConfigBlocks, CacheSize, NoBlock,
          Readers     \* the goroutines that read; the committing one may be among them

Committing == "commit"      \* the goroutine that calls put
Threads == Readers \cup {Committing}

VARIABLES stored,      \* number of blocks in the database
          blocksByNum, \* the numbers that are cached
          configBlock, \* the pinned config block
          pc, blk,     \* where a goroutine is, and with which block
          loads,       \* whether it came from the loader and not from put
          cb,          \* the pin as the goroutine read it
          raced        \* a goroutine stored a pin over another than the one it had read (history)

vars == <<stored, blocksByNum, configBlock, pc, blk, loads, cb, raced>>

\* A store is opened on a ledger that has its genesis block, with an empty cache.
Init == /\ stored = 1
        /\ blocksByNum = {} /\ configBlock = NoBlock
        /\ pc = [t \in Threads |-> "idle"]
        /\ blk = [t \in Threads |-> 0]
        /\ loads = [t \in Threads |-> FALSE]
        /\ cb = [t \in Threads |-> NoBlock]
        /\ raced = FALSE

\* What the cache may hold after block n was set: eviction makes room for it.
SetCached(n) == {S \in SUBSET (blocksByNum \cup {n}) :
                   /\ n \in S
                   /\ Cardinality(S) = IF Cardinality(blocksByNum \cup {n}) > CacheSize
                                       THEN CacheSize
                                       ELSE Cardinality(blocksByNum \cup {n})}

\* put of the block that was just stored.
put ==
  /\ pc[Committing] = "idle" /\ stored <= MaxBlock
  /\ stored' = stored + 1
  /\ blocksByNum' \in SetCached(stored)
  /\ blk' = [blk EXCEPT ![Committing] = stored]
  /\ loads' = [loads EXCEPT ![Committing] = FALSE]
  /\ pc' = [pc EXCEPT ![Committing] = "pin"]
  /\ UNCHANGED <<configBlock, cb, raced>>

\* getBlockByNumber of a block that is neither pinned nor cached: loadBlockByNumber reads
\* it from the database, and the cache is filled when the loader is back.
loadBlockByNumber(t, n) ==
  /\ pc[t] = "idle"
  /\ n < stored /\ configBlock # n /\ n \notin blocksByNum
  /\ blk' = [blk EXCEPT ![t] = n]
  /\ loads' = [loads EXCEPT ![t] = TRUE]
  /\ pc' = [pc EXCEPT ![t] = "pin"]
  /\ UNCHANGED <<stored, blocksByNum, configBlock, cb, raced>>

\* setConfigBlock: only a config block is pinned, and only over an older one.
setConfigBlockRead(t) ==
  /\ pc[t] = "pin"
  /\ cb' = [cb EXCEPT ![t] = configBlock]
  /\ pc' = [pc EXCEPT ![t] = IF blk[t] \in ConfigBlocks THEN "store" ELSE "pinned"]
  /\ UNCHANGED <<stored, blocksByNum, configBlock, blk, loads, raced>>

\* Mutant: any config block is pinned, an older one too.
AlreadyPinned_Never(t) == FALSE

AlreadyPinned(t) == cb[t] # NoBlock /\ cb[t] >= blk[t]

setConfigBlockStore(t) ==
  /\ pc[t] = "store"
  /\ configBlock' = IF AlreadyPinned(t) THEN configBlock ELSE blk[t]
  /\ raced' = (raced \/ (configBlock # cb[t] /\ ~AlreadyPinned(t)))
  /\ pc' = [pc EXCEPT ![t] = "pinned"]
  /\ UNCHANGED <<stored, blocksByNum, blk, loads, cb>>

\* put returns; the loader's block is set in the cache.
Return(t) ==
  /\ pc[t] = "pinned"
  /\ IF loads[t] THEN blocksByNum' \in SetCached(blk[t]) ELSE UNCHANGED blocksByNum
  /\ pc' = [pc EXCEPT ![t] = "idle"]
  /\ UNCHANGED <<stored, configBlock, blk, loads, cb, raced>>

Next == \/ put
        \/ \E t \in Readers, n \in 0..MaxBlock : loadBlockByNumber(t, n)
        \/ \E t \in Threads : setConfigBlockRead(t) \/ setConfigBlockStore(t) \/ Return(t)

Spec == Init /\ [][Next]_vars

-----------------------------------------------------------------------------
\* Every variable holds a value of its kind, and the cache does not outgrow its size.
TypeOK ==
  /\ stored \in 1..MaxBlock + 1 /\ configBlock \in ConfigBlocks \cup {NoBlock}
  /\ blocksByNum \subseteq 0..MaxBlock /\ Cardinality(blocksByNum) <= CacheSize
  /\ pc \in [Threads -> {"idle", "pin", "store", "pinned"}]

\* Between two puts the pin is the last config block that was committed since the store
\* was opened: eviction never costs the peer its channel configuration, and no reader of
\* an older config block replaces it, unless it had read the pin before put replaced it.
LastConfigPinned ==
  pc[Committing] = "idle" =>
    \/ raced
    \/ \A n \in ConfigBlocks : 0 < n /\ n < stored => configBlock # NoBlock /\ configBlock >= n
=============================================================================
