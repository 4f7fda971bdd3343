---------------------------- MODULE BlockReadsProofs ----------------------------
(***************************************************************************)
(* The readers of the block store: the block iterators, for any number of  *)
(* iterators and blocks, and the block cache, for any number of readers,   *)
(* any size of the cache and any blocks with a configuration.              *)
(***************************************************************************)
EXTENDS MCBlockReads, FiniteSetTheorems, TLAPS

\* What an iterator takes for available is checkpointed, and what is checkpointed is stored.
IAvail == lastBlock <= stored /\ \A i \in Itrs : maxAvail[i] <= lastBlock

\* A consumer that is past its wait knows its block to be available, or the iterator is closed.
IFetch == \A i \in Itrs : itr[i] \in {"fetch", "retrieve"} => closed[i] \/ toRetrieve[i] <= maxAvail[i]

IInv == TypeOK /\ IAvail /\ IFetch /\ OnlyCheckpointed /\ NextNeverFails

\* A new ledger with its genesis block satisfies the invariant.
LEMMA InitInv == Init => IInv
BY BoundAssumption DEF Init, IInv, TypeOK, IAvail, IFetch, OnlyCheckpointed, NextNeverFails, Places

\* Every step of a consumer preserves it.
LEMMA ConsumerInv == ASSUME IInv, NEW i \in Itrs, ConsumerStep(i) PROVE IInv'
<1>. USE BoundAssumption DEF IInv, TypeOK, IAvail, IFetch, OnlyCheckpointed, NextNeverFails, Goto, Places
<1>1. CASE newBlockItr(i)
  BY <1>1 DEF newBlockItr
<1>2. CASE Next1(i)
  <2>1. CASE maxAvail[i] < toRetrieve[i] BY <1>2, <2>1 DEF Next1
  <2>2. CASE ~(maxAvail[i] < toRetrieve[i]) BY <1>2, <2>2 DEF Next1
  <2>. QED BY <2>1, <2>2
<1>3. CASE waitForBlockLock(i)
  BY <1>3 DEF waitForBlockLock, Threads
<1>4. CASE waitForBlockTest(i)
  <2>1. CASE lastBlock < toRetrieve[i] /\ ~closed[i] BY <1>4, <2>1 DEF waitForBlockTest
  <2>2. CASE ~(lastBlock < toRetrieve[i] /\ ~closed[i]) BY <1>4, <2>2 DEF waitForBlockTest
  <2>. QED BY <2>1, <2>2
<1>5. CASE Next2Lock(i)
  BY <1>5 DEF Next2Lock, Threads
<1>6. CASE Next2(i)
  <2>1. /\ itr[i] = "retrieve" /\ closeLock' = [closeLock EXCEPT ![i] = Free]
        /\ UNCHANGED <<stored, lastBlock, cpLock, closed, maxAvail, closer, writer>>
    BY <1>6 DEF Next2
  <2>2. closed[i] \/ (toRetrieve[i] <= maxAvail[i] /\ toRetrieve[i] <= stored)
    BY <2>1
  <2>3. CASE closed[i] BY <1>6, <2>1, <2>3 DEF Next2
  <2>4. CASE ~closed[i]
    <3>1. itr' = [itr EXCEPT ![i] = "ready"] /\ toRetrieve' = [toRetrieve EXCEPT ![i] = @ + 1]
      BY <1>6, <2>2, <2>4 DEF Next2
    <3>. QED BY <2>1, <2>2, <2>4, <3>1
  <2>. QED BY <2>3, <2>4
<1>. QED BY <1>1, <1>2, <1>3, <1>4, <1>5, <1>6 DEF ConsumerStep

\* A broadcast moves no consumer past its wait.
LEMMA BroadcastInv ==
    ASSUME TypeOK, IFetch, NextNeverFails, Broadcast
    PROVE  /\ itr' \in [Itrs -> Places]
           /\ \A i \in Itrs : /\ itr'[i] \in {"fetch", "retrieve"} => itr[i] \in {"fetch", "retrieve"}
                              /\ itr'[i] # "failed"
BY DEF TypeOK, NextNeverFails, Broadcast, Places

\* Every step preserves it.
LEMMA NextInv == ASSUME IInv, [Next]_vars PROVE IInv'
<1>. USE BoundAssumption DEF IInv, TypeOK, IAvail, IFetch, OnlyCheckpointed, NextNeverFails
<1>1. ASSUME NEW i \in Itrs, CloseCpLock(i) \/ CloseMarkerLock(i) PROVE IInv'
  BY <1>1 DEF CloseCpLock, CloseMarkerLock, Threads
<1>2. ASSUME NEW i \in Itrs, Close(i) PROVE IInv'
  <2>1. /\ closed' = [closed EXCEPT ![i] = TRUE] /\ UNCHANGED <<stored, lastBlock, maxAvail, toRetrieve, writer>>
        /\ Broadcast /\ cpLock' = Free /\ closeLock' = [closeLock EXCEPT ![i] = Free]
        /\ closer' = [closer EXCEPT ![i] = "closed"]
    BY <1>2 DEF Close
  <2>. QED BY <2>1, BroadcastInv
<1>3. CASE StoreBlock
  BY <1>3 DEF StoreBlock
<1>4. CASE updateCheckpointLock
  BY <1>4 DEF updateCheckpointLock, Threads
<1>5. CASE updateCheckpoint
  <2>1. lastBlock' = stored /\ Broadcast /\ cpLock' = Free /\ writer' = "idle"
        /\ UNCHANGED <<stored, closed, closeLock, maxAvail, toRetrieve, closer>>
    BY <1>5 DEF updateCheckpoint
  <2>. QED BY <2>1, BroadcastInv
<1>6. CASE UNCHANGED vars
  BY <1>6 DEF vars
<1>. QED BY <1>1, <1>2, <1>3, <1>4, <1>5, <1>6, ConsumerInv DEF Next, CloserHolding, WriterStep

\* The invariant holds in every state.
LEMMA Invariant == Spec => []IInv
BY InitInv, NextInv, PTL DEF Spec

\* For any number of iterators and blocks, Next hands out checkpointed blocks only and finds
\* the block it has waited for (Next, waitForBlock).
THEOREM OnlyCheckpointedIsRead == Spec => []ReadsCheckpointed
<1>1. IInv => ReadsCheckpointed BY DEF IInv, ReadsCheckpointed
<1>. QED BY <1>1, Invariant, PTL

-----------------------------------------------------------------------------
(* The block cache. *)

\* The last config block that was put, which put is still to pin.
Putting(n) == pc[Cache!Committing] \in {"pin", "store"} /\ ~loads[Cache!Committing] /\ blk[Cache!Committing] = n

AtLeast(m, n) == m # NoBlock /\ m >= n

CType == /\ Cache!TypeOK /\ raced \in BOOLEAN
         /\ blk \in [Cache!Threads -> 0..MaxCached] /\ loads \in [Cache!Threads -> BOOLEAN]
         /\ cb \in [Cache!Threads -> ConfigBlocks \cup {NoBlock}]

\* Only config blocks are stored in the pin; a put is for the last block.
CPlace == /\ \A t \in Cache!Threads : pc[t] = "store" => blk[t] \in ConfigBlocks
          /\ \A n \in Nat : Putting(n) => n + 1 = cacheStored

\* Without a race the pin only moves forward, and is behind only by the block that is being put.
CPin == ~raced => /\ \A t \in Cache!Threads : pc[t] = "store" /\ cb[t] # NoBlock => AtLeast(configBlock, cb[t])
                  /\ \A n \in ConfigBlocks : 0 < n /\ n < cacheStored => AtLeast(configBlock, n) \/ Putting(n)

CInv == CType /\ CPlace /\ CPin

\* The cache module counts as this one does.
LEMMA SameCardinality == ASSUME NEW S PROVE Cache!Cardinality(S) = Cardinality(S)
BY DEF Cardinality, Cache!Cardinality

\* What is in the cache after a block was set fits, whatever was evicted.
LEMMA CacheFits ==
    ASSUME blocksByNum \subseteq 0..MaxCached, NEW n \in 0..MaxCached, NEW S \in Cache!SetCached(n)
    PROVE  S \subseteq 0..MaxCached /\ Cache!Cardinality(S) <= CacheSize
<1>1. S \subseteq blocksByNum \cup {n} BY DEF Cache!SetCached
<1>2. IsFiniteSet(0..MaxCached) BY FS_Interval, CacheAssumption
<1>3. IsFiniteSet(blocksByNum \cup {n})
  BY <1>2, FS_Subset
<1>. DEFINE k == Cache!Cardinality(blocksByNum \cup {n})
<1>4. k \in Nat BY <1>3, FS_CardinalityType, SameCardinality
<1>5. Cache!Cardinality(S) = IF k > CacheSize THEN CacheSize ELSE k BY DEF Cache!SetCached
<1>. HIDE DEF k
<1>. QED BY <1>1, <1>4, <1>5, CacheAssumption

\* A store that was opened with an empty cache satisfies the invariant,
LEMMA InitCache == ASSUME Cache!Init PROVE CInv
<1>1. Cache!Cardinality({}) = 0 BY FS_EmptySet, SameCardinality
<1>2. CType
  <2>1. blocksByNum \subseteq 0..MaxCached /\ Cache!Cardinality(blocksByNum) <= CacheSize
    <3>1. blocksByNum = {} BY DEF Cache!Init
    <3>2. Cache!Cardinality(blocksByNum) = 0 BY <1>1, <3>1
    <3>. QED BY <3>1, <3>2, CacheAssumption
  <2>2. cacheStored \in 1..MaxCached + 1 /\ 0 \in 0..MaxCached BY CacheAssumption DEF Cache!Init
  <2>. QED BY <2>1, <2>2 DEF Cache!Init, CType, Cache!TypeOK
<1>3. \A t \in Cache!Threads : pc[t] = "idle" BY DEF Cache!Init
<1>4. CPlace BY <1>3 DEF CPlace, Putting, Cache!Threads
<1>5. CPin BY <1>3, CacheAssumption DEF CPin, Cache!Init
<1>. QED BY <1>2, <1>4, <1>5 DEF CInv

\* and every step of the committing goroutine and of a reader preserves it.
LEMMA NextCache == ASSUME CInv, [Cache!Next]_cacheVars PROVE CInv'
<1>. USE CacheAssumption DEF CInv, CType, CPlace, CPin, Cache!TypeOK, Putting, AtLeast
<1>c. Cache!Committing \in Cache!Threads BY DEF Cache!Threads
<1>n. /\ configBlock # NoBlock => configBlock \in Nat
      /\ \A t \in Cache!Threads : blk[t] \in Nat /\ (cb[t] # NoBlock => cb[t] \in Nat)
  <2>1. ConfigBlocks \subseteq Nat /\ 0..MaxCached \subseteq Nat OBVIOUS
  <2>2. CType OBVIOUS
  <2>. HIDE CacheAssumption DEF CInv, CPlace, CPin, Putting, AtLeast
  <2>. QED BY <2>1, <2>2
<1>1. CASE Cache!put
  <2>. DEFINE c == Cache!Committing
  <2>1. /\ pc[c] = "idle" /\ cacheStored <= MaxCached /\ cacheStored' = cacheStored + 1
        /\ blocksByNum' \in Cache!SetCached(cacheStored)
        /\ blk' = [blk EXCEPT ![c] = cacheStored] /\ loads' = [loads EXCEPT ![c] = FALSE]
        /\ pc' = [pc EXCEPT ![c] = "pin"] /\ UNCHANGED <<configBlock, cb, raced>>
    BY <1>1 DEF Cache!put
  <2>2. blocksByNum' \subseteq 0..MaxCached /\ Cache!Cardinality(blocksByNum') <= CacheSize
    BY <2>1, CacheFits
  <2>. HIDE DEF c
  <2>3. CType' BY <1>c, <2>1, <2>2 DEF c
  <2>4. CPlace' BY <1>c, <2>1 DEF c
  <2>5. CPin' BY <1>c, <2>1 DEF c
  <2>. QED BY <2>3, <2>4, <2>5
<1>2. ASSUME NEW t \in Readers, NEW n \in 0..MaxCached, Cache!loadBlockByNumber(t, n) PROVE CInv'
  BY <1>2, <1>c DEF Cache!loadBlockByNumber, Cache!Threads
<1>3. ASSUME NEW t \in Cache!Threads, Cache!setConfigBlockRead(t) PROVE CInv'
  BY <1>3, <1>c DEF Cache!setConfigBlockRead
<1>4. ASSUME NEW t \in Cache!Threads, Cache!setConfigBlockStore(t) PROVE CInv'
  <2>1. /\ pc[t] = "store" /\ pc' = [pc EXCEPT ![t] = "pinned"]
        /\ UNCHANGED <<cacheStored, blocksByNum, blk, loads, cb>>
    BY <1>4 DEF Cache!setConfigBlockStore
  <2>2. CASE cb[t] # NoBlock /\ cb[t] >= blk[t]
    <3>1. configBlock' = configBlock /\ raced' = raced
      BY <1>4, <2>2 DEF Cache!setConfigBlockStore, Cache!AlreadyPinned
    <3>2. CType' /\ CPlace' BY <1>c, <2>1, <3>1
    <3>3. ASSUME ~raced, NEW n \in ConfigBlocks, 0 < n, n < cacheStored PROVE AtLeast(configBlock, n) \/ Putting(n)'
      <4>1. CASE Putting(n) /\ t = Cache!Committing
        <5>1. cb[t] \in Nat /\ cb[t] >= n /\ AtLeast(configBlock, cb[t]) BY <2>1, <2>2, <3>3, <4>1
        <5>2. configBlock \in Nat /\ n \in Nat BY <5>1
        <5>. QED BY <5>1, <5>2
      <4>2. CASE Putting(n) /\ t # Cache!Committing BY <1>c, <2>1, <4>2
      <4>. QED BY <3>3, <4>1, <4>2
    <3>4. CPin' BY <2>1, <3>1, <3>3
    <3>. QED BY <3>2, <3>4
  <2>3. CASE ~(cb[t] # NoBlock /\ cb[t] >= blk[t])
    <3>1. configBlock' = blk[t] /\ raced' = (raced \/ configBlock # cb[t])
      BY <1>4, <2>3 DEF Cache!setConfigBlockStore, Cache!AlreadyPinned
    <3>2. CType' /\ CPlace' BY <1>c, <2>1, <3>1
    <3>3. ASSUME ~raced' PROVE configBlock # NoBlock => configBlock < blk[t]
      <4>. SUFFICES ASSUME configBlock # NoBlock PROVE configBlock < blk[t] OBVIOUS
      <4>1. cb[t] = configBlock /\ configBlock \in Nat /\ blk[t] \in Nat BY <1>n, <3>1, <3>3
      <4>. QED BY <2>3, <4>1
    <3>4. ASSUME ~raced', NEW u \in Cache!Threads, pc'[u] = "store", cb[u] # NoBlock
          PROVE  AtLeast(configBlock', cb[u])
      <4>1. ~raced /\ pc[u] = "store" BY <2>1, <3>1, <3>4
      <4>2. AtLeast(configBlock, cb[u]) BY <3>4, <4>1
      <4>3. cb[u] \in Nat /\ blk[t] \in Nat BY <1>n, <3>4
      <4>4. configBlock \in Nat BY <1>n, <4>2
      <4>. QED BY <3>1, <3>3, <3>4, <4>2, <4>3, <4>4
    <3>5. ASSUME ~raced', NEW n \in ConfigBlocks, 0 < n, n < cacheStored
          PROVE  AtLeast(configBlock', n) \/ Putting(n)'
      <4>1. ~raced BY <3>1, <3>5
      <4>2. CASE AtLeast(configBlock, n) BY <3>1, <3>3, <3>5, <4>2
      <4>3. CASE Putting(n) /\ t = Cache!Committing BY <2>1, <3>1, <4>3
      <4>4. CASE Putting(n) /\ t # Cache!Committing BY <1>c, <2>1, <4>4
      <4>. QED BY <3>5, <4>1, <4>2, <4>3, <4>4
    <3>6. CPin' BY <2>1, <3>4, <3>5
    <3>. QED BY <3>2, <3>6
  <2>. QED BY <2>2, <2>3
<1>5. ASSUME NEW t \in Cache!Threads, Cache!Return(t) PROVE CInv'
  <2>1. CASE loads[t]
    <3>1. blocksByNum' \in Cache!SetCached(blk[t]) BY <1>5, <2>1 DEF Cache!Return
    <3>2. blocksByNum' \subseteq 0..MaxCached /\ Cache!Cardinality(blocksByNum') <= CacheSize
      BY <3>1, CacheFits
    <3>. QED BY <1>5, <1>c, <3>2 DEF Cache!Return
  <2>2. CASE ~loads[t] BY <1>5, <1>c, <2>2 DEF Cache!Return
  <2>. QED BY <2>1, <2>2
<1>6. CASE UNCHANGED cacheVars
  BY <1>6 DEF cacheVars
<1>. QED BY <1>1, <1>2, <1>3, <1>4, <1>5, <1>6 DEF Cache!Next

\* Eviction never costs the peer its channel configuration, and no reader of an older config
\* block replaces the pin unless it raced with put, for any number of readers (setConfigBlock).
THEOREM ConfigStaysPinned == Spec /\ Cache!Spec => []LastConfigPinned
<1>1. Cache!Spec => []CInv
  BY InitCache, NextCache, PTL DEF Cache!Spec, Cache!vars, cacheVars
<1>2. ASSUME IInv, CInv PROVE LastConfigPinned
  <2>1. Cache!LastConfigPinned
    BY <1>2 DEF CInv, CPin, Putting, AtLeast, Cache!LastConfigPinned
  <2>. QED BY <1>2, <2>1 DEF IInv, CInv, CType, ReadsTypeOK, LastConfigPinned
<1>. QED BY <1>1, <1>2, Invariant, PTL
=============================================================================
