------------------------------ MODULE BlockItr ------------------------------
(***************************************************************************)
(* The block iterators of cdbblkstorage/blocks_itr.go.  A consumer calls   *)
(* Next in a loop, which waits on a condition variable until the next      *)
(* block is checkpointed; any other goroutine may Close the iterator; the  *)
(* committing goroutine stores blocks and broadcasts.  Every acquisition   *)
(* of a lock is a step of its own:                                         *)
(*   cpLock       cpInfoCond.L, guards cpInfo and the condition variable   *)
(*   closeLock[i] closeMarkerLock of iterator i                            *)
(***************************************************************************)
EXTENDS Naturals

CONSTANTS Itrs,      \* the iterators
          MaxBlock,  \* number of the last block that is committed
          Free       \* the owner of a lock that nobody holds

ASSUME BoundAssumption == MaxBlock \in Nat

\* The goroutines: a consumer and a closer for every iterator, and the committer.
Consumer(i) == <<"next", i>>
Closer(i) == <<"close", i>>
Writer == <<"commit">>
Threads == {Consumer(i) : i \in Itrs} \cup {Closer(i) : i \in Itrs} \cup {Writer}

VARIABLES
  stored,     \* number of the last block that is in the database
  lastBlock,  \* cpInfo.lastBlockNumber
  cpLock, closeLock,
  closed,     \* closeMarker
  maxAvail,   \* maxBlockNumAvailable
  toRetrieve, \* blockNumToRetrieve
  itr,        \* where the consumer of an iterator is
  closer,     \* where the closer of an iterator is
  writer      \* where the committing goroutine is

vars == <<stored, lastBlock, cpLock, closeLock, closed, maxAvail, toRetrieve, itr, closer, writer>>

\* The ledger holds its genesis block; iterators start at any committed block or at
\* the one that comes next.
Init == /\ stored = 0 /\ lastBlock = 0
        /\ cpLock = Free /\ closeLock = [i \in Itrs |-> Free]
        /\ closed = [i \in Itrs |-> FALSE]
        /\ maxAvail = [i \in Itrs |-> 0]
        /\ toRetrieve \in [Itrs -> 0..1]
        /\ itr = [i \in Itrs |-> "new"]
        /\ closer = [i \in Itrs |-> "open"]
        /\ writer = "idle"

Goto(i, label) == itr' = [itr EXCEPT ![i] = label]

\* Mutant: what is in the database counts as available.
newBlockItr_Stored(i) ==
  /\ itr[i] = "new"
  /\ maxAvail' = [maxAvail EXCEPT ![i] = stored]
  /\ Goto(i, "ready")
  /\ UNCHANGED <<stored, lastBlock, cpLock, closeLock, closed, toRetrieve, closer, writer>>

\* newBlockItr reads the last block number without a lock.
newBlockItr(i) ==
  /\ itr[i] = "new"
  /\ maxAvail' = [maxAvail EXCEPT ![i] = lastBlock]
  /\ Goto(i, "ready")
  /\ UNCHANGED <<stored, lastBlock, cpLock, closeLock, closed, toRetrieve, closer, writer>>

\* Next waits only when the block is beyond what was available the last time.
Next1(i) ==
  /\ itr[i] = "ready"
  /\ Goto(i, IF maxAvail[i] < toRetrieve[i] THEN "wait" ELSE "fetch")
  /\ UNCHANGED <<stored, lastBlock, cpLock, closeLock, closed, maxAvail, toRetrieve, closer, writer>>

\* waitForBlock takes the lock, also when it comes back from Wait after a broadcast.
waitForBlockLock(i) ==
  /\ itr[i] \in {"wait", "woken"}
  /\ cpLock = Free
  /\ cpLock' = Consumer(i)
  /\ Goto(i, "test")
  /\ UNCHANGED <<stored, lastBlock, closeLock, closed, maxAvail, toRetrieve, closer, writer>>

\* The loop's condition.  shouldClose takes and releases the close lock.
waitForBlockTest(i) ==
  /\ itr[i] = "test"
  /\ lastBlock < toRetrieve[i] => closeLock[i] = Free
  /\ IF lastBlock < toRetrieve[i] /\ ~closed[i]
     THEN Goto(i, "waiting") /\ UNCHANGED maxAvail
     ELSE Goto(i, "fetch") /\ maxAvail' = [maxAvail EXCEPT ![i] = lastBlock]
  /\ cpLock' = Free
  /\ UNCHANGED <<stored, lastBlock, closeLock, closed, toRetrieve, closer, writer>>

\* The second half of Next: under the close lock, nothing if the iterator is closed,
\* else the block, whose absence from the store is an error.
Next2Lock(i) ==
  /\ itr[i] = "fetch"
  /\ closeLock[i] = Free
  /\ closeLock' = [closeLock EXCEPT ![i] = Consumer(i)]
  /\ Goto(i, "retrieve")
  /\ UNCHANGED <<stored, lastBlock, cpLock, closed, maxAvail, toRetrieve, closer, writer>>

Next2(i) ==
  /\ itr[i] = "retrieve"
  /\ closeLock' = [closeLock EXCEPT ![i] = Free]
  /\ \/ closed[i] /\ Goto(i, "ended") /\ UNCHANGED toRetrieve
     \/ ~closed[i] /\ toRetrieve[i] > stored /\ Goto(i, "failed") /\ UNCHANGED toRetrieve
     \/ /\ ~closed[i] /\ toRetrieve[i] <= stored
        /\ Goto(i, "ready")
        /\ toRetrieve' = [toRetrieve EXCEPT ![i] = @ + 1]
  /\ UNCHANGED <<stored, lastBlock, cpLock, closed, maxAvail, closer, writer>>

\* Broadcast moves every waiting consumer to where it asks for the lock again.
Broadcast == itr' = [i \in Itrs |-> IF itr[i] = "waiting" THEN "woken" ELSE itr[i]]

-----------------------------------------------------------------------------
CloseCpLock(i) ==
  /\ closer[i] = "open"
  /\ itr[i] # "new"
  /\ cpLock = Free
  /\ cpLock' = Closer(i)
  /\ closer' = [closer EXCEPT ![i] = "cpLocked"]
  /\ UNCHANGED <<stored, lastBlock, closeLock, closed, maxAvail, toRetrieve, itr, writer>>

CloseMarkerLock(i) ==
  /\ closer[i] = "cpLocked"
  /\ closeLock[i] = Free
  /\ closeLock' = [closeLock EXCEPT ![i] = Closer(i)]
  /\ closer' = [closer EXCEPT ![i] = "locked"]
  /\ UNCHANGED <<stored, lastBlock, cpLock, closed, maxAvail, toRetrieve, itr, writer>>

\* Mutant: Close does not broadcast.
Close_Silent(i) ==
  /\ closer[i] = "locked"
  /\ closed' = [closed EXCEPT ![i] = TRUE]
  /\ cpLock' = Free
  /\ closeLock' = [closeLock EXCEPT ![i] = Free]
  /\ closer' = [closer EXCEPT ![i] = "closed"]
  /\ UNCHANGED <<stored, lastBlock, maxAvail, toRetrieve, itr, writer>>

Close(i) ==
  /\ closer[i] = "locked"
  /\ closed' = [closed EXCEPT ![i] = TRUE]
  /\ Broadcast
  /\ cpLock' = Free
  /\ closeLock' = [closeLock EXCEPT ![i] = Free]
  /\ closer' = [closer EXCEPT ![i] = "closed"]
  /\ UNCHANGED <<stored, lastBlock, maxAvail, toRetrieve, writer>>

-----------------------------------------------------------------------------
\* AddBlock up to the checkpoint: the block is in the database.
StoreBlock ==
  /\ writer = "idle"
  /\ stored < MaxBlock
  /\ stored' = stored + 1
  /\ writer' = "stored"
  /\ UNCHANGED <<lastBlock, cpLock, closeLock, closed, maxAvail, toRetrieve, itr, closer>>

updateCheckpointLock ==
  /\ writer = "stored"
  /\ cpLock = Free
  /\ cpLock' = Writer
  /\ writer' = "locked"
  /\ UNCHANGED <<stored, lastBlock, closeLock, closed, maxAvail, toRetrieve, itr, closer>>

updateCheckpoint ==
  /\ writer = "locked"
  /\ lastBlock' = stored
  /\ Broadcast
  /\ cpLock' = Free
  /\ writer' = "idle"
  /\ UNCHANGED <<stored, closeLock, closed, maxAvail, toRetrieve, closer>>

-----------------------------------------------------------------------------
ConsumerStep(i) == \/ newBlockItr(i) \/ Next1(i)
                   \/ waitForBlockLock(i) \/ waitForBlockTest(i)
                   \/ Next2Lock(i) \/ Next2(i)
CloserHolding(i) == CloseMarkerLock(i) \/ Close(i)
WriterStep == StoreBlock \/ updateCheckpointLock \/ updateCheckpoint

Next == \/ \E i \in Itrs : ConsumerStep(i) \/ CloseCpLock(i) \/ CloserHolding(i)
        \/ WriterStep

\* Mutexes are not starved (Go hands a contended mutex to a waiter after 1 ms), so
\* the consumers get strong fairness; a goroutine that called Close finishes; blocks
\* keep being committed.  Nobody is obliged to call Close.
Fairness ==
  /\ \A i \in Itrs : /\ SF_vars(waitForBlockLock(i)) /\ SF_vars(Next2Lock(i))
                     /\ WF_vars(ConsumerStep(i))
                     /\ WF_vars(CloserHolding(i)) /\ SF_vars(CloseMarkerLock(i))
  /\ WF_vars(WriterStep) /\ SF_vars(updateCheckpointLock)

Spec == Init /\ [][Next]_vars /\ Fairness

-----------------------------------------------------------------------------
\* Where a consumer can be.
Places == {"new", "ready", "wait", "test", "waiting", "woken", "fetch", "retrieve", "ended", "failed"}

\* Every variable holds a value of its kind.
TypeOK ==
  /\ stored \in 0..MaxBlock /\ lastBlock \in 0..MaxBlock
  /\ cpLock \in Threads \cup {Free}
  /\ closeLock \in [Itrs -> Threads \cup {Free}]
  /\ closed \in [Itrs -> BOOLEAN]
  /\ maxAvail \in [Itrs -> 0..MaxBlock] /\ toRetrieve \in [Itrs -> 0..MaxBlock + 1]
  /\ itr \in [Itrs -> Places]
  /\ closer \in [Itrs -> {"open", "cpLocked", "locked", "closed"}]
  /\ writer \in {"idle", "stored", "locked"}

\* Next never fails: when the wait is over the block is in the store, also when the
\* iterator was woken by a broadcast that was meant for another block.
NextNeverFails == \A i \in Itrs : itr[i] # "failed"

\* An iterator never hands out a block that is not checkpointed yet, although the
\* block is in the database before that.
OnlyCheckpointed == \A i \in Itrs : toRetrieve[i] <= lastBlock + 1

\* The two together: an iterator hands out checkpointed blocks only, and every Next that has
\* stopped waiting finds its block (Next, waitForBlock).
ReadsCheckpointed == NextNeverFails /\ OnlyCheckpointed

\* Close unblocks the consumer: no wake-up is lost between the test of the loop and
\* the wait.
CloseEndsNext == \A i \in Itrs : closed[i] ~> itr[i] = "ended"

\* A consumer that is not closed is handed every block that is committed.
EveryBlockDelivered ==
  \A i \in Itrs : <>(closed[i] \/ toRetrieve[i] = MaxBlock + 1)
=============================================================================
