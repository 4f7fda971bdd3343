----------------------------- MODULE MCBlockReads -----------------------------
(***************************************************************************)
(* The readers of the block store, one part at a time: the iterators, and  *)
(* the block cache.                                                        *)
(***************************************************************************)
EXTENDS BlockItr

CONSTANTS MaxCached, ConfigBlocks, CacheSize, NoBlock, Readers

ASSUME CacheAssumption == /\ MaxCached \in Nat /\ CacheSize \in Nat
                          /\ ConfigBlocks \subseteq Nat /\ NoBlock \notin Nat

VARIABLES part,
          cacheStored, blocksByNum, configBlock, pc, blk, loads, cb, raced

Cache == INSTANCE BlockCache WITH MaxBlock <- MaxCached, stored <- cacheStored

cacheVars == <<cacheStored, blocksByNum, configBlock, pc, blk, loads, cb, raced>>
MCvars == <<vars, cacheVars, part>>

\* The iterators stand still in the part about the cache, and the other way round.
MCInit ==
  /\ Init /\ Cache!Init
  /\ \/ part = "iterators"
     \/ part = "cache" /\ toRetrieve = [i \in Itrs |-> 0]

MCNext ==
  /\ UNCHANGED part
  /\ \/ part = "iterators" /\ Next /\ UNCHANGED cacheVars
     \/ part = "cache" /\ Cache!Next /\ UNCHANGED vars

MCSpec == MCInit /\ [][MCNext]_MCvars /\ (part = "iterators" => Fairness)

-----------------------------------------------------------------------------
\* The variables of both parts hold values of their kind.
ReadsTypeOK == TypeOK /\ Cache!TypeOK

\* Eviction and readers of older config blocks do not replace the pinned config block
\* (setConfigBlock), unless they race with put.
LastConfigPinned == ReadsTypeOK /\ Cache!LastConfigPinned

\* No wake-up is lost: Close ends a Next that waits, and every block that is committed reaches
\* a consumer that is not closed (waitForBlock, Close, updateCheckpoint).
NoLostWakeUp == CloseEndsNext /\ (part = "iterators" => EveryBlockDelivered)
=============================================================================
