----------------------------- MODULE PvtDataStore -----------------------------
(***************************************************************************)
(* The private data store of one channel: the CouchDB document per block    *)
(* with its data, its expiry entries and the block numbers it expires at;   *)
(* the LevelDB index of missing data (prioritised, deprioritised and        *)
(* ineligible); the in-memory cache in front of both; the purger, the       *)
(* reconciler and the collection eligibility processor that share one lock; *)
(* and faults.  A second peer that only endorses reads the same CouchDB.   *)
(*                                                                         *)
(* An item is the write set of one transaction in one collection, and an    *)
(* entry <<b, i>> is item i of block b.  An item carries no value: the      *)
(* properties only tell apart items that are stored from items that are     *)
(* missing.                                                                *)
(***************************************************************************)
EXTENDS Integers, FiniteSets, FiniteSetsExt

CONSTANTS
    Colls,          \* collections
    BTL,            \* blocks to live of each collection, 0 is for ever
    Items,          \* the pairs <<collection, transaction number>> in use
    Contents,       \* what each block may bring: [present, elg, inelg] sets of items
    MaxBlock,       \* bound on block numbers
    MaxUint64,      \* the largest uint64, scaled down
    PurgeInterval,  \* a purge is scheduled when it divides the block number
    MaxOldBlocks,   \* blocks the reconciler asks for in one round
    MaxFaults       \* bound on restarts and failed writes

VARIABLES
    doc,        \* CouchDB: the private data document of a block, or NoDoc
    lastDoc,    \* CouchDB: number in the last-committed-block document, or -1
    prio,       \* LevelDB: entries of the prioritised missing data index
    deprio,     \* LevelDB: entries of the deprioritised missing data index
    inelg,      \* LevelDB: entries of the ineligible missing data index
    pending,    \* LevelDB: is the pending commit key present
    oldList,    \* LevelDB: last updated old blocks list
    events,     \* LevelDB: collection eligibility events <<block, collection>>
    last,       \* lastCommittedBlock of the database store
    empty,      \* its empty flag
    oldSet,     \* its isLastUpdatedOldBlocksSet flag
    cache,      \* items the cache holds for a block
    cacheLast,  \* lastCommittedBlock of the cache store
    cacheEmpty, \* its empty flag
    lock,       \* holder of purgerLock
    commit,     \* the block being committed and how far, or NoCommit
    purges,     \* scheduled purge goroutines, by their block number
    purging,    \* the purge that holds the lock: index keys still to delete
    missing,    \* entries the reconciler was told are missing
    old,        \* the reconciliation that holds the lock, its index batch
    elg,        \* the eligibility processor: its event and what it has yet to convert
    content,    \* what each committed block brought (history)
    cut,        \* blocks whose commit stopped between the two databases (history)
    dropped,    \* entries whose expiry record was overwritten (history)
    gone,       \* blocks whose document a purge deleted (history)
    unsynced,   \* blocks reconciled and not yet applied to the state database (history)
    overwrote,  \* was a list of old blocks replaced before it was reset (history)
    failed,     \* did a commit fail since the store was opened (history)
    faults      \* restarts and failed writes so far

couch == <<doc, lastDoc>>
index == <<prio, deprio, inelg>>
level == <<index, pending, oldList, events>>
memory == <<last, empty, oldSet, cache, cacheLast, cacheEmpty>>
threads == <<lock, commit, purges, purging, missing, old, elg>>
history == <<content, cut, dropped, gone, unsynced, overwrote, failed>>
vars == <<couch, level, memory, threads, history, faults>>

Blocks == 0..MaxBlock
Entries == Blocks \X Items
NoDoc == [data |-> {}, present |-> {}, absent |-> {}, nums |-> {}, exists |-> FALSE]
NoContent == [present |-> {}, elg |-> {}, inelg |-> {}]
NoCommit == [block |-> -1, step |-> "none", content |-> NoContent]
NoOld == [prio |-> {}, deprio |-> {}, lower |-> {}, list |-> {}, active |-> FALSE]
NoElg == [event |-> <<0, CHOOSE c \in Colls : TRUE>>, todo |-> {}, step |-> "none"]
NoPurge == [block |-> -1, keys |-> {}]

ASSUME NumbersAssumption == MaxBlock \in Nat /\ MaxUint64 \in Nat /\ MaxBlock < MaxUint64

ASSUME ItemsAssumption == BTL \in [Colls -> Nat] /\ \A i \in Items : i[1] \in Colls

ASSUME ContentsAssumption ==
    \A b \in Blocks : \A k \in Contents[b] :
        k \in [present : SUBSET Items, elg : SUBSET Items, inelg : SUBSET Items]

\* The genesis block is a configuration block.
ASSUME GenesisAssumption == Contents[0] \subseteq {NoContent}

\* The peer is eligible for a collection at a block, or it is not.
ASSUME EligibilityAssumption ==
    \A b \in Blocks : \A k \in Contents[b] : \A i \in k.elg, j \in k.inelg : i[1] # j[1]

(***************************************************************************)
(* Expiry.                                                                 *)
(***************************************************************************)

\* GetExpiringBlock of the ledger's BTL policy.
ExpiringBlock(b, c) == IF BTL[c] = 0 THEN MaxUint64 ELSE b + BTL[c] + 1

NeverExpires(e) == e = MaxUint64

IsExpired(b, c, latest) == latest >= ExpiringBlock(b, c)

Unexpired(b, items, latest) == {i \in items : ~IsExpired(b, i[1], latest)}

Expiring(b, items) == {i \in items : ~NeverExpires(ExpiringBlock(b, i[1]))}

\* The expiry keys of a document with the given present items and absent collections.
ExpiryKeys(b, present, absent) ==
    {ExpiringBlock(b, i[1]) : i \in present} \cup {ExpiringBlock(b, c) : c \in absent}

(***************************************************************************)
(* Opening the store.                                                      *)
(***************************************************************************)

LastCommittedBlockHeight(isEmpty, n) == IF isEmpty THEN 0 ELSE n + 1

Decrement64(n) == (n + MaxUint64) % (MaxUint64 + 1)

Increment64(n) == (n + 1) % (MaxUint64 + 1)

\* lookupLastBlock: the number of the last block, 0 also when there is none.
LookupLastBlock(n) == IF n = -1 THEN 0 ELSE n

\* Mutant: the cache is created with the height.
Opened_CacheAtHeight(n, list) ==
    LET found == LookupLastBlock(n)
        height == LastCommittedBlockHeight(found = 0, found)
    IN  [last |-> found, empty |-> found = 0, oldSet |-> list # {},
         cacheLast |-> height, cacheEmpty |-> height = 0]

Opened(n, list) ==
    LET found == LookupLastBlock(n)
        height == LastCommittedBlockHeight(found = 0, found)
    IN  [last |-> found, empty |-> found = 0, oldSet |-> list # {},
         cacheLast |-> Decrement64(height), cacheEmpty |-> Decrement64(height) = 0]

Init ==
    /\ doc = [b \in Blocks |-> NoDoc] /\ lastDoc = -1
    /\ prio = {} /\ deprio = {} /\ inelg = {}
    /\ pending = FALSE /\ oldList = {} /\ events = {}
    /\ LET o == Opened(-1, {})
       IN  /\ last = o.last /\ empty = o.empty /\ oldSet = o.oldSet
           /\ cacheLast = o.cacheLast /\ cacheEmpty = o.cacheEmpty
    /\ cache = [b \in Blocks |-> {}]
    /\ lock = "free" /\ commit = NoCommit /\ purges = {} /\ purging = NoPurge
    /\ missing = {} /\ old = NoOld /\ elg = NoElg
    /\ content = [b \in Blocks |-> NoContent]
    /\ cut = {} /\ dropped = {} /\ gone = {} /\ unsynced = {}
    /\ overwrote = FALSE /\ failed = FALSE /\ faults = 0

(***************************************************************************)
(* The peer stops and its store is opened again: what is in memory and the  *)
(* goroutines are lost, the two databases stay.                            *)
(***************************************************************************)
Fault == faults < MaxFaults /\ faults' = faults + 1

Crash ==
    /\ Fault
    /\ LET o == Opened(lastDoc, oldList)
       IN  /\ last' = o.last /\ empty' = o.empty /\ oldSet' = o.oldSet
           /\ cacheLast' = o.cacheLast /\ cacheEmpty' = o.cacheEmpty
    /\ cache' = [b \in Blocks |-> {}]
    /\ lock' = "free" /\ commit' = NoCommit /\ purges' = {} /\ purging' = NoPurge
    /\ missing' = {} /\ old' = NoOld /\ elg' = NoElg
    /\ cut' = cut \cup (IF commit.step = "docs" THEN {commit.block} ELSE {})
    /\ failed' = FALSE
    /\ UNCHANGED <<couch, level, content, dropped, gone, unsynced, overwrote>>

(***************************************************************************)
(* Commit of a block: the cache first, then CouchDB, then LevelDB.          *)
(***************************************************************************)

NextBlockNum == IF empty THEN 0 ELSE last + 1

CacheNextBlockNum == IF cacheEmpty THEN 0 ELSE Increment64(cacheLast)

\* createPvtDataCouchDoc: the document of a block, none without data and expiry entries.
NewDoc(b, k) ==
    LET present == Expiring(b, k.present)
        absent == {i[1] : i \in Expiring(b, k.elg \cup k.inelg)}
    IN  IF k.present = {} /\ absent = {} THEN NoDoc
        ELSE [data |-> k.present, present |-> present, absent |-> absent,
              nums |-> ExpiryKeys(b, present, absent), exists |-> TRUE]

\* The ledger commits the block the store waits for.
BeginCommit(b, k) ==
    /\ commit = NoCommit
    /\ b = NextBlockNum /\ b = CacheNextBlockNum
    /\ cache' = [cache EXCEPT ![b] = k.present]
    /\ cacheLast' = b /\ cacheEmpty' = FALSE
    /\ pending' = (pending \/ NewDoc(b, k).exists \/ k.elg \cup k.inelg # {})
    /\ commit' = [block |-> b, step |-> "begun", content |-> k]
    /\ UNCHANGED <<couch, index, oldList, events, last, empty, oldSet,
                   lock, purges, purging, missing, old, elg, history, faults>>

\* A document without a revision is refused when the block already has one.
CommitDocs ==
    /\ commit.step = "begun"
    /\ LET b == commit.block
       IN  /\ doc' = [doc EXCEPT ![b] = IF @.exists THEN @ ELSE NewDoc(b, commit.content)]
           /\ lastDoc' = b
           /\ content' = [content EXCEPT ![b] = commit.content]
    /\ commit' = [commit EXCEPT !.step = "docs"]
    /\ UNCHANGED <<level, memory, lock, purges, purging, missing, old, elg, cut, dropped, gone, unsynced, overwrote, failed, faults>>

MissingEntries(b, items) == {b} \X items

CommitIndex ==
    /\ commit.step = "docs"
    /\ LET b == commit.block
           k == commit.content
       IN  /\ prio' = prio \cup MissingEntries(b, k.elg)
           /\ inelg' = inelg \cup MissingEntries(b, k.inelg)
           /\ pending' = FALSE
           /\ last' = b /\ empty' = FALSE
           /\ purges' = purges \cup (IF b % PurgeInterval = 0 THEN {b} ELSE {})
    /\ commit' = NoCommit
    /\ UNCHANGED <<couch, deprio, oldList, events, oldSet, cache, cacheLast, cacheEmpty,
                   lock, purging, missing, old, elg, history, faults>>

\* Either database refuses its write: Commit returns the error.
CommitFails ==
    /\ commit # NoCommit /\ Fault
    /\ commit' = NoCommit
    /\ cut' = cut \cup (IF commit.step = "docs" THEN {commit.block} ELSE {})
    /\ failed' = TRUE
    /\ UNCHANGED <<couch, level, memory, lock, purges, purging, missing, old, elg,
                   content, dropped, gone, unsynced, overwrote>>

(***************************************************************************)
(* The purger.                                                             *)
(***************************************************************************)

\* getExpiredDataDoc: the expiry entries stay in the document, only the list of
\* block numbers that finds it again is computed anew.
PurgedDoc(b, m) ==
    LET kept == {i \in doc[b].data : ~(i \in doc[b].present /\ ExpiringBlock(b, i[1]) <= m)}
    IN  IF kept = {} THEN NoDoc
        ELSE [doc[b] EXCEPT !.data = kept,
                            !.nums = {e \in ExpiryKeys(b, doc[b].present, doc[b].absent) : e > m}]

\* retrieveBlockExpiryData
ExpiredDocs(m) == {b \in Blocks : \E e \in doc[b].nums : e <= m}

PurgeDocs(m) ==
    /\ m \in purges /\ lock = "free"
    /\ LET found == ExpiredDocs(m)
       IN  IF found = {}
           THEN purges' = purges \ {m} /\ UNCHANGED <<doc, gone, lock, purging>>
           ELSE /\ doc' = [b \in Blocks |-> IF b \in found THEN PurgedDoc(b, m) ELSE doc[b]]
                /\ gone' = gone \cup {b \in found : ~doc'[b].exists}
                /\ purging' = [block |-> m,
                               keys |-> {k \in found \X Colls :
                                           k[2] \in doc[k[1]].absent /\ ExpiringBlock(k[1], k[2]) <= m}]
                /\ lock' = "purge"
                /\ purges' = purges
    /\ UNCHANGED <<lastDoc, level, memory, commit, missing, old, elg, content, cut, dropped, unsynced, overwrote, failed, faults>>

Without(entries, keys) == {e \in entries : <<e[1], e[2][1]>> \notin keys}

PurgeIndex ==
    /\ lock = "purge"
    /\ prio' = Without(prio, purging.keys)
    /\ deprio' = Without(deprio, purging.keys)
    /\ inelg' = Without(inelg, purging.keys)
    /\ purges' = purges \ {purging.block}
    /\ purging' = NoPurge /\ lock' = "free"
    /\ UNCHANGED <<couch, pending, oldList, events, memory, commit, missing, old, elg,
                   history, faults>>

\* An error ends the purge with a warning.
PurgeFails ==
    \/ /\ lock = "purge" /\ Fault
       /\ purges' = purges \ {purging.block}
       /\ purging' = NoPurge /\ lock' = "free"
       /\ UNCHANGED <<couch, level, memory, commit, missing, old, elg, history>>
    \/ \E m \in purges :
       /\ lock = "free" /\ Fault
       /\ purges' = purges \ {m}
       /\ UNCHANGED <<couch, level, memory, lock, commit, purging, missing, old, elg,
                      history>>

(***************************************************************************)
(* The reconciler.                                                         *)
(***************************************************************************)

\* The entries of the most recent MaxOldBlocks blocks that miss unexpired data.
MissingInfo(group) ==
    LET live == {e \in group : e[1] <= last /\ ~IsExpired(e[1], e[2][1], last)}
        blocks == {e[1] : e \in live}
        recent == {b \in blocks : Cardinality({x \in blocks : x > b}) < MaxOldBlocks}
    IN  {e \in live : e[1] \in recent}

\* The deprioritised list is asked for when its interval has passed.
GetMissingPvtDataInfoForMostRecentBlocks ==
    /\ missing = {} /\ ~old.active
    /\ \E group \in {prio, deprio} : missing' = MissingInfo(group)
    /\ missing' # {}
    /\ UNCHANGED <<couch, level, memory, lock, commit, purges, purging, old, elg,
                   history, faults>>

ExpiryKey(e) == <<e[1], ExpiringBlock(e[1], e[2][1])>>

HasExpiryData(e) ==
    LET d == doc[e[1]]
    IN  ExpiryKey(e)[2] \in ExpiryKeys(e[1], d.present, d.absent)

\* PrepareDataAndExpiryEntries: data that expires and has no expiry entry is skipped.
Storable(found) ==
    {e \in found : NeverExpires(ExpiryKey(e)[2]) \/ HasExpiryData(e)}

\* The expiry entry of a key is read from the store for every data entry, so the
\* last of several data entries with one key decides what is written.
Winners(stored) ==
    LET expiring == {e \in stored : ~NeverExpires(ExpiryKey(e)[2])}
    IN  {w \in SUBSET expiring :
            /\ {ExpiryKey(e) : e \in w} = {ExpiryKey(e) : e \in expiring}
            /\ \A x, y \in w : ExpiryKey(x) = ExpiryKey(y) => x = y}

OfBlock(entries, b) == {e[2] : e \in {x \in entries : x[1] = b}}

\* Mutant: the reconciled data gets no expiry entry.
ReconciledDoc_NoExpiry(b, stored, winners) ==
    IF OfBlock(stored, b) = {} THEN doc[b]
    ELSE [doc[b] EXCEPT !.data = @ \cup OfBlock(stored, b), !.exists = TRUE]

\* preparePvtDataDoc merges what the document has with the reconciled entries.
ReconciledDoc(b, stored, winners) ==
    IF OfBlock(stored, b) = {} THEN doc[b]
    ELSE LET present == doc[b].present \cup OfBlock(winners, b)
         IN  [data |-> doc[b].data \cup OfBlock(stored, b),
              present |-> present, absent |-> doc[b].absent,
              nums |-> ExpiryKeys(b, present, doc[b].absent), exists |-> TRUE]

SameKey(x, y) == x[1] = y[1] /\ x[2][1] = y[2][1]

\* What the call changes in the index: a reconciled entry is cleared where it is listed,
\* and one that was asked for in vain moves from the prioritised to the deprioritised list.
ReconciledIndex(stored, found) ==
    [prio |-> (stored \cap prio) \cup (missing \ found),
     deprio |-> (stored \ prio) \cap deprio,
     lower |-> {u \in missing \ found : \E e \in prio : SameKey(e, u)},
     list |-> {e[1] : e \in found}, active |-> TRUE]

\* CommitPvtDataOfOldBlocks up to its CouchDB update.  found is what the other
\* peers had of the entries asked for.
CommitOldDocs(found) ==
    /\ missing # {} /\ lock = "free" /\ ~oldSet
    /\ LET stored == Storable(found)
       IN  \E winners \in Winners(stored) :
           /\ doc' = [b \in Blocks |-> ReconciledDoc(b, stored, winners)]
           /\ dropped' = (dropped \cup {e \in stored :
                                          /\ ~NeverExpires(ExpiryKey(e)[2])
                                          /\ e[2] \notin doc[e[1]].present}) \ winners
           /\ unsynced' = unsynced \cup stored
           /\ old' = ReconciledIndex(stored, found)
    /\ lock' = "old"
    /\ UNCHANGED <<lastDoc, level, memory, commit, purges, purging, missing, elg, content, cut, gone, overwrote, failed, faults>>

\* Mutant: the lock is kept.
CommitOldIndex_KeepsLock ==
    /\ lock = "old" /\ old.active
    /\ prio' = prio \ old.prio
    /\ deprio' = (deprio \ old.deprio) \cup old.lower
    /\ oldList' = old.list
    /\ overwrote' = (overwrote \/ ~(oldList \subseteq old.list))
    /\ old' = NoOld /\ missing' = {} /\ lock' = lock
    /\ UNCHANGED <<couch, inelg, pending, events, memory, commit, purges, purging, elg,
                   content, cut, dropped, gone, unsynced, failed, faults>>

CommitOldIndex ==
    /\ lock = "old"
    /\ prio' = prio \ old.prio
    /\ deprio' = (deprio \ old.deprio) \cup old.lower
    /\ oldList' = old.list
    /\ overwrote' = (overwrote \/ ~(oldList \subseteq old.list))
    /\ old' = NoOld /\ missing' = {} /\ lock' = "free"
    /\ UNCHANGED <<couch, inelg, pending, events, memory, commit, purges, purging, elg,
                   content, cut, dropped, gone, unsynced, failed, faults>>

\* The call is refused because the list of an earlier run is still set, or one of
\* its two writes fails.
CommitOldFails ==
    /\ missing # {}
    /\ \/ lock = "free" /\ oldSet /\ UNCHANGED <<lock, faults>>
       \/ lock = "old" /\ Fault /\ lock' = "free"
    /\ old' = NoOld /\ missing' = {}
    /\ UNCHANGED <<couch, level, memory, commit, purges, purging, elg, history>>

\* The ledger has applied the listed blocks' data to the state database, in the
\* call or at recovery, and resets the list.
ResetLastUpdatedOldBlocksList ==
    /\ oldList # {} /\ lock # "old"
    /\ unsynced' = {e \in unsynced : e[1] \notin oldList}
    /\ oldList' = {} /\ oldSet' = FALSE
    /\ UNCHANGED <<couch, index, pending, events, last, empty, cache, cacheLast, cacheEmpty,
                   threads, content, cut, dropped, gone, overwrote, failed, faults>>

(***************************************************************************)
(* The collection eligibility processor.                                   *)
(***************************************************************************)

\* The peer becomes eligible for a collection with a block it commits.
ProcessCollsEligibilityEnabled(c) ==
    /\ \E e \in inelg : e[2][1] = c
    /\ ~\E ev \in events : ev[2] = c
    /\ events' = events \cup {<<last, c>>}
    /\ UNCHANGED <<couch, index, pending, oldList, memory, threads, history, faults>>

\* Under the lock the iterator fixes what it will return.
ElgStart ==
    /\ lock = "free" /\ elg = NoElg
    /\ \E ev \in events :
         elg' = [event |-> ev, step |-> "run",
                 todo |-> {e \in inelg : e[2][1] = ev[2] /\ e[1] <= ev[1]}]
    /\ lock' = "elg"
    /\ UNCHANGED <<couch, level, memory, commit, purges, purging, missing, old,
                   history, faults>>

\* Mutant: the ineligible entry is deleted and not written as an eligible one.
Converted_Deleted(entries) == inelg' = inelg \ entries /\ prio' = prio

Converted(entries) ==
    /\ inelg' = inelg \ entries
    /\ prio' = {e \in prio : ~\E x \in entries : SameKey(e, x)} \cup entries

\* A full batch is written and the lock is given up until the next one.  Blocks are
\* visited from the latest down.
ElgBatch ==
    /\ lock = "elg" /\ elg.todo # {}
    /\ LET b == Max({e[1] : e \in elg.todo})
           entries == {e \in elg.todo : e[1] = b}
       IN  /\ Converted(entries)
           /\ elg' = [elg EXCEPT !.todo = @ \ entries, !.step = "sleep"]
    /\ lock' = "free"
    /\ UNCHANGED <<couch, deprio, pending, oldList, events, memory, commit, purges, purging,
                   missing, old, history, faults>>

ElgResume ==
    /\ elg.step = "sleep" /\ lock = "free"
    /\ lock' = "elg" /\ elg' = [elg EXCEPT !.step = "run"]
    /\ UNCHANGED <<couch, level, memory, commit, purges, purging, missing, old,
                   history, faults>>

\* The last batch also deletes the event.
ElgFinish ==
    /\ lock = "elg"
    /\ Converted(elg.todo)
    /\ events' = events \ {elg.event}
    /\ elg' = NoElg /\ lock' = "free"
    /\ UNCHANGED <<couch, deprio, pending, oldList, memory, commit, purges, purging,
                   missing, old, history, faults>>

(***************************************************************************)
(* Reading, on the committing and on an endorsing peer.                    *)
(***************************************************************************)

Evict(b) ==
    /\ cache[b] # {}
    /\ cache' = [cache EXCEPT ![b] = {}]
    /\ UNCHANGED <<couch, level, last, empty, oldSet, cacheLast, cacheEmpty, threads,
                   history, faults>>

CacheRead(b) == Unexpired(b, cache[b], cacheLast)

DBRead(b) == Unexpired(b, doc[b].data, last)

InRange(b) == ~cacheEmpty /\ b <= cacheLast /\ ~empty /\ b <= last

\* GetPvtDataByBlockNum for a block in range.
Read(b) == IF CacheRead(b) # {} THEN CacheRead(b) ELSE DBRead(b)

\* A peer that does not commit has seen blocks published up to n and checks the range
\* against the shared CouchDB; its cache is always empty.
EndorserInRange(b, n) ==
    /\ n # 0 /\ b <= n
    /\ LookupLastBlock(lastDoc) # 0 /\ b <= lastDoc

EndorserRead(b, n) == Unexpired(b, doc[b].data, n)

Next ==
    \/ Crash
    \/ \E b \in Blocks : \E k \in Contents[b] : BeginCommit(b, k)
    \/ CommitDocs \/ CommitIndex \/ CommitFails
    \/ \E m \in purges : PurgeDocs(m)
    \/ PurgeIndex \/ PurgeFails
    \/ GetMissingPvtDataInfoForMostRecentBlocks
    \/ \E found \in SUBSET missing : CommitOldDocs(found)
    \/ CommitOldIndex \/ CommitOldFails \/ ResetLastUpdatedOldBlocksList
    \/ \E c \in Colls : ProcessCollsEligibilityEnabled(c)
    \/ ElgStart \/ ElgBatch \/ ElgResume \/ ElgFinish
    \/ \E b \in Blocks : Evict(b)

\* A goroutine that runs goes on, and Go's mutex serves every waiter in the end.
Fairness ==
    /\ SF_vars(\E m \in purges : PurgeDocs(m))
    /\ WF_vars(PurgeIndex) /\ WF_vars(CommitOldIndex)
    /\ SF_vars(ElgStart) /\ SF_vars(ElgResume) /\ WF_vars(ElgFinish)

Spec == Init /\ [][Next]_vars /\ Fairness

-----------------------------------------------------------------------------

\* Every variable holds a value of its kind.
TypeOK ==
    /\ \A b \in Blocks :
         /\ doc[b].data \subseteq Items /\ doc[b].present \subseteq Items
         /\ doc[b].absent \subseteq Colls /\ doc[b].nums \subseteq Nat
         /\ doc[b].exists \in BOOLEAN
         /\ cache[b] \subseteq Items
    /\ lastDoc \in Blocks \cup {-1} /\ last \in Blocks
    /\ cacheLast \in 0..MaxUint64
    /\ prio \cup deprio \cup inelg \cup missing \cup unsynced \cup dropped \subseteq Entries
    /\ oldList \cup cut \cup gone \cup purges \subseteq Blocks
    /\ events \subseteq Blocks \X Colls
    /\ lock \in {"free", "purge", "old", "elg"}
    /\ commit.step \in {"none", "begun", "docs"}

Committed(b) == b <= lastDoc /\ commit.block # b

\* NothingLost: an item a committed block declared missing, and that has not expired, is
\* either stored or still listed as missing, whatever purges, reconciliations and
\* eligibility conversions ran in between.  The one exception is a block whose commit
\* stopped after the CouchDB update and before the LevelDB batch: its block number is
\* already recorded as committed, so the missing entries are never written.
NothingLost ==
    \A b \in Blocks : Committed(b) /\ b \notin cut =>
        /\ \A i \in Unexpired(b, content[b].elg, last) :
             <<b, i>> \in prio \cup deprio \/ i \in doc[b].data
        /\ \A i \in Unexpired(b, content[b].inelg, last) :
             <<b, i>> \in inelg \cup prio \cup deprio \/ i \in doc[b].data

\* PresentKept: data that came with a committed block stays in its document until it has
\* expired: neither a purge of other collections of the block nor a reconciliation that
\* rewrites the document takes it away.
PresentKept ==
    \A b \in Blocks : Committed(b) => Unexpired(b, content[b].present, last) \subseteq doc[b].data

\* ExpiringDataScheduled: stored data that expires has an expiry entry and a block number
\* by which a later purge finds its document, unless the expiry entry was overwritten by
\* another item with the same key reconciled in the same call.
ExpiringDataScheduled ==
    \A b \in Blocks : \A i \in Expiring(b, doc[b].data) :
        \/ <<b, i>> \in dropped
        \/ i \in doc[b].present /\ ExpiringBlock(b, i[1]) \in doc[b].nums

\* MissingReconcilable: an unexpired entry of a missing data index can still be reconciled,
\* that is, its block's document has the expiry entry without which the reconciled data is
\* skipped, unless a purge deleted the document because its last data item expired.
MissingReconcilable ==
    \A e \in prio \cup deprio \cup inelg :
        \/ NeverExpires(ExpiryKey(e)[2]) \/ IsExpired(e[1], e[2][1], last)
        \/ HasExpiryData(e)
        \/ e[1] \in gone

\* ReadsExact: between commits a read returns no expired item and nothing that is not
\* stored, and what it leaves out is data reconciled while the cache still holds what the
\* block itself brought; an endorsing peer never misses data the block brought.
ReadsExact ==
    \A b \in Blocks :
        /\ commit = NoCommit /\ ~failed /\ InRange(b) =>
             /\ Read(b) \subseteq DBRead(b)
             /\ (DBRead(b) \ Read(b)) \cap content[b].present = {}
             /\ CacheRead(b) = {} => Read(b) = DBRead(b)
        /\ \A n \in 0..last : EndorserInRange(b, n) =>
             Unexpired(b, content[b].present, last) \subseteq EndorserRead(b, n)

\* RecoveryListComplete: reconciled data the state database does not have yet is either of
\* a block in the list that recovery reads, or still listed as missing and so reconciled
\* again, unless it has expired or a later reconciliation replaced the list before it was
\* reset.
RecoveryListComplete ==
    lock # "old" =>
        \A e \in unsynced :
            \/ e[1] \in oldList \/ e \in prio \cup deprio
            \/ overwrote \/ IsExpired(e[1], e[2][1], last)

\* StoresInStep: when no commit is running or has failed since the store was opened, the
\* cache and the database expect the same block, and it is the one after the last block in
\* CouchDB.  A store that holds only the genesis block counts as empty when it is opened.
StoresInStep ==
    commit = NoCommit /\ ~failed =>
        /\ NextBlockNum = CacheNextBlockNum
        /\ NextBlockNum = lastDoc + 1 \/ lastDoc = 0

\* PurgesRun: scheduled purges end, although they share their lock with the reconciler and
\* the eligibility processor.
PurgesRun == (purges # {}) ~> (purges = {})

\* EventsProcessed: collection eligibility events are processed in the end, also when the
\* peer stops half way through one.
EventsProcessed == (events # {}) ~> (events = {})

\* No item of a committed block is lost: until it expires it is stored or listed, as missing
\* or for the recovery of the state database, with the exceptions above (Commit,
\* CommitPvtDataOfOldBlocks, purgeExpiredData).
ItemsKept == TypeOK /\ NothingLost /\ PresentKept /\ RecoveryListComplete

\* The expiry entries lead the purge to all that expires and the reconciler to all that is
\* missing, with the exceptions above (prepareExpiryEntries, getExpiryDataOfExpiryKey).
ExpiryFound == ExpiringDataScheduled /\ MissingReconcilable

\* The cache and the database behind it are read as one store (GetPvtDataByBlockNum, Init).
ReadsInStep == ReadsExact /\ StoresInStep

\* Whoever waits for the lock of the purger gets it: purges and eligibility events end
\* (performPurgeIfScheduled, processCollElgEvents).
LockShared == PurgesRun /\ EventsProcessed

=============================================================================
