-------------------------- MODULE PvtDataStoreProofs --------------------------
(***************************************************************************)
(* Proofs about the private data store: for any number of blocks, any       *)
(* collections and lives, any missing data, and any number of faults, no    *)
(* item is lost before it expires, the expiry entries lead to all that      *)
(* expires, and the cache and the database are read as one.                 *)
(***************************************************************************)
EXTENDS PvtDataStore, TLAPS

\* Steps are proved by Zenon unless they name another prover.
USE Zenon

DocType ==
    [data : SUBSET Items, present : SUBSET Items, absent : SUBSET Colls, nums : SUBSET Nat,
     exists : BOOLEAN]

ContentType == [present : SUBSET Items, elg : SUBSET Items, inelg : SUBSET Items]

Types ==
    /\ doc \in [Blocks -> DocType] /\ lastDoc \in Blocks \cup {-1}
    /\ prio \subseteq Entries /\ deprio \subseteq Entries /\ inelg \subseteq Entries
    /\ oldList \subseteq Blocks /\ events \subseteq Blocks \X Colls
    /\ last \in Blocks /\ empty \in BOOLEAN
    /\ cache \in [Blocks -> SUBSET Items] /\ cacheLast \in 0..MaxUint64 /\ cacheEmpty \in BOOLEAN
    /\ lock \in {"free", "purge", "old", "elg"}
    /\ commit \in [block : Blocks \cup {-1}, step : {"none", "begun", "docs"}, content : ContentType]
    /\ purges \subseteq Blocks
    /\ purging \in [block : Blocks \cup {-1}, keys : SUBSET (Blocks \X Colls)]
    /\ missing \subseteq Entries
    /\ old \in [prio : SUBSET Entries, deprio : SUBSET Entries, lower : SUBSET Entries,
                list : SUBSET Blocks, active : BOOLEAN]
    /\ elg \in [event : (Blocks \X Colls) \cup {NoElg.event}, todo : SUBSET Entries,
                step : {"none", "run", "sleep"}]
    /\ content \in [Blocks -> ContentType]
    /\ cut \subseteq Blocks /\ gone \subseteq Blocks
    /\ dropped \subseteq Entries /\ unsynced \subseteq Entries
    /\ overwrote \in BOOLEAN /\ failed \in BOOLEAN

\* The numbers of the two stores, through a commit, a failed commit and a restart.
Numbers ==
    /\ empty => last = 0
    /\ ~empty => last <= lastDoc
    /\ commit.step = "none" => commit = NoCommit
    /\ commit.step # "none" =>
         /\ commit.block \in Blocks /\ commit.block = NextBlockNum
         /\ ~cacheEmpty /\ cacheLast = commit.block /\ ~failed
         /\ commit.content \in Contents[commit.block]
    /\ commit.step = "begun" => commit.block = lastDoc + 1 \/ (commit.block = 0 /\ lastDoc = 0)
    /\ commit.step = "docs" => commit.block = lastDoc
    /\ failed => NextBlockNum # CacheNextBlockNum
    /\ StoresInStep

\* What the documents hold and what came with the blocks.
Documents ==
    \A b \in Blocks :
        /\ content[b] \in Contents[b] \cup {NoContent}
        /\ doc[b].exists \/ doc[b] = NoDoc
        /\ doc[b].exists => b <= lastDoc
        /\ b <= lastDoc => Unexpired(b, content[b].present, last) \subseteq doc[b].data
        /\ commit.step = "docs" /\ commit.block = b => content[b] = commit.content

Expired(e) == IsExpired(e[1], e[2][1], last)

Listed == prio \cup deprio \cup inelg \cup missing \cup elg.todo \cup old.prio \cup old.lower

\* Listed entries are of blocks that the store has, and what a purge deletes has expired.
Bounds ==
    /\ \A e \in Listed : e[1] \in 1..last
    /\ \A m \in purges : m <= last
    /\ \A k \in purging.keys : IsExpired(k[1], k[2], last)

\* The parts of the index and those that work on it do not disturb each other.
Index ==
    /\ \A x \in inelg \cup elg.todo, e \in prio : ~SameKey(e, x)
    /\ \A x \in elg.todo, y \in inelg : SameKey(x, y) => y \in elg.todo
    /\ \A e \in missing : e \in prio \cup deprio \/ Expired(e)
    /\ lock # "old" => old = NoOld
    /\ \A e \in old.deprio \cup (old.prio \cap prio) :
         e \in old.lower \/ (e[2] \in doc[e[1]].data /\ e[1] \in old.list)

\* Nothing is lost, also while the reconciler works.
Kept ==
    /\ NothingLost
    /\ \A e \in unsynced : e[1] \in oldList \/ e \in prio \cup deprio \/ overwrote \/ Expired(e)

Reconcilable(e) == NeverExpires(ExpiryKey(e)[2]) \/ Expired(e) \/ HasExpiryData(e) \/ e[1] \in gone

\* Expiry entries are where they are needed.
Expiry ==
    /\ ExpiringDataScheduled
    /\ \A e \in Listed : Reconcilable(e)
    /\ commit.step = "docs" =>
         \A i \in commit.content.elg \cup commit.content.inelg : Reconcilable(<<commit.block, i>>)

\* The cache holds what a block brought, or nothing.
CacheHolds ==
    ~failed => \A b \in Blocks :
        \/ cache[b] = {}
        \/ cache[b] = content[b].present /\ ~(commit.step = "begun" /\ commit.block = b)
        \/ cache[b] = commit.content.present /\ commit.step = "begun" /\ commit.block = b

Inv == Types /\ Numbers /\ Documents /\ Bounds /\ Index /\ Kept /\ Expiry /\ CacheHolds

\* The steps, by who takes them.
Committing ==
    Crash \/ (\E b \in Blocks : \E k \in Contents[b] : BeginCommit(b, k))
          \/ CommitDocs \/ CommitIndex \/ CommitFails

Purging == (\E m \in purges : PurgeDocs(m)) \/ PurgeIndex \/ PurgeFails

Reconciling ==
    GetMissingPvtDataInfoForMostRecentBlocks \/ (\E found \in SUBSET missing : CommitOldDocs(found))
        \/ CommitOldIndex \/ CommitOldFails \/ ResetLastUpdatedOldBlocksList

Enabling ==
    (\E c \in Colls : ProcessCollsEligibilityEnabled(c))
        \/ ElgStart \/ ElgBatch \/ ElgResume \/ ElgFinish

Evicting == \E b \in Blocks : Evict(b)

numbers == <<lastDoc, last, empty, cacheLast, cacheEmpty, commit, failed, content, cut>>

-----------------------------------------------------------------------------
(***************************************************************************)
(* Numbers, items and expiry.                                              *)
(***************************************************************************)

\* An entry is a block and an item, and the item has a collection.
LEMMA EntryParts ==
    ASSUME NEW e \in Entries
    PROVE  e[1] \in Blocks /\ e[2] \in Items /\ e[2][1] \in Colls /\ e = <<e[1], e[2]>>
BY ItemsAssumption, SMT DEF Entries

\* The block at which an item expires is a number.
LEMMA ExpiringNat ==
    ASSUME NEW b \in Blocks, NEW c \in Colls
    PROVE  ExpiringBlock(b, c) \in Nat
BY NumbersAssumption, ItemsAssumption, SMT DEF ExpiringBlock, Blocks

\* What has expired stays expired.
LEMMA StaysExpired ==
    ASSUME NEW b \in Blocks, NEW c \in Colls, NEW m \in Blocks, NEW n \in Blocks, m <= n,
           IsExpired(b, c, m)
    PROVE  IsExpired(b, c, n)
BY ExpiringNat, NumbersAssumption, SMT DEF IsExpired, Blocks

\* Numbers that do not reach the largest uint64 go up and down by one.
LEMMA Counting ==
    ASSUME NEW n \in 0..MaxUint64
    PROVE  /\ n < MaxUint64 => Increment64(n) = n + 1
           /\ n = MaxUint64 => Increment64(n) = 0
           /\ n = 0 => Decrement64(n) = MaxUint64
           /\ n > 0 => Decrement64(n) = n - 1
<1> DEFINE M == MaxUint64 + 1
<1>0. n \in Nat /\ M \in Nat /\ M > 0 /\ n <= MaxUint64 /\ MaxUint64 \in Nat
  BY NumbersAssumption, SMT
<1>1. \A a \in Nat : a < M => a % M = a
  BY <1>0, SMT
<1>2. \A a \in Nat : M <= a /\ a < M + M => a % M = a - M
  BY <1>0, SMT
<1>3. Increment64(n) = (n + 1) % M /\ Decrement64(n) = (n + MaxUint64) % M
  BY DEF Increment64, Decrement64
<1> HIDE DEF M
<1>4. M = MaxUint64 + 1
  BY DEF M
<1> QED BY <1>0, <1>1, <1>2, <1>3, <1>4, SMT

\* The store as it is opened.
LEMMA OpenedNumbers ==
    ASSUME NEW n \in Blocks \cup {-1}, NEW list
    PROVE  /\ Opened(n, list).last \in Blocks /\ Opened(n, list).empty \in BOOLEAN
           /\ Opened(n, list).cacheLast \in 0..MaxUint64
           /\ ~Opened(n, list).cacheEmpty /\ Opened(n, list).cacheEmpty \in BOOLEAN
           /\ Opened(n, list).empty <=> n <= 0
           /\ n <= 0 => Opened(n, list).last = 0 /\ Opened(n, list).cacheLast = MaxUint64
           /\ n > 0 => Opened(n, list).last = n /\ Opened(n, list).cacheLast = n
<1>1. n \in Int /\ n >= -1 /\ n <= MaxBlock /\ MaxBlock < MaxUint64 /\ MaxUint64 \in Nat /\ MaxBlock \in Nat
  BY NumbersAssumption, SMT DEF Blocks
<1> DEFINE found == LookupLastBlock(n)
           height == LastCommittedBlockHeight(found = 0, found)
<1>2. /\ n <= 0 => found = 0 /\ height = 0
      /\ n > 0 => found = n /\ height = n + 1
  BY <1>1, SMT DEF LookupLastBlock, LastCommittedBlockHeight
<1>3. height \in 0..MaxUint64
  BY <1>1, <1>2, SMT
<1>4. /\ n <= 0 => Decrement64(height) = MaxUint64
      /\ n > 0 => Decrement64(height) = n
  BY <1>1, <1>2, <1>3, Counting, SMT
<1>5. /\ Opened(n, list).last = found /\ Opened(n, list).empty = (found = 0)
      /\ Opened(n, list).cacheLast = Decrement64(height)
      /\ Opened(n, list).cacheEmpty = (Decrement64(height) = 0)
  BY DEF Opened
<1> HIDE DEF found, height
<1>6. /\ Opened(n, list).empty \in BOOLEAN /\ Opened(n, list).cacheEmpty \in BOOLEAN
      /\ Opened(n, list).empty <=> found = 0
      /\ Opened(n, list).cacheEmpty <=> Decrement64(height) = 0
  BY <1>5
<1>7. (found = 0 <=> n <= 0) /\ Decrement64(height) # 0
  BY <1>1, <1>2, <1>4, SMT
<1>8. Opened(n, list).last \in Blocks /\ Opened(n, list).cacheLast \in 0..MaxUint64
  BY <1>1, <1>2, <1>4, <1>5, SMT DEF Blocks
<1> QED BY <1>2, <1>4, <1>5, <1>6, <1>7, <1>8

\* A document and what becomes of it.
LEMMA NewDocType ==
    ASSUME NEW b \in Blocks, NEW k \in ContentType
    PROVE  NewDoc(b, k) \in DocType
<1>1. NoDoc \in DocType
  BY DEF NoDoc, DocType
<1> DEFINE present == Expiring(b, k.present)
           absent == {i[1] : i \in Expiring(b, k.elg \cup k.inelg)}
<1>2. k.present \subseteq Items /\ k.elg \subseteq Items /\ k.inelg \subseteq Items
  BY DEF ContentType
<1>3. present \subseteq Items /\ absent \subseteq Colls
  BY <1>2, ItemsAssumption DEF Expiring
<1>4. ExpiryKeys(b, present, absent) \subseteq Nat
  <2> HIDE DEF present, absent
  <2> QED BY <1>3, ExpiringNat, ItemsAssumption DEF ExpiryKeys
<1> QED BY <1>1, <1>2, <1>3, <1>4 DEF NewDoc, DocType

LEMMA ExpiryKeysNat ==
    ASSUME NEW b \in Blocks, NEW present \in SUBSET Items, NEW absent \in SUBSET Colls
    PROVE  ExpiryKeys(b, present, absent) \subseteq Nat
BY ExpiringNat, ItemsAssumption DEF ExpiryKeys

LEMMA PurgedDocType ==
    ASSUME Types, NEW b \in Blocks, NEW m \in Blocks
    PROVE  PurgedDoc(b, m) \in DocType
<1>1. doc[b] \in DocType
  BY DEF Types
<1>2. ExpiryKeys(b, doc[b].present, doc[b].absent) \subseteq Nat
  BY <1>1, ExpiryKeysNat DEF DocType
<1>3. NoDoc \in DocType
  BY DEF NoDoc, DocType
<1> QED BY <1>1, <1>2, <1>3 DEF PurgedDoc, DocType

LEMMA ReconciledDocType ==
    ASSUME Types, NEW b \in Blocks, NEW stored \in SUBSET Entries, NEW winners \in SUBSET Entries
    PROVE  ReconciledDoc(b, stored, winners) \in DocType
<1>1. doc[b] \in DocType
  BY DEF Types
<1>2. OfBlock(stored, b) \subseteq Items /\ OfBlock(winners, b) \subseteq Items
  BY DEF OfBlock, Entries
<1> DEFINE present == doc[b].present \cup OfBlock(winners, b)
<1>3. present \subseteq Items /\ doc[b].absent \subseteq Colls
  BY <1>1, <1>2 DEF DocType
<1>4. ExpiryKeys(b, present, doc[b].absent) \subseteq Nat
  BY <1>3, ExpiryKeysNat
<1> QED BY <1>1, <1>2, <1>3, <1>4 DEF ReconciledDoc, DocType

-----------------------------------------------------------------------------
(***************************************************************************)
(* Types.                                                                  *)
(***************************************************************************)

\* The kinds of the values at the start.
LEMMA TypesInit == Init => Types
<1> SUFFICES ASSUME Init PROVE Types
  OBVIOUS
<1>1. -1 \in Blocks \cup {-1} /\ 0 \in Blocks
  BY NumbersAssumption, SMT DEF Blocks
<1>2. /\ last \in Blocks /\ empty \in BOOLEAN /\ cacheLast \in 0..MaxUint64 /\ cacheEmpty \in BOOLEAN
  BY <1>1, OpenedNumbers DEF Init
<1>3. NoDoc \in DocType /\ NoContent \in ContentType
  BY DEF NoDoc, DocType, NoContent, ContentType
<1>4. /\ NoCommit \in [block : Blocks \cup {-1}, step : {"none", "begun", "docs"}, content : ContentType]
      /\ NoPurge \in [block : Blocks \cup {-1}, keys : SUBSET (Blocks \X Colls)]
      /\ NoOld \in [prio : SUBSET Entries, deprio : SUBSET Entries, lower : SUBSET Entries,
                    list : SUBSET Blocks, active : BOOLEAN]
  BY <1>1, <1>3 DEF NoCommit, NoPurge, NoOld
<1>5. NoElg \in [event : (Blocks \X Colls) \cup {NoElg.event}, todo : SUBSET Entries,
                 step : {"none", "run", "sleep"}]
  BY DEF NoElg
<1> QED BY <1>1, <1>2, <1>3, <1>4, <1>5 DEF Init, Types

\* Kinds of values are kept: opening the store and committing.
LEMMA TypesCommit ==
    ASSUME Types, Numbers, Committing
    PROVE  Types'
<1>1. CASE Crash
  <2>1. /\ last' \in Blocks /\ empty' \in BOOLEAN
        /\ cacheLast' \in 0..MaxUint64 /\ cacheEmpty' \in BOOLEAN
    BY <1>1, OpenedNumbers DEF Crash, Types
  <2>2. -1 \in Blocks \cup {-1} /\ NoContent \in ContentType
    BY DEF NoContent, ContentType
  <2>3. /\ NoCommit \in [block : Blocks \cup {-1}, step : {"none", "begun", "docs"}, content : ContentType]
        /\ NoPurge \in [block : Blocks \cup {-1}, keys : SUBSET (Blocks \X Colls)]
        /\ NoOld \in [prio : SUBSET Entries, deprio : SUBSET Entries, lower : SUBSET Entries,
                      list : SUBSET Blocks, active : BOOLEAN]
    BY <2>2 DEF NoCommit, NoPurge, NoOld
  <2>4. NoElg \in [event : (Blocks \X Colls) \cup {NoElg.event}, todo : SUBSET Entries,
                   step : {"none", "run", "sleep"}]
    BY DEF NoElg
  <2>5. cut' \subseteq Blocks
    BY <1>1 DEF Crash, Types, Numbers
  <2>6. cache' \in [Blocks -> SUBSET Items]
    BY <1>1 DEF Crash
  <2> QED BY <1>1, <2>1, <2>3, <2>4, <2>5, <2>6 DEF Crash, Types, couch, level, index
<1>2. ASSUME NEW b \in Blocks, NEW k \in Contents[b], BeginCommit(b, k)
      PROVE  Types'
  <2>1. k \in ContentType /\ b \in 0..MaxUint64
    BY ContentsAssumption, NumbersAssumption, SMT DEF ContentType, Blocks
  <2>2. cache' \in [Blocks -> SUBSET Items]
    BY <1>2, <2>1 DEF BeginCommit, Types, ContentType
  <2>3. commit' \in [block : Blocks \cup {-1}, step : {"none", "begun", "docs"}, content : ContentType]
    BY <1>2, <2>1 DEF BeginCommit
  <2>4. cacheLast' \in 0..MaxUint64 /\ cacheEmpty' \in BOOLEAN
    BY <1>2, <2>1 DEF BeginCommit
  <2>5. UNCHANGED <<doc, lastDoc, prio, deprio, inelg, oldList, events, last, empty, lock, purges, purging,
                    missing, old, elg, content, cut, gone, dropped, unsynced, overwrote, failed>>
    BY <1>2 DEF BeginCommit, couch, index, history
  <2> QED BY <2>2, <2>3, <2>4, <2>5, ZenonT(40) DEF Types
<1>3. CASE CommitDocs
  <2>1. commit.block \in Blocks /\ commit.content \in ContentType
    BY <1>3 DEF CommitDocs, Types, Numbers
  <2>2. NewDoc(commit.block, commit.content) \in DocType
    BY <2>1, NewDocType
  <2>3. doc' \in [Blocks -> DocType]
    BY <1>3, <2>1, <2>2 DEF CommitDocs, Types
  <2>4. content' \in [Blocks -> ContentType]
    BY <1>3, <2>1 DEF CommitDocs, Types
  <2>5. commit' \in [block : Blocks \cup {-1}, step : {"none", "begun", "docs"}, content : ContentType]
    BY <1>3 DEF CommitDocs, Types
  <2> QED BY <1>3, <2>1, <2>3, <2>4, <2>5, SMT DEF CommitDocs, Types, level, index, memory
<1>4. CASE CommitIndex
  <2>1. commit.block \in Blocks /\ commit.content \in ContentType
    BY <1>4 DEF CommitIndex, Types, Numbers
  <2>2. prio' \subseteq Entries /\ inelg' \subseteq Entries
    BY <1>4, <2>1 DEF CommitIndex, Types, MissingEntries, Entries, ContentType
  <2>3. purges' \subseteq Blocks
    BY <1>4, <2>1 DEF CommitIndex, Types
  <2>4. commit' \in [block : Blocks \cup {-1}, step : {"none", "begun", "docs"}, content : ContentType]
    BY <1>4 DEF CommitIndex, NoCommit, NoContent, ContentType
  <2>5. last' \in Blocks /\ empty' \in BOOLEAN
    BY <1>4, <2>1 DEF CommitIndex
  <2>6. UNCHANGED <<doc, lastDoc, deprio, oldList, events, cache, cacheLast, cacheEmpty, lock, purging,
                    missing, old, elg, content, cut, gone, dropped, unsynced, overwrote, failed>>
    BY <1>4 DEF CommitIndex, couch, history
  <2> QED BY <2>2, <2>3, <2>4, <2>5, <2>6, ZenonT(40) DEF Types
<1>5. CASE CommitFails
  <2>1. cut' \subseteq Blocks
    BY <1>5 DEF CommitFails, Types, Numbers
  <2>2. commit' \in [block : Blocks \cup {-1}, step : {"none", "begun", "docs"}, content : ContentType]
    BY <1>5 DEF CommitFails, NoCommit, NoContent, ContentType
  <2> QED BY <1>5, <2>1, <2>2, SMT DEF CommitFails, Types, couch, level, index, memory
<1> QED BY <1>1, <1>2, <1>3, <1>4, <1>5 DEF Committing

\* Kinds of values are kept: purging.
LEMMA TypesPurge ==
    ASSUME Types, Purging
    PROVE  Types'
<1>0. NoPurge \in [block : Blocks \cup {-1}, keys : SUBSET (Blocks \X Colls)]
  BY DEF NoPurge
<1>1. ASSUME NEW m \in purges, PurgeDocs(m)
      PROVE  Types'
  <2>0. m \in Blocks
    BY DEF Types
  <2>1. CASE ExpiredDocs(m) = {}
    BY <1>1, <2>1, SMT DEF PurgeDocs, Types, level, index, memory
  <2>2. CASE ExpiredDocs(m) # {}
    <3> DEFINE found == ExpiredDocs(m)
    <3>0. found \subseteq Blocks
      BY DEF ExpiredDocs
    <3>1. doc' = [b \in Blocks |-> IF b \in found THEN PurgedDoc(b, m) ELSE doc[b]]
      BY <1>1, <2>2 DEF PurgeDocs
    <3>2. doc' \in [Blocks -> DocType]
      BY <3>1, <2>0, PurgedDocType DEF Types
    <3>3. gone' \subseteq Blocks
      BY <1>1, <2>2, <3>0 DEF PurgeDocs, Types
    <3>4. purging' \in [block : Blocks \cup {-1}, keys : SUBSET (Blocks \X Colls)]
      BY <1>1, <2>0, <2>2, <3>0, SMT DEF PurgeDocs
    <3>5. purges' \subseteq Blocks /\ lock' \in {"free", "purge", "old", "elg"}
      BY <1>1, <2>2 DEF PurgeDocs, Types
    <3> QED BY <1>1, <3>2, <3>3, <3>4, <3>5, SMT DEF PurgeDocs, Types, level, index, memory
  <2> QED BY <2>1, <2>2
<1>2. CASE PurgeIndex
  <2>1. prio' \subseteq Entries /\ deprio' \subseteq Entries /\ inelg' \subseteq Entries
    BY <1>2 DEF PurgeIndex, Types, Without
  <2> QED BY <1>0, <1>2, <2>1, SMT DEF PurgeIndex, Types, couch, memory, history
<1>3. CASE PurgeFails
  BY <1>0, <1>3, SMT DEF PurgeFails, Types, couch, level, index, memory, history
<1> QED BY <1>1, <1>2, <1>3 DEF Purging

\* What a reconciliation stores and whose expiry entry it writes are entries asked for.
LEMMA StoredFound ==
    ASSUME NEW found, NEW winners \in Winners(Storable(found))
    PROVE  Storable(found) \subseteq found /\ winners \subseteq Storable(found)
BY DEF Storable, Winners

\* Kinds of values are kept: reconciling.
LEMMA TypesReconcile ==
    ASSUME Types, Reconciling
    PROVE  Types'
<1>0. NoOld \in [prio : SUBSET Entries, deprio : SUBSET Entries, lower : SUBSET Entries,
                 list : SUBSET Blocks, active : BOOLEAN]
  BY DEF NoOld
<1>1. CASE GetMissingPvtDataInfoForMostRecentBlocks
  <2>1. missing' \subseteq Entries
    BY <1>1 DEF GetMissingPvtDataInfoForMostRecentBlocks, MissingInfo, Types
  <2> QED BY <1>1, <2>1, SMT DEF GetMissingPvtDataInfoForMostRecentBlocks, Types, couch, level, index,
                            memory, history
<1>2. ASSUME NEW found \in SUBSET missing, CommitOldDocs(found)
      PROVE  Types'
  <2> DEFINE stored == Storable(found)
  <2>1. PICK winners \in Winners(stored) :
          /\ doc' = [b \in Blocks |-> ReconciledDoc(b, stored, winners)]
          /\ dropped' = (dropped \cup {e \in stored :
                                         /\ ~NeverExpires(ExpiryKey(e)[2])
                                         /\ e[2] \notin doc[e[1]].present}) \ winners
          /\ unsynced' = unsynced \cup stored
          /\ old' = ReconciledIndex(stored, found)
    BY <1>2 DEF CommitOldDocs
  <2>2. stored \subseteq Entries /\ winners \subseteq Entries /\ found \subseteq Entries
    BY StoredFound DEF Types
  <2> HIDE DEF stored
  <2>3. doc' \in [Blocks -> DocType]
    BY <2>1, <2>2, ReconciledDocType
  <2>4. dropped' \subseteq Entries /\ unsynced' \subseteq Entries
    BY <2>1, <2>2 DEF Types
  <2>5. {e[1] : e \in found} \subseteq Blocks
    BY <2>2 DEF Entries
  <2>6. old' \in [prio : SUBSET Entries, deprio : SUBSET Entries, lower : SUBSET Entries,
                  list : SUBSET Blocks, active : BOOLEAN]
    BY <2>1, <2>2, <2>5 DEF ReconciledIndex, Types
  <2> QED BY <1>2, <2>3, <2>4, <2>6, SMT DEF CommitOldDocs, Types, level, index, memory
<1>3. CASE CommitOldIndex
  <2>1. prio' \subseteq Entries /\ deprio' \subseteq Entries /\ oldList' \subseteq Blocks
    BY <1>3 DEF CommitOldIndex, Types
  <2>2. overwrote' \in BOOLEAN
    BY <1>3 DEF CommitOldIndex, Types
  <2> QED BY <1>0, <1>3, <2>1, <2>2, SMT DEF CommitOldIndex, Types, couch, memory
<1>4. CASE CommitOldFails
  BY <1>0, <1>4, SMT DEF CommitOldFails, Types, couch, level, index, memory, history
<1>5. CASE ResetLastUpdatedOldBlocksList
  BY <1>5, SMT DEF ResetLastUpdatedOldBlocksList, Types, couch, index, threads
<1> QED BY <1>1, <1>2, <1>3, <1>4, <1>5 DEF Reconciling

\* Kinds of values are kept: eligibility, and eviction from the cache.
LEMMA TypesEligible ==
    ASSUME Types, Enabling \/ Evicting
    PROVE  Types'
<1> DEFINE ElgType == [event : (Blocks \X Colls) \cup {NoElg.event}, todo : SUBSET Entries,
                       step : {"none", "run", "sleep"}]
<1>0. NoElg \in ElgType
  BY DEF NoElg
<1>1. ASSUME NEW c \in Colls, ProcessCollsEligibilityEnabled(c)
      PROVE  Types'
  BY <1>1, SMT DEF ProcessCollsEligibilityEnabled, Types, couch, index, memory, threads, history
<1>2. CASE ElgStart
  <2>1. elg' \in ElgType
    BY <1>2, SMT DEF ElgStart, Types
  <2> QED BY <1>2, <2>1, SMT DEF ElgStart, Types, couch, level, index, memory, history
<1>3. CASE ElgBatch
  <2> DEFINE entries == {e \in elg.todo : e[1] = Max({x[1] : x \in elg.todo})}
  <2>1. Converted(entries) /\ elg' = [elg EXCEPT !.todo = @ \ entries, !.step = "sleep"]
    BY <1>3 DEF ElgBatch
  <2>2. entries \subseteq Entries
    BY DEF Types
  <2> HIDE DEF entries
  <2>3. elg' \in ElgType
    BY <2>1 DEF Types
  <2>4. prio' \subseteq Entries /\ inelg' \subseteq Entries
    BY <2>1, <2>2 DEF Converted, Types
  <2>5. /\ lock' = "free"
        /\ UNCHANGED <<doc, lastDoc, deprio, oldList, events, last, empty, cache, cacheLast, cacheEmpty, commit,
                       purges, purging, missing, old, content, cut, gone, dropped, unsynced, overwrote, failed>>
    BY <1>3 DEF ElgBatch, couch, memory, history
  <2> QED BY <2>3, <2>4, <2>5, SMT DEF Types
<1>4. CASE ElgResume
  <2>1. elg' \in ElgType
    BY <1>4 DEF ElgResume, Types
  <2> QED BY <1>4, <2>1, SMT DEF ElgResume, Types, couch, level, index, memory, history
<1>5. CASE ElgFinish
  <2>1. prio' \subseteq Entries /\ inelg' \subseteq Entries
    BY <1>5 DEF ElgFinish, Converted, Types
  <2> QED BY <1>0, <1>5, <2>1, SMT DEF ElgFinish, Types, couch, memory, history
<1>6. ASSUME NEW b \in Blocks, Evict(b)
      PROVE  Types'
  BY <1>6, SMT DEF Evict, Types, couch, level, index, threads, history
<1> QED BY <1>1, <1>2, <1>3, <1>4, <1>5, <1>6 DEF Enabling, Evicting

\* Every step keeps the kinds of the values.
LEMMA NextSteps == Next => Committing \/ Purging \/ Reconciling \/ Enabling \/ Evicting
BY DEF Next, Committing, Purging, Reconciling, Enabling, Evicting

LEMMA TypesNext ==
    ASSUME Types, Numbers, Next
    PROVE  Types'
BY NextSteps, TypesCommit, TypesPurge, TypesReconcile, TypesEligible

-----------------------------------------------------------------------------
(***************************************************************************)
(* Numbers.                                                                *)
(***************************************************************************)

\* Only committing and opening the store change the numbers.
LEMMA NumbersKept == Purging \/ Reconciling \/ Enabling \/ Evicting => UNCHANGED numbers
<1>1. Purging => UNCHANGED numbers
  BY DEF Purging, PurgeDocs, PurgeIndex, PurgeFails, numbers, couch, memory, history
<1>2. Reconciling => UNCHANGED numbers
  BY DEF Reconciling, GetMissingPvtDataInfoForMostRecentBlocks, CommitOldDocs, CommitOldIndex,
         CommitOldFails, ResetLastUpdatedOldBlocksList, numbers, couch, memory, threads, history
<1>3. Enabling => UNCHANGED numbers
  BY DEF Enabling, ProcessCollsEligibilityEnabled, ElgStart, ElgBatch, ElgResume, ElgFinish,
         numbers, couch, memory, threads, history
<1>4. Evicting => UNCHANGED numbers
  BY DEF Evicting, Evict, numbers, couch, memory, threads, history
<1> QED BY <1>1, <1>2, <1>3, <1>4

\* The next block of the cache is the one after the last.
LEMMA CacheNext ==
    ASSUME ~cacheEmpty, cacheLast \in Blocks
    PROVE  CacheNextBlockNum = cacheLast + 1
BY Counting, NumbersAssumption, SMT DEF CacheNextBlockNum, Blocks

LEMMA NumbersInit == Init => Numbers
<1> SUFFICES ASSUME Init PROVE Numbers
  OBVIOUS
<1>1. /\ lastDoc = -1 /\ commit = NoCommit /\ failed = FALSE
      /\ last = 0 /\ empty /\ cacheLast = MaxUint64 /\ ~cacheEmpty
  BY OpenedNumbers, SMT DEF Init
<1>2. CacheNextBlockNum = 0 /\ NextBlockNum = 0
  BY <1>1, Counting, NumbersAssumption, SMT DEF CacheNextBlockNum, NextBlockNum
<1>3. commit.step = "none"
  BY <1>1 DEF NoCommit
<1> QED BY <1>1, <1>2, <1>3, SMT DEF Numbers, StoresInStep

\* The last block only goes up.
LEMMA LastGrows ==
    ASSUME Types, Numbers, Next
    PROVE  last <= last' /\ lastDoc <= lastDoc' /\ last \in Int /\ last' \in Int
<1>0. last \in Int /\ last >= 0 /\ lastDoc \in Int /\ lastDoc >= -1
  BY NumbersAssumption, SMT DEF Types, Blocks
<1>1. CASE Crash
  <2>1. /\ lastDoc <= 0 => last' = 0
        /\ lastDoc > 0 => last' = lastDoc
        /\ lastDoc' = lastDoc
    BY <1>1, OpenedNumbers DEF Crash, Types, couch
  <2>2. last = 0 \/ last <= lastDoc
    BY DEF Numbers
  <2> QED BY <1>0, <2>1, <2>2, SMT
<1>2. CASE (\E b \in Blocks : \E k \in Contents[b] : BeginCommit(b, k)) \/ CommitFails
  BY <1>0, <1>2, SMT DEF BeginCommit, CommitFails, couch, memory
<1>3. CASE CommitDocs
  <2>1. lastDoc' = commit.block /\ last' = last /\ commit.step = "begun"
    BY <1>3 DEF CommitDocs, memory
  <2>2. commit.block = lastDoc + 1 \/ (commit.block = 0 /\ lastDoc = 0)
    BY <2>1 DEF Numbers
  <2> QED BY <1>0, <2>1, <2>2, SMT
<1>4. CASE CommitIndex
  <2>1. last' = commit.block /\ lastDoc' = lastDoc /\ commit.step = "docs"
    BY <1>4 DEF CommitIndex, couch
  <2>2. commit.block = NextBlockNum
    BY <2>1 DEF Numbers
  <2>3. empty => last = 0
    BY DEF Numbers
  <2> QED BY <1>0, <2>1, <2>2, <2>3, SMT DEF NextBlockNum
<1>5. CASE Purging \/ Reconciling \/ Enabling \/ Evicting
  BY <1>0, <1>5, NumbersKept, SMT DEF numbers
<1> QED BY <1>1, <1>2, <1>3, <1>4, <1>5, NextSteps DEF Committing

\* The numbers of the two stores stay in step.
LEMMA NumbersNext ==
    ASSUME Types, Numbers, Next
    PROVE  Numbers'
<1>0. /\ last \in Int /\ last >= 0 /\ last <= MaxBlock
      /\ lastDoc \in Int /\ lastDoc >= -1 /\ lastDoc <= MaxBlock
      /\ MaxUint64 \in Nat /\ MaxBlock \in Nat /\ MaxBlock < MaxUint64
  BY NumbersAssumption, SMT DEF Types, Blocks
<1>1. CASE Crash
  <2>1. /\ lastDoc' = lastDoc /\ commit' = NoCommit /\ ~failed' /\ ~cacheEmpty'
        /\ lastDoc <= 0 => last' = 0 /\ cacheLast' = MaxUint64
        /\ lastDoc > 0 => last' = lastDoc /\ cacheLast' = lastDoc
        /\ empty' <=> lastDoc <= 0
    BY <1>1, OpenedNumbers DEF Crash, Types, couch
  <2>2. commit'.step = "none"
    BY <2>1 DEF NoCommit
  <2>3. CacheNextBlockNum' = Increment64(cacheLast')
    BY <2>1 DEF CacheNextBlockNum, Increment64
  <2>4. CASE lastDoc <= 0
    <3>1. CacheNextBlockNum' = 0
      BY <1>0, <2>1, <2>3, <2>4, Counting, SMT
    <3>2. NextBlockNum' = 0
      BY <2>1, <2>4 DEF NextBlockNum
    <3> QED BY <1>0, <2>1, <2>2, <2>4, <3>1, <3>2, SMT DEF Numbers, StoresInStep
  <2>5. CASE lastDoc > 0
    <3>1. CacheNextBlockNum' = lastDoc + 1
      BY <1>0, <2>1, <2>3, <2>5, Counting, SMT
    <3>2. NextBlockNum' = lastDoc + 1 /\ ~empty'
      BY <1>0, <2>1, <2>5, SMT DEF NextBlockNum
    <3> QED BY <1>0, <2>1, <2>2, <2>5, <3>1, <3>2, SMT DEF Numbers, StoresInStep
  <2> QED BY <1>0, <2>4, <2>5, SMT
<1>2. ASSUME NEW b \in Blocks, NEW k \in Contents[b], BeginCommit(b, k)
      PROVE  Numbers'
  <2>1. /\ commit = NoCommit /\ b = NextBlockNum /\ b = CacheNextBlockNum
        /\ commit' = [block |-> b, step |-> "begun", content |-> k]
        /\ cacheLast' = b /\ cacheEmpty' = FALSE
        /\ lastDoc' = lastDoc /\ last' = last /\ empty' = empty /\ failed' = failed
    BY <1>2 DEF BeginCommit, couch, history
  <2>2. ~failed /\ ~failed'
    BY <2>1 DEF Numbers
  <2>3. b = lastDoc + 1 \/ lastDoc = 0
    BY <2>1, <2>2 DEF Numbers, StoresInStep
  <2>4. b = lastDoc + 1 \/ (b = 0 /\ lastDoc = 0)
    BY <1>0, <2>1, <2>3, SMT DEF NextBlockNum, Numbers
  <2>5. NextBlockNum' = b
    BY <2>1 DEF NextBlockNum
  <2>6. commit' # NoCommit /\ commit'.step = "begun" /\ commit'.block = b /\ commit'.content = k
    BY <2>1 DEF NoCommit
  <2> QED BY <2>1, <2>2, <2>4, <2>5, <2>6 DEF Numbers, StoresInStep
<1>3. CASE CommitDocs
  <2>1. /\ commit.step = "begun" /\ commit' = [commit EXCEPT !.step = "docs"] /\ lastDoc' = commit.block
        /\ last' = last /\ empty' = empty /\ failed' = failed
        /\ cacheLast' = cacheLast /\ cacheEmpty' = cacheEmpty
    BY <1>3 DEF CommitDocs, memory
  <2>2. commit'.step = "docs" /\ commit'.block = commit.block /\ commit'.content = commit.content
    BY <2>1 DEF Types
  <2>3. commit' # NoCommit
    BY <2>2, SMT DEF NoCommit
  <2>4. NextBlockNum' = NextBlockNum
    BY <2>1 DEF NextBlockNum
  <2>5. ~empty' => last' <= lastDoc'
    BY <1>0, <2>1, LastGrows, SMT DEF Numbers
  <2> QED BY <2>1, <2>2, <2>3, <2>4, <2>5 DEF Numbers, StoresInStep
<1>4. CASE CommitIndex
  <2>1. /\ commit.step = "docs" /\ commit' = NoCommit /\ lastDoc' = lastDoc
        /\ last' = commit.block /\ empty' = FALSE /\ failed' = failed
        /\ cacheLast' = cacheLast /\ cacheEmpty' = cacheEmpty
    BY <1>4 DEF CommitIndex, couch, history
  <2>2. commit.block = lastDoc /\ ~cacheEmpty /\ cacheLast = commit.block /\ ~failed /\ commit.block \in Blocks
    BY <2>1 DEF Numbers
  <2>3. CacheNextBlockNum' = lastDoc + 1
    <3>1. CacheNextBlockNum' = CacheNextBlockNum
      BY <2>1 DEF CacheNextBlockNum, Increment64
    <3> QED BY <2>2, <3>1, CacheNext
  <2>4. NextBlockNum' = lastDoc + 1
    BY <2>1, <2>2 DEF NextBlockNum
  <2>5. commit'.step = "none"
    BY <2>1 DEF NoCommit
  <2> QED BY <1>0, <2>1, <2>2, <2>3, <2>4, <2>5, SMT DEF Numbers, StoresInStep
<1>5. CASE CommitFails
  <2>1. /\ commit # NoCommit /\ commit' = NoCommit /\ failed' = TRUE /\ lastDoc' = lastDoc
        /\ last' = last /\ empty' = empty /\ cacheLast' = cacheLast /\ cacheEmpty' = cacheEmpty
    BY <1>5 DEF CommitFails, couch, memory
  <2>2. ~cacheEmpty /\ cacheLast = commit.block /\ commit.block \in Blocks /\ commit.block = NextBlockNum
    BY <2>1 DEF Numbers
  <2>3. CacheNextBlockNum' = commit.block + 1
    <3>1. CacheNextBlockNum' = CacheNextBlockNum
      BY <2>1 DEF CacheNextBlockNum, Increment64
    <3> QED BY <2>2, <3>1, CacheNext
  <2>4. NextBlockNum' = commit.block
    BY <2>1, <2>2 DEF NextBlockNum
  <2>5. NextBlockNum' # CacheNextBlockNum'
    BY <2>2, <2>3, <2>4, NumbersAssumption, SMT DEF Blocks
  <2>6. commit'.step = "none"
    BY <2>1 DEF NoCommit
  <2> QED BY <2>1, <2>5, <2>6 DEF Numbers, StoresInStep
<1>6. CASE Purging \/ Reconciling \/ Enabling \/ Evicting
  BY <1>6, NumbersKept, SMT DEF numbers, Numbers, StoresInStep, NextBlockNum, CacheNextBlockNum, Increment64
<1> QED BY <1>1, <1>2, <1>3, <1>4, <1>5, <1>6, NextSteps DEF Committing

-----------------------------------------------------------------------------
(***************************************************************************)
(* Documents.                                                              *)
(***************************************************************************)

\* What a block brings is well-formed, and nothing for the genesis block.
LEMMA CommitContent ==
    ASSUME Types, Numbers, commit.step # "none"
    PROVE  /\ commit.block \in Blocks /\ commit.content \in ContentType
           /\ commit.content \in Contents[commit.block]
           /\ commit.block = 0 => commit.content = NoContent
BY GenesisAssumption DEF Types, Numbers

\* A document without data and expiry entries is none, and one that is there has the data.
LEMMA NewDocData ==
    ASSUME NEW b \in Blocks, NEW k \in ContentType
    PROVE  /\ NewDoc(b, k).data = k.present
           /\ NewDoc(b, k).exists \/ NewDoc(b, k) = NoDoc
BY DEF NewDoc, NoDoc

\* The document of a block is written once: the block that is committed has none, unless it
\* is the genesis block.
LEMMA WrittenOnce ==
    ASSUME Types, Numbers, Documents, CommitDocs
    PROVE  /\ commit.block \in Blocks
           /\ \A b \in Blocks : b # commit.block => doc'[b] = doc[b] /\ content'[b] = content[b]
           /\ content'[commit.block] = commit.content
           /\ \/ doc'[commit.block] = NewDoc(commit.block, commit.content) /\ doc[commit.block] = NoDoc
              \/ doc'[commit.block] = doc[commit.block] /\ commit.content = NoContent /\ commit.block = 0
<1> DEFINE b == commit.block
<1>1. commit.step = "begun" /\ b \in Blocks /\ (b = 0 => commit.content = NoContent)
  BY CommitContent DEF CommitDocs
<1>2. b = lastDoc + 1 \/ (b = 0 /\ lastDoc = 0)
  BY <1>1 DEF Numbers
<1>3. doc[b].exists => b <= lastDoc
  BY <1>1 DEF Documents
<1>4. lastDoc \in Int
  BY NumbersAssumption, SMT DEF Types, Blocks
<1>5. doc[b].exists => b = 0
  BY <1>2, <1>3, <1>4, SMT
<1>6. doc[b].exists \/ doc[b] = NoDoc
  BY <1>1 DEF Documents
<1>7. /\ doc' = [doc EXCEPT ![b] = IF @.exists THEN @ ELSE NewDoc(b, commit.content)]
      /\ content' = [content EXCEPT ![b] = commit.content]
  BY DEF CommitDocs
<1>8. doc \in [Blocks -> DocType] /\ content \in [Blocks -> ContentType]
  BY DEF Types
<1> HIDE DEF b
<1>9. CASE doc[b].exists
  BY <1>1, <1>5, <1>7, <1>8, <1>9 DEF b
<1>10. CASE ~doc[b].exists
  BY <1>1, <1>6, <1>7, <1>8, <1>10 DEF b
<1> QED BY <1>9, <1>10

\* What a purge does to a document.
LEMMA PurgeChanges ==
    ASSUME Types, NEW m \in purges, PurgeDocs(m), NEW b \in Blocks
    PROVE  \/ doc'[b] = doc[b]
           \/ /\ doc'[b] = PurgedDoc(b, m) /\ \E e \in doc[b].nums : e <= m
              /\ ~doc'[b].exists => b \in gone'
<1>1. CASE ExpiredDocs(m) = {}
  BY <1>1 DEF PurgeDocs
<1>2. CASE ExpiredDocs(m) # {}
  <2>1. /\ doc' = [x \in Blocks |-> IF x \in ExpiredDocs(m) THEN PurgedDoc(x, m) ELSE doc[x]]
        /\ gone' = gone \cup {x \in ExpiredDocs(m) : ~doc'[x].exists}
    BY <1>2 DEF PurgeDocs
  <2> QED BY <2>1 DEF ExpiredDocs
<1> QED BY <1>1, <1>2

\* What a purged document keeps.
LEMMA PurgedKeeps ==
    ASSUME Types, Documents, NEW b \in Blocks, NEW m \in Blocks, \E e \in doc[b].nums : e <= m
    PROVE  /\ \A i \in doc[b].data : IsExpired(b, i[1], m) \/ i \in PurgedDoc(b, m).data
           /\ PurgedDoc(b, m).data \subseteq doc[b].data
           /\ doc[b].exists
           /\ PurgedDoc(b, m) = NoDoc
              \/ /\ PurgedDoc(b, m).exists
                 /\ PurgedDoc(b, m).present = doc[b].present /\ PurgedDoc(b, m).absent = doc[b].absent
                 /\ PurgedDoc(b, m).nums = {e \in ExpiryKeys(b, doc[b].present, doc[b].absent) : e > m}
                 /\ \A i \in PurgedDoc(b, m).data : i \in doc[b].present => ~(ExpiringBlock(b, i[1]) <= m)
<1>1. doc[b] \in DocType
  BY DEF Types
<1>2. doc[b].exists
  BY SMT DEF Documents, NoDoc
<1> DEFINE kept == {i \in doc[b].data : ~(i \in doc[b].present /\ ExpiringBlock(b, i[1]) <= m)}
<1>3. \A i \in doc[b].data : IsExpired(b, i[1], m) \/ i \in kept
  <2> SUFFICES ASSUME NEW i \in doc[b].data, i \notin kept
               PROVE  IsExpired(b, i[1], m)
    OBVIOUS
  <2>1. ExpiringBlock(b, i[1]) <= m /\ i \in Items
    BY <1>1 DEF DocType
  <2>2. ExpiringBlock(b, i[1]) \in Nat /\ m \in Nat
    BY <2>1, ExpiringNat, ItemsAssumption, SMT DEF Blocks
  <2> QED BY <2>1, <2>2 DEF IsExpired
<1>4. CASE kept = {}
  <2>1. PurgedDoc(b, m) = NoDoc
    BY <1>4 DEF PurgedDoc
  <2>2. NoDoc.data = {}
    BY DEF NoDoc
  <2> QED BY <1>2, <1>3, <1>4, <2>1, <2>2
<1>5. CASE kept # {}
  <2>1. PurgedDoc(b, m) =
          [doc[b] EXCEPT !.data = kept,
                         !.nums = {e \in ExpiryKeys(b, doc[b].present, doc[b].absent) : e > m}]
    BY <1>5 DEF PurgedDoc
  <2> DEFINE nums == {e \in ExpiryKeys(b, doc[b].present, doc[b].absent) : e > m}
  <2>2. \A i \in kept : i \in doc[b].present => ~(ExpiringBlock(b, i[1]) <= m)
    OBVIOUS
  <2>3. kept \subseteq doc[b].data
    OBVIOUS
  <2> HIDE DEF kept, nums
  <2>4. /\ PurgedDoc(b, m).data = kept /\ PurgedDoc(b, m).exists = doc[b].exists
        /\ PurgedDoc(b, m).present = doc[b].present /\ PurgedDoc(b, m).absent = doc[b].absent
        /\ PurgedDoc(b, m).nums = nums
    BY <1>1, <2>1 DEF DocType, nums
  <2> QED BY <1>2, <1>3, <2>2, <2>3, <2>4 DEF nums
<1> QED BY <1>4, <1>5

\* What a reconciliation does to a document.
LEMMA ReconciledAdds ==
    ASSUME Types, NEW b \in Blocks, NEW stored \in SUBSET Entries, NEW winners \in SUBSET stored,
           NEW d, d = ReconciledDoc(b, stored, winners)
    PROVE  /\ d.data = doc[b].data \cup OfBlock(stored, b)
           /\ d.present = doc[b].present \cup OfBlock(winners, b)
           /\ d.absent = doc[b].absent
           /\ \/ d = doc[b] /\ OfBlock(stored, b) = {}
              \/ /\ d.exists /\ d.nums = ExpiryKeys(b, d.present, d.absent)
                 /\ \E e \in stored : e[1] = b
<1>1. OfBlock(winners, b) \subseteq OfBlock(stored, b)
  BY DEF OfBlock
<1>2. OfBlock(stored, b) # {} => \E e \in stored : e[1] = b
  BY DEF OfBlock
<1>3. CASE OfBlock(stored, b) = {}
  <2>1. d = doc[b] /\ OfBlock(winners, b) = {}
    BY <1>1, <1>3 DEF ReconciledDoc
  <2> QED BY <1>3, <2>1
<1>4. CASE OfBlock(stored, b) # {}
  BY <1>2, <1>4 DEF ReconciledDoc
<1> QED BY <1>3, <1>4

\* What a call of the reconciler does up to its CouchDB update.
LEMMA OldDocsChanges ==
    ASSUME Types, NEW found \in SUBSET missing, CommitOldDocs(found)
    PROVE  \E winners \in Winners(Storable(found)) :
             /\ winners \subseteq Storable(found) /\ Storable(found) \subseteq found
             /\ Storable(found) \subseteq Entries
             /\ \A b \in Blocks : doc'[b] = ReconciledDoc(b, Storable(found), winners)
             /\ dropped' = (dropped \cup {e \in Storable(found) :
                                            /\ ~NeverExpires(ExpiryKey(e)[2])
                                            /\ e[2] \notin doc[e[1]].present}) \ winners
             /\ unsynced' = unsynced \cup Storable(found)
             /\ old' = ReconciledIndex(Storable(found), found)
<1> DEFINE stored == Storable(found)
<1>1. PICK winners \in Winners(stored) :
        /\ doc' = [b \in Blocks |-> ReconciledDoc(b, stored, winners)]
        /\ dropped' = (dropped \cup {e \in stored :
                                       /\ ~NeverExpires(ExpiryKey(e)[2])
                                       /\ e[2] \notin doc[e[1]].present}) \ winners
        /\ unsynced' = unsynced \cup stored
        /\ old' = ReconciledIndex(stored, found)
  BY DEF CommitOldDocs
<1>2. winners \subseteq stored /\ stored \subseteq found /\ stored \subseteq Entries
  BY StoredFound DEF Types
<1>3. \A b \in Blocks : doc'[b] = ReconciledDoc(b, stored, winners)
  BY <1>1
<1> QED BY <1>1, <1>2, <1>3

\* A document that a reconciliation changes is one of an entry asked for.
LEMMA OldDocsOfMissing ==
    ASSUME Types, NEW found \in SUBSET missing, CommitOldDocs(found), NEW b \in Blocks
    PROVE  doc'[b] = doc[b] \/ (doc'[b].exists /\ \E e \in missing : e[1] = b)
<1>1. PICK winners \in Winners(Storable(found)) :
        /\ winners \subseteq Storable(found) /\ Storable(found) \subseteq found
        /\ Storable(found) \subseteq Entries
        /\ \A x \in Blocks : doc'[x] = ReconciledDoc(x, Storable(found), winners)
  BY OldDocsChanges
<1>2. \/ doc'[b] = doc[b]
      \/ doc'[b].exists /\ \E e \in Storable(found) : e[1] = b
  BY <1>1, ReconciledAdds, SMT
<1> QED BY <1>1, <1>2

\* Documents of other steps stay.
LEMMA DocsStay ==
    ASSUME Next, ~CommitDocs, ~\E m \in purges : PurgeDocs(m),
           ~\E found \in SUBSET missing : CommitOldDocs(found)
    PROVE  UNCHANGED doc
<1>1. Committing => UNCHANGED doc
  BY DEF Committing, Crash, BeginCommit, CommitIndex, CommitFails, couch
<1>2. Purging => UNCHANGED doc
  BY DEF Purging, PurgeIndex, PurgeFails, couch
<1>3. Reconciling => UNCHANGED doc
  BY DEF Reconciling, GetMissingPvtDataInfoForMostRecentBlocks, CommitOldIndex,
         CommitOldFails, ResetLastUpdatedOldBlocksList, couch
<1>4. Enabling \/ Evicting => UNCHANGED doc
  BY DEF Enabling, ProcessCollsEligibilityEnabled, ElgStart, ElgBatch, ElgResume, ElgFinish,
         Evicting, Evict, couch
<1> QED BY <1>1, <1>2, <1>3, <1>4, NextSteps

\* Data stays in its document until it has expired.
LEMMA DataKept ==
    ASSUME Types, Numbers, Documents, Bounds, Next, NEW b \in Blocks, NEW i \in doc[b].data
    PROVE  i \in doc'[b].data \/ IsExpired(b, i[1], last)
<1>0. i[1] \in Colls /\ last \in Blocks
  BY ItemsAssumption DEF Types, DocType
<1>1. CASE CommitDocs
  <2>1. doc[b] # NoDoc
    BY SMT DEF NoDoc
  <2> QED BY <1>1, <2>1, WrittenOnce
<1>2. ASSUME NEW m \in purges, PurgeDocs(m)
      PROVE  i \in doc'[b].data \/ IsExpired(b, i[1], last)
  <2>1. m \in Blocks /\ m <= last
    BY DEF Types, Bounds
  <2>2. CASE doc'[b] = PurgedDoc(b, m) /\ \E e \in doc[b].nums : e <= m
    <3>1. i \in doc'[b].data \/ IsExpired(b, i[1], m)
      BY <2>1, <2>2, PurgedKeeps
    <3> QED BY <1>0, <2>1, <3>1, StaysExpired
  <2> QED BY <1>2, <2>2, PurgeChanges
<1>3. ASSUME NEW found \in SUBSET missing, CommitOldDocs(found)
      PROVE  i \in doc'[b].data
  BY <1>3, OldDocsChanges, ReconciledAdds, SMT
<1>4. CASE UNCHANGED doc
  BY <1>4
<1> QED BY <1>1, <1>2, <1>3, <1>4, DocsStay

LEMMA DocumentsInit == Init => Documents
<1> SUFFICES ASSUME Init, NEW b \in Blocks
             PROVE  /\ content[b] \in Contents[b] \cup {NoContent}
                    /\ doc[b].exists \/ doc[b] = NoDoc
                    /\ doc[b].exists => b <= lastDoc
                    /\ b <= lastDoc => Unexpired(b, content[b].present, last) \subseteq doc[b].data
                    /\ commit.step = "docs" /\ commit.block = b => content[b] = commit.content
  BY DEF Documents
<1>1. doc[b] = NoDoc /\ content[b] = NoContent /\ lastDoc = -1 /\ commit = NoCommit
  BY DEF Init
<1>2. ~(b <= -1)
  BY SMT DEF Blocks
<1>3. ~NoDoc.exists /\ NoCommit.step = "none"
  BY DEF NoDoc, NoCommit
<1> QED BY <1>1, <1>2, <1>3

\* What came with the other blocks stays as it was.
LEMMA ContentStays ==
    ASSUME Next, ~CommitDocs
    PROVE  UNCHANGED <<content, lastDoc>>
<1>1. Committing => UNCHANGED <<content, lastDoc>>
  BY DEF Committing, Crash, BeginCommit, CommitIndex, CommitFails, couch, history
<1> QED BY <1>1, NumbersKept, NextSteps DEF numbers

\* Who is at the step after the CouchDB update was there before, or has just done it.
LEMMA DocsStep ==
    ASSUME Types, Next, commit'.step = "docs"
    PROVE  \/ UNCHANGED commit /\ ~CommitDocs
           \/ CommitDocs /\ commit'.block = commit.block /\ commit'.content = commit.content
<1>1. CASE CommitDocs
  <2>1. commit \in [block : Blocks \cup {-1}, step : {"none", "begun", "docs"}, content : ContentType]
    BY DEF Types
  <2>2. commit' = [commit EXCEPT !.step = "docs"]
    BY <1>1 DEF CommitDocs
  <2>3. commit'.block = commit.block /\ commit'.content = commit.content
    BY <2>1, <2>2, SMT
  <2> QED BY <1>1, <2>3
<1>2. CASE Crash \/ CommitIndex \/ CommitFails
  <2>1. commit' = NoCommit
    BY <1>2 DEF Crash, CommitIndex, CommitFails
  <2>2. NoCommit.step # "docs"
    BY DEF NoCommit
  <2> QED BY <2>1, <2>2
<1>3. CASE \E b \in Blocks : \E k \in Contents[b] : BeginCommit(b, k)
  <2>1. PICK b, k : commit' = [block |-> b, step |-> "begun", content |-> k]
    BY <1>3 DEF BeginCommit
  <2>2. commit'.step = "begun"
    BY <2>1
  <2> QED BY <2>2
<1>4. CASE ~Committing
  <2>1. ~CommitDocs
    BY <1>4 DEF Committing
  <2> QED BY <1>4, <2>1, NumbersKept, NextSteps DEF numbers
<1> QED BY <1>1, <1>2, <1>3, <1>4 DEF Committing

\* The documents stay what they are to be.
LEMMA DocumentsNext ==
    ASSUME Types, Numbers, Documents, Bounds, Next
    PROVE  Documents'
<1> SUFFICES ASSUME NEW b \in Blocks
             PROVE  /\ content'[b] \in Contents[b] \cup {NoContent}
                    /\ doc'[b].exists \/ doc'[b] = NoDoc
                    /\ doc'[b].exists => b <= lastDoc'
                    /\ b <= lastDoc' => Unexpired(b, content'[b].present, last') \subseteq doc'[b].data
                    /\ commit'.step = "docs" /\ commit'.block = b => content'[b] = commit'.content
  BY DEF Documents, Blocks
<1>0. /\ last \in Blocks /\ last' \in Blocks /\ last <= last' /\ lastDoc <= lastDoc'
      /\ lastDoc \in Int /\ lastDoc' \in Int /\ b \in Int
  <2>1. Types'
    BY TypesNext
  <2>2. last \in Blocks /\ last' \in Blocks /\ lastDoc \in Blocks \cup {-1} /\ lastDoc' \in Blocks \cup {-1}
    BY <2>1 DEF Types
  <2> QED BY <2>2, LastGrows, NumbersAssumption, SMT DEF Blocks
<1>1. content'[b] \in Contents[b] \cup {NoContent}
  <2>1. CASE CommitDocs
    <3>1. commit.step # "none"
      BY <2>1 DEF CommitDocs
    <3>2. commit.content \in Contents[commit.block]
      BY <3>1, CommitContent
    <3> QED BY <2>1, <3>2, WrittenOnce DEF Documents
  <2> QED BY <2>1, ContentStays DEF Documents
<1>2. doc'[b].exists \/ doc'[b] = NoDoc
  <2>1. CASE CommitDocs
    <3>1. commit.content \in ContentType
      BY <2>1, CommitContent DEF CommitDocs
    <3> QED BY <2>1, <3>1, WrittenOnce, NewDocData DEF Documents
  <2>2. ASSUME NEW m \in purges, PurgeDocs(m)
        PROVE  doc'[b].exists \/ doc'[b] = NoDoc
    <3>1. m \in Blocks
      BY DEF Types
    <3> QED BY <2>2, <3>1, PurgeChanges, PurgedKeeps, SMT DEF Documents
  <2>3. ASSUME NEW found \in SUBSET missing, CommitOldDocs(found)
        PROVE  doc'[b].exists \/ doc'[b] = NoDoc
    BY <2>3, OldDocsOfMissing DEF Documents
  <2>4. CASE UNCHANGED doc
    BY <2>4 DEF Documents
  <2> QED BY <2>1, <2>2, <2>3, <2>4, DocsStay
<1>3. doc'[b].exists => b <= lastDoc'
  <2>0. doc[b].exists => b <= lastDoc'
    BY <1>0, SMT DEF Documents
  <2>1. CASE CommitDocs
    <3>1. lastDoc' = commit.block
      BY <2>1 DEF CommitDocs
    <3> QED BY <1>0, <2>0, <2>1, <3>1, WrittenOnce, SMT
  <2>2. ASSUME NEW m \in purges, PurgeDocs(m), doc'[b].exists
        PROVE  b <= lastDoc'
    <3>1. m \in Blocks
      BY DEF Types
    <3> QED BY <2>0, <2>2, <3>1, PurgeChanges, PurgedKeeps
  <2>3. ASSUME NEW found \in SUBSET missing, CommitOldDocs(found), doc'[b].exists
        PROVE  b <= lastDoc'
    <3>1. CASE doc'[b] = doc[b]
      BY <2>0, <2>3, <3>1
    <3>2. CASE \E e \in missing : e[1] = b
      <4>1. b \in 1..last
        BY <3>2 DEF Bounds, Listed
      <4>2. last <= lastDoc
        BY <1>0, <4>1, SMT DEF Numbers, Blocks
      <4> QED BY <1>0, <4>1, <4>2, SMT DEF Blocks
    <3> QED BY <2>3, <3>1, <3>2, OldDocsOfMissing
  <2>4. CASE UNCHANGED doc
    BY <2>0, <2>4
  <2> QED BY <2>1, <2>2, <2>3, <2>4, DocsStay
<1>4. b <= lastDoc' => Unexpired(b, content'[b].present, last') \subseteq doc'[b].data
  <2> SUFFICES ASSUME b <= lastDoc', NEW i \in content'[b].present, ~IsExpired(b, i[1], last')
               PROVE  i \in doc'[b].data
    BY DEF Unexpired
  <2>1. CASE CommitDocs /\ commit.block = b
    <3>1. commit.content \in ContentType /\ content'[b] = commit.content
      BY <2>1, CommitContent, WrittenOnce DEF CommitDocs
    <3>2. commit.content # NoContent
      BY <3>1, SMT DEF NoContent
    <3> QED BY <2>1, <3>1, <3>2, WrittenOnce, NewDocData, SMT
  <2>2. CASE ~(CommitDocs /\ commit.block = b)
    <3>1. content'[b] = content[b]
      BY <2>2, WrittenOnce, ContentStays
    <3>2. b <= lastDoc
      <4>1. CASE CommitDocs
        <5>1. lastDoc' = commit.block /\ (commit.block = lastDoc + 1 \/ (commit.block = 0 /\ lastDoc = 0))
          BY <4>1 DEF CommitDocs, Numbers
        <5> QED BY <1>0, <2>2, <4>1, <5>1, SMT
      <4> QED BY <4>1, ContentStays
    <3>3. i[1] \in Colls
      BY <3>1, ItemsAssumption DEF Types, ContentType
    <3>4. ~IsExpired(b, i[1], last)
      BY <1>0, <3>3, StaysExpired
    <3>5. i \in doc[b].data
      BY <3>1, <3>2, <3>4 DEF Documents, Unexpired
    <3> QED BY <3>4, <3>5, DataKept
  <2> QED BY <2>1, <2>2
<1>5. commit'.step = "docs" /\ commit'.block = b => content'[b] = commit'.content
  BY DocsStep, WrittenOnce, ContentStays DEF Documents
<1> QED BY <1>1, <1>2, <1>3, <1>4, <1>5

-----------------------------------------------------------------------------
(***************************************************************************)
(* Entries that are listed or worked on.                                   *)
(***************************************************************************)

\* An entry is first listed when its block is committed.
LEMMA ListedFrom ==
    ASSUME Types, Next, NEW e \in Listed'
    PROVE  \/ e \in Listed
           \/ CommitIndex /\ e \in {commit.block} \X (commit.content.elg \cup commit.content.inelg)
<1>0. NoOld.prio = {} /\ NoOld.lower = {} /\ NoElg.todo = {}
  BY DEF NoOld, NoElg
<1>1. CASE Crash
  BY <1>0, <1>1 DEF Crash, Listed, level, index
<1>2. CASE (\E b \in Blocks : \E k \in Contents[b] : BeginCommit(b, k)) \/ CommitDocs \/ CommitFails
  BY <1>2 DEF BeginCommit, CommitDocs, CommitFails, Listed, level, index
<1>3. CASE CommitIndex
  <2>1. prio' = prio \cup {commit.block} \X commit.content.elg
    BY <1>3 DEF CommitIndex, MissingEntries
  <2>2. inelg' = inelg \cup {commit.block} \X commit.content.inelg
    BY <1>3 DEF CommitIndex, MissingEntries
  <2>3. UNCHANGED <<deprio, missing, elg, old>>
    BY <1>3 DEF CommitIndex
  <2> QED BY <1>3, <2>1, <2>2, <2>3 DEF Listed
<1>4. CASE Purging
  BY <1>4 DEF Purging, PurgeDocs, PurgeIndex, PurgeFails, Without, Listed, level, index
<1>5. CASE GetMissingPvtDataInfoForMostRecentBlocks
  <2>1. missing' \subseteq prio \cup deprio
    BY <1>5 DEF GetMissingPvtDataInfoForMostRecentBlocks, MissingInfo
  <2> QED BY <1>5, <2>1 DEF GetMissingPvtDataInfoForMostRecentBlocks, Listed, level, index
<1>6. ASSUME NEW found \in SUBSET missing, CommitOldDocs(found)
      PROVE  e \in Listed
  <2>1. PICK winners : old' = ReconciledIndex(Storable(found), found)
    BY <1>6, OldDocsChanges
  <2>2. old'.prio \subseteq prio \cup missing /\ old'.lower \subseteq missing
    BY <2>1 DEF ReconciledIndex
  <2> QED BY <1>6, <2>2 DEF CommitOldDocs, Listed, level, index
<1>7. CASE CommitOldIndex \/ CommitOldFails \/ ResetLastUpdatedOldBlocksList
  BY <1>0, <1>7 DEF CommitOldIndex, CommitOldFails, ResetLastUpdatedOldBlocksList, Listed, level, index, threads
<1>8. CASE (\E c \in Colls : ProcessCollsEligibilityEnabled(c)) \/ Evicting
  BY <1>8 DEF ProcessCollsEligibilityEnabled, Evicting, Evict, Listed, level, index, threads
<1>9. CASE ElgStart
  <2>1. elg'.todo \subseteq inelg
    BY <1>9, SMT DEF ElgStart
  <2> QED BY <1>9, <2>1 DEF ElgStart, Listed, level, index
<1>10. CASE ElgBatch
  <2>1. PICK entries \in SUBSET elg.todo :
          Converted(entries) /\ elg' = [elg EXCEPT !.todo = @ \ entries, !.step = "sleep"]
    BY <1>10 DEF ElgBatch
  <2>2. elg'.todo \subseteq elg.todo
    BY <2>1 DEF Types
  <2>3. prio' \subseteq prio \cup elg.todo /\ inelg' \subseteq inelg
    BY <2>1 DEF Converted
  <2> QED BY <1>10, <2>2, <2>3 DEF ElgBatch, Listed
<1>11. CASE ElgResume
  <2>1. elg'.todo = elg.todo
    BY <1>11 DEF ElgResume, Types
  <2> QED BY <1>11, <2>1 DEF ElgResume, Listed, level, index
<1>12. CASE ElgFinish
  <2>1. prio' \subseteq prio \cup elg.todo /\ inelg' \subseteq inelg
    BY <1>12 DEF ElgFinish, Converted
  <2> QED BY <1>0, <1>12, <2>1 DEF ElgFinish, Listed
<1> QED BY <1>1, <1>2, <1>3, <1>4, <1>5, <1>6, <1>7, <1>8, <1>9, <1>10, <1>11, <1>12, NextSteps
        DEF Committing, Reconciling, Enabling

LEMMA BoundsInit == Init => Bounds
BY SMT DEF Init, Bounds, Listed, NoOld, NoElg, NoPurge

\* A committed block with missing data is not the genesis block.
LEMMA CommitIndexBlock ==
    ASSUME Types, Numbers, CommitIndex
    PROVE  /\ last' = commit.block /\ commit.block \in Blocks
           /\ commit.content \in ContentType /\ commit.content \in Contents[commit.block]
           /\ commit.content.elg \cup commit.content.inelg # {} =>
                commit.block > last /\ commit.block >= 1
<1>1. commit.step # "none" /\ last' = commit.block
  BY DEF CommitIndex
<1>2. /\ commit.block \in Blocks /\ commit.content \in ContentType
      /\ commit.content \in Contents[commit.block]
      /\ commit.block = 0 => commit.content = NoContent
  BY <1>1, CommitContent
<1>3. commit.block = NextBlockNum /\ (empty => last = 0) /\ last \in Blocks
  BY <1>1 DEF Numbers, Types
<1>4. commit.content.elg \cup commit.content.inelg # {} => commit.block # 0
  BY <1>2, SMT DEF NoContent
<1>5. commit.block # 0 => commit.block > last /\ commit.block >= 1
  BY <1>2, <1>3, NumbersAssumption, SMT DEF NextBlockNum, Blocks
<1> QED BY <1>1, <1>2, <1>4, <1>5

LEMMA BoundsNext ==
    ASSUME Types, Numbers, Bounds, Next
    PROVE  Bounds'
<1>0. last \in Blocks /\ last' \in Blocks /\ last <= last'
  BY TypesNext, LastGrows DEF Types
<1>1. ASSUME NEW e \in Listed'
      PROVE  e[1] \in 1..last'
  <2>1. CASE e \in Listed
    BY <1>0, <2>1, NumbersAssumption, SMT DEF Bounds, Blocks
  <2>2. CASE CommitIndex /\ e \in {commit.block} \X (commit.content.elg \cup commit.content.inelg)
    <3>1. e[1] = commit.block /\ commit.content.elg \cup commit.content.inelg # {}
      BY <2>2
    <3> QED BY <2>2, <3>1, CommitIndexBlock, SMT DEF Blocks
  <2> QED BY <2>1, <2>2, ListedFrom
<1>2. ASSUME NEW m \in purges'
      PROVE  m <= last'
  <2>1. m \in purges \/ m = last'
    <3>1. CASE Committing
      BY <3>1 DEF Committing, Crash, BeginCommit, CommitDocs, CommitIndex, CommitFails
    <3>2. CASE Purging
      BY <3>2 DEF Purging, PurgeDocs, PurgeIndex, PurgeFails
    <3>3. CASE Reconciling
      BY <3>3 DEF Reconciling, GetMissingPvtDataInfoForMostRecentBlocks, CommitOldDocs, CommitOldIndex,
                  CommitOldFails, ResetLastUpdatedOldBlocksList, threads
    <3>4. CASE Enabling \/ Evicting
      BY <3>4 DEF Enabling, ProcessCollsEligibilityEnabled, ElgStart, ElgBatch, ElgResume, ElgFinish,
                  Evicting, Evict, threads
    <3> QED BY <3>1, <3>2, <3>3, <3>4, NextSteps
  <2>2. m \in purges => m \in Blocks /\ m <= last
    BY DEF Types, Bounds
  <2> QED BY <1>0, <2>1, <2>2, NumbersAssumption, SMT DEF Blocks
<1>3. ASSUME NEW k \in purging'.keys
      PROVE  IsExpired(k[1], k[2], last')
  <2>1. k \in purging.keys \/ \E m \in purges : PurgeDocs(m) /\ ExpiredDocs(m) # {}
    <3>0. NoPurge.keys = {}
      BY DEF NoPurge
    <3>1. CASE Committing
      BY <3>0, <3>1 DEF Committing, Crash, BeginCommit, CommitDocs, CommitIndex, CommitFails
    <3>2. CASE Purging
      BY <3>0, <3>2 DEF Purging, PurgeDocs, PurgeIndex, PurgeFails
    <3>3. CASE Reconciling
      BY <3>3 DEF Reconciling, GetMissingPvtDataInfoForMostRecentBlocks, CommitOldDocs, CommitOldIndex,
                  CommitOldFails, ResetLastUpdatedOldBlocksList, threads
    <3>4. CASE Enabling \/ Evicting
      BY <3>4 DEF Enabling, ProcessCollsEligibilityEnabled, ElgStart, ElgBatch, ElgResume, ElgFinish,
                  Evicting, Evict, threads
    <3> QED BY <3>1, <3>2, <3>3, <3>4, NextSteps
  <2>2. CASE k \in purging.keys
    <3>1. k[1] \in Blocks /\ k[2] \in Colls /\ IsExpired(k[1], k[2], last)
      BY <2>2 DEF Types, Bounds
    <3> QED BY <1>0, <3>1, StaysExpired
  <2>3. ASSUME NEW m \in purges, PurgeDocs(m), ExpiredDocs(m) # {}
        PROVE  IsExpired(k[1], k[2], last')
    <3>1. k \in ExpiredDocs(m) \X Colls /\ ExpiringBlock(k[1], k[2]) <= m
      BY <2>3, SMT DEF PurgeDocs
    <3>2. k[1] \in Blocks /\ k[2] \in Colls /\ m \in Blocks /\ m <= last
      BY <3>1 DEF ExpiredDocs, Types, Bounds
    <3>3. ExpiringBlock(k[1], k[2]) \in Nat
      BY <3>2, ExpiringNat
    <3> QED BY <1>0, <3>1, <3>2, <3>3, NumbersAssumption, SMT DEF IsExpired, Blocks
  <2> QED BY <2>1, <2>2, <2>3
<1> QED BY <1>1, <1>2, <1>3 DEF Bounds

-----------------------------------------------------------------------------
(***************************************************************************)
(* The index.                                                              *)
(***************************************************************************)

LEMMA IndexInit == Init => Index
BY SMT DEF Init, Index, NoOld, NoElg

\* A conversion overwrites nothing: no key of what it converts is listed as eligible.
LEMMA ConvertedAdds ==
    ASSUME Index, NEW entries \in SUBSET elg.todo, Converted(entries)
    PROVE  prio' = prio \cup entries /\ inelg' = inelg \ entries
<1>1. \A e \in prio : ~\E x \in entries : SameKey(e, x)
  BY DEF Index
<1>2. {e \in prio : ~\E x \in entries : SameKey(e, x)} = prio
  BY <1>1
<1> QED BY <1>2 DEF Converted

\* The keys of the index stay apart.
LEMMA KeysApart ==
    ASSUME Types, Numbers, Bounds, Index, Next
    PROVE  /\ \A x \in inelg' \cup elg'.todo, e \in prio' : ~SameKey(e, x)
           /\ \A x \in elg'.todo, y \in inelg' : SameKey(x, y) => y \in elg'.todo
<1>0. NoElg.todo = {}
  BY DEF NoElg
<1>1. CASE CommitIndex
  <2> DEFINE b == commit.block
             k == commit.content
  <2>1. /\ b \in Blocks /\ k \in ContentType /\ k \in Contents[b]
        /\ k.elg \cup k.inelg # {} => b > last /\ b >= 1
    BY <1>1, CommitIndexBlock
  <2>2. /\ prio' = prio \cup {b} \X k.elg /\ inelg' = inelg \cup {b} \X k.inelg /\ elg' = elg
    BY <1>1 DEF CommitIndex, MissingEntries
  <2>3. \A i \in k.elg, j \in k.inelg : i[1] # j[1]
    BY <2>1, EligibilityAssumption
  <2>4. k.elg \cup k.inelg # {} => \A e \in prio \cup inelg \cup elg.todo : e[1] # b
    <3> SUFFICES ASSUME k.elg \cup k.inelg # {}, NEW e \in prio \cup inelg \cup elg.todo
                 PROVE  e[1] # b
      OBVIOUS
    <3>1. e[1] \in 1..last
      BY DEF Bounds, Listed
    <3>2. last \in Blocks
      BY DEF Types
    <3> QED BY <2>1, <3>1, <3>2, SMT DEF Blocks
  <2> HIDE DEF b, k
  <2>5. ASSUME NEW x \in inelg' \cup elg'.todo, NEW e \in prio', SameKey(e, x)
        PROVE  FALSE
    <3>1. CASE x \in inelg \cup elg.todo /\ e \in prio
      BY <2>5, <3>1 DEF Index
    <3>2. CASE x \in inelg \cup elg.todo /\ e \in {b} \X k.elg
      BY <2>4, <2>5, <3>2 DEF SameKey
    <3>3. CASE x \in {b} \X k.inelg /\ e \in prio
      BY <2>4, <2>5, <3>3 DEF SameKey
    <3>4. CASE x \in {b} \X k.inelg /\ e \in {b} \X k.elg
      BY <2>3, <2>5, <3>4 DEF SameKey
    <3> QED BY <2>2, <3>1, <3>2, <3>3, <3>4
  <2>6. ASSUME NEW x \in elg'.todo, NEW y \in inelg', SameKey(x, y)
        PROVE  y \in elg'.todo
    <3>1. CASE y \in inelg
      BY <2>2, <2>6, <3>1 DEF Index
    <3>2. CASE y \in {b} \X k.inelg
      BY <2>2, <2>4, <2>6, <3>2 DEF SameKey
    <3> QED BY <2>2, <3>1, <3>2
  <2> QED BY <2>5, <2>6
<1>2. CASE Committing /\ ~CommitIndex
  <2>1. prio' = prio /\ inelg' = inelg /\ elg'.todo \in {elg.todo, {}}
    BY <1>0, <1>2 DEF Committing, Crash, BeginCommit, CommitDocs, CommitFails, level, index
  <2> QED BY <2>1 DEF Index
<1>3. CASE Purging \/ Reconciling
  <2>1. prio' \subseteq prio /\ inelg' \subseteq inelg /\ elg' = elg
    <3>1. CASE Purging
      BY <3>1 DEF Purging, PurgeDocs, PurgeIndex, PurgeFails, Without, level, index
    <3>2. CASE Reconciling
      BY <3>2 DEF Reconciling, GetMissingPvtDataInfoForMostRecentBlocks, CommitOldDocs, CommitOldIndex,
                  CommitOldFails, ResetLastUpdatedOldBlocksList, level, index, threads
    <3> QED BY <1>3, <3>1, <3>2
  <2> QED BY <2>1 DEF Index
<1>4. CASE (\E c \in Colls : ProcessCollsEligibilityEnabled(c)) \/ ElgResume \/ Evicting
  <2>1. prio' = prio /\ inelg' = inelg /\ elg'.todo = elg.todo
    BY <1>4 DEF ProcessCollsEligibilityEnabled, ElgResume, Evicting, Evict, Types, level, index, threads
  <2> QED BY <2>1 DEF Index
<1>5. CASE ElgStart
  <2>1. PICK ev \in events : elg'.todo = {e \in inelg : e[2][1] = ev[2] /\ e[1] <= ev[1]}
    BY <1>5, SMT DEF ElgStart
  <2>2. prio' = prio /\ inelg' = inelg
    BY <1>5 DEF ElgStart, level, index
  <2> QED BY <2>1, <2>2 DEF Index, SameKey
<1>6. CASE ElgBatch
  <2> DEFINE n == Max({x[1] : x \in elg.todo})
             entries == {e \in elg.todo : e[1] = n}
  <2>1. Converted(entries) /\ elg' = [elg EXCEPT !.todo = @ \ entries, !.step = "sleep"]
    BY <1>6 DEF ElgBatch
  <2> HIDE DEF n
  <2>2. prio' = prio \cup entries /\ inelg' = inelg \ entries
    BY <2>1, ConvertedAdds
  <2>3. elg'.todo = elg.todo \ entries
    BY <2>1 DEF Types
  <2> QED BY <2>2, <2>3 DEF Index, SameKey
<1>7. CASE ElgFinish
  <2>1. prio' = prio \cup elg.todo /\ inelg' = inelg \ elg.todo
    BY <1>7, ConvertedAdds DEF ElgFinish
  <2>2. elg'.todo = {}
    BY <1>0, <1>7 DEF ElgFinish
  <2> QED BY <2>1, <2>2 DEF Index, SameKey
<1> QED BY <1>1, <1>2, <1>3, <1>4, <1>5, <1>6, <1>7, NextSteps DEF Enabling

\* What a purge takes from a list has expired.
LEMMA WithoutExpired ==
    ASSUME Bounds, NEW entries, NEW e \in entries
    PROVE  e \in Without(entries, purging.keys) \/ Expired(e)
<1>1. <<e[1], e[2][1]>> \in purging.keys => IsExpired(e[1], e[2][1], last)
  BY DEF Bounds
<1> QED BY <1>1 DEF Without, Expired

\* A listed entry stays listed, unless it has expired or has been reconciled.
LEMMA StaysListed ==
    ASSUME Types, Bounds, Index, Next
    PROVE  /\ \A e \in prio \cup deprio :
                \/ e \in prio' \cup deprio' \/ Expired(e)
                \/ CommitOldIndex /\ e[2] \in doc[e[1]].data /\ e[1] \in old.list
           /\ \A e \in inelg : e \in inelg' \cup prio' \/ Expired(e)
<1>1. CASE Committing
  <2>1. prio \subseteq prio' /\ deprio' = deprio /\ inelg \subseteq inelg'
    BY <1>1 DEF Committing, Crash, BeginCommit, CommitDocs, CommitIndex, CommitFails, level, index
  <2> QED BY <2>1
<1>2. CASE PurgeIndex
  <2>1. /\ prio' = Without(prio, purging.keys) /\ deprio' = Without(deprio, purging.keys)
        /\ inelg' = Without(inelg, purging.keys)
    BY <1>2 DEF PurgeIndex
  <2> QED BY <2>1, WithoutExpired
<1>3. CASE Purging /\ ~PurgeIndex
  <2>1. prio' = prio /\ deprio' = deprio /\ inelg' = inelg
    BY <1>3 DEF Purging, PurgeDocs, PurgeFails, level, index
  <2> QED BY <2>1
<1>4. CASE CommitOldIndex
  <2>1. prio' = prio \ old.prio /\ deprio' = (deprio \ old.deprio) \cup old.lower /\ inelg' = inelg
    BY <1>4 DEF CommitOldIndex
  <2>2. \A e \in old.deprio \cup (old.prio \cap prio) :
          e \in old.lower \/ (e[2] \in doc[e[1]].data /\ e[1] \in old.list)
    BY DEF Index
  <2> QED BY <1>4, <2>1, <2>2
<1>5. CASE Reconciling /\ ~CommitOldIndex
  <2>1. prio' = prio /\ deprio' = deprio /\ inelg' = inelg
    BY <1>5 DEF Reconciling, GetMissingPvtDataInfoForMostRecentBlocks, CommitOldDocs, CommitOldFails,
                ResetLastUpdatedOldBlocksList, level, index
  <2> QED BY <2>1
<1>6. CASE (\E c \in Colls : ProcessCollsEligibilityEnabled(c)) \/ ElgStart \/ ElgResume \/ Evicting
  <2>1. prio' = prio /\ deprio' = deprio /\ inelg' = inelg
    BY <1>6 DEF ProcessCollsEligibilityEnabled, ElgStart, ElgResume, Evicting, Evict, level, index
  <2> QED BY <2>1
<1>7. CASE ElgBatch \/ ElgFinish
  <2>1. PICK entries \in SUBSET elg.todo : Converted(entries)
    BY <1>7 DEF ElgBatch, ElgFinish
  <2>2. prio' = prio \cup entries /\ inelg' = inelg \ entries
    BY <2>1, ConvertedAdds
  <2>3. deprio' = deprio
    BY <1>7 DEF ElgBatch, ElgFinish
  <2> QED BY <2>2, <2>3
<1> QED BY <1>1, <1>2, <1>3, <1>4, <1>5, <1>6, <1>7, NextSteps DEF Enabling

\* What has expired stays so when the last block goes up.
LEMMA ExpiredNext ==
    ASSUME Types, Numbers, Next, NEW e \in Entries, Expired(e)
    PROVE  IsExpired(e[1], e[2][1], last')
<1>1. last \in Blocks /\ last' \in Blocks /\ last <= last'
  BY TypesNext, LastGrows DEF Types
<1> QED BY <1>1, EntryParts, StaysExpired DEF Expired

\* What the reconciler was told is missing is listed until it has expired.
LEMMA MissingListed ==
    ASSUME Types, Numbers, Bounds, Index, Next
    PROVE  \A e \in missing' : e \in prio' \cup deprio' \/ IsExpired(e[1], e[2][1], last')
<1>1. CASE GetMissingPvtDataInfoForMostRecentBlocks
  <2>1. missing' \subseteq prio \cup deprio
    BY <1>1 DEF GetMissingPvtDataInfoForMostRecentBlocks, MissingInfo
  <2>2. prio' = prio /\ deprio' = deprio
    BY <1>1 DEF GetMissingPvtDataInfoForMostRecentBlocks, level, index
  <2> QED BY <2>1, <2>2
<1>2. CASE CommitOldIndex \/ CommitOldFails \/ Crash
  <2>1. missing' = {}
    BY <1>2 DEF CommitOldIndex, CommitOldFails, Crash
  <2> QED BY <2>1
<1>3. CASE UNCHANGED missing /\ ~CommitOldIndex
  <2> SUFFICES ASSUME NEW e \in missing
               PROVE  e \in prio' \cup deprio' \/ IsExpired(e[1], e[2][1], last')
    BY <1>3
  <2>1. e \in Entries
    BY DEF Types
  <2>2. e \in prio \cup deprio \/ Expired(e)
    BY DEF Index
  <2> QED BY <1>3, <2>1, <2>2, StaysListed, ExpiredNext
<1>4. CASE Committing /\ ~Crash
  <2>1. UNCHANGED missing
    BY <1>4 DEF Committing, BeginCommit, CommitDocs, CommitIndex, CommitFails
  <2>2. ~CommitOldIndex \/ missing' = {}
    BY DEF CommitOldIndex
  <2> QED BY <1>3, <2>1, <2>2
<1>5. CASE Purging
  <2>1. UNCHANGED missing
    BY <1>5 DEF Purging, PurgeDocs, PurgeIndex, PurgeFails
  <2>2. ~CommitOldIndex \/ missing' = {}
    BY DEF CommitOldIndex
  <2> QED BY <1>3, <2>1, <2>2
<1>6. CASE (\E found \in SUBSET missing : CommitOldDocs(found)) \/ ResetLastUpdatedOldBlocksList
  <2>1. UNCHANGED missing
    BY <1>6 DEF CommitOldDocs, ResetLastUpdatedOldBlocksList, threads
  <2>2. ~CommitOldIndex \/ missing' = {}
    BY DEF CommitOldIndex
  <2> QED BY <1>3, <2>1, <2>2
<1>7. CASE Enabling \/ Evicting
  <2>1. UNCHANGED missing
    BY <1>7 DEF Enabling, ProcessCollsEligibilityEnabled, ElgStart, ElgBatch, ElgResume, ElgFinish,
                Evicting, Evict, threads
  <2>2. ~CommitOldIndex \/ missing' = {}
    BY DEF CommitOldIndex
  <2> QED BY <1>3, <2>1, <2>2
<1> QED BY <1>1, <1>2, <1>4, <1>5, <1>6, <1>7, NextSteps DEF Reconciling

\* Who changes the batch of the reconciler.
LEMMA OldSteps ==
    ASSUME Index, Next
    PROVE  \/ old' = NoOld
           \/ \E found \in SUBSET missing : CommitOldDocs(found) /\ lock' = "old"
           \/ UNCHANGED <<old, lock>>
<1>1. lock # "old" => old = NoOld
  BY DEF Index
<1>2. CASE Committing
  BY <1>2 DEF Committing, Crash, BeginCommit, CommitDocs, CommitIndex, CommitFails
<1>3. CASE Purging
  <2>1. UNCHANGED old /\ (lock # "old" \/ UNCHANGED lock)
    BY <1>3 DEF Purging, PurgeDocs, PurgeIndex, PurgeFails
  <2> QED BY <1>1, <2>1
<1>4. CASE Reconciling
  BY <1>4 DEF Reconciling, GetMissingPvtDataInfoForMostRecentBlocks, CommitOldDocs, CommitOldIndex,
              CommitOldFails, ResetLastUpdatedOldBlocksList, threads
<1>5. CASE Enabling \/ Evicting
  <2>1. UNCHANGED old /\ (lock # "old" \/ UNCHANGED lock)
    BY <1>5 DEF Enabling, ProcessCollsEligibilityEnabled, ElgStart, ElgBatch, ElgResume, ElgFinish,
                Evicting, Evict, threads
  <2> QED BY <1>1, <2>1
<1> QED BY <1>2, <1>3, <1>4, <1>5, NextSteps

\* What the batch of the reconciler deletes is stored or goes to the other list.
LEMMA BatchSafe ==
    ASSUME Types, Numbers, Documents, Bounds, Index, Next
    PROVE  /\ lock' # "old" => old' = NoOld
           /\ \A e \in old'.deprio \cup (old'.prio \cap prio') :
                e \in old'.lower \/ (e[2] \in doc'[e[1]].data /\ e[1] \in old'.list)
<1>1. CASE old' = NoOld
  BY <1>1 DEF NoOld
<1>2. ASSUME NEW found \in SUBSET missing, CommitOldDocs(found), lock' = "old"
      PROVE  \A e \in old'.deprio \cup (old'.prio \cap prio') :
               e \in old'.lower \/ (e[2] \in doc'[e[1]].data /\ e[1] \in old'.list)
  <2> DEFINE stored == Storable(found)
  <2>1. PICK winners \in Winners(stored) :
          /\ winners \subseteq stored /\ stored \subseteq found /\ stored \subseteq Entries
          /\ \A x \in Blocks : doc'[x] = ReconciledDoc(x, stored, winners)
          /\ old' = ReconciledIndex(stored, found)
    BY <1>2, OldDocsChanges
  <2> HIDE DEF stored
  <2>2. \A e \in stored : e[2] \in doc'[e[1]].data
    <3> SUFFICES ASSUME NEW e \in stored PROVE e[2] \in doc'[e[1]].data
      OBVIOUS
    <3>1. e[1] \in Blocks /\ e[2] \in OfBlock(stored, e[1])
      BY <2>1, EntryParts DEF OfBlock
    <3> QED BY <2>1, <3>1, ReconciledAdds, SMT
  <2>3. /\ old'.prio = (stored \cap prio) \cup (missing \ found)
        /\ old'.deprio = (stored \ prio) \cap deprio
        /\ old'.lower = {u \in missing \ found : \E e \in prio : SameKey(e, u)}
        /\ old'.list = {e[1] : e \in found}
    BY <2>1 DEF ReconciledIndex
  <2>4. prio' = prio
    BY <1>2 DEF CommitOldDocs, level, index
  <2>5. \A e : SameKey(e, e)
    BY DEF SameKey
  <2> QED BY <2>1, <2>2, <2>3, <2>4, <2>5
<1>3. CASE old # NoOld /\ UNCHANGED <<old, lock>>
  <2>0. lock = "old" /\ lock' = "old"
    BY <1>3 DEF Index
  <2>1. \A e \in old.prio : e \in prio' => e \in prio
    <3> SUFFICES ASSUME NEW e \in old.prio, e \in prio', e \notin prio
                 PROVE  FALSE
      OBVIOUS
    <3>1. CASE CommitIndex
      <4>1. e \in {commit.block} \X commit.content.elg
        BY <3>1 DEF CommitIndex, MissingEntries
      <4>2. e[1] = commit.block /\ commit.content.elg # {}
        BY <4>1
      <4>3. commit.block > last /\ commit.block \in Blocks
        BY <3>1, <4>2, CommitIndexBlock
      <4>4. e[1] \in 1..last /\ last \in Blocks
        BY DEF Bounds, Listed, Types
      <4> QED BY <4>2, <4>3, <4>4, SMT DEF Blocks
    <3>2. CASE Committing /\ ~CommitIndex
      BY <3>2 DEF Committing, Crash, BeginCommit, CommitDocs, CommitFails, level, index
    <3>3. CASE Purging
      BY <2>0, <3>3 DEF Purging, PurgeDocs, PurgeIndex, PurgeFails, level, index
    <3>4. CASE Reconciling
      BY <2>0, <3>4 DEF Reconciling, GetMissingPvtDataInfoForMostRecentBlocks, CommitOldDocs, CommitOldIndex,
                  CommitOldFails, ResetLastUpdatedOldBlocksList, level, index
    <3>5. CASE Enabling \/ Evicting
      BY <2>0, <3>5 DEF Enabling, ProcessCollsEligibilityEnabled, ElgStart, ElgBatch, ElgResume, ElgFinish,
                  Evicting, Evict, level, index
    <3> QED BY <3>1, <3>2, <3>3, <3>4, <3>5, NextSteps
  <2>2. \A e \in Entries : e[2] \in doc[e[1]].data => e[2] \in doc'[e[1]].data
    <3>1. CASE CommitDocs
      <4> SUFFICES ASSUME NEW e \in Entries, e[2] \in doc[e[1]].data
                   PROVE  e[2] \in doc'[e[1]].data
        OBVIOUS
      <4>1. e[1] \in Blocks /\ doc[e[1]] # NoDoc
        BY EntryParts, SMT DEF NoDoc
      <4> QED BY <3>1, <4>1, WrittenOnce
    <3>2. ~\E m \in purges : PurgeDocs(m)
      BY <2>0 DEF PurgeDocs
    <3>3. ~\E found \in SUBSET missing : CommitOldDocs(found)
      BY <2>0 DEF CommitOldDocs
    <3> QED BY <3>1, <3>2, <3>3, DocsStay
  <2>3. old.deprio \subseteq Entries /\ old.prio \subseteq Entries
    BY DEF Types
  <2> QED BY <1>3, <2>0, <2>1, <2>2, <2>3 DEF Index
<1>4. old = NoOld /\ UNCHANGED <<old, lock>> => old' = NoOld
  OBVIOUS
<1> QED BY <1>1, <1>2, <1>3, <1>4, OldSteps DEF Index

LEMMA IndexNext ==
    ASSUME Types, Numbers, Documents, Bounds, Index, Next
    PROVE  Index'
BY KeysApart, MissingListed, BatchSafe DEF Index, Expired

-----------------------------------------------------------------------------
(***************************************************************************)
(* Nothing is lost.                                                        *)
(***************************************************************************)

LEMMA KeptInit == Init => Kept
<1> SUFFICES ASSUME Init PROVE Kept
  OBVIOUS
<1>1. \A b \in Blocks : ~Committed(b)
  BY SMT DEF Init, Committed, Blocks
<1> QED BY <1>1 DEF Init, Kept, NothingLost

\* A block becomes committed with its LevelDB batch.
LEMMA CommittedFrom ==
    ASSUME Types, Numbers, Documents, Next, NEW b \in Blocks, Committed(b)', b \notin cut'
    PROVE  \/ Committed(b) /\ b \notin cut /\ content'[b] = content[b]
           \/ CommitIndex /\ b = commit.block /\ content'[b] = commit.content
           \/ content'[b] = NoContent
<1>0. b <= lastDoc' /\ commit'.block # b
  BY DEF Committed
<1>1. /\ b \in Int /\ b >= 0 /\ lastDoc \in Int
      /\ content[b] \in Contents[b] \cup {NoContent}
  BY NumbersAssumption, SMT DEF Types, Blocks, Documents
<1>2. CASE Crash \/ CommitFails
  <2>1. /\ cut' = cut \cup (IF commit.step = "docs" THEN {commit.block} ELSE {})
        /\ lastDoc' = lastDoc /\ content' = content
    BY <1>2 DEF Crash, CommitFails, couch
  <2>2. CASE commit.block # b
    BY <1>0, <2>1, <2>2 DEF Committed
  <2>3. CASE commit.block = b
    <3>1. commit.step = "begun"
      <4>1. commit.step # "docs"
        BY <2>1, <2>3
      <4>2. commit.step # "none"
        BY <1>1, <2>3, SMT DEF Numbers, NoCommit
      <4> QED BY <4>1, <4>2 DEF Types
    <3>2. b = lastDoc + 1 \/ b = 0
      BY <2>3, <3>1 DEF Numbers
    <3>3. b = 0
      BY <1>0, <1>1, <2>1, <3>2, SMT
    <3> QED BY <1>1, <2>1, <3>3, GenesisAssumption
  <2> QED BY <2>2, <2>3
<1>3. CASE \E x \in Blocks : \E k \in Contents[x] : BeginCommit(x, k)
  <2>1. commit = NoCommit /\ lastDoc' = lastDoc /\ cut' = cut /\ content' = content
    BY <1>3 DEF BeginCommit, couch, history
  <2>2. commit.block # b
    BY <1>1, <2>1, SMT DEF NoCommit
  <2> QED BY <1>0, <2>1, <2>2 DEF Committed
<1>4. CASE CommitDocs
  <2>1. lastDoc' = commit.block /\ cut' = cut /\ commit.step = "begun" /\ commit'.block = commit.block
    BY <1>4 DEF CommitDocs, Types
  <2>2. commit.block = lastDoc + 1 \/ (commit.block = 0 /\ lastDoc = 0)
    BY <2>1 DEF Numbers
  <2>3. b <= lastDoc /\ commit.block # b
    BY <1>0, <1>1, <2>1, <2>2, SMT
  <2> QED BY <1>4, <2>1, <2>3, WrittenOnce DEF Committed
<1>5. CASE CommitIndex
  <2>1. lastDoc' = lastDoc /\ cut' = cut /\ content' = content /\ commit.step = "docs"
    BY <1>5 DEF CommitIndex, couch, history
  <2>2. commit.block = b => content[b] = commit.content
    BY <2>1 DEF Documents
  <2> QED BY <1>0, <1>5, <2>1, <2>2 DEF Committed
<1>6. CASE Purging \/ Reconciling \/ Enabling \/ Evicting
  BY <1>0, <1>6, NumbersKept DEF numbers, Committed
<1> QED BY <1>2, <1>3, <1>4, <1>5, <1>6, NextSteps DEF Committing

\* An item that is stored or listed stays so until it has expired.
LEMMA ItemStays ==
    ASSUME Types, Numbers, Documents, Bounds, Index, Next, NEW e \in Entries,
           ~IsExpired(e[1], e[2][1], last')
    PROVE  /\ e \in prio \cup deprio \/ e[2] \in doc[e[1]].data
                => e \in prio' \cup deprio' \/ e[2] \in doc'[e[1]].data
           /\ e \in inelg \cup prio \cup deprio \/ e[2] \in doc[e[1]].data
                => e \in inelg' \cup prio' \cup deprio' \/ e[2] \in doc'[e[1]].data
<1>0. e[1] \in Blocks /\ ~Expired(e)
  BY EntryParts, ExpiredNext
<1>1. e[2] \in doc[e[1]].data => e[2] \in doc'[e[1]].data
  BY <1>0, DataKept DEF Expired
<1>2. e \in prio \cup deprio => e \in prio' \cup deprio' \/ e[2] \in doc[e[1]].data
  BY <1>0, StaysListed
<1>3. e \in inelg => e \in inelg' \cup prio'
  BY <1>0, StaysListed
<1> QED BY <1>1, <1>2, <1>3

LEMMA NothingLostNext ==
    ASSUME Types, Numbers, Documents, Bounds, Index, Kept, Next
    PROVE  NothingLost'
<1>0. Types'
  BY TypesNext
<1>1. ASSUME NEW b \in Blocks, Committed(b)', b \notin cut',
             NEW i \in content'[b].elg, ~IsExpired(b, i[1], last')
      PROVE  <<b, i>> \in prio' \cup deprio' \/ i \in doc'[b].data
  <2>1. i \in Items /\ i[1] \in Colls /\ <<b, i>> \in Entries
    BY <1>0, ItemsAssumption DEF Types, ContentType, Entries
  <2>2. CASE Committed(b) /\ b \notin cut /\ content'[b] = content[b]
    <3>1. ~IsExpired(b, i[1], last)
      BY <1>1, <2>1, ExpiredNext DEF Expired
    <3>2. <<b, i>> \in prio \cup deprio \/ i \in doc[b].data
      BY <1>1, <2>2, <3>1 DEF Kept, NothingLost, Unexpired
    <3> QED BY <1>1, <2>1, <3>2, ItemStays
  <2>3. CASE CommitIndex /\ b = commit.block /\ content'[b] = commit.content
    BY <1>1, <2>3 DEF CommitIndex, MissingEntries
  <2>4. content'[b] # NoContent
    BY <1>1, SMT DEF NoContent
  <2> QED BY <1>1, <2>2, <2>3, <2>4, CommittedFrom
<1>2. ASSUME NEW b \in Blocks, Committed(b)', b \notin cut',
             NEW i \in content'[b].inelg, ~IsExpired(b, i[1], last')
      PROVE  <<b, i>> \in inelg' \cup prio' \cup deprio' \/ i \in doc'[b].data
  <2>1. i \in Items /\ i[1] \in Colls /\ <<b, i>> \in Entries
    BY <1>0, ItemsAssumption DEF Types, ContentType, Entries
  <2>2. CASE Committed(b) /\ b \notin cut /\ content'[b] = content[b]
    <3>1. ~IsExpired(b, i[1], last)
      BY <1>2, <2>1, ExpiredNext DEF Expired
    <3>2. <<b, i>> \in inelg \cup prio \cup deprio \/ i \in doc[b].data
      BY <1>2, <2>2, <3>1 DEF Kept, NothingLost, Unexpired
    <3> QED BY <1>2, <2>1, <3>2, ItemStays
  <2>3. CASE CommitIndex /\ b = commit.block /\ content'[b] = commit.content
    BY <1>2, <2>3 DEF CommitIndex, MissingEntries
  <2>4. content'[b] # NoContent
    BY <1>2, SMT DEF NoContent
  <2> QED BY <1>2, <2>2, <2>3, <2>4, CommittedFrom
<1> QED BY <1>1, <1>2 DEF NothingLost, Unexpired, IsExpired, ExpiringBlock

\* The lists of the recovery change with the reconciler only.
LEMMA RecoveryLists ==
    ASSUME Next, ~CommitOldIndex, ~ResetLastUpdatedOldBlocksList
    PROVE  /\ UNCHANGED <<oldList, overwrote>>
           /\ UNCHANGED unsynced \/ \E found \in SUBSET missing : CommitOldDocs(found)
<1>1. CASE Committing
  BY <1>1 DEF Committing, Crash, BeginCommit, CommitDocs, CommitIndex, CommitFails, level, history
<1>2. CASE Purging
  BY <1>2 DEF Purging, PurgeDocs, PurgeIndex, PurgeFails, level, history
<1>3. CASE Reconciling
  BY <1>3 DEF Reconciling, GetMissingPvtDataInfoForMostRecentBlocks, CommitOldDocs, CommitOldFails,
              level, history
<1>4. CASE Enabling \/ Evicting
  BY <1>4 DEF Enabling, ProcessCollsEligibilityEnabled, ElgStart, ElgBatch, ElgResume, ElgFinish,
              Evicting, Evict, level, history
<1> QED BY <1>1, <1>2, <1>3, <1>4, NextSteps

LEMMA KeptNext ==
    ASSUME Types, Numbers, Documents, Bounds, Index, Kept, Next
    PROVE  Kept'
<1>1. ASSUME NEW e \in unsynced'
      PROVE  \/ e[1] \in oldList' \/ e \in prio' \cup deprio' \/ overwrote'
             \/ IsExpired(e[1], e[2][1], last')
  <2>1. e \in Entries
    BY TypesNext DEF Types
  <2>2. \/ e \in unsynced /\ (e[1] \in oldList \/ e \in prio \cup deprio \/ overwrote \/ Expired(e))
        \/ ~CommitOldIndex /\ ~ResetLastUpdatedOldBlocksList /\ (e \in prio \cup deprio \/ Expired(e))
    <3>1. CASE e \in unsynced
      BY <3>1 DEF Kept
    <3>2. ASSUME NEW found \in SUBSET missing, CommitOldDocs(found), e \notin unsynced
          PROVE  e \in prio \cup deprio \/ Expired(e)
      <4>1. e \in missing
        BY <3>2, OldDocsChanges, SMT
      <4> QED BY <4>1 DEF Index
    <3>3. CASE CommitOldIndex \/ ResetLastUpdatedOldBlocksList
      <4>1. unsynced' \subseteq unsynced
        BY <3>3 DEF CommitOldIndex, ResetLastUpdatedOldBlocksList
      <4> QED BY <3>1, <4>1
    <3> QED BY <3>1, <3>2, <3>3, RecoveryLists
  <2>3. CASE CommitOldIndex
    <3>1. oldList' = old.list /\ overwrote' = (overwrote \/ ~(oldList \subseteq old.list))
      BY <2>3 DEF CommitOldIndex
    <3> QED BY <2>1, <2>2, <2>3, <3>1, StaysListed, ExpiredNext
  <2>4. CASE ResetLastUpdatedOldBlocksList
    <3>1. e[1] \notin oldList /\ overwrote' = overwrote /\ prio' = prio /\ deprio' = deprio
      BY <2>4 DEF ResetLastUpdatedOldBlocksList, index
    <3> QED BY <2>1, <2>2, <2>4, <3>1, ExpiredNext
  <2>5. CASE ~CommitOldIndex /\ ~ResetLastUpdatedOldBlocksList
    BY <2>1, <2>2, <2>5, RecoveryLists, StaysListed, ExpiredNext
  <2> QED BY <2>3, <2>4, <2>5
<1>2. NothingLost'
  BY NothingLostNext
<1> QED BY <1>1, <1>2 DEF Kept, Expired

-----------------------------------------------------------------------------
(***************************************************************************)
(* Expiry entries.                                                         *)
(***************************************************************************)

LEMMA ExpiryInit == Init => Expiry
<1> SUFFICES ASSUME Init PROVE Expiry
  OBVIOUS
<1>1. \A b \in Blocks : Expiring(b, doc[b].data) = {}
  BY DEF Init, NoDoc, Expiring
<1>2. Listed = {}
  BY DEF Init, Listed, NoOld, NoElg
<1>3. commit.step # "docs"
  BY DEF Init, NoCommit
<1> QED BY <1>1, <1>2, <1>3 DEF Expiry, ExpiringDataScheduled

\* The expiry entries that a document has for absent collections, or for data, stay with it.
LEMMA ExpiryDataStays ==
    ASSUME Types, Numbers, Documents, Bounds, Next, NEW e \in Entries, HasExpiryData(e)
    PROVE  HasExpiryData(e)' \/ e[1] \in gone'
<1> DEFINE b == e[1]
           x == ExpiringBlock(b, e[2][1])
<1>0. b \in Blocks
  BY EntryParts
<1>1. x \in ExpiryKeys(b, doc[b].present, doc[b].absent)
  BY DEF HasExpiryData, ExpiryKey
<1>2. HasExpiryData(e)' <=> x \in ExpiryKeys(b, doc'[b].present, doc'[b].absent)
  BY DEF HasExpiryData, ExpiryKey, ExpiringBlock, ExpiryKeys
<1>3. \A p, q, a : p \subseteq q /\ x \in ExpiryKeys(b, p, a) => x \in ExpiryKeys(b, q, a)
  BY DEF ExpiryKeys
<1> HIDE DEF b, x
<1>4. CASE CommitDocs
  <2>1. doc[b] # NoDoc
    BY <1>1, SMT DEF NoDoc, ExpiryKeys
  <2> QED BY <1>0, <1>1, <1>2, <1>4, <2>1, WrittenOnce
<1>5. ASSUME NEW m \in purges, PurgeDocs(m)
      PROVE  HasExpiryData(e)' \/ e[1] \in gone'
  <2>1. m \in Blocks
    BY DEF Types
  <2>2. CASE doc'[b] = doc[b]
    BY <1>1, <1>2, <2>2
  <2>3. CASE /\ doc'[b] = PurgedDoc(b, m) /\ \E n \in doc[b].nums : n <= m
             /\ ~doc'[b].exists => b \in gone'
    <3>1. CASE doc'[b] = NoDoc
      BY <2>3, <3>1, SMT DEF NoDoc, b
    <3>2. CASE doc'[b].present = doc[b].present /\ doc'[b].absent = doc[b].absent
      BY <1>1, <1>2, <3>2
    <3> QED BY <1>0, <2>1, <2>3, <3>1, <3>2, PurgedKeeps, SMT
  <2> QED BY <1>0, <1>5, <2>2, <2>3, PurgeChanges
<1>6. ASSUME NEW found \in SUBSET missing, CommitOldDocs(found)
      PROVE  HasExpiryData(e)'
  <2>1. PICK winners \in Winners(Storable(found)) :
          /\ winners \subseteq Storable(found) /\ Storable(found) \subseteq Entries
          /\ \A y \in Blocks : doc'[y] = ReconciledDoc(y, Storable(found), winners)
    BY <1>6, OldDocsChanges
  <2>2. doc[b].present \subseteq doc'[b].present /\ doc'[b].absent = doc[b].absent
    <3>1. doc'[b] = ReconciledDoc(b, Storable(found), winners)
      BY <1>0, <2>1
    <3>2. /\ doc'[b].present = doc[b].present \cup OfBlock(winners, b)
          /\ doc'[b].absent = doc[b].absent
      BY <1>0, <2>1, <3>1, ReconciledAdds, SMT
    <3> QED BY <3>2
  <2> QED BY <1>1, <1>2, <1>3, <2>2
<1>7. CASE UNCHANGED doc
  BY <1>1, <1>2, <1>7
<1> QED BY <1>4, <1>5, <1>6, <1>7, DocsStay

\* A deleted document is remembered, and expiry entries are overwritten by the reconciler only.
LEMMA HistoryGrows ==
    ASSUME Next
    PROVE  /\ gone \subseteq gone'
           /\ UNCHANGED dropped \/ \E found \in SUBSET missing : CommitOldDocs(found)
<1>1. CASE Committing
  BY <1>1 DEF Committing, Crash, BeginCommit, CommitDocs, CommitIndex, CommitFails, history
<1>2. CASE Purging
  BY <1>2 DEF Purging, PurgeDocs, PurgeIndex, PurgeFails, history
<1>3. CASE Reconciling
  BY <1>3 DEF Reconciling, GetMissingPvtDataInfoForMostRecentBlocks, CommitOldDocs, CommitOldIndex,
              CommitOldFails, ResetLastUpdatedOldBlocksList, history
<1>4. CASE Enabling \/ Evicting
  BY <1>4 DEF Enabling, ProcessCollsEligibilityEnabled, ElgStart, ElgBatch, ElgResume, ElgFinish,
              Evicting, Evict, history
<1> QED BY <1>1, <1>2, <1>3, <1>4, NextSteps

\* What can be reconciled stays so.
LEMMA ReconcilableStays ==
    ASSUME Types, Numbers, Documents, Bounds, Next, NEW e \in Entries, Reconcilable(e)
    PROVE  Reconcilable(e)'
<1>1. CASE NeverExpires(ExpiryKey(e)[2])
  BY <1>1 DEF Reconcilable, NeverExpires, ExpiryKey, ExpiringBlock
<1>2. CASE Expired(e)
  BY <1>2, ExpiredNext DEF Reconcilable, Expired
<1>3. CASE HasExpiryData(e)
  BY <1>3, ExpiryDataStays DEF Reconcilable
<1>4. CASE e[1] \in gone
  BY <1>4, HistoryGrows DEF Reconcilable
<1> QED BY <1>1, <1>2, <1>3, <1>4 DEF Reconcilable

\* The document of a block has expiry entries for what is missing.
LEMMA NewDocAbsent ==
    ASSUME NEW b \in Blocks, NEW k \in ContentType, NEW i \in k.elg \cup k.inelg,
           ~NeverExpires(ExpiringBlock(b, i[1]))
    PROVE  ExpiringBlock(b, i[1]) \in ExpiryKeys(b, NewDoc(b, k).present, NewDoc(b, k).absent)
<1> DEFINE present == Expiring(b, k.present)
           absent == {j[1] : j \in Expiring(b, k.elg \cup k.inelg)}
<1>1. i[1] \in absent
  BY DEF Expiring
<1>2. NewDoc(b, k).absent = absent
  BY <1>1 DEF NewDoc
<1> HIDE DEF absent
<1> QED BY <1>1, <1>2 DEF ExpiryKeys

LEMMA ReconcilableNext ==
    ASSUME Types, Numbers, Documents, Bounds, Expiry, Next
    PROVE  /\ \A e \in Listed' : Reconcilable(e)'
           /\ commit'.step = "docs" =>
                \A i \in commit'.content.elg \cup commit'.content.inelg : Reconcilable(<<commit.block, i>>)'
<1>1. ASSUME commit.step = "docs", NEW i \in commit.content.elg \cup commit.content.inelg
      PROVE  <<commit.block, i>> \in Entries /\ Reconcilable(<<commit.block, i>>)
  <2>1. commit.block \in Blocks /\ commit.content \in ContentType
    BY <1>1, CommitContent
  <2> QED BY <1>1, <2>1 DEF Expiry, Entries, ContentType
<1>2. ASSUME NEW e \in Listed'
      PROVE  Reconcilable(e)'
  <2>1. CASE e \in Listed
    <3>1. e \in Entries
      BY <2>1 DEF Listed, Types
    <3> QED BY <2>1, <3>1, ReconcilableStays DEF Expiry
  <2>2. CASE CommitIndex /\ e \in {commit.block} \X (commit.content.elg \cup commit.content.inelg)
    <3>1. commit.step = "docs"
      BY <2>2 DEF CommitIndex
    <3>2. e \in Entries /\ Reconcilable(e)
      BY <1>1, <2>2, <3>1, SMT
    <3> QED BY <3>2, ReconcilableStays
  <2> QED BY <2>1, <2>2, ListedFrom
<1>3. ASSUME commit'.step = "docs", NEW i \in commit'.content.elg \cup commit'.content.inelg
      PROVE  Reconcilable(<<commit.block, i>>)'
  <2>1. CASE UNCHANGED commit
    <3>1. PICK e \in Entries : e = <<commit.block, i>> /\ Reconcilable(e)
      BY <1>1, <1>3, <2>1
    <3>2. Reconcilable(e)' /\ e = <<commit'.block, i>>
      BY <2>1, <3>1, ReconcilableStays
    <3> QED BY <3>2 DEF Reconcilable, Expired, HasExpiryData
  <2>2. CASE CommitDocs /\ commit'.block = commit.block /\ commit'.content = commit.content
    <3>1. /\ commit.block \in Blocks /\ commit.content \in ContentType
          /\ i \in commit.content.elg \cup commit.content.inelg
      BY <1>3, <2>2, CommitContent DEF CommitDocs
    <3>2. commit.content # NoContent
      BY <3>1, SMT DEF NoContent
    <3>3. PICK b \in Blocks, k \in ContentType : b = commit.block /\ k = commit.content
      BY <3>1
    <3>4. doc'[b] = NewDoc(b, k) /\ commit'.block = b /\ i \in k.elg \cup k.inelg
      BY <2>2, <3>1, <3>2, <3>3, WrittenOnce
    <3>5. CASE NeverExpires(ExpiringBlock(b, i[1]))
      BY <3>4, <3>5 DEF Reconcilable, ExpiryKey
    <3>6. CASE ~NeverExpires(ExpiringBlock(b, i[1]))
      <4>1. ExpiringBlock(b, i[1]) \in ExpiryKeys(b, doc'[b].present, doc'[b].absent)
        BY <3>4, <3>6, NewDocAbsent
      <4> QED BY <3>4, <4>1 DEF Reconcilable, HasExpiryData, ExpiryKey
    <3> QED BY <3>5, <3>6
  <2> QED BY <1>3, <2>1, <2>2, DocsStep
<1> QED BY <1>2, <1>3

\* Data that expires has an expiry entry, as a block brings it and after a purge.
LEMMA NewDocScheduled ==
    ASSUME NEW b \in Blocks, NEW k \in ContentType, NEW i \in Expiring(b, NewDoc(b, k).data)
    PROVE  /\ i \in NewDoc(b, k).present
           /\ ExpiringBlock(b, i[1]) \in NewDoc(b, k).nums
<1> DEFINE present == Expiring(b, k.present)
           absent == {j[1] : j \in Expiring(b, k.elg \cup k.inelg)}
<1>1. i \in k.present /\ i \in present
  BY NewDocData DEF Expiring
<1>2. NewDoc(b, k).present = present /\ NewDoc(b, k).nums = ExpiryKeys(b, present, absent)
  BY <1>1 DEF NewDoc
<1> HIDE DEF present, absent
<1> QED BY <1>1, <1>2 DEF ExpiryKeys

LEMMA ScheduledNext ==
    ASSUME Types, Numbers, Documents, Bounds, ExpiringDataScheduled, Next
    PROVE  ExpiringDataScheduled'
<1> SUFFICES ASSUME NEW b \in Blocks, NEW i \in Expiring(b, doc'[b].data)
             PROVE  \/ <<b, i>> \in dropped'
                    \/ i \in doc'[b].present /\ ExpiringBlock(b, i[1]) \in doc'[b].nums
  BY DEF ExpiringDataScheduled, Expiring
<1> DEFINE x == ExpiringBlock(b, i[1])
<1>0. i \in doc'[b].data /\ ~NeverExpires(x)
  BY DEF Expiring
<1>1. i \in doc[b].data => <<b, i>> \in dropped \/ (i \in doc[b].present /\ x \in doc[b].nums)
  BY <1>0 DEF ExpiringDataScheduled, Expiring
<1>2. \A p, a : i \in p => x \in ExpiryKeys(b, p, a)
  BY DEF ExpiryKeys
<1> HIDE DEF x
<1>3. CASE CommitDocs
  <2>1. UNCHANGED dropped
    BY <1>3 DEF CommitDocs
  <2>2. commit.content \in ContentType
    BY <1>3, CommitContent DEF CommitDocs
  <2>3. CASE doc'[b] = doc[b]
    BY <1>0, <1>1, <2>1, <2>3 DEF x
  <2>4. CASE b = commit.block /\ doc'[b] = NewDoc(b, commit.content)
    BY <2>2, <2>4, NewDocScheduled DEF x
  <2> QED BY <1>3, <2>3, <2>4, WrittenOnce
<1>4. ASSUME NEW m \in purges, PurgeDocs(m)
      PROVE  <<b, i>> \in dropped' \/ (i \in doc'[b].present /\ x \in doc'[b].nums)
  <2>1. m \in Blocks /\ UNCHANGED dropped
    BY <1>4 DEF PurgeDocs, Types
  <2>2. CASE doc'[b] = doc[b]
    BY <1>0, <1>1, <2>1, <2>2
  <2>3. CASE doc'[b] = PurgedDoc(b, m) /\ \E n \in doc[b].nums : n <= m
    <3>1. doc'[b] # NoDoc
      BY <1>0, SMT DEF NoDoc
    <3>2. /\ doc'[b].present = doc[b].present
          /\ doc'[b].nums = {e \in ExpiryKeys(b, doc[b].present, doc[b].absent) : e > m}
          /\ i \in doc[b].data
          /\ i \in doc[b].present => ~(x <= m)
      BY <1>0, <2>1, <2>3, <3>1, PurgedKeeps, SMT DEF x
    <3>3. CASE <<b, i>> \in dropped
      BY <2>1, <3>3
    <3>4. CASE i \in doc[b].present
      <4>1. i[1] \in Colls
        BY <3>4, ItemsAssumption DEF Types, DocType
      <4>2. x \in Nat /\ m \in Nat
        BY <2>1, <4>1, ExpiringNat, SMT DEF x, Blocks
      <4>3. x > m
        BY <3>2, <3>4, <4>2, SMT
      <4> QED BY <1>2, <3>2, <3>4, <4>3
    <3> QED BY <1>1, <3>2, <3>3, <3>4
  <2> QED BY <1>4, <2>2, <2>3, PurgeChanges
<1>5. ASSUME NEW found \in SUBSET missing, CommitOldDocs(found)
      PROVE  <<b, i>> \in dropped' \/ (i \in doc'[b].present /\ x \in doc'[b].nums)
  <2> DEFINE stored == Storable(found)
  <2>1. PICK winners \in Winners(stored) :
          /\ winners \subseteq stored /\ stored \subseteq Entries
          /\ \A y \in Blocks : doc'[y] = ReconciledDoc(y, stored, winners)
          /\ dropped' = (dropped \cup {e \in stored :
                                         /\ ~NeverExpires(ExpiryKey(e)[2])
                                         /\ e[2] \notin doc[e[1]].present}) \ winners
    BY <1>5, OldDocsChanges
  <2> HIDE DEF stored
  <2>2. doc'[b] = ReconciledDoc(b, stored, winners)
    BY <2>1
  <2>3. /\ doc'[b].data = doc[b].data \cup OfBlock(stored, b)
        /\ doc'[b].present = doc[b].present \cup OfBlock(winners, b)
        /\ \/ doc'[b] = doc[b] /\ OfBlock(stored, b) = {}
           \/ doc'[b].nums = ExpiryKeys(b, doc'[b].present, doc'[b].absent)
    BY <2>1, <2>2, ReconciledAdds, SMT
  <2>4. /\ \A j : j \in OfBlock(stored, b) => <<b, j>> \in stored
        /\ \A j : <<b, j>> \in winners => j \in OfBlock(winners, b) /\ j \in OfBlock(stored, b)
    <3>1. \A e \in stored : e = <<e[1], e[2]>>
      BY <2>1, EntryParts
    <3> QED BY <2>1, <3>1 DEF OfBlock
  <2>5. ExpiryKey(<<b, i>>)[2] = x
    BY DEF ExpiryKey, x
  <2>6. i \in doc'[b].present => x \in doc'[b].nums \/ (doc'[b] = doc[b] /\ OfBlock(stored, b) = {})
    BY <1>2, <2>3, SMT
  <2>7. CASE doc'[b] = doc[b] /\ OfBlock(stored, b) = {}
    <3>1. <<b, i>> \notin winners
      BY <2>4, <2>7
    <3> QED BY <1>0, <1>1, <2>1, <2>7, <3>1
  <2>8. CASE doc'[b].nums = ExpiryKeys(b, doc'[b].present, doc'[b].absent)
    <3>1. CASE i \in doc'[b].present
      BY <1>2, <2>8, <3>1
    <3>2. CASE i \notin doc'[b].present
      <4>1. <<b, i>> \notin winners /\ i \notin doc[b].present
        BY <2>3, <2>4, <3>2
      <4>2. <<b, i>> \in dropped \/ <<b, i>> \in stored
        BY <1>0, <1>1, <2>3, <2>4, <4>1
      <4> QED BY <1>0, <2>1, <2>5, <4>1, <4>2
    <3> QED BY <3>1, <3>2
  <2> QED BY <2>3, <2>7, <2>8
<1>6. CASE UNCHANGED <<doc, dropped>>
  BY <1>0, <1>1, <1>6 DEF x
<1> QED BY <1>3, <1>4, <1>5, <1>6, DocsStay, HistoryGrows DEF x

LEMMA ExpiryNext ==
    ASSUME Types, Numbers, Documents, Bounds, Expiry, Next
    PROVE  Expiry'
BY ReconcilableNext, ScheduledNext DEF Expiry

-----------------------------------------------------------------------------
(***************************************************************************)
(* The cache.                                                              *)
(***************************************************************************)

LEMMA CacheInit == Init => CacheHolds
BY DEF Init, CacheHolds

LEMMA CacheHoldsNext ==
    ASSUME Types, Numbers, Documents, CacheHolds, Next
    PROVE  CacheHolds'
<1> SUFFICES ASSUME ~failed', NEW b \in Blocks
             PROVE  \/ cache'[b] = {}
                    \/ cache'[b] = content'[b].present /\ ~(commit'.step = "begun" /\ commit'.block = b)
                    \/ cache'[b] = commit'.content.present /\ commit'.step = "begun" /\ commit'.block = b
  BY DEF CacheHolds, Blocks
<1>1. CASE Crash
  BY <1>1 DEF Crash
<1>2. ASSUME NEW x \in Blocks, NEW k \in Contents[x], BeginCommit(x, k)
      PROVE  \/ cache'[b] = {}
             \/ cache'[b] = content'[b].present /\ ~(commit'.step = "begun" /\ commit'.block = b)
             \/ cache'[b] = commit'.content.present /\ commit'.step = "begun" /\ commit'.block = b
  <2>2. /\ cache' = [cache EXCEPT ![x] = k.present] /\ content' = content /\ failed' = failed
        /\ commit = NoCommit /\ commit' = [block |-> x, step |-> "begun", content |-> k]
    BY <1>2 DEF BeginCommit, history
  <2>3. commit.step = "none" /\ commit'.step = "begun" /\ commit'.block = x /\ commit'.content = k
    BY <2>2 DEF NoCommit
  <2>4. (b # x => cache'[b] = cache[b]) /\ (b = x => cache'[b] = k.present)
    BY <2>2 DEF Types
  <2> QED BY <2>2, <2>3, <2>4 DEF CacheHolds
<1>3. CASE CommitDocs
  <2>1. commit.step = "begun" /\ cache' = cache /\ failed' = failed /\ commit'.step = "docs"
    BY <1>3 DEF CommitDocs, memory, Types
  <2>2. CASE commit.block = b
    <3>1. content'[b] = commit.content
      BY <1>3, <2>2, WrittenOnce
    <3>2. cache[b] = {} \/ cache[b] = commit.content.present
      BY <2>1, <2>2 DEF CacheHolds
    <3> QED BY <2>1, <3>1, <3>2
  <2>3. CASE commit.block # b
    <3>1. content'[b] = content[b]
      BY <1>3, <2>3, WrittenOnce
    <3> QED BY <2>1, <2>3, <3>1 DEF CacheHolds
  <2> QED BY <2>2, <2>3
<1>4. CASE CommitIndex
  <2>1. /\ commit.step = "docs" /\ cache' = cache /\ content' = content /\ failed' = failed
        /\ commit'.step = "none"
    BY <1>4 DEF CommitIndex, history, NoCommit
  <2> QED BY <2>1 DEF CacheHolds
<1>5. CASE CommitFails
  BY <1>5 DEF CommitFails
<1>6. CASE Evicting
  <2>1. cache'[b] = {} \/ cache'[b] = cache[b]
    BY <1>6 DEF Evicting, Evict, Types
  <2> QED BY <1>6, <2>1, NumbersKept DEF CacheHolds, numbers
<1>7. CASE Purging \/ Reconciling \/ Enabling
  <2>1. cache' = cache
    <3>1. CASE Purging
      BY <3>1 DEF Purging, PurgeDocs, PurgeIndex, PurgeFails, memory
    <3>2. CASE Reconciling
      BY <3>2 DEF Reconciling, GetMissingPvtDataInfoForMostRecentBlocks, CommitOldDocs, CommitOldIndex,
                  CommitOldFails, ResetLastUpdatedOldBlocksList, memory
    <3>3. CASE Enabling
      BY <3>3 DEF Enabling, ProcessCollsEligibilityEnabled, ElgStart, ElgBatch, ElgResume, ElgFinish, memory
    <3> QED BY <1>7, <3>1, <3>2, <3>3
  <2> QED BY <1>7, <2>1, NumbersKept DEF CacheHolds, numbers
<1> QED BY <1>1, <1>2, <1>3, <1>4, <1>5, <1>6, <1>7, NextSteps DEF Committing

-----------------------------------------------------------------------------
(***************************************************************************)
(* The theorems.                                                           *)
(***************************************************************************)

\* Every step keeps the invariant.
LEMMA Inductive == Inv /\ [Next]_vars => Inv'
<1> SUFFICES ASSUME Inv, [Next]_vars PROVE Inv'
  OBVIOUS
<1>1. CASE Next
  BY <1>1, TypesNext, NumbersNext, DocumentsNext, BoundsNext, IndexNext, KeptNext, ExpiryNext,
     CacheHoldsNext DEF Inv
<1>2. CASE UNCHANGED vars
  <2>0. /\ UNCHANGED <<doc, lastDoc, prio, deprio, inelg, oldList, events, last, empty, oldSet>>
        /\ UNCHANGED <<cache, cacheLast, cacheEmpty, lock, commit, purges, purging, missing, old, elg>>
        /\ UNCHANGED <<content, cut, dropped, gone, unsynced, overwrote, failed>>
    BY <1>2 DEF vars, couch, level, index, memory, threads, history
  <2>1. Types'
    BY <2>0, SMT DEF Inv, Types
  <2>2. Numbers'
    BY <2>0 DEF Inv, Numbers, StoresInStep, NextBlockNum, CacheNextBlockNum, Increment64
  <2>3. Documents'
    BY <2>0 DEF Inv, Documents
  <2>4. Bounds' /\ Index'
    BY <2>0 DEF Inv, Bounds, Index, Listed, Expired
  <2>5. Kept'
    BY <2>0 DEF Inv, Kept, NothingLost, Committed, Expired
  <2>6. Expiry'
    BY <2>0 DEF Inv, Expiry, ExpiringDataScheduled, Reconcilable, Expired, HasExpiryData, Listed
  <2>7. CacheHolds'
    BY <2>0 DEF Inv, CacheHolds
  <2> QED BY <2>1, <2>2, <2>3, <2>4, <2>5, <2>6, <2>7 DEF Inv
<1> QED BY <1>1, <1>2

\* The invariant holds always.
LEMMA Invariance == Spec => []Inv
<1>1. Init => Inv
  BY TypesInit, NumbersInit, DocumentsInit, BoundsInit, IndexInit, KeptInit, ExpiryInit, CacheInit DEF Inv
<1> QED BY <1>1, Inductive, PTL DEF Spec

\* No item of a committed block is lost: until it expires it is stored or listed, as missing
\* or for the recovery of the state database, whatever commits, purges, reconciliations,
\* conversions, failed writes and restarts come in between (Commit, CommitPvtDataOfOldBlocks,
\* purgeExpiredData, processCollElgEvents).
THEOREM ItemsAreKept == Spec => []ItemsKept
<1>1. Inv => ItemsKept
  <2> SUFFICES ASSUME Inv PROVE ItemsKept
    OBVIOUS
  <2>1. TypeOK
    <3>1. Types
      BY DEF Inv
    <3>2. \A b \in Blocks : doc[b] \in DocType /\ cache[b] \subseteq Items
      BY <3>1 DEF Types
    <3> QED BY <3>1, <3>2 DEF TypeOK, Types, DocType
  <2>2. NothingLost /\ RecoveryListComplete
    BY DEF Inv, Kept, RecoveryListComplete, Expired
  <2>3. PresentKept
    BY DEF Inv, Documents, PresentKept, Committed
  <2> QED BY <2>1, <2>2, <2>3 DEF ItemsKept
<1> QED BY <1>1, Invariance, PTL

\* The expiry entries lead the purge to all that expires and the reconciler to all that is
\* missing (prepareExpiryEntries, getExpiryDataOfExpiryKey).
THEOREM ExpiryIsFound == Spec => []ExpiryFound
<1>1. Inv => ExpiryFound
  BY DEF Inv, Expiry, ExpiryFound, MissingReconcilable, Reconcilable, Expired, Listed
<1> QED BY <1>1, Invariance, PTL

\* The cache and the database behind it are read as one store, on the committing and on an
\* endorsing peer, after restarts and failed commits (GetPvtDataByBlockNum, Init).
THEOREM ReadsStayInStep == Spec => []ReadsInStep
<1>1. Inv => ReadsInStep
  <2> SUFFICES ASSUME Inv PROVE ReadsInStep
    OBVIOUS
  <2>0. Types /\ Numbers /\ Documents /\ CacheHolds
    BY DEF Inv
  <2>1. ASSUME NEW b \in Blocks, commit = NoCommit, ~failed, InRange(b)
        PROVE  /\ Read(b) \subseteq DBRead(b)
               /\ (DBRead(b) \ Read(b)) \cap content[b].present = {}
               /\ CacheRead(b) = {} => Read(b) = DBRead(b)
    <3>1. /\ last \in Int /\ last >= 0 /\ last <= MaxBlock /\ lastDoc \in Int /\ b \in Int
          /\ cacheLast \in 0..MaxUint64 /\ MaxUint64 \in Nat /\ ~empty /\ ~cacheEmpty /\ b <= last
      BY <2>0, <2>1, NumbersAssumption, SMT DEF Types, Blocks, InRange
    <3>2. NextBlockNum = CacheNextBlockNum /\ last <= lastDoc
      BY <2>0, <2>1, <3>1 DEF Numbers, StoresInStep
    <3>3. last + 1 = Increment64(cacheLast)
      BY <3>1, <3>2 DEF NextBlockNum, CacheNextBlockNum
    <3>4. cacheLast = last
      BY <3>1, <3>3, Counting, SMT
    <3>5. Unexpired(b, content[b].present, last) \subseteq doc[b].data
      BY <2>0, <3>1, <3>2, SMT DEF Documents
    <3>6. cache[b] = {} \/ cache[b] = content[b].present
      BY <2>0, <2>1 DEF CacheHolds, NoCommit
    <3>7. CacheRead(b) = Unexpired(b, cache[b], last)
      BY <3>4 DEF CacheRead
    <3>8. CASE CacheRead(b) = {}
      BY <3>8 DEF Read
    <3>9. CASE CacheRead(b) # {}
      <4>1. Read(b) = Unexpired(b, content[b].present, last)
        BY <3>6, <3>7, <3>9 DEF Read, Unexpired
      <4> QED BY <3>5, <3>9, <4>1 DEF DBRead, Unexpired
    <3> QED BY <3>8, <3>9
  <2>2. ASSUME NEW b \in Blocks, NEW n \in 0..last, EndorserInRange(b, n)
        PROVE  Unexpired(b, content[b].present, last) \subseteq EndorserRead(b, n)
    <3>1. last \in Blocks /\ n \in Blocks /\ n <= last /\ b <= lastDoc
      BY <2>0, <2>2, NumbersAssumption, SMT DEF Types, Blocks, EndorserInRange
    <3> SUFFICES ASSUME NEW i \in content[b].present, ~IsExpired(b, i[1], last)
                 PROVE  i \in doc[b].data /\ ~IsExpired(b, i[1], n)
      BY DEF Unexpired, EndorserRead
    <3>2. i[1] \in Colls
      BY <2>0, ItemsAssumption DEF Types, ContentType
    <3>3. ~IsExpired(b, i[1], n)
      BY <3>1, <3>2, StaysExpired
    <3> QED BY <2>0, <3>1, <3>3 DEF Documents, Unexpired
  <2> QED BY <2>0, <2>1, <2>2 DEF ReadsInStep, ReadsExact, Numbers
<1> QED BY <1>1, Invariance, PTL

=============================================================================
