---------------------------- MODULE TransientStore ----------------------------
(***************************************************************************)
(* The in-memory transient store: private write sets that wait for their    *)
(* block.  It is three caches without a common lock.  cache maps a          *)
(* transaction to its write sets, blockHeightCache a height to the sorted   *)
(* list of the transactions received at it, and txidCache a transaction to  *)
(* the sorted list of its heights.  The values are pointers: a caller gets  *)
(* one, looks something up, changes what it points to and sets it again, a  *)
(* lock at a time, while another one may have changed the list or removed   *)
(* it from the cache.  So each cache is modelled as slots that hold the     *)
(* index of an object in a heap, 0 when the key is absent.                  *)
(*                                                                         *)
(* A write set is a pair <<call, height>>: the Persist call stands for its  *)
(* fresh UUID.  Persist calls run concurrently; the purges are called by    *)
(* the committing goroutine, one at a time.                                 *)
(***************************************************************************)
EXTENDS Integers, Sequences, FiniteSets, SequencesExt

CONSTANTS
    TxIDs,       \* transactions, numbered in the order of their names
    Heights,     \* block heights
    Persisters,  \* calls of Persist
    Arguments,   \* what the calls may be for: a set of functions to <<transaction, height>>
    MaxRunning,  \* bound on the Persist calls that run at a time
    MaxCalls     \* bound on the purges and the reads of unknown transactions

VARIABLES
    cache, maps,              \* write sets: slot of a transaction, objects
    blockHeightCache, txids,  \* transactions: slot of a height, objects
    txidCache, heights,       \* heights: slot of a transaction, objects
    args,     \* the transaction and the height of each Persist call
    persist,  \* each Persist call: its step, the pointer it holds and what it found
    purge,    \* the running purge: its kind, arguments, step and work left
    raced,    \* Persist calls that overlapped a purge, or such a call (history)
    calls     \* purges and reads of unknown transactions so far

store == <<cache, maps, blockHeightCache, txids, txidCache, heights>>
vars == <<store, args, persist, purge, raced, calls>>

NoPersist == [step |-> "new", ptr |-> 0, found |-> FALSE]

\* all: the copy that GetALL made; todo: keys still to visit; key and ptr: the list at work;
\* left: transactions still to remove from it; list: the slice header that was read, or the
\* place that was found; drop: the key that is to be removed, or -1.
NoPurge == [step |-> "none", kind |-> "none", txs |-> {}, below |-> 0, keys |-> {}, all |-> <<>>,
            todo |-> {}, key |-> -1, ptr |-> 0, left |-> {}, list |-> <<>>, drop |-> -1]

Init ==
    /\ cache = [t \in TxIDs |-> 0] /\ maps = <<>>
    /\ blockHeightCache = [h \in Heights |-> 0] /\ txids = <<>>
    /\ txidCache = [t \in TxIDs |-> 0] /\ heights = <<>>
    /\ args \in Arguments
    /\ persist = [p \in Persisters |-> NoPersist]
    /\ purge = NoPurge /\ raced = {} /\ calls = 0

\* Get of a cache with a loader: a missing key gets a new, empty object.
Loaded(slot, key, heap, empty) ==
    IF slot[key] # 0 THEN [slot |-> slot, heap |-> heap]
    ELSE [slot |-> [slot EXCEPT ![key] = Len(heap) + 1], heap |-> Append(heap, empty)]

loadPvtRWSetMap(t) == Loaded(cache, t, maps, {})
loadBlockHeight(h) == Loaded(blockHeightCache, h, txids, <<>>)
loadTxid(t) == Loaded(txidCache, t, heights, <<>>)

add(list, x) == SortSeq(Append(list, x), <)

\* The place of the first occurrence.
findEntryInSlice(list, x) == CHOOSE i \in 1..Len(list) : list[i] = x /\ \A j \in 1..(i - 1) : list[j] # x

(***************************************************************************)
(* Persist.  A Get and the lookup that follows are a step, and so is an     *)
(* addition with the Set that follows.                                      *)
(***************************************************************************)
Running(p) == persist[p].step \notin {"new", "done"}

Moved(p, step, ptr, found) ==
    persist' = [persist EXCEPT ![p] = [step |-> step, ptr |-> ptr, found |-> found]]

PersistStart(p) ==
    /\ persist[p].step = "new" /\ Cardinality({q \in Persisters : Running(q)}) < MaxRunning
    /\ LET l == loadPvtRWSetMap(args[p][1])
       IN  /\ cache' = l.slot /\ maps' = l.heap
           /\ Moved(p, "map", l.slot[args[p][1]], FALSE)
    /\ raced' = IF purge = NoPurge /\ \A q \in raced : ~Running(q) THEN raced ELSE raced \cup {p}
    /\ UNCHANGED <<blockHeightCache, txids, txidCache, heights, args, purge, calls>>

setTxPvtWRSetToCache(p) ==
    LET c == persist[p]
    IN  /\ c.step = "map"
        /\ maps' = [maps EXCEPT ![c.ptr] = @ \cup {<<p, args[p][2]>>}]
        /\ cache' = [cache EXCEPT ![args[p][1]] = c.ptr]
        /\ Moved(p, "height", 0, FALSE)
        /\ UNCHANGED <<blockHeightCache, txids, txidCache, heights, args, purge, raced, calls>>

getTxidsFromBlockHeightCache(p) ==
    /\ persist[p].step = "height"
    /\ LET h == args[p][2]
           l == loadBlockHeight(h)
       IN  /\ blockHeightCache' = l.slot /\ txids' = l.heap
           /\ Moved(p, "add", l.slot[h], Contains(l.heap[l.slot[h]], args[p][1]))
    /\ UNCHANGED <<cache, maps, txidCache, heights, args, purge, raced, calls>>

\* A transaction that was found is not added, and the list is then not set again.
setTxidToBlockHeightCache(p) ==
    LET c == persist[p]
    IN  /\ c.step = "add"
        /\ IF c.found
           THEN UNCHANGED <<blockHeightCache, txids>>
           ELSE /\ txids' = [txids EXCEPT ![c.ptr] = add(@, args[p][1])]
                /\ blockHeightCache' = [blockHeightCache EXCEPT ![args[p][2]] = c.ptr]
        /\ Moved(p, "txid", 0, FALSE)
        /\ UNCHANGED <<cache, maps, txidCache, heights, args, purge, raced, calls>>

getTxidCache(p) ==
    /\ persist[p].step = "txid"
    /\ LET t == args[p][1]
           l == loadTxid(t)
       IN  /\ txidCache' = l.slot /\ heights' = l.heap
           /\ Moved(p, "last", l.slot[t], Contains(l.heap[l.slot[t]], args[p][2]))
    /\ UNCHANGED <<cache, maps, blockHeightCache, txids, args, purge, raced, calls>>

\* Mutant: a transaction that has a height gets no second one.
updateTxidCache_First(p) ==
    LET c == persist[p]
    IN  /\ c.step = "last"
        /\ heights' = [heights EXCEPT ![c.ptr] = IF @ # <<>> THEN @ ELSE add(@, args[p][2])]
        /\ txidCache' = [txidCache EXCEPT ![args[p][1]] = c.ptr]
        /\ Moved(p, "done", 0, FALSE)
        /\ UNCHANGED <<cache, maps, blockHeightCache, txids, args, purge, raced, calls>>

updateTxidCache(p) ==
    LET c == persist[p]
    IN  /\ c.step = "last"
        /\ heights' = [heights EXCEPT ![c.ptr] = IF c.found THEN @ ELSE add(@, args[p][2])]
        /\ txidCache' = [txidCache EXCEPT ![args[p][1]] = c.ptr]
        /\ Moved(p, "done", 0, FALSE)
        /\ UNCHANGED <<cache, maps, blockHeightCache, txids, args, purge, raced, calls>>

\* GetTxPvtRWSetByTxid of a transaction that is not there: the loader leaves an empty map.
GetTxPvtRWSetByTxid(t) ==
    /\ cache[t] = 0 /\ calls < MaxCalls
    /\ calls' = calls + 1
    /\ cache' = loadPvtRWSetMap(t).slot /\ maps' = loadPvtRWSetMap(t).heap
    /\ UNCHANGED <<blockHeightCache, txids, txidCache, heights, args, persist, purge, raced>>

(***************************************************************************)
(* The purges.  Each visit of a key is a step, and so are the removal of an *)
(* entry at the place where it was found, and the removal of a key whose    *)
(* object was found empty.                                                  *)
(***************************************************************************)
PurgeStarts ==
    /\ purge = NoPurge /\ calls < MaxCalls
    /\ calls' = calls + 1
    /\ raced' = raced \cup {p \in Persisters : Running(p)}
    /\ UNCHANGED <<store, args, persist>>

PurgeByTxids(S) ==
    /\ PurgeStarts
    /\ purge' = [NoPurge EXCEPT !.kind = "txids", !.step = "cache", !.txs = S, !.todo = S]

\* Mutant: the last height below the given one is left out.
PurgeBelowHeight_OffByOne(n) ==
    /\ PurgeStarts
    /\ purge' = [NoPurge EXCEPT !.kind = "below", !.step = "scan", !.below = n,
                                !.todo = {h \in Heights : h + 1 < n /\ blockHeightCache[h] # 0},
                                !.all = blockHeightCache]

\* GetALL is a copy of the slots that are in use.
PurgeBelowHeight(n) ==
    /\ PurgeStarts
    /\ purge' = [NoPurge EXCEPT !.kind = "below", !.step = "scan", !.below = n,
                                !.todo = {h \in Heights : h < n /\ blockHeightCache[h] # 0},
                                !.all = blockHeightCache]

\* The keys are visited in ascending order.  The order is that of a slice or of a Go map;
\* it makes no difference, since two keys have different slots.
Visiting(step, x) ==
    /\ purge.step = step /\ purge.key = -1 /\ purge.drop = -1
    /\ x \in purge.todo /\ \A y \in purge.todo : x <= y

Visited(x) == [purge EXCEPT !.todo = @ \ {x}]

purgeTxPvtRWSetCacheByTxids(t) ==
    /\ Visiting("cache", t)
    /\ cache' = [cache EXCEPT ![t] = 0]
    /\ purge' = Visited(t)
    /\ UNCHANGED <<maps, blockHeightCache, txids, txidCache, heights, args, persist, raced, calls>>

\* getBlockHeights and getTxids return the slice itself, which is copied without its lock.
getBlockHeightKeysFromTxidCache(t) ==
    /\ Visiting("collect", t)
    /\ LET l == loadTxid(t)
       IN  /\ txidCache' = l.slot /\ heights' = l.heap
           /\ purge' = [Visited(t) EXCEPT !.key = t, !.ptr = l.slot[t], !.list = l.heap[l.slot[t]]]
    /\ UNCHANGED <<cache, maps, blockHeightCache, txids, args, persist, raced, calls>>

scanBlockHeightCache(h) ==
    /\ Visiting("scan", h)
    /\ purge' = [Visited(h) EXCEPT !.key = h, !.ptr = purge.all[h], !.list = txids[purge.all[h]]]
    /\ UNCHANGED <<store, args, persist, raced, calls>>

\* What the copy of a slice yields: the list as it was, if an addition has moved it to a new
\* array since, and otherwise as many entries of the list as it now is.
Copies(old, new) == {ToSet(old), ToSet(SubSeq(new, 1, Len(old)))}

CopySlice ==
    /\ purge.key # -1
    /\ \/ /\ purge.step = "collect"
          /\ \E c \in Copies(purge.list, heights[purge.ptr]) :
               purge' = [purge EXCEPT !.keys = @ \cup c, !.key = -1, !.ptr = 0, !.list = <<>>]
       \/ /\ purge.step = "scan"
          /\ \E c \in Copies(purge.list, txids[purge.ptr]) :
               purge' = [purge EXCEPT !.txs = @ \cup c, !.keys = @ \cup {purge.key},
                                      !.drop = purge.key, !.key = -1, !.ptr = 0, !.list = <<>>]
    /\ UNCHANGED <<store, args, persist, raced, calls>>

purgeBlockHeightCacheByTxids(h) ==
    /\ Visiting("heights", h)
    /\ LET l == loadBlockHeight(h)
       IN  /\ blockHeightCache' = l.slot /\ txids' = l.heap
           /\ purge' = [Visited(h) EXCEPT !.key = h, !.ptr = l.slot[h], !.left = purge.txs]
    /\ UNCHANGED <<cache, maps, txidCache, heights, args, persist, raced, calls>>

\* The next transaction that is in the list; when there is none, the list is set again, or
\* the height is to be removed.
FindEntry ==
    /\ purge.step = "heights" /\ purge.key # -1 /\ purge.list = <<>>
    /\ LET list == txids[purge.ptr]
           found == {t \in purge.left : Contains(list, t)}
           t == CHOOSE u \in found : \A v \in found : u <= v
       IN  IF found # {}
           THEN /\ purge' = [purge EXCEPT !.left = {u \in @ : u >= t}, !.list = <<findEntryInSlice(list, t)>>]
                /\ UNCHANGED blockHeightCache
           ELSE /\ purge' = [purge EXCEPT !.key = -1, !.ptr = 0, !.left = {},
                                          !.drop = IF list = <<>> THEN purge.key ELSE -1]
                /\ blockHeightCache' = IF list = <<>> THEN blockHeightCache
                                       ELSE [blockHeightCache EXCEPT ![purge.key] = purge.ptr]
    /\ UNCHANGED <<cache, maps, txids, txidCache, heights, args, persist, raced, calls>>

removeTxidEntryAtIndex ==
    /\ purge.step = "heights" /\ purge.list # <<>>
    /\ txids' = [txids EXCEPT ![purge.ptr] = RemoveAt(@, purge.list[1])]
    /\ purge' = [purge EXCEPT !.list = <<>>]
    /\ UNCHANGED <<cache, maps, blockHeightCache, txidCache, heights, args, persist, raced, calls>>

purgeTxRWSetCacheByBlockHeight(t) ==
    /\ Visiting("writesets", t)
    /\ LET l == loadPvtRWSetMap(t)
           left == {w \in l.heap[l.slot[t]] : w[2] >= purge.below}
       IN  /\ maps' = [l.heap EXCEPT ![l.slot[t]] = left]
           /\ cache' = l.slot
           /\ purge' = [Visited(t) EXCEPT !.drop = IF left = {} THEN t ELSE -1]
    /\ UNCHANGED <<blockHeightCache, txids, txidCache, heights, args, persist, raced, calls>>

\* A height that is twice in the list of a transaction is removed once.
Removed(list, K) ==
    FoldSet(LAMBDA k, l : IF Contains(l, k) THEN RemoveAt(l, findEntryInSlice(l, k)) ELSE l, list, K)

purgeTxidsCacheByBlockHeight(t) ==
    /\ Visiting("last", t)
    /\ LET l == loadTxid(t)
           left == Removed(l.heap[l.slot[t]], purge.keys)
       IN  /\ heights' = [l.heap EXCEPT ![l.slot[t]] = left]
           /\ txidCache' = l.slot
           /\ purge' = [Visited(t) EXCEPT !.drop = IF left = <<>> THEN t ELSE -1]
    /\ UNCHANGED <<cache, maps, blockHeightCache, txids, args, persist, raced, calls>>

\* The key whose object was empty when it was looked at is removed.
RemoveKey ==
    /\ purge.drop # -1
    /\ CASE purge.step \in {"heights", "scan"} ->
              /\ blockHeightCache' = [blockHeightCache EXCEPT ![purge.drop] = 0]
              /\ UNCHANGED <<cache, txidCache>>
         [] purge.step = "writesets" ->
              /\ cache' = [cache EXCEPT ![purge.drop] = 0]
              /\ UNCHANGED <<blockHeightCache, txidCache>>
         [] OTHER ->
              /\ txidCache' = [txidCache EXCEPT ![purge.drop] = 0]
              /\ UNCHANGED <<cache, blockHeightCache>>
    /\ purge' = [purge EXCEPT !.drop = -1]
    /\ UNCHANGED <<maps, txids, heights, args, persist, raced, calls>>

\* One loop of a purge is over, the next one begins.
NextLoop ==
    /\ purge # NoPurge /\ purge.todo = {} /\ purge.key = -1 /\ purge.drop = -1
    /\ purge' = CASE purge.step = "cache"   -> [purge EXCEPT !.step = "collect", !.todo = purge.txs]
                  [] purge.step = "collect" -> [purge EXCEPT !.step = "heights", !.todo = purge.keys]
                  [] purge.step = "scan"    -> [purge EXCEPT !.step = "writesets", !.all = <<>>, !.todo = purge.txs]
                  [] purge.step \in {"heights", "writesets"} ->
                                               [purge EXCEPT !.step = "last", !.todo = purge.txs]
                  [] OTHER -> NoPurge
    /\ UNCHANGED <<store, args, persist, raced, calls>>

PurgeStep ==
    \/ \E t \in TxIDs :
         \/ purgeTxPvtRWSetCacheByTxids(t) \/ getBlockHeightKeysFromTxidCache(t)
         \/ purgeTxRWSetCacheByBlockHeight(t) \/ purgeTxidsCacheByBlockHeight(t)
    \/ \E h \in Heights : purgeBlockHeightCacheByTxids(h) \/ scanBlockHeightCache(h)
    \/ CopySlice \/ FindEntry \/ removeTxidEntryAtIndex \/ RemoveKey \/ NextLoop

PersistStep(p) ==
    \/ PersistStart(p) \/ setTxPvtWRSetToCache(p)
    \/ getTxidsFromBlockHeightCache(p) \/ setTxidToBlockHeightCache(p)
    \/ getTxidCache(p) \/ updateTxidCache(p)

Next ==
    \/ \E p \in Persisters : PersistStep(p)
    \/ \E t \in TxIDs : GetTxPvtRWSetByTxid(t)
    \/ \E S \in SUBSET TxIDs \ {{}} : PurgeByTxids(S)
    \/ \E n \in Heights : PurgeBelowHeight(n)
    \/ PurgeStep

Spec == Init /\ [][Next]_vars

-----------------------------------------------------------------------------

WriteSets(t) == IF cache[t] = 0 THEN {} ELSE maps[cache[t]]
TxidsAt(h) == IF blockHeightCache[h] = 0 THEN {} ELSE ToSet(txids[blockHeightCache[h]])
HeightsOf(t) == IF txidCache[t] = 0 THEN {} ELSE ToSet(heights[txidCache[t]])

\* GetMinTransientBlkHt, with 0 for the error that says the store is empty.
GetMinTransientBlkHt ==
    LET inUse == {h \in Heights \ {0} : blockHeightCache[h] # 0}
    IN  IF inUse = {} THEN 0 ELSE Min(inUse)

\* The slots point into the heaps, and the lists are sorted, which their binary search
\* relies on.
TypeOK ==
    /\ \A t \in TxIDs : cache[t] \in 0..Len(maps) /\ txidCache[t] \in 0..Len(heights)
    /\ \A h \in Heights : blockHeightCache[h] \in 0..Len(txids)
    /\ \A i \in 1..Len(maps) : maps[i] \subseteq Persisters \X Heights
    /\ \A l \in ToSet(txids) : ToSet(l) \subseteq TxIDs /\ l = SortSeq(l, <)
    /\ \A l \in ToSet(heights) : ToSet(l) \subseteq Heights /\ l = SortSeq(l, <)
    /\ raced \subseteq Persisters /\ args \in Arguments /\ calls \in 0..MaxCalls
    /\ purge.step \in {"none", "cache", "collect", "heights", "scan", "writesets", "last"}

\* A Persist of the transaction, or of another one at one of its heights, overlapped a
\* purge.  It may put back a map or a list that the purge removed, add to one that the
\* purge found empty and then removes, or move the entry that the purge is about to remove
\* by its place in the list, so that another entry is removed.
Disturbed(t) ==
    \E p \in raced, q \in Persisters : args[q][1] = t /\ (p = q \/ args[p][1] = t \/ args[p][2] = args[q][2])

Quiet == purge = NoPurge /\ \A p \in Persisters : ~Running(p)

\* ReachedByPurges: between calls, the write sets of a transaction whose Persists were not
\* disturbed by a purge are reached by both purges, by the height they were received at and
\* by their transaction, and the lowest height does not pass them.  A write set that no
\* purge reaches stays for ever, because the caches have no size limit.
ReachedByPurges ==
    Quiet => \A t \in TxIDs : ~Disturbed(t) => \A w \in WriteSets(t) :
                /\ t \in TxidsAt(w[2])
                /\ w[2] \in HeightsOf(t)
                /\ w[2] # 0 => GetMinTransientBlkHt \in 1..w[2]

\* PurgeExact: a write set disappears only by a purge of its transaction or of a height
\* above its own, unless its transaction is disturbed.
PurgeExact ==
    [][\A t \in TxIDs : ~Disturbed(t) => \A w \in WriteSets(t) \ WriteSets(t)' :
         \/ purge.kind = "txids" /\ t \in purge.txs
         \/ purge.kind = "below" /\ w[2] < purge.below]_vars

\* PurgeComplete: when a purge has ended, the write sets it is for are gone, unless their
\* transaction is disturbed.
PurgeComplete ==
    [][purge # NoPurge /\ purge' = NoPurge =>
         \A t \in TxIDs : ~Disturbed(t) => \A w \in WriteSets(t) :
            ~(purge.kind = "txids" /\ t \in purge.txs) /\ w[2] >= purge.below]_vars

\* Both purges reach every undisturbed write set (Persist, PurgeByTxids, PurgeBelowHeight).
AllReached == TypeOK /\ ReachedByPurges

\* A purge removes what it is for and nothing else (PurgeByTxids, PurgeBelowHeight).
PurgesExact == PurgeExact /\ PurgeComplete

=============================================================================
