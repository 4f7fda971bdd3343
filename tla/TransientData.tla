----------------------------- MODULE TransientData -----------------------------
(***************************************************************************)
(* The transient data store of an endorser: values with a time to live in   *)
(* an ARC cache that is backed by a LevelDB database.  A value goes to the  *)
(* database when it is evicted, or at once when the store always persists.  *)
(* The database keeps for each value a second entry, <<expiry, key>>, by    *)
(* which a periodic purge finds the values to delete.                       *)
(*                                                                         *)
(* Persist calls run concurrently with each other, with reads, and with     *)
(* the purge.  The cache has one lock and loads a key once for everybody    *)
(* who waits for it; the database writes of a value are two.                *)
(***************************************************************************)
EXTENDS Integers, FiniteSets

CONSTANTS
    Keys,        \* keys of a transient collection
    LowKeys,     \* those whose namespace sorts before the digits of the time
    Persisters,  \* calls of Persist, each for one write of which this peer is an endorser
    KeyOf,       \* the key that each of them writes
    Earlier,     \* calls before the peer was last started; their values are in the database
    TTL,         \* time to live
    CacheSize,   \* size of the cache
    MaxTime,     \* bound on the clock
    MaxFaults    \* bound on restarts and failed accesses to the database

VARIABLES
    now,       \* the clock
    always,    \* the store always persists
    cache,     \* key -> the item, or None
    loading,   \* key -> the load in progress, or None
    evicting,  \* the value that is written out while the cache is locked, or None
    db, index, \* the database: key -> value, or None; the expiry entries
    purge,     \* the keys that the running purge deletes, or None
    stepOf,    \* the step of each Persist call
    value,     \* the value each Persist call has put, or None
    contended, \* Persist calls that overlapped another one of their key, joined a load in
               \* progress, or could not read the database (history)
    halfway,   \* keys whose second database write was lost (history)
    faults

vars == <<now, always, cache, loading, evicting, db, index, purge, stepOf, value, contended,
          halfway, faults>>

None == [by |-> 0, exp |-> 0]

Init ==
    /\ now = 0 /\ always \in BOOLEAN
    /\ cache = [k \in Keys |-> None] /\ loading = [k \in Keys |-> None] /\ evicting = None
    /\ value = [p \in Persisters |-> IF p \in Earlier THEN [by |-> p, exp |-> MaxTime + TTL] ELSE None]
    /\ stepOf = [p \in Persisters |-> IF p \in Earlier THEN "done" ELSE "new"]
    /\ db = [k \in Keys |-> IF \E p \in Earlier : KeyOf[p] = k
                            THEN value[CHOOSE p \in Earlier : KeyOf[p] = k] ELSE None]
    /\ index = {<<value[p].exp, KeyOf[p]>> : p \in Earlier} /\ purge = None
    /\ contended = {} /\ halfway = {} /\ faults = 0

Tick == now < MaxTime /\ now' = now + 1
        /\ UNCHANGED <<always, cache, loading, evicting, db, index, purge, stepOf, value,
                       contended, halfway, faults>>

checkExpiryTime(v) == v.exp <= now

\* A cached item is a value with the time until which the cache serves it, and how long the
\* load took that brought it there.
Item(v, until, late) == [by |-> v.by, exp |-> v.exp, until |-> until, late |-> late]
ValueOf(item) == [by |-> item.by, exp |-> item.exp]

Usable(k) == cache[k] # None /\ now < cache[k].until

Unlocked == evicting = None

\* A fault either happens, and is counted, or does not.
Fault == faults < MaxFaults /\ faults' = faults + 1
NoFault == faults' = faults

(***************************************************************************)
(* The cache.                                                               *)
(***************************************************************************)
\* Set of a key, which may evict another one: unless the store always persists, the evicted
\* value is written to the database if it has not expired.
Set(k, item) ==
    LET others == {j \in Keys \ {k} : cache[j] # None}
    IN  IF cache[k] # None \/ Cardinality(others) < CacheSize
        THEN cache' = [cache EXCEPT ![k] = item] /\ evicting' = None
        ELSE \E j \in others :
               /\ cache' = [cache EXCEPT ![k] = item, ![j] = None]
               /\ evicting' = IF always \/ checkExpiryTime(ValueOf(cache[j])) THEN None
                              ELSE [key |-> j, val |-> ValueOf(cache[j]), step |-> "value"]

\* GetKey, and what loadFromDB makes of it: an expired value, and an error, are a miss.
loadFromDB(k, fails) ==
    LET v == db[k]
    IN  [val |-> IF fails \/ v = None \/ checkExpiryTime(v) THEN None ELSE v,
         began |-> now]

\* Get of a key that is not in the cache, by a reader.
StartLoad(k) ==
    /\ Unlocked /\ ~Usable(k) /\ loading[k] = None
    /\ \E fails \in BOOLEAN :
         /\ IF fails THEN db[k] # None /\ Fault ELSE NoFault
         /\ loading' = [loading EXCEPT ![k] = loadFromDB(k, fails)]
    /\ cache' = [cache EXCEPT ![k] = None]
    /\ UNCHANGED <<now, always, evicting, db, index, purge, stepOf, value, contended, halfway>>

Remaining(l) == l.val.exp - l.began

\* The loaded value is set, and everybody who waits gets it.
FinishLoad(k) ==
    LET l == loading[k]
    IN  /\ Unlocked /\ l # None
        /\ IF l.val = None THEN UNCHANGED <<cache, evicting>>
           ELSE Set(k, Item(l.val, now + Remaining(l), now - l.began))
        /\ loading' = [loading EXCEPT ![k] = None]
        /\ stepOf' = [p \in Persisters |->
                         IF stepOf[p] = "wait" /\ KeyOf[p] = k
                         THEN IF l.val = None THEN "put" ELSE "exists" ELSE stepOf[p]]
        /\ UNCHANGED <<now, always, db, index, purge, value, contended, halfway, faults>>

(***************************************************************************)
(* Persist: a key that exists is left alone.                                *)
(***************************************************************************)
InProgress(p) == stepOf[p] \in {"wait", "put", "value", "index"}

PersistGet(p) ==
    LET k == KeyOf[p]
        rivals == {q \in Persisters : InProgress(q) /\ KeyOf[q] = k}
    IN  /\ Unlocked /\ stepOf[p] = "new"
        /\ \/ /\ Usable(k)
              /\ stepOf' = [stepOf EXCEPT ![p] = "exists"]
              /\ UNCHANGED <<cache, loading, contended, faults>>
           \/ /\ ~Usable(k)
              /\ stepOf' = [stepOf EXCEPT ![p] = "wait"]
              /\ cache' = [cache EXCEPT ![k] = None]
              /\ \E fails \in BOOLEAN :
                   /\ IF fails THEN loading[k] = None /\ db[k] # None /\ Fault ELSE NoFault
                   /\ loading' = IF loading[k] # None THEN loading
                                 ELSE [loading EXCEPT ![k] = loadFromDB(k, fails)]
                   /\ contended' = IF fails \/ loading[k] # None \/ rivals # {}
                                   THEN contended \cup rivals \cup {p} ELSE contended
        /\ UNCHANGED <<now, always, evicting, db, index, purge, value, halfway>>

PutWithExpire(p) ==
    LET v == [by |-> p, exp |-> now + TTL]
    IN  /\ Unlocked /\ stepOf[p] = "put"
        /\ value' = [value EXCEPT ![p] = v]
        /\ Set(KeyOf[p], Item(v, now + TTL, 0))
        /\ stepOf' = [stepOf EXCEPT ![p] = IF always THEN "value" ELSE "done"]
        /\ UNCHANGED <<now, always, loading, db, index, purge, contended, halfway, faults>>

(***************************************************************************)
(* AddKey: the value, then its expiry entry.                                *)
(***************************************************************************)
IndexWith(k, v) == index \cup {<<v.exp, k>>}

AddKeyOfEvicted ==
    /\ evicting # None
    /\ LET k == evicting.key
           v == evicting.val
       IN  \/ /\ evicting.step = "value" /\ NoFault
              /\ db' = [db EXCEPT ![k] = v] /\ halfway' = halfway \ {k}
              /\ evicting' = [evicting EXCEPT !.step = "index"]
              /\ UNCHANGED index
           \/ /\ evicting.step = "index" /\ NoFault
              /\ index' = IndexWith(k, v) /\ evicting' = None
              /\ UNCHANGED <<db, halfway>>
           \/ /\ Fault /\ evicting' = None
              /\ halfway' = IF evicting.step = "index" THEN halfway \cup {k} ELSE halfway
              /\ UNCHANGED <<db, index>>
    /\ UNCHANGED <<now, always, cache, loading, purge, stepOf, value, contended>>

AddKeyOfPut(p) ==
    LET k == KeyOf[p]
        v == value[p]
        then(step) == stepOf' = [stepOf EXCEPT ![p] = step]
    IN  /\ \/ /\ stepOf[p] = "value" /\ checkExpiryTime(v) /\ NoFault
              /\ then("done")
              /\ UNCHANGED <<db, index, halfway>>
           \/ /\ stepOf[p] = "value" /\ ~checkExpiryTime(v) /\ NoFault
              /\ db' = [db EXCEPT ![k] = v] /\ halfway' = halfway \ {k}
              /\ then("index")
              /\ UNCHANGED index
           \/ /\ stepOf[p] = "index" /\ NoFault
              /\ index' = IndexWith(k, v)
              /\ then("done")
              /\ UNCHANGED <<db, halfway>>
           \/ /\ stepOf[p] \in {"value", "index"} /\ Fault
              /\ halfway' = IF stepOf[p] = "index" THEN halfway \cup {k} ELSE halfway
              /\ then("done")
              /\ UNCHANGED <<db, index>>
        /\ UNCHANGED <<now, always, cache, loading, evicting, purge, value, contended>>

(***************************************************************************)
(* DeleteExpiredKeys: every entry from the first to the current time, and   *)
(* what follows its first separator.  The entry of a value itself is in     *)
(* that range if its namespace sorts before the time.                       *)
(***************************************************************************)
\* Mutant: the time is in another unit than the entries, so that none of them sorts before it.
PurgeScan_Unit ==
    /\ purge = None
    /\ \E k \in LowKeys : db[k] # None
    /\ purge' = [entries |-> {}, low |-> {k \in LowKeys : db[k] # None}]
    /\ UNCHANGED <<now, always, cache, loading, evicting, db, index, stepOf, value, contended,
                   halfway, faults>>

PurgeScan ==
    /\ purge = None
    /\ LET entries == {e \in index : e[1] < now}
           low == {k \in LowKeys : db[k] # None}
       IN  /\ entries # {} \/ low # {}
           /\ purge' = [entries |-> entries, low |-> low]
    /\ UNCHANGED <<now, always, cache, loading, evicting, db, index, stepOf, value, contended,
                   halfway, faults>>

Purged(k) == k \in purge.low \/ \E e \in purge.entries : e[2] = k

PurgeDelete ==
    /\ purge # None
    /\ \/ /\ NoFault
          /\ index' = index \ purge.entries
          /\ db' = [k \in Keys |-> IF Purged(k) THEN None ELSE db[k]]
       \/ Fault /\ UNCHANGED <<index, db>>
    /\ purge' = None
    /\ UNCHANGED <<now, always, cache, loading, evicting, stepOf, value, contended, halfway>>

\* The peer stops, in whatever order, and starts again: the cache is gone.
Restart ==
    /\ Fault
    /\ cache' = [k \in Keys |-> None] /\ loading' = [k \in Keys |-> None] /\ evicting' = None
    /\ purge' = None
    /\ stepOf' = [p \in Persisters |-> IF InProgress(p) THEN "done" ELSE stepOf[p]]
    /\ halfway' = halfway \cup {KeyOf[p] : p \in {q \in Persisters : stepOf[q] = "index"}}
                          \cup (IF evicting # None /\ evicting.step = "index" THEN {evicting.key} ELSE {})
    /\ UNCHANGED <<now, always, db, index, value, contended>>

Next ==
    \/ Tick \/ AddKeyOfEvicted \/ PurgeScan \/ PurgeDelete \/ Restart
    \/ \E k \in Keys : StartLoad(k) \/ FinishLoad(k)
    \/ \E p \in Persisters : PersistGet(p) \/ PutWithExpire(p) \/ AddKeyOfPut(p)

\* The purge is run by a ticker, and goes on to its end.
Purging == PurgeScan \/ PurgeDelete

Fairness == WF_vars(Purging)

Spec == Init /\ [][Next]_vars /\ Fairness

-----------------------------------------------------------------------------

IsValue(v) == v = None \/ (v.by \in Persisters /\ v.exp \in TTL..(MaxTime + TTL))

\* Every variable holds a value of its kind.
TypeOK ==
    /\ now \in 0..MaxTime /\ faults \in 0..MaxFaults
    /\ \A k \in Keys : /\ IsValue(db[k]) /\ (db[k] # None => KeyOf[db[k].by] = k)
                       /\ cache[k] # None => IsValue(ValueOf(cache[k])) /\ cache[k].by # 0
    /\ \A p \in Persisters : IsValue(value[p])
    /\ Cardinality({k \in Keys : cache[k] # None}) <= CacheSize
    /\ \A e \in index : e[2] \in Keys
    /\ contended \subseteq Persisters /\ halfway \subseteq Keys

\* The value of a Persist call is in the database or on its way there or, unless the store
\* always persists, in the cache.
Held(p) ==
    LET k == KeyOf[p]
    IN  \/ db[k].by = p
        \/ stepOf[p] = "value"
        \/ evicting # None /\ evicting.step = "value" /\ evicting.val.by = p
        \/ ~always /\ cache[k] # None /\ cache[k].by = p

KeepsUnexpired ==
    \A p \in Persisters : Held(p) /\ ~Held(p)' /\ now' < value[p].exp =>
        \/ faults' # faults
        \/ \E q \in contended : KeyOf[q] = KeyOf[p]
        \/ /\ purge # None /\ purge' = None
           /\ KeyOf[p] \in LowKeys \/ \E e \in purge.entries : e[2] = KeyOf[p] /\ e[1] # value[p].exp

\* HeldUntilExpiry: an accepted value stays until it expires.  The exceptions are a restart
\* or a failed write; calls for its key that overlapped, or joined an older load; and a
\* purge that deletes the key because of the expiry entry of an earlier value, or because of
\* its namespace.
HeldUntilExpiry == [][KeepsUnexpired]_vars

PutsOverNothing ==
    \A p, q \in Persisters :
        (/\ stepOf[q] = "put" /\ value'[q] # value[q]
         /\ KeyOf[p] = KeyOf[q] /\ Held(p) /\ now < value[p].exp) => q \in contended

\* FirstWriteWins: a Persist does not replace a value of its key that has not expired, unless
\* it overlapped another Persist or a load of the key, or could not read the database.
FirstWriteWins == [][PutsOverNothing]_vars

\* ServedInTime: the cache serves a value beyond its expiry for at most as long as the load
\* took that brought it there.
ServedInTime == \A k \in Keys : Usable(k) => now < cache[k].exp + cache[k].late

\* ExpiryIndexed: a value in the database can be found by the purge, unless its second write
\* is under way or was lost.
ExpiryIndexed ==
    \A k \in Keys : db[k] # None =>
        \/ <<db[k].exp, k>> \in index
        \/ k \in halfway
        \/ evicting # None /\ evicting.key = k /\ evicting.step = "index"
        \/ \E p \in Persisters : stepOf[p] = "index" /\ value[p] = db[k]

\* ExpiredPurged: a value that has expired and can be found does not stay in the database.
ExpiredPurged ==
    \A k \in Keys :
        (db[k] # None /\ db[k].exp < now /\ <<db[k].exp, k>> \in index) ~> (db[k] = None \/ db[k].exp >= now)
=============================================================================
