---------------------------- MODULE OffLedgerStore ----------------------------
(***************************************************************************)
(* The off-ledger collections of the peers of one organisation.  The peers  *)
(* share a CouchDB database; each has a cache of its own, used only for     *)
(* content-addressed (DCAS) keys.  The peer that endorses a transaction     *)
(* persists its off-ledger writes and disseminates them, and each receiver  *)
(* persists them in turn.  A write of a document reads its revision first   *)
(* and is dropped if the document has changed by then.  Each peer deletes   *)
(* expired documents periodically.                                          *)
(*                                                                         *)
(* A transaction writes one key: the documents of a batch are accepted or   *)
(* dropped one by one.                                                      *)
(***************************************************************************)
EXTENDS Integers, FiniteSets

CONSTANTS
    Peers, Committers, \* the peers, and those with the committer role
    Keys, DCAS,        \* the keys, and those of collections of type DCAS
    Hash,              \* value -> the key under which DCAS stores it
    Reserved,          \* JSON values with a field name that the store uses itself
    Unauthorized,      \* keys of collections of which the organisation is no member
    Txs, Write,        \* transactions; each one's [key, val], val = Nil for a delete
    Readers,           \* transactions that read
    TTL,               \* key -> time to live of its collection, 0 if it has none
    Disseminated,      \* keys of collections with MaximumPeerCount > 0
    Opened,            \* peers that have used the database already
    Nil,
    MaxTime, MaxRev, MaxFaults

ASSUME KeysAssumption ==
    DCAS \subseteq Keys /\ TTL \in [Keys -> Nat] /\ \A t \in Txs : Write[t].key \in Keys

VARIABLES
    now,
    db, rev,   \* the database: key -> document or None, and its revision
    cache,     \* peer -> DCAS key -> Absent, Miss, or a document, when it leaves the cache, and
               \* how long its load took
    todo,      \* <<p, t>>: p, which endorsed t or received it, is still to persist it
    put,       \* peer -> the database write in progress, or NoPut; it is clash if another write or
               \* a purge of the document was under way at the same time
    load,      \* peer -> the load of a key into the cache, or NoLoad
    purge,     \* peer -> the expired documents found, <<key, revision>>
    open,      \* peers with a handle on the database
    own,       \* peer -> keys it has put itself while it was not loading them, and not begun to
               \* load since (history)
    faults

vars == <<now, db, rev, cache, todo, put, load, purge, open, own, faults>>

None == [val |-> Nil, tx |-> Nil, exp |-> 0]
Absent == [doc |-> None, until |-> -1, late |-> 0]
Miss == [doc |-> None, until |-> 0, late |-> 0]
NoPut == [step |-> "none"]
NoLoad == [step |-> "none"]

\* An expiry of 0 stands for never.
getExpiry(doc) == doc.exp
Expired(doc) == getExpiry(doc) # 0 /\ getExpiry(doc) < now
Idle(p) == put[p] = NoPut

Init ==
    /\ now = 1
    /\ db = [k \in Keys |-> None] /\ rev = [k \in Keys |-> 0]
    /\ cache = [p \in Peers |-> [k \in DCAS |-> Absent]]
    /\ \E reach \in [Txs -> SUBSET Peers] :
         /\ \A t \in Txs : Write[t].key \notin Disseminated => Cardinality(reach[t]) <= 1
         /\ todo = {x \in Peers \X Txs : x[1] \in reach[x[2]]}
    /\ put = [p \in Peers |-> NoPut] /\ load = [p \in Peers |-> NoLoad]
    /\ purge = [p \in Peers |-> {}] /\ open = Opened
    /\ faults = 0
    /\ own = [p \in Peers |-> {}]

Tick == now < MaxTime /\ now' = now + 1
        /\ UNCHANGED <<db, rev, cache, todo, put, load, purge, open, own, faults>>

(***************************************************************************)
(* The database.                                                            *)
(***************************************************************************)
fetchRevision(k) == IF db[k] = None THEN 0 ELSE rev[k]

\* Whether CouchDB takes an update of k that names revision r.
Accepts(k, r) == r = (IF db[k] = None THEN 0 ELSE rev[k])

\* Values with a reserved field have no document, and a key that is not there needs none to
\* be deleted.
jsonMapFromValue(val) == val \notin Reserved
newJSONMap(k, doc) == jsonMapFromValue(doc.val) /\ (doc.val = Nil => fetchRevision(k) # 0)

\* The database is opened, and its periodic purge started, when it is first used.
GetDB(p) == open' = open \cup {p}

\* DB.Put begins: the current revision of the document is looked up.
createCouchDoc(p, k, doc, after) ==
    LET others == {q \in Peers : put[q] # NoPut /\ put[q].key = k}
        purged == \E q \in Peers : \E d \in purge[q] : d[1] = k
        write == [step |-> "update", key |-> k, doc |-> doc, rev |-> fetchRevision(k),
                  after |-> after, clash |-> others # {} \/ purged]
    IN  put' = [q \in Peers |-> IF q = p THEN write
                                ELSE IF q \in others THEN [put[q] EXCEPT !.clash = TRUE] ELSE put[q]]

(***************************************************************************)
(* The cache.                                                               *)
(***************************************************************************)
Usable(p, k) == cache[p][k] # Absent
                /\ (cache[p][k].until = 0 \/ now <= cache[p][k].until)

\* Mutant: the cache is not updated.
CachePut_Skips(c, k, doc) == c

CachePut(c, k, doc) ==
    IF Expired(doc) THEN c ELSE [c EXCEPT ![k] = [doc |-> doc, until |-> doc.exp, late |-> 0]]

CacheDelete(c, k) == [c EXCEPT ![k] = Absent]

updateCache(c, k, doc) == IF doc.val = Nil THEN CacheDelete(c, k) ELSE CachePut(c, k, doc)

cacheEnabledForType(k) == k \in DCAS

\* The peer itself has written k.
NoteOwn(p, k, doc) ==
    own' = [own EXCEPT ![p] = IF doc.val = Nil \/ Expired(doc) \/ (load[p] # NoLoad /\ load[p].key = k)
                              THEN @ \ {k} ELSE @ \cup {k}]

(***************************************************************************)
(* Persist of the write of a transaction.                                   *)
(***************************************************************************)
GetCASKey(val) == Hash[val]

\* Mutant: the key is not compared with the hash of the value.
beforeSave_Any(k, val) == TRUE

ValidateDatastoreKey(k, val) == GetCASKey(val) = k

\* The decorator of DCAS collections refuses a key that is not the hash of the value.
beforeSave(k, val) == k \in DCAS => ValidateDatastoreKey(k, val)

getExpirationTime(k) == IF TTL[k] = 0 THEN 0 ELSE now + TTL[k]

newKeyValue(t) ==
    LET w == Write[t]
    IN  IF w.val = Nil THEN None
        ELSE [val |-> w.val, tx |-> t, exp |-> getExpirationTime(w.key)]

isAuthorized(k) == k \notin Unauthorized

\* A peer that is no committer leaves the database to the committer to which the write is
\* disseminated.
LeftToCommitter(p, k) == p \notin Committers /\ k \in Disseminated

persist(p, k, doc) ==
    IF newJSONMap(k, doc) THEN createCouchDoc(p, k, doc, FALSE) ELSE UNCHANGED put

persistColl(p, k, doc) ==
    /\ IF cacheEnabledForType(k)
       THEN cache' = [cache EXCEPT ![p] = updateCache(@, k, doc)] /\ NoteOwn(p, k, doc)
       ELSE UNCHANGED <<cache, own>>
    /\ IF LeftToCommitter(p, k) THEN UNCHANGED <<put, open>> ELSE GetDB(p) /\ persist(p, k, doc)

Persist(p, t) ==
    LET k == Write[t].key  doc == newKeyValue(t)
        skip == ~isAuthorized(k) \/ (doc.val # Nil /\ ~beforeSave(k, doc.val))
    IN  /\ <<p, t>> \in todo /\ Idle(p)
        /\ todo' = todo \ {<<p, t>>}
        /\ IF skip THEN UNCHANGED <<cache, put, open, own>> ELSE persistColl(p, k, doc)
        /\ UNCHANGED <<now, db, rev, load, purge, faults>>

(***************************************************************************)
(* PutData, by a committer that got the value from another peer: the        *)
(* database first, then the cache.                                          *)
(***************************************************************************)
\* getData: the cache of a cached collection, else the database.
Lookup(p, k) == IF k \in DCAS /\ Usable(p, k) THEN cache[p][k].doc ELSE db[k]

\* A value that the reading transaction itself has put is not returned.
GetData(p, t, k) == IF Lookup(p, k).tx = t THEN None ELSE Lookup(p, k)

PutData(p, t, k, v) ==
    /\ beforeSave(k, v.val) /\ ~Expired(v) /\ newJSONMap(k, v)
    /\ createCouchDoc(p, k, [v EXCEPT !.tx = t], TRUE) /\ GetDB(p)

\* A transaction t at committer p gets the value from peer q, its own store having none, and
\* the value is persisted as one of t.
persistMissingKey(p, q, t, k) ==
    /\ p \in Committers /\ q # p /\ Idle(p) /\ isAuthorized(k) /\ rev[k] < MaxRev
    /\ k \in DCAS => Usable(p, k)
    /\ GetData(p, t, k) = None /\ GetData(q, t, k) # None
    /\ PutData(p, t, k, GetData(q, t, k))
    /\ UNCHANGED <<now, db, rev, cache, todo, load, purge, own, faults>>

\* BatchUpdateDocuments: the request fails as a whole, or the update of the document is
\* accepted or dropped.  Nobody looks at which.
Put(p, fails) ==
    LET o == put[p]
    IN  IF ~fails /\ Accepts(o.key, o.rev)
        THEN db' = [db EXCEPT ![o.key] = o.doc] /\ rev' = [rev EXCEPT ![o.key] = @ + 1]
        ELSE UNCHANGED <<db, rev>>

FinishPut(p) ==
    LET o == put[p]
    IN  /\ o # NoPut
        /\ \E fails \in BOOLEAN :
             /\ IF fails THEN faults < MaxFaults /\ faults' = faults + 1 ELSE faults' = faults
             /\ Put(p, fails)
             /\ IF o.after /\ ~fails /\ cacheEnabledForType(o.key)
                THEN /\ cache' = [cache EXCEPT ![p] = CachePut(@, o.key, o.doc)]
                     /\ NoteOwn(p, o.key, o.doc)
                ELSE UNCHANGED <<cache, own>>
        /\ put' = [put EXCEPT ![p] = NoPut]
        /\ UNCHANGED <<now, todo, load, purge, open>>

(***************************************************************************)
(* A read of a key that is not in the cache.                                *)
(***************************************************************************)
\* The database is read,
StartLoad(p, k) ==
    /\ k \in DCAS /\ ~Usable(p, k) /\ load[p] = NoLoad
    /\ load' = [load EXCEPT ![p] = [step |-> "set", key |-> k, at |-> now,
                                    doc |-> IF Expired(db[k]) THEN None ELSE db[k]]]
    /\ cache' = [cache EXCEPT ![p] = CacheDelete(@, k)]
    /\ GetDB(p) /\ own' = [own EXCEPT ![p] = @ \ {k}]
    /\ UNCHANGED <<now, db, rev, todo, put, purge, faults>>

\* A loaded value leaves the cache after the time that it had left when it was read; that
\* there is none is kept without a limit.
Loaded(l) ==
    IF l.doc = None THEN Miss
    ELSE [doc |-> l.doc, until |-> IF l.doc.exp = 0 THEN 0 ELSE now + l.doc.exp - l.at,
          late |-> now - l.at]

\* ... and what was found is cached, whatever the cache holds by now.
FinishLoad(p) ==
    LET l == load[p]
    IN  /\ l # NoLoad
        /\ cache' = [cache EXCEPT ![p][l.key] = Loaded(l)]
        /\ load' = [load EXCEPT ![p] = NoLoad]
        /\ UNCHANGED <<now, db, rev, todo, put, purge, open, own, faults>>

Evict(p, k) ==
    /\ k \in DCAS /\ cache[p][k] # Absent
    /\ cache' = [cache EXCEPT ![p] = CacheDelete(@, k)]
    /\ UNCHANGED <<now, db, rev, todo, put, load, purge, open, own, faults>>

(***************************************************************************)
(* The periodic purge, and restarts.                                        *)
(***************************************************************************)
fetchExpiryData == {k \in Keys : db[k] # None /\ Expired(db[k])}

\* The purge looks for expired documents,
StartPurge(p) ==
    /\ p \in open /\ purge[p] = {} /\ fetchExpiryData # {}
    /\ purge' = [purge EXCEPT ![p] = {<<k, rev[k]>> : k \in fetchExpiryData}]
    /\ put' = [q \in Peers |-> IF put[q] # NoPut /\ put[q].key \in fetchExpiryData
                              THEN [put[q] EXCEPT !.clash = TRUE] ELSE put[q]]
    /\ UNCHANGED <<now, db, rev, cache, todo, load, open, own, faults>>

\* Mutant: a document is deleted whatever its revision.
DeleteExpiredKeys_AnyRevision(p) ==
    LET gone == {d[1] : d \in purge[p]}
    IN  /\ purge[p] # {} /\ purge' = [purge EXCEPT ![p] = {}]
        /\ db' = [k \in Keys |-> IF k \in gone THEN None ELSE db[k]]
        /\ rev' = [k \in Keys |-> IF k \in gone THEN rev[k] + 1 ELSE rev[k]]
        /\ UNCHANGED <<now, cache, todo, put, load, open, own, faults>>

\* ... and deletes those that have not changed since.
DeleteExpiredKeys(p) ==
    LET gone == {d \in purge[p] : db[d[1]] # None /\ Accepts(d[1], d[2])}
    IN  /\ purge[p] # {} /\ purge' = [purge EXCEPT ![p] = {}]
        /\ db' = [k \in Keys |-> IF \E d \in gone : d[1] = k THEN None ELSE db[k]]
        /\ rev' = [k \in Keys |-> IF \E d \in gone : d[1] = k THEN rev[k] + 1 ELSE rev[k]]
        /\ UNCHANGED <<now, cache, todo, put, load, open, own, faults>>

\* A peer restarts: what it held in memory is gone, and its database is opened, and purged,
\* when it is next used.
Restart(p) ==
    /\ faults < MaxFaults /\ faults' = faults + 1
    /\ cache' = [cache EXCEPT ![p] = [k \in DCAS |-> Absent]]
    /\ put' = [put EXCEPT ![p] = NoPut] /\ load' = [load EXCEPT ![p] = NoLoad]
    /\ purge' = [purge EXCEPT ![p] = {}] /\ open' = open \ {p}
    /\ own' = [own EXCEPT ![p] = {}]
    /\ UNCHANGED <<now, db, rev, todo>>

Next ==
    \/ Tick
    \/ \E p \in Peers :
         \/ FinishPut(p) \/ FinishLoad(p) \/ StartPurge(p) \/ DeleteExpiredKeys(p) \/ Restart(p)
         \/ \E t \in Txs : Persist(p, t)
         \/ \E k \in Keys : Evict(p, k) \/ StartLoad(p, k)
         \/ \E q \in Peers, t \in Readers, k \in Keys : persistMissingKey(p, q, t, k)

\* The purge is run by a ticker; the database answers what it is asked.
Purging(p) == StartPurge(p) \/ DeleteExpiredKeys(p)

Fairness == \A p \in Peers : WF_vars(Purging(p))

Spec == Init /\ [][Next]_vars /\ Fairness

(***************************************************************************)
(* Properties.                                                              *)
(***************************************************************************)
Docs == [val : {Write[t].val : t \in Txs} \cup {Nil}, tx : Txs \cup Readers \cup {Nil}, exp : Nat]

\* What is stored, cached and being written is a document of a transaction.
TypeOK ==
    /\ db \in [Keys -> Docs] /\ rev \in [Keys -> Nat]
    /\ \A p \in Peers, k \in DCAS : cache[p][k].doc \in Docs /\ cache[p][k].until \in Nat \cup {-1}
    /\ \A p \in Peers : put[p] # NoPut => put[p].doc \in Docs

\* Whatever path a value took, from an endorsement, from another peer's cache or from the
\* database, it is found under its own hash in a DCAS collection (beforeSave, dcas.Decorator).
ContentAddressed ==
    \A k \in DCAS : /\ db[k] # None => Hash[db[k].val] = k
                     /\ \A p \in Peers : cache[p][k].doc # None => Hash[cache[p][k].doc.val] = k

\* A document disappears only by a delete of a transaction or because it had expired, however
\* writes and the purges of several peers interleave (DeleteExpiredKeys).
PurgeExact ==
    [][\A k \in Keys : db[k] # None /\ db'[k] = None =>
         \/ Expired(db[k])
         \/ \E p \in Peers : put[p] # NoPut /\ put'[p] = NoPut /\ put[p].key = k
                             /\ put[p].doc = None]_vars

\* The cache serves a value after its expiry for no longer than it took to load the value from
\* the database (cache.Put, load).
NoExpiredFromCache ==
    \A p \in Peers, k \in DCAS :
      Usable(p, k) /\ cache[p][k].doc.exp # 0 => now <= cache[p][k].doc.exp + cache[p][k].late

\* The cache of a peer that has itself put a value does not say that there is none, unless
\* the key was being loaded at the time (updateCache, PutData).
OwnPutNotMissed ==
    \A p \in Peers, k \in DCAS : k \in own[p] => cache[p][k] # Miss

\* A write that a peer has sent to the database takes effect, unless the request failed or
\* another write or a purge of the document was under way (DB.Put).
LostOnlyToConflict ==
    [][\A p \in Peers : put[p] # NoPut /\ put'[p] = NoPut /\ ~put[p].clash /\ faults' = faults
         => db'[put[p].key] = put[p].doc]_vars

\* An expired document is eventually deleted or replaced once some peer that uses the
\* database stays up (periodicPurge).
ExpiredPurged ==
    \A k \in Keys :
      (db[k] # None /\ Expired(db[k]) /\ open # {}) ~> (db[k] = None \/ ~Expired(db[k]) \/ open = {})
=============================================================================
