----------------------- MODULE CollectionStoresProofs -----------------------
(***************************************************************************)
(* The stores of off-ledger and of transient collections: content          *)
(* addressing, what their caches serve, and that values are kept, for any  *)
(* number of peers, keys, transactions, values and faults, any times to    *)
(* live and any size of the cache.  The first part is about the off-ledger *)
(* store, the second about the transient one.                              *)
(***************************************************************************)
EXTENDS MCCollectionStores, FiniteSetTheorems, TLAPS

\* Steps are proved by Zenon unless they name another prover.
USE Zenon

\* A document that may be stored under k.
Right(k, d) == /\ d \in Docs /\ (d.val = Nil => d = None)
               /\ k \in DCAS /\ d # None => Hash[d.val] = k

Puts == [step : {"update"}, key : Keys, doc : Docs, rev : Nat, after : BOOLEAN, clash : BOOLEAN]
Loads == [step : {"set"}, key : DCAS, at : Nat, doc : Docs]
Entries == [doc : Docs, until : Nat \cup {-1}, late : Nat]

Types ==
    /\ now \in Nat /\ rev \in [Keys -> Nat] /\ db \in [Keys -> Docs]
    /\ cache \in [Peers -> [DCAS -> Entries]]
    /\ put \in [Peers -> Puts \cup {NoPut}] /\ load \in [Peers -> Loads \cup {NoLoad}]
    /\ own \in [Peers -> SUBSET DCAS]
    /\ purge \in [Peers -> SUBSET (Keys \X Nat)]

IDb == \A k \in Keys : Right(k, db[k])

\* A value leaves the cache as much after its expiry as it was late.
RightEntry(k, e) == Right(k, e.doc) /\ (e.doc.exp # 0 => e.until = e.doc.exp + e.late)
RightCache(c) == c \in [DCAS -> Entries] /\ \A k \in DCAS : RightEntry(k, c[k])
ICache == \A p \in Peers : RightCache(cache[p])

IPut == \A p \in Peers : put[p] # NoPut => /\ Right(put[p].key, put[p].doc)
                                           /\ put[p].after => put[p].doc # None

ILoad == \A p \in Peers : load[p] # NoLoad => /\ Right(load[p].key, load[p].doc)
                                              /\ load[p].at <= now /\ load[p].key \notin own[p]

\* A document that a purge is to delete has changed, or has expired.
Found(d) == /\ d[2] <= rev[d[1]]
            /\ db[d[1]] # None /\ rev[d[1]] = d[2] => Expired(db[d[1]])
IPurge == \A p \in Peers : \A d \in purge[p] : Found(d)

\* A write that does not clash is alone, and the document has the revision that it has read.
Alone(p) ==
    /\ put[p].rev = fetchRevision(put[p].key)
    /\ \A q \in Peers \ {p} : put[q] # NoPut => put[q].key # put[p].key
    /\ \A q \in Peers : \A d \in purge[q] : d[1] # put[p].key
IAlone == \A p \in Peers : put[p] # NoPut /\ ~put[p].clash => Alone(p)

OInv == Types /\ IDb /\ ICache /\ IPut /\ ILoad /\ OwnPutNotMissed /\ IPurge /\ IAlone

-----------------------------------------------------------------------------
LEMMA NoneRight == None \in Docs /\ \A k : Right(k, None)
<1>1. None \in Docs BY DEF None, Docs
<1>. QED BY <1>1 DEF Right

LEMMA NoPutNot == NoPut \notin Puts /\ NoLoad \notin Loads
BY DEF NoPut, NoLoad, Puts, Loads

\* The entries of the cache stay right, and a key that is put is not missed.
LEMMA CachePutRight ==
    ASSUME Types, NEW c, RightCache(c), NEW k \in DCAS, NEW d, Right(k, d)
    PROVE  /\ RightCache(CachePut(c, k, d)) /\ RightCache(CacheDelete(c, k))
           /\ \A j \in DCAS \ {k} : CachePut(c, k, d)[j] = c[j] /\ CacheDelete(c, k)[j] = c[j]
           /\ d # None /\ ~Expired(d) => CachePut(c, k, d)[k] # Miss
           /\ CacheDelete(c, k)[k] # Miss
<1>. DEFINE e == [doc |-> d, until |-> d.exp, late |-> 0]
<1>1. e \in Entries /\ RightEntry(k, e)
  <2>1. d \in Docs /\ d.exp \in Nat BY DEF Right, Docs
  <2>. QED BY <2>1, SMT DEF Entries, RightEntry
<1>2. Absent \in Entries /\ RightEntry(k, Absent) /\ Absent # Miss
  BY NoneRight, SMT DEF Absent, Entries, RightEntry, Miss, None
<1>3. d # None => e # Miss BY DEF Miss
<1>4. CachePut(c, k, d) = IF Expired(d) THEN c ELSE [c EXCEPT ![k] = e] BY DEF CachePut
<1>5. CacheDelete(c, k) = [c EXCEPT ![k] = Absent] BY DEF CacheDelete
<1>. HIDE DEF e
<1>. QED BY <1>1, <1>2, <1>3, <1>4, <1>5 DEF RightCache

\* What NoteOwn notes.
LEMMA NoteOwnEffect ==
    ASSUME Types, NEW p \in Peers, NEW k \in DCAS, NEW d, NoteOwn(p, k, d)
    PROVE  /\ own' \in [Peers -> SUBSET DCAS] /\ \A q \in Peers \ {p} : own'[q] = own[q]
           /\ \A j \in DCAS \ {k} : j \in own'[p] => j \in own[p]
           /\ k \in own'[p] => d.val # Nil /\ ~Expired(d) /\ ~(load[p] # NoLoad /\ load[p].key = k)
BY DEF NoteOwn, Types

\* The cache and the notes of a peer change at one key.
LEMMA CacheStep ==
    ASSUME OInv, NEW p \in Peers, NEW k \in DCAS, NEW c, RightCache(c),
           cache' = [cache EXCEPT ![p] = c], \A j \in DCAS \ {k} : c[j] = cache[p][j],
           own' \in [Peers -> SUBSET DCAS], \A q \in Peers \ {p} : own'[q] = own[q],
           \A j \in DCAS \ {k} : j \in own'[p] => j \in own[p], k \in own'[p] => c[k] # Miss
    PROVE  cache' \in [Peers -> [DCAS -> Entries]] /\ ICache' /\ OwnPutNotMissed'
<1>1. cache \in [Peers -> [DCAS -> Entries]] BY DEF OInv, Types
<1>2. cache'[p] = c /\ \A q \in Peers \ {p} : cache'[q] = cache[q] BY <1>1
<1>3. cache' \in [Peers -> [DCAS -> Entries]] BY <1>1 DEF RightCache
<1>4. ICache'
  <2>1. \A q \in Peers : RightCache(cache'[q]) BY <1>2 DEF OInv, ICache
  <2>2. \A x : RightCache(x)' <=> RightCache(x) BY DEF RightCache, RightEntry, Right
  <2>. QED BY <2>1 DEF ICache, RightCache, RightEntry, Right
<1>5. OwnPutNotMissed'
  <2>. SUFFICES ASSUME NEW q \in Peers, NEW j \in DCAS, j \in own'[q] PROVE cache'[q][j] # Miss
    BY DEF OwnPutNotMissed
  <2>1. CASE q # p BY <1>2, <2>1, SMT DEF OInv, OwnPutNotMissed
  <2>2. CASE q = p /\ j # k BY <1>2, <2>2, SMT DEF OInv, OwnPutNotMissed
  <2>3. CASE q = p /\ j = k BY <1>2, <2>3
  <2>. QED BY <2>1, <2>2, <2>3
<1>. QED BY <1>3, <1>4, <1>5

\* A database write of a right document begins.
LEMMA CreateRight ==
    ASSUME OInv, NEW p \in Peers, Idle(p), NEW k \in Keys, NEW d, Right(k, d), NEW after \in BOOLEAN,
           after => d # None, createCouchDoc(p, k, d, after), UNCHANGED <<db, rev, purge>>
    PROVE  put' \in [Peers -> Puts \cup {NoPut}] /\ IPut' /\ IAlone'
<1>. DEFINE others == {q \in Peers : put[q] # NoPut /\ put[q].key = k}
            purged == \E q \in Peers : \E x \in purge[q] : x[1] = k
            write == [step |-> "update", key |-> k, doc |-> d, rev |-> fetchRevision(k),
                      after |-> after, clash |-> others # {} \/ purged]
<1>1. put' = [q \in Peers |-> IF q = p THEN write
                              ELSE IF q \in others THEN [put[q] EXCEPT !.clash = TRUE] ELSE put[q]]
  BY DEF createCouchDoc
<1>2. fetchRevision(k) \in Nat BY DEF fetchRevision, OInv, Types
<1>3. write \in Puts /\ write.key = k /\ write.doc = d /\ write.rev = fetchRevision(k) /\ write.after = after
  BY <1>2 DEF Puts, Right
<1>4. ~write.clash => others = {} /\ ~purged OBVIOUS
<1>5. \A q \in Peers : put[q] \in Puts \cup {NoPut} BY DEF OInv, Types
<1>6. \A o \in Puts : /\ [o EXCEPT !.clash = TRUE] \in Puts /\ [o EXCEPT !.clash = TRUE].clash
                      /\ [o EXCEPT !.clash = TRUE].key = o.key /\ [o EXCEPT !.clash = TRUE].doc = o.doc
                      /\ [o EXCEPT !.clash = TRUE].after = o.after
  BY DEF Puts
<1>. HIDE DEF write
<1>7. put' \in [Peers -> Puts \cup {NoPut}] BY <1>1, <1>3, <1>5, <1>6
<1>8. /\ put'[p] = write
      /\ \A q \in Peers \ {p} : /\ put'[q] # NoPut => put[q] # NoPut /\ put'[q].key = put[q].key
                                                   /\ put'[q].doc = put[q].doc /\ put'[q].after = put[q].after
                                /\ put'[q] # NoPut /\ ~put'[q].clash => put'[q] = put[q] /\ q \notin others
  BY <1>1, <1>5, <1>6
<1>9. IPut'
  <2>. SUFFICES ASSUME NEW q \in Peers, put'[q] # NoPut
                PROVE  Right(put'[q].key, put'[q].doc) /\ (put'[q].after => put'[q].doc # None)
    BY DEF IPut, Right
  <2>1. CASE q = p BY <1>3, <1>8, <2>1
  <2>2. CASE q # p BY <1>8, <2>2 DEF OInv, IPut
  <2>. QED BY <2>1, <2>2
<1>10. IAlone'
  <2>. SUFFICES ASSUME NEW q \in Peers, put'[q] # NoPut, ~put'[q].clash
                PROVE  /\ put'[q].rev = fetchRevision(put'[q].key)
                       /\ \A r \in Peers \ {q} : put'[r] # NoPut => put'[r].key # put'[q].key
                       /\ \A r \in Peers : \A x \in purge[r] : x[1] # put'[q].key
    BY DEF IAlone, Alone, fetchRevision
  <2>1. CASE q = p
    <3>1. others = {} /\ ~purged BY <1>4, <1>8, <2>1
    <3>2. \A r \in Peers \ {p} : put'[r] # NoPut => put'[r].key # k BY <1>8, <3>1
    <3>. QED BY <1>3, <1>8, <2>1, <3>1, <3>2
  <2>2. CASE q # p
    <3>1. put'[q] = put[q] /\ q \notin others BY <1>8, <2>2
    <3>2. put[q] # NoPut /\ put[q].key # k /\ Alone(q) BY <3>1 DEF OInv, IAlone
    <3>. QED BY <1>3, <1>8, <3>1, <3>2 DEF Alone
  <2>. QED BY <2>1, <2>2
<1>. QED BY <1>7, <1>9, <1>10

-----------------------------------------------------------------------------
\* Nothing is stored, cached or under way at first.
LEMMA OInit == Init => OInv
<1>. SUFFICES ASSUME Init PROVE OInv
  OBVIOUS
<1>1. Absent \in Entries /\ Absent # Miss /\ \A k : RightEntry(k, Absent)
  BY NoneRight, SMT DEF Absent, Entries, RightEntry, Miss, None
<1>2. Types BY <1>1, NoneRight DEF Init, Types
<1>3. IDb BY NoneRight DEF Init, IDb
<1>4. ICache BY <1>1 DEF Init, ICache, RightCache
<1>5. IPut /\ ILoad /\ IPurge /\ IAlone BY DEF Init, IPut, ILoad, IPurge, IAlone
<1>6. OwnPutNotMissed BY DEF Init, OwnPutNotMissed
<1>. QED BY <1>2, <1>3, <1>4, <1>5, <1>6 DEF OInv

LEMMA TickKeeps == ASSUME OInv, Tick PROVE OInv'
<1>1. now' = now + 1 /\ UNCHANGED <<db, rev, cache, todo, put, load, purge, open, own, faults>> BY DEF Tick
<1>2. Types' /\ IDb' /\ IPut' BY <1>1, SMT DEF OInv, Types, IDb, IPut, Right
<1>3. ICache' /\ OwnPutNotMissed' BY <1>1 DEF OInv, ICache, RightCache, RightEntry, Right, OwnPutNotMissed
<1>4. ILoad'
  <2>1. \A p \in Peers : load[p] # NoLoad => load[p].at \in Nat BY DEF OInv, Types, Loads
  <2>2. now \in Nat BY DEF OInv, Types
  <2>. QED BY <1>1, <2>1, <2>2, SMT DEF OInv, ILoad, Right
<1>5. IPurge'
  <2>1. \A k \in Keys : Expired(db[k]) => Expired(db[k])'
    BY <1>1, SMT DEF Expired, getExpiry, OInv, Types, Docs
  <2>2. \A p \in Peers : \A d \in purge[p] : d[1] \in Keys BY SMT DEF OInv, Types
  <2>. QED BY <1>1, <2>1, <2>2 DEF OInv, IPurge, Found
<1>6. IAlone' BY <1>1 DEF OInv, IAlone, Alone, fetchRevision
<1>. QED BY <1>2, <1>3, <1>4, <1>5, <1>6 DEF OInv

\* Persist checks the key of a value before it touches the cache or the database.
LEMMA PersistKeeps == ASSUME OInv, NEW p \in Peers, NEW t \in Txs, Persist(p, t) PROVE OInv'
<1>. DEFINE k == Write[t].key
            d == newKeyValue(t)
            skip == ~isAuthorized(k) \/ (d.val # Nil /\ ~beforeSave(k, d.val))
<1>1. /\ UNCHANGED <<now, db, rev, load, purge>> /\ Idle(p)
      /\ IF skip THEN UNCHANGED <<cache, put, open, own>> ELSE persistColl(p, k, d)
  BY DEF Persist
<1>2. Types /\ now \in Nat /\ k \in Keys BY KeysAssumption DEF OInv, Types
<1>3. IDb' /\ IPurge' BY <1>1 DEF OInv, IDb, IPurge, Found, Right, Expired, getExpiry
<1>4. CASE skip
  <2>1. Types' /\ ICache' /\ IPut' BY <1>1, <1>4, SMT DEF OInv, Types, ICache, RightCache, RightEntry, Right, IPut
  <2>2. ILoad' /\ OwnPutNotMissed' /\ IAlone'
    BY <1>1, <1>4, SMT DEF OInv, ILoad, Right, OwnPutNotMissed, IAlone, Alone, fetchRevision
  <2>. QED BY <1>3, <2>1, <2>2 DEF OInv
<1>5. CASE ~skip
  <2>1. Right(k, d) /\ (d.val # Nil => d # None)
    <3>0. None.val = Nil BY DEF None
    <3>1. CASE Write[t].val = Nil BY <3>0, <3>1, NoneRight DEF newKeyValue
    <3>2. CASE Write[t].val # Nil
      <4>1. d = [val |-> Write[t].val, tx |-> t, exp |-> getExpirationTime(k)]
        BY <3>2 DEF newKeyValue
      <4>2. getExpirationTime(k) \in Nat BY <1>2, KeysAssumption, SMT DEF getExpirationTime
      <4>3. d.val = Write[t].val /\ d \in Docs BY <4>1, <4>2, SMT DEF Docs
      <4>4. k \in DCAS => Hash[d.val] = k
        BY <1>5, <3>2, <4>3 DEF beforeSave, ValidateDatastoreKey, GetCASKey
      <4>. QED BY <3>0, <3>2, <4>3, <4>4 DEF Right
    <3>. QED BY <3>1, <3>2
  <2>. HIDE DEF k, d, skip
  <2>2. persistColl(p, k, d) BY <1>1, <1>5
  <2>3. put' \in [Peers -> Puts \cup {NoPut}] /\ IPut' /\ IAlone'
    <3>1. CASE UNCHANGED put
      BY <1>1, <3>1, ZenonT(40) DEF OInv, Types, IPut, Right, IAlone, Alone, fetchRevision
    <3>2. CASE createCouchDoc(p, k, d, FALSE)
      <4>. DEFINE after == FALSE
      <4>1. after \in BOOLEAN /\ ~after OBVIOUS
      <4>2. createCouchDoc(p, k, d, after) BY <3>2
      <4>. HIDE DEF after
      <4>. QED BY <1>1, <1>2, <2>1, <4>1, <4>2, CreateRight
    <3>. QED BY <2>2, <3>1, <3>2 DEF persistColl, persist
  <2>4. /\ cache' \in [Peers -> [DCAS -> Entries]] /\ own' \in [Peers -> SUBSET DCAS]
        /\ ICache' /\ OwnPutNotMissed' /\ ILoad'
    <3>1. CASE k \notin DCAS
      <4>1. UNCHANGED <<cache, own>> BY <2>2, <3>1 DEF persistColl, cacheEnabledForType
      <4>2. ICache' /\ OwnPutNotMissed' BY <4>1 DEF OInv, ICache, RightCache, RightEntry, Right, OwnPutNotMissed
      <4>. QED BY <1>1, <4>1, <4>2 DEF OInv, Types, ILoad, Right
    <3>2. CASE k \in DCAS
      <4>. DEFINE c == updateCache(cache[p], k, d)
      <4>1. cache' = [cache EXCEPT ![p] = c] /\ NoteOwn(p, k, d)
        BY <2>2, <3>2 DEF persistColl, cacheEnabledForType
      <4>2. RightCache(cache[p]) BY DEF OInv, ICache
      <4>3. /\ RightCache(c) /\ \A j \in DCAS \ {k} : c[j] = cache[p][j]
            /\ d.val # Nil /\ ~Expired(d) => c[k] # Miss
        BY <1>2, <2>1, <3>2, <4>2, CachePutRight, SMT DEF updateCache
      <4>. HIDE DEF c
      <4>4. /\ own' \in [Peers -> SUBSET DCAS] /\ \A q \in Peers \ {p} : own'[q] = own[q]
            /\ \A j \in DCAS \ {k} : j \in own'[p] => j \in own[p]
            /\ k \in own'[p] => d.val # Nil /\ ~Expired(d) /\ ~(load[p] # NoLoad /\ load[p].key = k)
        BY <1>2, <3>2, <4>1, NoteOwnEffect
      <4>5. cache' \in [Peers -> [DCAS -> Entries]] /\ ICache' /\ OwnPutNotMissed'
        BY <3>2, <4>1, <4>3, <4>4, CacheStep
      <4>6. \A q \in Peers : load[q] # NoLoad => load[q].key \in DCAS BY DEF OInv, Types, Loads
      <4>7. ILoad' BY <1>1, <4>4, <4>6 DEF OInv, ILoad, Right
      <4>. QED BY <4>4, <4>5, <4>7
    <3>. QED BY <3>1, <3>2
  <2>5. Types' BY <1>1, <1>2, <2>3, <2>4 DEF Types
  <2>. QED BY <1>3, <2>3, <2>4, <2>5 DEF OInv
<1>. QED BY <1>4, <1>5

\* A value from another peer is checked in the same way before it is put.
LEMMA MissingKeyKeeps ==
    ASSUME OInv, NEW p \in Peers, NEW q \in Peers, NEW t \in Readers, NEW k \in Keys,
           persistMissingKey(p, q, t, k)
    PROVE  OInv'
<1>. DEFINE v == GetData(q, t, k)
            w == [v EXCEPT !.tx = t]
<1>1. /\ UNCHANGED <<now, db, rev, cache, load, purge, own>> /\ Idle(p)
      /\ beforeSave(k, v.val) /\ createCouchDoc(p, k, w, TRUE) /\ v # None
  BY DEF persistMissingKey, PutData
<1>2. Right(k, v)
  <2>1. v = None \/ v = db[k] \/ (k \in DCAS /\ v = cache[q][k].doc) BY DEF GetData, Lookup
  <2>. QED BY <2>1, NoneRight DEF OInv, IDb, ICache, RightCache, RightEntry
<1>. HIDE DEF v
<1>3. v \in Docs /\ v.val # Nil BY <1>1, <1>2 DEF Right
<1>4. w \in Docs /\ w.val = v.val BY <1>3 DEF Docs
<1>. HIDE DEF w
<1>5. Right(k, w) /\ w # None
  <2>1. w.val # Nil BY <1>3, <1>4
  <2>2. None.val = Nil BY DEF None
  <2>. QED BY <1>1, <1>4, <2>1, <2>2 DEF Right, beforeSave, ValidateDatastoreKey, GetCASKey
<1>6. put' \in [Peers -> Puts \cup {NoPut}] /\ IPut' /\ IAlone'
  <2>. DEFINE after == TRUE
  <2>1. after \in BOOLEAN OBVIOUS
  <2>2. createCouchDoc(p, k, w, after) BY <1>1
  <2>. HIDE DEF after
  <2>. QED BY <1>1, <1>5, <2>1, <2>2, CreateRight
<1>7. Types' BY <1>1, <1>6 DEF OInv, Types
<1>8. IDb' /\ IPurge' BY <1>1 DEF OInv, IDb, IPurge, Found, Right, Expired, getExpiry
<1>9. ICache' /\ OwnPutNotMissed' /\ ILoad'
  BY <1>1 DEF OInv, ICache, RightCache, RightEntry, Right, OwnPutNotMissed, ILoad
<1>. QED BY <1>6, <1>7, <1>8, <1>9 DEF OInv

\* A write ends: its document reaches the database and the cache, or it is dropped.
LEMMA FinishPutKeeps == ASSUME OInv, NEW p \in Peers, FinishPut(p) PROVE OInv'
<1>1. PICK o : o = put[p] OBVIOUS
<1>2. /\ o # NoPut /\ put' = [put EXCEPT ![p] = NoPut] /\ UNCHANGED <<now, load, purge>>
      /\ \/ UNCHANGED <<db, rev>>
         \/ db' = [db EXCEPT ![o.key] = o.doc] /\ rev' = [rev EXCEPT ![o.key] = @ + 1]
      /\ \/ UNCHANGED <<cache, own>>
         \/ /\ o.after /\ o.key \in DCAS /\ cache' = [cache EXCEPT ![p] = CachePut(@, o.key, o.doc)]
            /\ NoteOwn(p, o.key, o.doc)
  BY <1>1 DEF FinishPut, Put, cacheEnabledForType
<1>3. o \in Puts /\ Right(o.key, o.doc) /\ (o.after => o.doc # None)
  BY <1>1, <1>2 DEF OInv, Types, IPut
<1>4. o.key \in Keys /\ o.doc \in Docs BY <1>3 DEF Puts
<1>5. /\ db' \in [Keys -> Docs] /\ rev' \in [Keys -> Nat]
      /\ \A k \in Keys : \/ db'[k] = db[k] /\ rev'[k] = rev[k]
                         \/ k = o.key /\ db'[k] = o.doc /\ rev'[k] = rev[k] + 1
  BY <1>2, <1>4, SMT DEF OInv, Types
<1>6. /\ put' \in [Peers -> Puts \cup {NoPut}] /\ put'[p] = NoPut
      /\ \A q \in Peers \ {p} : put'[q] = put[q]
  BY <1>2 DEF OInv, Types
<1>7. IDb' BY <1>3, <1>5 DEF OInv, IDb, Right
<1>8. IPut' BY <1>6, SMT DEF OInv, IPut, Right
<1>9. IPurge'
  <2>. SUFFICES ASSUME NEW q \in Peers, NEW x \in purge[q] PROVE Found(x)'
    BY <1>2 DEF IPurge
  <2>1. x[1] \in Keys /\ x[2] \in Nat /\ rev[x[1]] \in Nat /\ Found(x) BY SMT DEF OInv, Types, IPurge
  <2>2. CASE db'[x[1]] = db[x[1]] /\ rev'[x[1]] = rev[x[1]]
    BY <1>2, <2>1, <2>2 DEF Found, Expired, getExpiry
  <2>3. CASE rev'[x[1]] = rev[x[1]] + 1 BY <2>1, <2>3, SMT DEF Found
  <2>. QED BY <1>5, <2>1, <2>2, <2>3
<1>10. IAlone'
  <2>. SUFFICES ASSUME NEW q \in Peers, put'[q] # NoPut, ~put'[q].clash PROVE Alone(q)'
    BY DEF IAlone
  <2>1. q # p /\ put'[q] = put[q] /\ Alone(q) BY <1>6 DEF OInv, IAlone
  <2>2. put[q] \in Puts BY <1>6, <2>1 DEF OInv, Types
  <2>3. put[q].key \in Keys /\ put[q].key # o.key BY <1>1, <1>2, <2>1, <2>2 DEF Alone, Puts
  <2>4. fetchRevision(put[q].key)' = fetchRevision(put[q].key)
    <3>1. put'[q].key = put[q].key /\ db'[put[q].key] = db[put[q].key] /\ rev'[put[q].key] = rev[put[q].key]
      BY <1>5, <2>1, <2>3
    <3>. QED BY <3>1 DEF fetchRevision
  <2>. QED BY <1>2, <1>6, <2>1, <2>4 DEF Alone
<1>11. /\ cache' \in [Peers -> [DCAS -> Entries]] /\ own' \in [Peers -> SUBSET DCAS]
       /\ ICache' /\ OwnPutNotMissed' /\ ILoad'
  <2>1. CASE UNCHANGED <<cache, own>>
    BY <1>2, <2>1, SMT DEF OInv, Types, ICache, RightCache, RightEntry, Right, OwnPutNotMissed, ILoad
  <2>2. CASE ~UNCHANGED <<cache, own>>
    <3>. DEFINE k == o.key
                c == CachePut(cache[p], k, o.doc)
    <3>1. k \in DCAS /\ cache' = [cache EXCEPT ![p] = c] /\ NoteOwn(p, k, o.doc) /\ o.doc # None /\ Types
      BY <1>2, <1>3, <2>2 DEF OInv
    <3>2. RightCache(cache[p]) BY DEF OInv, ICache
    <3>. HIDE DEF k
    <3>3. Right(k, o.doc) BY <1>3 DEF k
    <3>4. /\ RightCache(c) /\ \A j \in DCAS \ {k} : c[j] = cache[p][j]
          /\ ~Expired(o.doc) => c[k] # Miss
      BY <3>1, <3>2, <3>3, CachePutRight, SMT
    <3>. HIDE DEF c
    <3>5. /\ own' \in [Peers -> SUBSET DCAS] /\ \A q \in Peers \ {p} : own'[q] = own[q]
          /\ \A j \in DCAS \ {k} : j \in own'[p] => j \in own[p]
          /\ k \in own'[p] => ~Expired(o.doc) /\ ~(load[p] # NoLoad /\ load[p].key = k)
      BY <3>1, NoteOwnEffect
    <3>6. cache' \in [Peers -> [DCAS -> Entries]] /\ ICache' /\ OwnPutNotMissed'
      BY <3>1, <3>4, <3>5, CacheStep
    <3>7. \A q \in Peers : load[q] # NoLoad => load[q].key \in DCAS BY DEF OInv, Types, Loads
    <3>8. ILoad' BY <1>2, <3>5, <3>7 DEF OInv, ILoad, Right
    <3>. QED BY <3>5, <3>6, <3>8
  <2>. QED BY <2>1, <2>2
<1>12. Types' BY <1>2, <1>5, <1>6, <1>11 DEF OInv, Types
<1>. QED BY <1>7, <1>8, <1>9, <1>10, <1>11, <1>12 DEF OInv

\* The database is read for the cache: what is loaded is the database's document or none.
LEMMA StartLoadKeeps == ASSUME OInv, NEW p \in Peers, NEW k, StartLoad(p, k) PROVE OInv'
<1>. DEFINE d == IF Expired(db[k]) THEN None ELSE db[k]
            l == [step |-> "set", key |-> k, at |-> now, doc |-> d]
            c == CacheDelete(cache[p], k)
<1>1. /\ k \in DCAS /\ UNCHANGED <<now, db, rev, put, purge>>
      /\ load' = [load EXCEPT ![p] = l] /\ cache' = [cache EXCEPT ![p] = c]
      /\ own' = [own EXCEPT ![p] = @ \ {k}]
  BY DEF StartLoad
<1>2. Types /\ k \in Keys /\ now \in Nat BY <1>1, KeysAssumption DEF OInv, Types
<1>3. Right(k, d) BY <1>2, NoneRight DEF OInv, IDb
<1>. HIDE DEF d
<1>4. l \in Loads /\ l.key = k /\ l.doc = d /\ l.at = now BY <1>1, <1>2, <1>3 DEF Loads, Right
<1>5. RightCache(cache[p]) BY DEF OInv, ICache
<1>6. RightCache(c) /\ c[k] # Miss /\ \A j \in DCAS \ {k} : c[j] = cache[p][j]
  BY <1>1, <1>2, <1>3, <1>5, CachePutRight
<1>. HIDE DEF l, c
<1>7. /\ own' \in [Peers -> SUBSET DCAS] /\ \A q \in Peers \ {p} : own'[q] = own[q]
      /\ own'[p] = own[p] \ {k}
  BY <1>1, <1>2 DEF Types
<1>8. cache' \in [Peers -> [DCAS -> Entries]] /\ ICache' /\ OwnPutNotMissed'
  BY <1>1, <1>6, <1>7, CacheStep
<1>9. /\ load' \in [Peers -> Loads \cup {NoLoad}] /\ load'[p] = l
      /\ \A q \in Peers \ {p} : load'[q] = load[q]
  BY <1>1, <1>2, <1>4 DEF Types
<1>10. ILoad'
  <2>. SUFFICES ASSUME NEW q \in Peers, load'[q] # NoLoad
                PROVE  /\ Right(load'[q].key, load'[q].doc)
                       /\ load'[q].at <= now /\ load'[q].key \notin own'[q]
    BY <1>1 DEF ILoad, Right
  <2>1. CASE q = p BY <1>2, <1>3, <1>4, <1>7, <1>9, <2>1, SMT
  <2>2. CASE q # p BY <1>7, <1>9, <2>2 DEF OInv, ILoad
  <2>. QED BY <2>1, <2>2
<1>11. Types' BY <1>1, <1>2, <1>7, <1>8, <1>9 DEF Types
<1>12. IDb' /\ IPurge' /\ IPut' /\ IAlone'
  BY <1>1 DEF OInv, IDb, IPurge, Found, Right, Expired, getExpiry, IPut, IAlone, Alone, fetchRevision
<1>. QED BY <1>8, <1>10, <1>11, <1>12 DEF OInv

\* ... and what was loaded is cached.
LEMMA FinishLoadKeeps == ASSUME OInv, NEW p \in Peers, FinishLoad(p) PROVE OInv'
<1>1. PICK l : l = load[p] OBVIOUS
<1>. DEFINE e == Loaded(l)
            k == l.key
            c == [cache[p] EXCEPT ![k] = e]
<1>2. /\ l # NoLoad /\ cache' = [cache EXCEPT ![p][k] = e]
      /\ load' = [load EXCEPT ![p] = NoLoad] /\ UNCHANGED <<now, db, rev, put, purge, own>>
  BY <1>1 DEF FinishLoad
<1>3. /\ l \in Loads /\ k \in DCAS /\ Right(k, l.doc) /\ l.at <= now /\ k \notin own[p]
      /\ l.at \in Nat /\ now \in Nat /\ l.doc.exp \in Nat /\ l.doc \in Docs
  BY <1>1, <1>2 DEF OInv, Types, ILoad, Loads, Docs
<1>4. e \in Entries /\ RightEntry(k, e)
  <2>1. CASE l.doc = None
    <3>1. e = Miss BY <2>1 DEF Loaded
    <3>2. Miss \in Entries /\ RightEntry(k, Miss) BY NoneRight DEF Miss, Entries, RightEntry, None
    <3>. QED BY <3>1, <3>2
  <2>2. CASE l.doc # None
    <3>. DEFINE late == now - l.at
                until == IF l.doc.exp = 0 THEN 0 ELSE now + l.doc.exp - l.at
    <3>1. e = [doc |-> l.doc, until |-> until, late |-> late] BY <2>2 DEF Loaded
    <3>2. late \in Nat /\ until \in Nat /\ (l.doc.exp # 0 => until = l.doc.exp + late) BY <1>3, SMT
    <3>. HIDE DEF late, until, e
    <3>. QED BY <1>3, <3>1, <3>2 DEF Entries, RightEntry
  <2>. QED BY <2>1, <2>2
<1>. HIDE DEF e, k
<1>5. cache[p] \in [DCAS -> Entries] /\ RightCache(cache[p]) BY DEF OInv, Types, ICache
<1>6. RightCache(c) /\ \A j \in DCAS \ {k} : c[j] = cache[p][j] BY <1>3, <1>4, <1>5 DEF RightCache
<1>7. cache' = [cache EXCEPT ![p] = c] BY <1>2 DEF OInv, Types
<1>. HIDE DEF c
<1>8. cache' \in [Peers -> [DCAS -> Entries]] /\ ICache' /\ OwnPutNotMissed'
  <2>1. own' \in [Peers -> SUBSET DCAS] BY <1>2 DEF OInv, Types
  <2>. QED BY <1>2, <1>3, <1>6, <1>7, <2>1, CacheStep
<1>9. /\ load' \in [Peers -> Loads \cup {NoLoad}] /\ load'[p] = NoLoad
      /\ \A q \in Peers \ {p} : load'[q] = load[q]
  BY <1>2 DEF OInv, Types
<1>10. ILoad' BY <1>2, <1>9 DEF OInv, ILoad, Right
<1>11. Types' BY <1>2, <1>8, <1>9 DEF OInv, Types
<1>12. IDb' /\ IPurge' /\ IPut' /\ IAlone'
  BY <1>2 DEF OInv, IDb, IPurge, Found, Right, Expired, getExpiry, IPut, IAlone, Alone, fetchRevision
<1>. QED BY <1>8, <1>10, <1>11, <1>12 DEF OInv

LEMMA EvictKeeps == ASSUME OInv, NEW p \in Peers, NEW k, Evict(p, k) PROVE OInv'
<1>. DEFINE c == CacheDelete(cache[p], k)
<1>1. k \in DCAS /\ cache' = [cache EXCEPT ![p] = c] /\ UNCHANGED <<now, db, rev, put, load, purge, own>>
  BY DEF Evict
<1>2. RightCache(cache[p]) /\ Types BY DEF OInv, ICache
<1>3. RightCache(c) /\ c[k] # Miss /\ \A j \in DCAS \ {k} : c[j] = cache[p][j]
  BY <1>1, <1>2, NoneRight, CachePutRight
<1>. HIDE DEF c
<1>4. cache' \in [Peers -> [DCAS -> Entries]] /\ ICache' /\ OwnPutNotMissed'
  <2>1. own' \in [Peers -> SUBSET DCAS] BY <1>1, <1>2 DEF Types
  <2>. QED BY <1>1, <1>3, <2>1, CacheStep
<1>5. Types' BY <1>1, <1>2, <1>4 DEF Types
<1>6. IDb' /\ IPurge' /\ IPut' /\ IAlone' /\ ILoad'
  BY <1>1 DEF OInv, IDb, IPurge, Found, Right, Expired, getExpiry, IPut, IAlone, Alone, fetchRevision, ILoad
<1>. QED BY <1>4, <1>5, <1>6 DEF OInv

\* A purge finds expired documents, and every write of them clashes.
LEMMA StartPurgeKeeps == ASSUME OInv, NEW p \in Peers, StartPurge(p) PROVE OInv'
<1>. DEFINE found == {<<k, rev[k]>> : k \in fetchExpiryData}
<1>1. /\ UNCHANGED <<now, db, rev, cache, load, own>> /\ purge' = [purge EXCEPT ![p] = found]
      /\ put' = [q \in Peers |-> IF put[q] # NoPut /\ put[q].key \in fetchExpiryData
                                 THEN [put[q] EXCEPT !.clash = TRUE] ELSE put[q]]
  BY DEF StartPurge
<1>2. \A d \in found : d \in Keys \X Nat /\ d[1] \in fetchExpiryData /\ Found(d)
  BY SMT DEF fetchExpiryData, Found, OInv, Types
<1>. HIDE DEF found
<1>3. /\ purge' \in [Peers -> SUBSET (Keys \X Nat)] /\ purge'[p] = found
      /\ \A q \in Peers \ {p} : purge'[q] = purge[q]
  BY <1>1, <1>2 DEF OInv, Types
<1>4. \A q \in Peers : put[q] \in Puts \cup {NoPut} BY DEF OInv, Types
<1>5. \A o \in Puts : /\ [o EXCEPT !.clash = TRUE] \in Puts /\ [o EXCEPT !.clash = TRUE].clash
                      /\ [o EXCEPT !.clash = TRUE].key = o.key /\ [o EXCEPT !.clash = TRUE].doc = o.doc
                      /\ [o EXCEPT !.clash = TRUE].after = o.after
  BY DEF Puts
<1>6. /\ put' \in [Peers -> Puts \cup {NoPut}]
      /\ \A q \in Peers : /\ put'[q] # NoPut => put[q] # NoPut /\ put'[q].key = put[q].key
                                             /\ put'[q].doc = put[q].doc /\ put'[q].after = put[q].after
                          /\ put'[q] # NoPut /\ ~put'[q].clash
                               => put'[q] = put[q] /\ put[q].key \notin fetchExpiryData
  BY <1>1, <1>4, <1>5
<1>7. IPurge'
  <2>1. \A q \in Peers : \A d \in purge'[q] : Found(d) BY <1>2, <1>3 DEF OInv, IPurge
  <2>. QED BY <1>1, <2>1 DEF IPurge, Found, Expired, getExpiry
<1>8. IPut' BY <1>6, SMT DEF OInv, IPut, Right
<1>9. IAlone'
  <2>. SUFFICES ASSUME NEW q \in Peers, put'[q] # NoPut, ~put'[q].clash
                PROVE  /\ put'[q].rev = fetchRevision(put'[q].key)
                       /\ \A r \in Peers \ {q} : put'[r] # NoPut => put'[r].key # put'[q].key
                       /\ \A r \in Peers : \A x \in purge'[r] : x[1] # put'[q].key
    BY <1>1, SMT DEF IAlone, Alone, fetchRevision
  <2>1. put'[q] = put[q] /\ put[q].key \notin fetchExpiryData BY <1>6
  <2>2. Alone(q) BY <2>1 DEF OInv, IAlone
  <2>3. \A r \in Peers : \A x \in purge'[r] : x[1] # put[q].key BY <1>2, <1>3, <2>1, <2>2 DEF Alone
  <2>. QED BY <1>6, <2>1, <2>2, <2>3 DEF Alone
<1>10. Types' BY <1>1, <1>3, <1>6 DEF OInv, Types
<1>11. IDb' /\ ILoad' BY <1>1 DEF OInv, IDb, ILoad, Right
<1>12. ICache' /\ OwnPutNotMissed' BY <1>1 DEF OInv, ICache, RightCache, RightEntry, Right, OwnPutNotMissed
<1>. QED BY <1>7, <1>8, <1>9, <1>10, <1>11, <1>12 DEF OInv

\* What a purge does to the database.
LEMMA DeleteEffect ==
    ASSUME OInv, NEW p \in Peers, DeleteExpiredKeys(p)
    PROVE  /\ db' \in [Keys -> Docs] /\ rev' \in [Keys -> Nat]
           /\ \A k \in Keys : \/ db'[k] = db[k] /\ rev'[k] = rev[k]
                              \/ /\ db'[k] = None /\ rev'[k] = rev[k] + 1 /\ Expired(db[k])
                                 /\ \E d \in purge[p] : d[1] = k
<1>. DEFINE gone == {d \in purge[p] : db[d[1]] # None /\ Accepts(d[1], d[2])}
<1>1. /\ db' = [k \in Keys |-> IF \E d \in gone : d[1] = k THEN None ELSE db[k]]
      /\ rev' = [k \in Keys |-> IF \E d \in gone : d[1] = k THEN rev[k] + 1 ELSE rev[k]]
  BY DEF DeleteExpiredKeys
<1>2. \A d \in gone : d \in purge[p] /\ Expired(db[d[1]]) BY DEF Accepts, OInv, IPurge, Found
<1>3. \A k \in Keys : db[k] \in Docs /\ rev[k] \in Nat /\ rev[k] + 1 \in Nat BY SMT DEF OInv, Types
<1>. HIDE DEF gone
<1>4. db' \in [Keys -> Docs] BY <1>1, <1>3, NoneRight
<1>5. rev' \in [Keys -> Nat] BY <1>1, <1>3
<1>6. ASSUME NEW k \in Keys
      PROVE  \/ db'[k] = db[k] /\ rev'[k] = rev[k]
             \/ /\ db'[k] = None /\ rev'[k] = rev[k] + 1 /\ Expired(db[k])
                /\ \E d \in purge[p] : d[1] = k
  <2>1. CASE \E d \in gone : d[1] = k
    <3>1. PICK d \in gone : d[1] = k BY <2>1
    <3>2. db'[k] = None /\ rev'[k] = rev[k] + 1 BY <1>1, <2>1
    <3>. QED BY <1>2, <3>1, <3>2
  <2>2. CASE ~\E d \in gone : d[1] = k BY <1>1, <2>2
  <2>. QED BY <2>1, <2>2
<1>. QED BY <1>4, <1>5, <1>6

LEMMA DeleteKeeps == ASSUME OInv, NEW p \in Peers, DeleteExpiredKeys(p) PROVE OInv'
<1>1. UNCHANGED <<now, cache, put, load, own>> /\ purge' = [purge EXCEPT ![p] = {}]
  BY DEF DeleteExpiredKeys
<1>2. /\ db' \in [Keys -> Docs] /\ rev' \in [Keys -> Nat]
      /\ \A k \in Keys : \/ db'[k] = db[k] /\ rev'[k] = rev[k]
                         \/ /\ db'[k] = None /\ rev'[k] = rev[k] + 1
                            /\ \E d \in purge[p] : d[1] = k
  BY DeleteEffect
<1>3. /\ purge' \in [Peers -> SUBSET (Keys \X Nat)] /\ \A q \in Peers : purge'[q] \subseteq purge[q]
  BY <1>1 DEF OInv, Types
<1>4. IDb' BY <1>2, NoneRight DEF OInv, IDb, Right
<1>5. IPurge'
  <2>. SUFFICES ASSUME NEW q \in Peers, NEW x \in purge'[q] PROVE Found(x)'
    BY DEF IPurge
  <2>1. x \in purge[q] BY <1>3
  <2>2. x[1] \in Keys /\ x[2] \in Nat /\ rev[x[1]] \in Nat /\ Found(x) BY <2>1, SMT DEF OInv, Types, IPurge
  <2>3. CASE db'[x[1]] = db[x[1]] /\ rev'[x[1]] = rev[x[1]]
    BY <1>1, <2>2, <2>3 DEF Found, Expired, getExpiry
  <2>4. CASE rev'[x[1]] = rev[x[1]] + 1 BY <2>2, <2>4, SMT DEF Found
  <2>. QED BY <1>2, <2>2, <2>3, <2>4
<1>6. IAlone'
  <2>. SUFFICES ASSUME NEW q \in Peers, put[q] # NoPut, ~put[q].clash
                PROVE  /\ put[q].rev = fetchRevision(put[q].key)'
                       /\ \A r \in Peers \ {q} : put[r] # NoPut => put[r].key # put[q].key
                       /\ \A r \in Peers : \A x \in purge'[r] : x[1] # put[q].key
    BY <1>1 DEF IAlone, Alone
  <2>1. Alone(q) /\ put[q].key \in Keys BY DEF OInv, IAlone, Types, Puts
  <2>2. put'[q] = put[q] /\ db'[put[q].key] = db[put[q].key] /\ rev'[put[q].key] = rev[put[q].key]
    BY <1>1, <1>2, <2>1 DEF Alone
  <2>. QED BY <1>3, <2>1, <2>2 DEF Alone, fetchRevision
<1>7. Types' BY <1>1, <1>2, <1>3 DEF OInv, Types
<1>8. IPut' /\ ILoad' BY <1>1 DEF OInv, IPut, ILoad, Right
<1>9. ICache' /\ OwnPutNotMissed' BY <1>1 DEF OInv, ICache, RightCache, RightEntry, Right, OwnPutNotMissed
<1>. QED BY <1>4, <1>5, <1>6, <1>7, <1>8, <1>9 DEF OInv

LEMMA RestartKeeps == ASSUME OInv, NEW p \in Peers, Restart(p) PROVE OInv'
<1>. DEFINE c == [k \in DCAS |-> Absent]
<1>1. /\ UNCHANGED <<now, db, rev>> /\ cache' = [cache EXCEPT ![p] = c]
      /\ put' = [put EXCEPT ![p] = NoPut] /\ load' = [load EXCEPT ![p] = NoLoad]
      /\ purge' = [purge EXCEPT ![p] = {}] /\ own' = [own EXCEPT ![p] = {}]
  BY DEF Restart
<1>2. Absent \in Entries /\ \A k : RightEntry(k, Absent)
  BY NoneRight DEF Absent, Entries, RightEntry, None
<1>3. RightCache(c) BY <1>2 DEF RightCache
<1>. HIDE DEF c
<1>4. Types' BY <1>1, <1>3 DEF OInv, Types, RightCache
<1>5. /\ cache'[p] = c /\ put'[p] = NoPut /\ load'[p] = NoLoad /\ purge'[p] = {} /\ own'[p] = {}
      /\ \A q \in Peers \ {p} : /\ cache'[q] = cache[q] /\ put'[q] = put[q] /\ load'[q] = load[q]
                                /\ purge'[q] = purge[q] /\ own'[q] = own[q]
  BY <1>1 DEF OInv, Types
<1>6. ICache'
  <2>1. \A q \in Peers : RightCache(cache'[q]) BY <1>3, <1>5 DEF OInv, ICache
  <2>. QED BY <2>1 DEF ICache, RightCache, RightEntry, Right
<1>7. OwnPutNotMissed' BY <1>5 DEF OInv, OwnPutNotMissed
<1>8. IPut' /\ ILoad' BY <1>1, <1>5, SMT DEF OInv, IPut, ILoad, Right
<1>9. IDb' /\ IPurge' BY <1>1, <1>5 DEF OInv, IDb, IPurge, Found, Right, Expired, getExpiry
<1>10. IAlone' BY <1>1, <1>5, SMT DEF OInv, IAlone, Alone, fetchRevision
<1>. QED BY <1>4, <1>6, <1>7, <1>8, <1>9, <1>10 DEF OInv

LEMMA ONext == ASSUME OInv, [Next]_vars PROVE OInv'
<1>1. CASE UNCHANGED vars
  <2>1. UNCHANGED <<now, db, rev, cache, put, load, purge, own>> BY <1>1 DEF vars
  <2>2. Types' /\ IDb' /\ IPut' /\ ILoad' BY <2>1 DEF OInv, Types, IDb, IPut, ILoad, Right
  <2>3. ICache' /\ OwnPutNotMissed' BY <2>1 DEF OInv, ICache, RightCache, RightEntry, Right, OwnPutNotMissed
  <2>4. IPurge' /\ IAlone' BY <2>1 DEF OInv, IPurge, Found, Expired, getExpiry, IAlone, Alone, fetchRevision
  <2>. QED BY <2>2, <2>3, <2>4 DEF OInv
<1>2. CASE Tick BY <1>2, TickKeeps
<1>3. ASSUME NEW p \in Peers, FinishPut(p) PROVE OInv' BY <1>3, FinishPutKeeps
<1>4. ASSUME NEW p \in Peers, FinishLoad(p) PROVE OInv' BY <1>4, FinishLoadKeeps
<1>5. ASSUME NEW p \in Peers, NEW t \in Txs, Persist(p, t) PROVE OInv' BY <1>5, PersistKeeps
<1>6. ASSUME NEW p \in Peers, NEW k \in Keys, Evict(p, k) \/ StartLoad(p, k) PROVE OInv'
  BY <1>6, EvictKeeps, StartLoadKeeps
<1>7. ASSUME NEW p \in Peers, StartPurge(p) \/ DeleteExpiredKeys(p) \/ Restart(p) PROVE OInv'
  BY <1>7, StartPurgeKeeps, DeleteKeeps, RestartKeeps
<1>8. ASSUME NEW p \in Peers, NEW q \in Peers, NEW t \in Readers, NEW k \in Keys,
             persistMissingKey(p, q, t, k)
      PROVE  OInv'
  BY <1>8, MissingKeyKeeps
<1>. QED BY <1>1, <1>2, <1>3, <1>4, <1>5, <1>6, <1>7, <1>8 DEF Next

\* A value is served after its expiry no longer than it is late.
LEMMA OExact == OInv => TypeOK /\ NoExpiredFromCache /\ OwnPutNotMissed /\ ContentAddressed
<1>. SUFFICES ASSUME OInv PROVE TypeOK /\ NoExpiredFromCache /\ OwnPutNotMissed /\ ContentAddressed
  OBVIOUS
<1>1. \A p \in Peers, k \in DCAS : cache[p][k] \in Entries BY DEF OInv, Types
<1>2. TypeOK BY <1>1 DEF TypeOK, OInv, Types, Entries, Puts
<1>3. NoExpiredFromCache
  <2>. SUFFICES ASSUME NEW p \in Peers, NEW k \in DCAS, Usable(p, k), cache[p][k].doc.exp # 0
                PROVE  now <= cache[p][k].doc.exp + cache[p][k].late
    BY DEF NoExpiredFromCache
  <2>1. PICK e \in Entries : e = cache[p][k] BY <1>1
  <2>2. e.doc.exp \in Nat /\ e.late \in Nat /\ e.until = e.doc.exp + e.late /\ now \in Nat
    BY <2>1 DEF OInv, Types, Entries, Docs, ICache, RightCache, RightEntry
  <2>3. e.until = 0 \/ now <= e.until BY <2>1 DEF Usable
  <2>4. e.doc.exp # 0 BY <2>1
  <2>5. now <= e.doc.exp + e.late BY <2>2, <2>3, <2>4, SMT
  <2>. QED BY <2>1, <2>5
<1>4. ContentAddressed
  BY KeysAssumption DEF ContentAddressed, OInv, IDb, ICache, RightCache, RightEntry, Right
<1>. QED BY <1>2, <1>3, <1>4 DEF OInv

\* A step that takes a document from the database deletes it, or it had expired.
LEMMA OPurges ==
    ASSUME OInv, [Next]_vars, NEW k \in Keys, db[k] # None, db'[k] = None
    PROVE  \/ Expired(db[k])
           \/ \E p \in Peers : put[p] # NoPut /\ put'[p] = NoPut /\ put[p].key = k /\ put[p].doc = None
<1>1. ASSUME NEW p \in Peers, FinishPut(p)
      PROVE  \E q \in Peers : put[q] # NoPut /\ put'[q] = NoPut /\ put[q].key = k /\ put[q].doc = None
  <2>1. /\ put[p] # NoPut /\ put' = [put EXCEPT ![p] = NoPut]
        /\ UNCHANGED db \/ db' = [db EXCEPT ![put[p].key] = put[p].doc]
    BY <1>1 DEF FinishPut, Put
  <2>2. put'[p] = NoPut BY <2>1 DEF OInv, Types
  <2>3. put[p].key = k /\ put[p].doc = None BY <2>1 DEF OInv, Types
  <2>. QED BY <2>1, <2>2, <2>3
<1>2. ASSUME NEW p \in Peers, DeleteExpiredKeys(p) PROVE Expired(db[k])
  BY <1>2, DeleteEffect
<1>3. CASE UNCHANGED db BY <1>3
<1>4. CASE UNCHANGED vars \/ Tick BY <1>4, <1>3 DEF vars, Tick
<1>5. ASSUME NEW p \in Peers, FinishLoad(p) \/ StartPurge(p) \/ Restart(p) PROVE UNCHANGED db
  BY <1>5 DEF FinishLoad, StartPurge, Restart
<1>6. ASSUME NEW p \in Peers, NEW t \in Txs, Persist(p, t) PROVE UNCHANGED db
  BY <1>6 DEF Persist
<1>7. ASSUME NEW p \in Peers, NEW j \in Keys, Evict(p, j) \/ StartLoad(p, j) PROVE UNCHANGED db
  BY <1>7 DEF Evict, StartLoad
<1>8. ASSUME NEW p \in Peers, NEW q \in Peers, NEW t \in Readers, NEW j \in Keys,
             persistMissingKey(p, q, t, j)
      PROVE  UNCHANGED db
  BY <1>8 DEF persistMissingKey
<1>. QED BY <1>1, <1>2, <1>3, <1>4, <1>5, <1>6, <1>7, <1>8 DEF Next

\* A write that ends without a clash and without a fault has taken effect.
LEMMA OWrites ==
    ASSUME OInv, [Next]_vars, NEW p \in Peers, put[p] # NoPut, put'[p] = NoPut, ~put[p].clash,
           faults' = faults, faults \in Nat
    PROVE  db'[put[p].key] = put[p].doc
<1>1. CASE FinishPut(p)
  <2>1. PICK fails \in BOOLEAN : /\ IF fails THEN faults < MaxFaults /\ faults' = faults + 1 ELSE faults' = faults
                                 /\ Put(p, fails)
    BY <1>1 DEF FinishPut
  <2>2. ~fails BY <2>1, SMT
  <2>3. Accepts(put[p].key, put[p].rev) BY DEF OInv, IAlone, Alone, Accepts, fetchRevision
  <2>4. db' = [db EXCEPT ![put[p].key] = put[p].doc] BY <2>1, <2>2, <2>3 DEF Put
  <2>5. put[p].key \in Keys BY DEF OInv, Types, Puts
  <2>. QED BY <2>4, <2>5 DEF OInv, Types
<1>2. CASE Restart(p)
  <2>1. faults' = faults + 1 BY <1>2 DEF Restart
  <2>. QED BY <2>1, SMT
<1>3. ASSUME NEW q \in Peers, NEW k, NEW d, NEW after, createCouchDoc(q, k, d, after), Idle(q) PROVE FALSE
  <2>1. put[p] \in Puts /\ q # p BY <1>3 DEF OInv, Types, Idle
  <2>2. put'[p] = put[p] \/ put'[p] = [put[p] EXCEPT !.clash = TRUE] BY <1>3, <2>1 DEF createCouchDoc
  <2>3. put'[p] \in Puts BY <2>1, <2>2 DEF Puts
  <2>. QED BY <2>3, NoPutNot
<1>4. ASSUME NEW q \in Peers, StartPurge(q) PROVE FALSE
  <2>1. put[p] \in Puts BY DEF OInv, Types
  <2>2. put'[p] = put[p] \/ put'[p] = [put[p] EXCEPT !.clash = TRUE] BY <1>4, <2>1 DEF StartPurge
  <2>3. put'[p] \in Puts BY <2>1, <2>2 DEF Puts
  <2>. QED BY <2>3, NoPutNot
<1>5. ASSUME NEW q \in Peers \ {p}, FinishPut(q) \/ Restart(q) PROVE FALSE
  <2>1. put' = [put EXCEPT ![q] = NoPut] BY <1>5 DEF FinishPut, Restart
  <2>. QED BY <2>1 DEF OInv, Types
<1>6. ASSUME NEW q \in Peers, NEW t \in Txs, Persist(q, t) PROVE FALSE
  <2>1. Idle(q) /\ (UNCHANGED put \/ \E k, d : createCouchDoc(q, k, d, FALSE))
    BY <1>6 DEF Persist, persistColl, persist
  <2>. QED BY <1>3, <2>1
<1>7. ASSUME NEW q \in Peers, NEW r, NEW t, NEW k, persistMissingKey(q, r, t, k) PROVE FALSE
  <2>1. Idle(q) /\ \E d : createCouchDoc(q, k, d, TRUE) BY <1>7 DEF persistMissingKey, PutData
  <2>. QED BY <1>3, <2>1
<1>8. CASE UNCHANGED put BY <1>8
<1>. QED BY <1>1, <1>2, <1>4, <1>5, <1>6, <1>7, <1>8
     DEF Next, vars, Tick, FinishLoad, DeleteExpiredKeys, Evict, StartLoad

-----------------------------------------------------------------------------
(***************************************************************************)
(* The transient store.                                                    *)
(***************************************************************************)
N == Transient!None
Times == TimeToLive .. TMaxTime + TimeToLive
Some == [by : Persisters, exp : Times]
Items == [by : Persisters, exp : Times, until : Int, late : Nat]
TLoads == [val : Some \cup {N}, began : Nat]
Evictions == [key : TKeys, val : Some, step : {"value", "index"}]
Purges == [entries : SUBSET (Int \X TKeys), low : SUBSET LowKeys]
Steps == {"new", "wait", "put", "value", "index", "done", "exists"}

\* v is none, or what the call that put it has put, under k.
Mine(k, v) == v = N \/ (v \in Some /\ KeyOf[v.by] = k /\ value[v.by] = v)

TTypes ==
    /\ clock \in 0..TMaxTime /\ tfaults \in 0..TMaxFaults /\ always \in BOOLEAN
    /\ tdb \in [TKeys -> Some \cup {N}] /\ index \subseteq Int \X TKeys
    /\ items \in [TKeys -> Items \cup {N}] /\ loading \in [TKeys -> TLoads \cup {N}]
    /\ evicting \in Evictions \cup {N} /\ tpurge \in Purges \cup {N}
    /\ stepOf \in [Persisters -> Steps] /\ value \in [Persisters -> Some \cup {N}]
    /\ contended \subseteq Persisters /\ halfway \subseteq TKeys

TCalls == \A p \in Persisters :
    /\ value[p] = N \/ value[p].by = p
    /\ stepOf[p] \in {"new", "wait", "put"} => value[p] = N
    /\ stepOf[p] \in {"value", "index"} => value[p] # N
    /\ stepOf[p] = "wait" => loading[KeyOf[p]] # N

\* What is in the cache leaves it as much after its expiry as it was late.
RightItem(k, i) == i # N => Mine(k, Transient!ValueOf(i)) /\ i.until = i.exp + i.late

THolds == 
    /\ \A k \in TKeys : /\ Mine(k, tdb[k]) /\ RightItem(k, items[k])
                        /\ loading[k] # N => Mine(k, loading[k].val) /\ loading[k].began <= clock
    /\ evicting # N => Mine(evicting.key, evicting.val) /\ ~always

TCached == Cardinality({k \in TKeys : items[k] # N}) <= CacheSize

TPurge == tpurge # N => \A e \in tpurge.entries : e[1] < clock

Indexed(k) ==
    \/ <<tdb[k].exp, k>> \in index
    \/ k \in halfway
    \/ evicting # N /\ evicting.key = k /\ evicting.step = "index" /\ evicting.val = tdb[k]
    \/ \E p \in Persisters : stepOf[p] = "index" /\ value[p] = tdb[k]
TIndexed == \A k \in TKeys : tdb[k] # N => Indexed(k)

\* The value of a call is somewhere; it has expired; it is on its way to or from the database.
Has(p) ==
    \/ tdb[KeyOf[p]].by = p \/ stepOf[p] = "value"
    \/ evicting # N /\ evicting.val.by = p
    \/ items[KeyOf[p]] # N /\ items[KeyOf[p]].by = p
    \/ loading[KeyOf[p]] # N /\ loading[KeyOf[p]].val.by = p
Past(p) == value[p].exp <= clock
Moving(p) ==
    \/ evicting # N /\ evicting.val.by = p
    \/ loading[KeyOf[p]] # N /\ loading[KeyOf[p]].val.by = p

Rivals(p) == {q \in Persisters \ {p} : KeyOf[q] = KeyOf[p]}
AboutToPut(p) == \/ stepOf[p] = "put"
                 \/ stepOf[p] = "wait" /\ loading[KeyOf[p]].val = N

\* A call that is not contended is the only one of its key, and puts over nothing.
TFirst == \A p \in Persisters \ contended : \A q \in Rivals(p) :
    /\ Transient!InProgress(p) => ~Transient!InProgress(q)
    /\ AboutToPut(p) /\ Has(q) => Past(q)

\* Without contention there is one value at a time, and none is put over one that moves.
Calm(p) == \A q \in contended : KeyOf[q] # KeyOf[p]
TAlone == \A p \in Persisters : Calm(p) => \A q \in Rivals(p) :
    /\ Has(p) /\ Has(q) => Past(p) \/ Past(q)
    /\ Moving(p) => stepOf[q] # "put" /\ (Has(q) => Past(q))

TInv == TTypes /\ TCalls /\ THolds /\ TCached /\ TPurge /\ TIndexed /\ TFirst /\ TAlone

-----------------------------------------------------------------------------
\* None is told apart from everything else.
LEMMA NIsNone ==
    /\ N \notin Some /\ N \notin Items /\ N \notin TLoads /\ N \notin Evictions /\ N \notin Purges
    /\ N.by = 0 /\ N.exp = 0 /\ N.by \notin Persisters
BY TransientAssumption DEF N, Transient!None, Some, Items, TLoads, Evictions, Purges

\* The arithmetic of times and of the count of faults.
LEMMA Order ==
    /\ \A a, b \in Int : (a < b <=> ~(b <= a)) /\ a <= a /\ a # a + 1
    /\ \A a, b, c \in Int : a < b /\ (b < c \/ b <= c) => a < c /\ a # c
    /\ \A a \in Int, n \in Nat : a <= a + n
BY SMT

LEMMA TimesInt == Times \subseteq Int
BY TransientAssumption, SMT DEF Times

LEMMA ClockNat == ASSUME TInv PROVE clock \in Nat /\ clock \in Int /\ clock <= clock /\ tfaults \in Int
BY TransientAssumption, SMT DEF TInv, TTypes

LEMMA ExpiryTime == ASSUME TInv PROVE clock + TimeToLive \in Times /\ clock + TimeToLive \in Int
BY TransientAssumption, SMT DEF Times, TInv, TTypes

LEMMA FaultsBounded ==
    ASSUME TInv, Transient!Fault \/ Transient!NoFault PROVE tfaults' \in 0..TMaxFaults
BY TransientAssumption, SMT DEF TInv, TTypes, Transient!Fault, Transient!NoFault

\* A value that is somewhere is the one that its call has put.
LEMMA HasValue ==
    ASSUME TInv, NEW p \in Persisters, Has(p)
    PROVE  value[p] \in Some /\ value[p] # N /\ value[p].by = p
<1>0. KeyOf[p] \in TKeys BY TransientAssumption
<1>1. CASE stepOf[p] = "value" BY <1>1, NIsNone DEF TInv, TTypes, TCalls
<1>2. ASSUME NEW k, NEW v, Mine(k, v), v.by = p PROVE value[p] \in Some /\ value[p] # N /\ value[p].by = p
  <2>1. v # N BY <1>2, NIsNone
  <2>. QED BY <1>2, <2>1, NIsNone DEF Mine
<1>3. CASE tdb[KeyOf[p]].by = p BY <1>0, <1>2, <1>3 DEF TInv, THolds
<1>4. CASE evicting # N /\ evicting.val.by = p BY <1>2, <1>4 DEF TInv, THolds
<1>5. CASE items[KeyOf[p]] # N /\ items[KeyOf[p]].by = p
  <2>1. Transient!ValueOf(items[KeyOf[p]]).by = p BY <1>5 DEF Transient!ValueOf
  <2>2. Mine(KeyOf[p], Transient!ValueOf(items[KeyOf[p]])) BY <1>0, <1>5 DEF TInv, THolds, RightItem
  <2>. QED BY <1>2, <2>1, <2>2
<1>6. CASE loading[KeyOf[p]] # N /\ loading[KeyOf[p]].val.by = p
  BY <1>0, <1>2, <1>6 DEF TInv, THolds
<1>. QED BY <1>1, <1>3, <1>4, <1>5, <1>6 DEF Has

\* A value that has not expired can be moved: no rival has one, or is about to put one.
LEMMA CanMove ==
    ASSUME TInv, NEW p \in Persisters, Calm(p), Has(p), ~Past(p), NEW q \in Rivals(p)
    PROVE  stepOf[q] # "put" /\ (Has(q) => Past(q))
<1>1. q \in Persisters /\ p \in Rivals(q) /\ q \notin contended BY DEF Rivals, Calm
<1>2. Has(q) => Past(q) BY DEF TInv, TAlone
<1>3. stepOf[q] # "put" BY <1>1 DEF TInv, TFirst, AboutToPut
<1>. QED BY <1>2, <1>3

\* A step that puts no value, moves none and begins no call.
LEMMA QuietStep ==
    ASSUME TInv, value' = value, contended' = contended, clock <= clock', clock' \in Nat,
           \A p \in Persisters : Has(p)' => Has(p),
           \A p \in Persisters : Moving(p)' => Moving(p),
           \A p \in Persisters : Transient!InProgress(p)' => Transient!InProgress(p),
           \A p \in Persisters : AboutToPut(p)' => AboutToPut(p),
           \A p \in Persisters : stepOf'[p] = "put" => stepOf[p] = "put"
    PROVE  TFirst' /\ TAlone'
<1>1. \A p \in Persisters : Has(p) /\ Past(p) => Past(p)'
  <2>. SUFFICES ASSUME NEW p \in Persisters, Has(p), Past(p) PROVE Past(p)'
    OBVIOUS
  <2>1. value[p].exp \in Int BY HasValue, TimesInt DEF Some
  <2>2. value[p].exp <= clock /\ clock \in Int /\ value'[p] = value[p] BY SMT DEF Past, TInv, TTypes
  <2>. QED BY <2>1, <2>2, SMT DEF Past
<1>2. \A p : Rivals(p) \subseteq Persisters /\ Calm(p)' = Calm(p) BY DEF Calm, Rivals
<1>3. TFirst'
  <2>. SUFFICES ASSUME NEW p \in Persisters \ contended, NEW q \in Rivals(p)
                PROVE  /\ Transient!InProgress(p)' => ~Transient!InProgress(q)'
                       /\ AboutToPut(p)' /\ Has(q)' => Past(q)'
    BY DEF TFirst, Rivals
  <2>. QED BY <1>1, <1>2 DEF TInv, TFirst
<1>4. TAlone'
  <2>. SUFFICES ASSUME NEW p \in Persisters, Calm(p), NEW q \in Rivals(p)
                PROVE  /\ Has(p)' /\ Has(q)' => Past(p)' \/ Past(q)'
                       /\ Moving(p)' => stepOf'[q] # "put" /\ (Has(q)' => Past(q)')
    BY <1>2 DEF TAlone, Rivals
  <2>. QED BY <1>1, <1>2 DEF TInv, TAlone
<1>. QED BY <1>3, <1>4

LEMMA CachedCount ==
    ASSUME TInv, NEW S, S \subseteq {k \in TKeys : items[k] # N}
    PROVE  IsFiniteSet(S) /\ Cardinality(S) \in Nat /\ Cardinality(S) <= CacheSize
<1>. DEFINE T == {k \in TKeys : items[k] # N}
<1>1. IsFiniteSet(T) BY TransientAssumption, FS_Subset
<1>2. IsFiniteSet(S) /\ Cardinality(S) <= Cardinality(T) BY <1>1, FS_Subset
<1>3. Cardinality(S) \in Nat /\ Cardinality(T) \in Nat BY <1>1, <1>2, FS_CardinalityType
<1>4. Cardinality(T) <= CacheSize /\ CacheSize \in Nat BY TransientAssumption DEF TInv, TCached
<1>. HIDE DEF T
<1>. QED BY <1>2, <1>3, <1>4, SMT

\* The cache does not outgrow its size.
LEMMA CacheFits ==
    ASSUME TInv, \A k \in TKeys : items'[k] # N => items[k] # N
    PROVE  TCached'
<1>1. {k \in TKeys : items'[k] # N} \subseteq {k \in TKeys : items[k] # N} OBVIOUS
<1>. QED BY <1>1, CachedCount DEF TCached

\* The transient store counts as everybody does.
LEMMA SameCardinality == \A S : Transient!Cardinality(S) = Cardinality(S)
BY DEF Transient!Cardinality, Cardinality

\* What Set does: the item is cached, and at most one other is evicted.
LEMMA SetEffect ==
    ASSUME TInv, NEW k \in TKeys, NEW i \in Items, evicting = N, Transient!Set(k, i)
    PROVE  /\ items' \in [TKeys -> Items \cup {N}] /\ items'[k] = i /\ TCached'
           /\ evicting' \in Evictions \cup {N}
           /\ \/ evicting' = N
              \/ \E j \in TKeys \ {k} :
                   /\ items[j] # N /\ ~always /\ clock < items[j].exp
                   /\ evicting' = [key |-> j, val |-> Transient!ValueOf(items[j]), step |-> "value"]
           /\ \A j \in TKeys \ {k} :
                \/ items'[j] = items[j]
                \/ /\ items'[j] = N /\ items[j] # N
                   /\ \/ always \/ items[j].exp <= clock
                      \/ evicting' = [key |-> j, val |-> Transient!ValueOf(items[j]), step |-> "value"]
<1>. DEFINE others == {j \in TKeys \ {k} : items[j] # N}
<1>0. items \in [TKeys -> Items \cup {N}] /\ N \notin Items BY NIsNone DEF TInv, TTypes
<1>1. IsFiniteSet(others) /\ Cardinality(others) \in Nat /\ Cardinality(others) <= CacheSize
  <2>1. others \subseteq {j \in TKeys : items[j] # N} OBVIOUS
  <2>. HIDE DEF others
  <2>. QED BY <2>1, CachedCount
<1>2. IF items[k] # N \/ Cardinality(others) < CacheSize
      THEN items' = [items EXCEPT ![k] = i] /\ evicting' = N
      ELSE \E j \in others :
             /\ items' = [items EXCEPT ![k] = i, ![j] = N]
             /\ evicting' = IF always \/ Transient!checkExpiryTime(Transient!ValueOf(items[j])) THEN N
                            ELSE [key |-> j, val |-> Transient!ValueOf(items[j]), step |-> "value"]
  BY SameCardinality DEF Transient!Set, N
<1>3. CASE items[k] # N \/ Cardinality(others) < CacheSize
  <2>1. items' = [items EXCEPT ![k] = i] /\ evicting' = N
    <3>. HIDE DEF others
    <3>. QED BY <1>2, <1>3
  <2>2. TCached'
    <3>1. CASE items[k] # N
      <4>1. \A j \in TKeys : items'[j] # N => items[j] # N BY <1>0, <2>1, <3>1
      <4>. QED BY <4>1, CacheFits
    <3>2. CASE Cardinality(others) < CacheSize /\ items[k] = N
      <4>. DEFINE S == {j \in TKeys : items'[j] # N}
      <4>1. k \notin others OBVIOUS
      <4>2. IsFiniteSet(others \cup {k}) /\ Cardinality(others \cup {k}) = Cardinality(others) + 1
        <5>. HIDE DEF others
        <5>. QED BY <1>1, <4>1, FS_AddElement
      <4>3. S \subseteq others \cup {k} BY <1>0, <2>1
      <4>4. IsFiniteSet(S) /\ Cardinality(S) <= Cardinality(others) + 1
        <5>. HIDE DEF others, S
        <5>. QED BY <4>2, <4>3, FS_Subset
      <4>5. Cardinality(S) \in Nat
        <5>. HIDE DEF S
        <5>. QED BY <4>4, FS_CardinalityType
      <4>6. Cardinality(S) <= CacheSize
        <5>. HIDE DEF others, S
        <5>. QED BY <1>1, <3>2, <4>4, <4>5, TransientAssumption, SMT
      <4>. QED BY <4>6 DEF TCached
    <3>. QED BY <1>3, <3>1, <3>2
  <2>. QED BY <1>0, <2>1, <2>2
<1>4. CASE ~(items[k] # N \/ Cardinality(others) < CacheSize)
  <2>1. PICK j \in others :
          /\ items' = [items EXCEPT ![k] = i, ![j] = N]
          /\ evicting' = IF always \/ Transient!checkExpiryTime(Transient!ValueOf(items[j])) THEN N
                         ELSE [key |-> j, val |-> Transient!ValueOf(items[j]), step |-> "value"]
    <3>. HIDE DEF others
    <3>. QED BY <1>2, <1>4
  <2>2. j \in TKeys /\ j # k /\ items[j] # N /\ items[j] \in Items BY <1>0
  <2>3. Transient!checkExpiryTime(Transient!ValueOf(items[j])) <=> items[j].exp <= clock
    BY DEF Transient!checkExpiryTime, Transient!ValueOf
  <2>4. /\ items' \in [TKeys -> Items \cup {N}] /\ items'[k] = i /\ items'[j] = N
        /\ \A l \in TKeys \ {k, j} : items'[l] = items[l]
    BY <1>0, <2>1, <2>2
  <2>5. items[j].exp \in Int /\ clock \in Int /\ Transient!ValueOf(items[j]) \in Some
    BY <2>2, TimesInt, ClockNat DEF Items, Some, Transient!ValueOf
  <2>6. evicting' \in Evictions \cup {N} BY <2>1, <2>2, <2>5 DEF Evictions
  <2>7. TCached'
    <3>. DEFINE S == {l \in TKeys : items'[l] # N}
                R == others \ {j}
    <3>1. IsFiniteSet(R) /\ Cardinality(R) = Cardinality(others) - 1
      <4>1. j \in others BY <2>1
      <4>. HIDE DEF others
      <4>. QED BY <1>1, <4>1, FS_RemoveElement
    <3>2. k \notin R OBVIOUS
    <3>3. S \subseteq R \cup {k} BY <2>4
    <3>. HIDE DEF R, S, others
    <3>4. IsFiniteSet(R \cup {k}) /\ Cardinality(R \cup {k}) = Cardinality(R) + 1
      BY <3>1, <3>2, FS_AddElement
    <3>5. IsFiniteSet(S) /\ Cardinality(S) <= Cardinality(R) + 1 BY <3>3, <3>4, FS_Subset
    <3>6. Cardinality(S) \in Nat BY <3>5, FS_CardinalityType
    <3>7. Cardinality(S) <= CacheSize BY <1>1, <3>1, <3>5, <3>6, TransientAssumption, SMT
    <3>. QED BY <3>7 DEF TCached, S
  <2>8. CASE always \/ items[j].exp <= clock
    <3>1. evicting' = N BY <2>1, <2>3, <2>8
    <3>. QED BY <2>2, <2>4, <2>7, <2>8, <3>1
  <2>9. CASE ~always /\ clock < items[j].exp
    <3>1. evicting' = [key |-> j, val |-> Transient!ValueOf(items[j]), step |-> "value"]
      BY <2>1, <2>3, <2>5, <2>9, Order
    <3>. QED BY <2>2, <2>4, <2>6, <2>7, <2>9, <3>1
  <2>. QED BY <2>5, <2>8, <2>9, Order
<1>. QED BY <1>3, <1>4

\* The value of the database that a load takes.
LEMMA LoadEffect ==
    ASSUME TInv, NEW k \in TKeys, NEW fails, NEW l, l = Transient!loadFromDB(k, fails)
    PROVE  /\ l \in TLoads /\ l # N /\ l.began = clock /\ Mine(k, l.val)
           /\ l.val # N => l.val = tdb[k] /\ clock < l.val.exp
           /\ ~fails /\ l.val = N => tdb[k] = N \/ tdb[k].exp <= clock
<1>. DEFINE v == IF fails \/ tdb[k] = N \/ tdb[k].exp <= clock THEN N ELSE tdb[k]
<1>1. l = [val |-> v, began |-> clock]
  BY DEF Transient!loadFromDB, Transient!checkExpiryTime, N
<1>2. v \in Some \cup {N} /\ Mine(k, v) /\ clock \in Nat BY SMTT(30) DEF TInv, TTypes, THolds, Mine
<1>3. v # N => v = tdb[k] /\ clock < v.exp
  <2>. SUFFICES ASSUME v # N PROVE v = tdb[k] /\ clock < v.exp
    OBVIOUS
  <2>1. v = tdb[k] /\ tdb[k] # N /\ ~(tdb[k].exp <= clock) OBVIOUS
  <2>. HIDE DEF v
  <2>2. tdb[k].exp \in Int BY <2>1, TimesInt DEF TInv, TTypes, Some
  <2>3. clock < tdb[k].exp BY <2>1, <2>2, ClockNat, SMT
  <2>. QED BY <2>1, <2>3
<1>4. ~fails /\ v = N => tdb[k] = N \/ tdb[k].exp <= clock OBVIOUS
<1>. HIDE DEF v
<1>5. l \in TLoads /\ l.val = v /\ l.began = clock BY <1>1, <1>2, SMT DEF TLoads
<1>. QED BY <1>2, <1>3, <1>4, <1>5, NIsNone

-----------------------------------------------------------------------------
\* The values of earlier calls are in the database, and nothing else is anywhere.
LEMMA TStart == Transient!Init => TInv
<1>. SUFFICES ASSUME Transient!Init PROVE TInv
  OBVIOUS
<1>1. /\ clock = 0 /\ always \in BOOLEAN /\ tfaults = 0 /\ contended = {} /\ halfway = {}
      /\ items = [k \in TKeys |-> N] /\ loading = [k \in TKeys |-> N] /\ evicting = N /\ tpurge = N
      /\ value = [p \in Persisters |-> IF p \in Earlier THEN [by |-> p, exp |-> TMaxTime + TimeToLive] ELSE N]
      /\ stepOf = [p \in Persisters |-> IF p \in Earlier THEN "done" ELSE "new"]
      /\ tdb = [k \in TKeys |-> IF \E p \in Earlier : KeyOf[p] = k
                                THEN value[CHOOSE p \in Earlier : KeyOf[p] = k] ELSE N]
      /\ index = {<<value[p].exp, KeyOf[p]>> : p \in Earlier}
  BY DEF Transient!Init, N
<1>2. /\ TMaxTime \in Nat /\ TimeToLive \in Nat /\ TMaxFaults \in Nat /\ CacheSize \in Nat
      /\ Earlier \subseteq Persisters /\ \A p \in Persisters : KeyOf[p] \in TKeys
  BY TransientAssumption
<1>3. TMaxTime + TimeToLive \in Times /\ TMaxTime + TimeToLive \in Int BY <1>2, SMTT(30) DEF Times
<1>4. /\ value \in [Persisters -> Some \cup {N}] /\ \A p \in Persisters : value[p] = N \/ value[p].by = p
      /\ \A p \in Earlier : value[p] \in Some /\ value[p].by = p /\ value[p].exp \in Int
  <2>1. \A p \in Earlier : value[p] = [by |-> p, exp |-> TMaxTime + TimeToLive] BY <1>1, <1>2
  <2>2. \A p \in Persisters \ Earlier : value[p] = N BY <1>1
  <2>3. \A p \in Earlier : value[p] \in Some /\ value[p].by = p /\ value[p].exp \in Int
    <3>. SUFFICES ASSUME NEW p \in Earlier PROVE value[p] \in Some /\ value[p].by = p /\ value[p].exp \in Int
      OBVIOUS
    <3>. DEFINE v == [by |-> p, exp |-> TMaxTime + TimeToLive]
    <3>1. v \in Some /\ v.by = p /\ v.exp \in Int BY <1>2, <1>3 DEF Some
    <3>. QED BY <2>1, <3>1
  <2>. QED BY <1>1, <2>2, <2>3
<1>5. \A k \in TKeys : \/ tdb[k] = N
                       \/ \E p \in Earlier : KeyOf[p] = k /\ tdb[k] = value[p]
  <2>. SUFFICES ASSUME NEW k \in TKeys, tdb[k] # N
                PROVE  \E p \in Earlier : KeyOf[p] = k /\ tdb[k] = value[p]
    OBVIOUS
  <2>1. /\ \E p \in Earlier : KeyOf[p] = k
        /\ tdb[k] = value[CHOOSE p \in Earlier : KeyOf[p] = k]
    BY <1>1
  <2>. QED BY <2>1
<1>6. /\ \A k \in TKeys : tdb[k] \in Some \cup {N} /\ Mine(k, tdb[k])
      /\ \A k \in TKeys : tdb[k] # N => <<tdb[k].exp, k>> \in index
  <2>1. \A p \in Earlier : <<value[p].exp, KeyOf[p]>> \in index BY <1>1, SMTT(30)
  <2>. QED BY <1>4, <1>5, <2>1, SMTT(30) DEF Mine
<1>7. TTypes
  <2>1. \A p \in Earlier : value[p].exp \in Int /\ KeyOf[p] \in TKeys BY <1>2, <1>4
  <2>2. tdb \in [TKeys -> Some \cup {N}] BY <1>1, <1>6
  <2>3. stepOf \in [Persisters -> Steps] BY <1>1 DEF Steps
  <2>4. clock \in 0..TMaxTime /\ tfaults \in 0..TMaxFaults BY <1>1, <1>2, SMTT(30)
  <2>5. index \subseteq Int \X TKeys
    <3>. SUFFICES ASSUME NEW e \in index PROVE e \in Int \X TKeys
      OBVIOUS
    <3>1. PICK p \in Earlier : e = <<value[p].exp, KeyOf[p]>> BY <1>1
    <3>. QED BY <2>1, <3>1
  <2>. QED BY <1>1, <1>4, <2>2, <2>3, <2>4, <2>5 DEF TTypes
<1>8. TCalls BY <1>1, <1>4 DEF TCalls
<1>9. THolds BY <1>1, <1>6 DEF THolds, RightItem
<1>10. TCached
  <2>1. {k \in TKeys : items[k] # N} = {} BY <1>1
  <2>. QED BY <1>2, <2>1, FS_EmptySet, SMTT(30) DEF TCached
<1>11. TPurge /\ TIndexed BY <1>1, <1>6 DEF TPurge, TIndexed, Indexed
<1>12. TFirst
  BY <1>1 DEF TFirst, AboutToPut, Transient!InProgress
<1>13. TAlone
  <2>1. \A p \in Persisters : ~Moving(p) /\ (Has(p) => tdb[KeyOf[p]].by = p)
    BY <1>1, <1>2 DEF Moving, Has
  <2>. QED BY <2>1 DEF TAlone, Rivals
<1>. QED BY <1>7, <1>8, <1>9, <1>10, <1>11, <1>12, <1>13 DEF TInv

LEMMA TTick == ASSUME TInv, Transient!Tick PROVE TInv'
<1>1. /\ clock' = clock + 1 /\ clock < TMaxTime
      /\ UNCHANGED <<always, items, loading, evicting, tdb, index, tpurge, stepOf, value, contended,
                     halfway, tfaults>>
  BY DEF Transient!Tick
<1>2. clock \in Nat /\ TMaxTime \in Nat BY TransientAssumption, SMTT(30) DEF TInv, TTypes
<1>3. TTypes' BY <1>1, <1>2, SMTT(30) DEF TInv, TTypes
<1>4. TCalls' /\ TCached' BY <1>1 DEF TInv, TCalls, TCached
<1>5. THolds'
  <2>1. \A k \in TKeys : loading[k] # N => loading[k].began \in Nat BY DEF TInv, TTypes, TLoads
  <2>. QED BY <1>1, <1>2, <2>1, SMTT(30) DEF TInv, THolds, Mine, RightItem
<1>6. TPurge'
  <2>1. tpurge # N => \A e \in tpurge.entries : e[1] \in Int BY DEF TInv, TTypes, Purges
  <2>. QED BY <1>1, <1>2, <2>1, SMTT(30) DEF TInv, TPurge
<1>7. TIndexed' BY <1>1 DEF TInv, TIndexed, Indexed
<1>8. TFirst' /\ TAlone'
  <2>1. \A p \in Persisters : (Has(p)' <=> Has(p)) /\ (Moving(p)' <=> Moving(p)) BY <1>1 DEF Has, Moving
  <2>2. \A p \in Persisters : /\ Transient!InProgress(p)' <=> Transient!InProgress(p)
                              /\ AboutToPut(p)' <=> AboutToPut(p)
    BY <1>1 DEF Transient!InProgress, AboutToPut
  <2>3. clock <= clock' /\ clock' \in Nat BY <1>1, <1>2, SMTT(30)
  <2>. QED BY <1>1, <2>1, <2>2, <2>3, QuietStep
<1>. QED BY <1>3, <1>4, <1>5, <1>6, <1>7, <1>8 DEF TInv

\* A load begins: by a reader, or by a call of Persist.
LEMMA LoadMoves ==
    ASSUME TInv, NEW k \in TKeys, NEW fails, evicting = N, loading[k] = N,
           loading' = [loading EXCEPT ![k] = Transient!loadFromDB(k, fails)],
           UNCHANGED <<clock, evicting, tdb, value>>
    PROVE  /\ loading' \in [TKeys -> TLoads \cup {N}] /\ loading'[k] # N
           /\ \A j \in TKeys \ {k} : loading'[j] = loading[j]
           /\ \A j \in TKeys : loading'[j] # N => Mine(j, loading'[j].val) /\ loading'[j].began <= clock
           /\ loading'[k].val # N => loading'[k].val = tdb[k]
           /\ \A p \in Persisters : Moving(p)' => Moving(p) \/ (tdb[KeyOf[p]].by = p /\ ~Past(p))
           /\ ~fails /\ loading'[k].val = N => tdb[k] = N \/ tdb[k].exp <= clock
<1>. DEFINE l == Transient!loadFromDB(k, fails)
<1>1. /\ l \in TLoads /\ l # N /\ l.began = clock /\ Mine(k, l.val)
      /\ l.val # N => l.val = tdb[k] /\ clock < l.val.exp
      /\ ~fails /\ l.val = N => tdb[k] = N \/ tdb[k].exp <= clock
  BY LoadEffect, SMTT(30)
<1>2. loading' = [loading EXCEPT ![k] = l] /\ loading \in [TKeys -> TLoads \cup {N}] /\ clock \in Nat
  BY ClockNat DEF TInv, TTypes
<1>. HIDE DEF l
<1>3. /\ loading' \in [TKeys -> TLoads \cup {N}] /\ loading'[k] = l
      /\ \A j \in TKeys \ {k} : loading'[j] = loading[j]
  BY <1>1, <1>2
<1>4. \A j \in TKeys : loading'[j] # N => Mine(j, loading'[j].val) /\ loading'[j].began <= clock
  BY <1>1, <1>2, <1>3, ClockNat DEF TInv, THolds
<1>5. ASSUME NEW p \in Persisters, Moving(p)', ~Moving(p) PROVE tdb[KeyOf[p]].by = p /\ ~Past(p)
  <2>1. loading'[KeyOf[p]] # N /\ loading'[KeyOf[p]].val.by = p BY <1>5 DEF Moving
  <2>2. KeyOf[p] = k BY <1>3, <1>5, <2>1, TransientAssumption DEF Moving
  <2>3. l.val.by = p BY <1>3, <2>1, <2>2
  <2>4. l.val # N BY <2>3, NIsNone
  <2>5. value[p] = l.val BY <1>1, <2>3, <2>4 DEF Mine
  <2>6. l.val.exp \in Int BY <1>1, <2>4, TimesInt DEF TLoads, Some
  <2>. QED BY <1>1, <1>2, <2>2, <2>3, <2>4, <2>5, <2>6, ClockNat, Order DEF Past
<1>. QED BY <1>1, <1>3, <1>4, <1>5

LEMMA TStartLoad == ASSUME TInv, NEW k \in TKeys, Transient!StartLoad(k) PROVE TInv'
<1>1. /\ evicting = N /\ loading[k] = N /\ items' = [items EXCEPT ![k] = N]
      /\ UNCHANGED <<clock, always, evicting, tdb, index, tpurge, stepOf, value, contended, halfway>>
      /\ tfaults' = tfaults \/ (tfaults < TMaxFaults /\ tfaults' = tfaults + 1)
      /\ \E fails \in BOOLEAN : loading' = [loading EXCEPT ![k] = Transient!loadFromDB(k, fails)]
  BY DEF Transient!StartLoad, Transient!Unlocked, Transient!Fault, Transient!NoFault, N
<1>2. PICK fails \in BOOLEAN : loading' = [loading EXCEPT ![k] = Transient!loadFromDB(k, fails)]
  BY <1>1
<1>3. /\ loading' \in [TKeys -> TLoads \cup {N}] /\ loading'[k] # N
      /\ \A j \in TKeys \ {k} : loading'[j] = loading[j]
      /\ \A j \in TKeys : loading'[j] # N => Mine(j, loading'[j].val) /\ loading'[j].began <= clock
      /\ loading'[k].val # N => loading'[k].val = tdb[k]
      /\ \A p \in Persisters : Moving(p)' => Moving(p) \/ (tdb[KeyOf[p]].by = p /\ ~Past(p))
  BY <1>1, <1>2, LoadMoves
<1>4. /\ items' \in [TKeys -> Items \cup {N}] /\ items'[k] = N
      /\ \A j \in TKeys \ {k} : items'[j] = items[j]
  BY <1>1 DEF TInv, TTypes
<1>5. TTypes'
  <2>1. tfaults' \in 0..TMaxFaults BY <1>1, TransientAssumption, SMTT(30) DEF TInv, TTypes
  <2>. QED BY <1>1, <1>3, <1>4, <2>1 DEF TInv, TTypes
<1>6. \A p \in Persisters : KeyOf[p] \in TKeys /\ (stepOf[p] = "wait" => KeyOf[p] # k)
  BY <1>1, TransientAssumption DEF TInv, TCalls
<1>7. TCalls' BY <1>1, <1>3, <1>6, SMTT(30) DEF TInv, TCalls
<1>8. THolds' BY <1>1, <1>3, <1>4 DEF TInv, THolds, Mine, RightItem
<1>9. TCached'
  <2>1. \A j \in TKeys : items'[j] # N => items[j] # N BY <1>4
  <2>. QED BY <2>1, CacheFits
<1>10. TPurge' /\ TIndexed' BY <1>1 DEF TInv, TPurge, TIndexed, Indexed
<1>11. \A p \in Persisters : /\ Has(p)' => Has(p)
                             /\ Past(p)' <=> Past(p)
                             /\ Transient!InProgress(p)' <=> Transient!InProgress(p)
                             /\ AboutToPut(p)' => AboutToPut(p)
  <2>1. \A p \in Persisters : Has(p)' => Has(p)
    <3>. SUFFICES ASSUME NEW p \in Persisters, Has(p)' PROVE Has(p)
      OBVIOUS
    <3>1. CASE Moving(p)' BY <1>3, <3>1 DEF Moving, Has
    <3>2. CASE ~Moving(p)' BY <1>1, <1>4, <1>6, <3>2 DEF Moving, Has
    <3>. QED BY <3>1, <3>2
  <2>2. \A p \in Persisters : AboutToPut(p)' => AboutToPut(p) BY <1>1, <1>3, <1>6 DEF AboutToPut
  <2>. QED BY <1>1, <2>1, <2>2 DEF Past, Transient!InProgress
<1>12. TFirst'
  <2>. SUFFICES ASSUME NEW p \in Persisters \ contended, NEW q \in Rivals(p)
                PROVE  /\ Transient!InProgress(p)' => ~Transient!InProgress(q)'
                       /\ AboutToPut(p)' /\ Has(q)' => Past(q)'
    BY <1>1 DEF TFirst, Rivals
  <2>. QED BY <1>11 DEF TInv, TFirst, Rivals
<1>13. TAlone'
  <2>. SUFFICES ASSUME NEW p \in Persisters, Calm(p), NEW q \in Rivals(p)
                PROVE  /\ Has(p)' /\ Has(q)' => Past(p)' \/ Past(q)'
                       /\ Moving(p)' => stepOf'[q] # "put" /\ (Has(q)' => Past(q)')
    BY <1>1 DEF TAlone, Rivals, Calm
  <2>1. q \in Persisters BY DEF Rivals
  <2>2. Has(p)' /\ Has(q)' => Past(p)' \/ Past(q)' BY <1>11, <2>1 DEF TInv, TAlone
  <2>3. CASE Moving(p) BY <1>1, <1>11, <2>1, <2>2, <2>3 DEF TInv, TAlone
  <2>4. CASE tdb[KeyOf[p]].by = p /\ ~Past(p)
    <3>1. Has(p) BY <2>4 DEF Has
    <3>2. stepOf[q] # "put" /\ (Has(q) => Past(q)) BY <2>4, <3>1, CanMove
    <3>. QED BY <1>1, <1>11, <2>1, <2>2, <3>2
  <2>. QED BY <1>3, <2>2, <2>3, <2>4
<1>. QED BY <1>5, <1>7, <1>8, <1>9, <1>10, <1>12, <1>13 DEF TInv

\* A call of Persist looks for the key: it ends, or waits for a load.
LEMMA TPersistGet == ASSUME TInv, NEW p \in Persisters, Transient!PersistGet(p) PROVE TInv'
<1>. DEFINE k == KeyOf[p]
            rivals == {q \in Persisters : Transient!InProgress(q) /\ KeyOf[q] = k}
<1>0. k \in TKeys /\ \A q \in Persisters : KeyOf[q] \in TKeys BY TransientAssumption
<1>1. /\ evicting = N /\ stepOf[p] = "new"
      /\ UNCHANGED <<clock, always, evicting, tdb, index, tpurge, value, halfway>>
  BY DEF Transient!PersistGet, Transient!Unlocked, N
<1>2. CASE Transient!Usable(k) /\ stepOf' = [stepOf EXCEPT ![p] = "exists"]
           /\ UNCHANGED <<items, loading, contended, tfaults>>
  <2>1. /\ stepOf' \in [Persisters -> Steps] /\ stepOf'[p] = "exists"
        /\ \A q \in Persisters \ {p} : stepOf'[q] = stepOf[q]
    BY <1>2 DEF TInv, TTypes, Steps
  <2>2. TTypes' BY <1>1, <1>2, <2>1 DEF TInv, TTypes
  <2>3. TCalls' BY <1>1, <1>2, <2>1 DEF TInv, TCalls
  <2>4. THolds' /\ TCached' /\ TPurge' BY <1>1, <1>2 DEF TInv, THolds, Mine, RightItem, TCached, TPurge
  <2>5. TIndexed' BY <1>1, <1>2, <2>1 DEF TInv, TIndexed, Indexed
  <2>6. TFirst' /\ TAlone'
    <3>1. \A q \in Persisters : (Has(q)' => Has(q)) /\ (Moving(q)' => Moving(q))
      BY <1>1, <1>2, <2>1 DEF Has, Moving
    <3>2. \A q \in Persisters : /\ Transient!InProgress(q)' => Transient!InProgress(q)
                                /\ AboutToPut(q)' => AboutToPut(q)
                                /\ stepOf'[q] = "put" => stepOf[q] = "put"
      BY <1>1, <1>2, <2>1 DEF Transient!InProgress, AboutToPut
    <3>3. clock <= clock' /\ clock' \in Nat BY <1>1, ClockNat
    <3>. QED BY <1>1, <1>2, <3>1, <3>2, <3>3, QuietStep
  <2>. QED BY <2>2, <2>3, <2>4, <2>5, <2>6 DEF TInv
<1>3. ASSUME stepOf' = [stepOf EXCEPT ![p] = "wait"], items' = [items EXCEPT ![k] = N],
             NEW fails \in BOOLEAN,
             IF fails THEN loading[k] = N /\ tdb[k] # N /\ Transient!Fault ELSE Transient!NoFault,
             loading' = IF loading[k] # N THEN loading
                        ELSE [loading EXCEPT ![k] = Transient!loadFromDB(k, fails)],
             contended' = IF fails \/ loading[k] # N \/ rivals # {}
                          THEN contended \cup rivals \cup {p} ELSE contended
      PROVE  TInv'
  <2>1. /\ stepOf' \in [Persisters -> Steps] /\ stepOf'[p] = "wait"
        /\ \A q \in Persisters \ {p} : stepOf'[q] = stepOf[q]
    BY <1>3 DEF TInv, TTypes, Steps
  <2>2. /\ items' \in [TKeys -> Items \cup {N}] /\ items'[k] = N
        /\ \A j \in TKeys \ {k} : items'[j] = items[j]
    BY <1>0, <1>3 DEF TInv, TTypes
  <2>3. /\ loading' \in [TKeys -> TLoads \cup {N}] /\ loading'[k] # N
        /\ \A j \in TKeys : loading'[j] # N => Mine(j, loading'[j].val) /\ loading'[j].began <= clock
        /\ \A j \in TKeys \ {k} : loading'[j] = loading[j]
        /\ \A q \in Persisters : Moving(q)' => Moving(q) \/ (tdb[KeyOf[q]].by = q /\ ~Past(q))
        /\ loading[k] # N => loading' = loading
        /\ loading[k] = N /\ ~fails /\ loading'[k].val = N => tdb[k] = N \/ tdb[k].exp <= clock
    <3>1. CASE loading[k] # N
      <4>1. loading' = loading BY <1>3, <3>1
      <4>2. \A q \in Persisters : Moving(q)' => Moving(q) BY <1>1, <4>1 DEF Moving
      <4>. QED BY <3>1, <4>1, <4>2 DEF TInv, TTypes, THolds
    <3>2. CASE loading[k] = N
      <4>1. loading' = [loading EXCEPT ![k] = Transient!loadFromDB(k, fails)] BY <1>3, <3>2
      <4>. HIDE DEF k
      <4>. QED BY <1>0, <1>1, <3>2, <4>1, LoadMoves
    <3>. QED BY <3>1, <3>2
  <2>4. contended \subseteq contended' /\ contended' \subseteq Persisters
    BY <1>3 DEF TInv, TTypes
  <2>5. TTypes'
    <3>1. tfaults' \in 0..TMaxFaults
      BY <1>3, FaultsBounded
    <3>. QED BY <1>1, <2>1, <2>2, <2>3, <2>4, <3>1 DEF TInv, TTypes
  <2>6. TCalls'
    <3>1. \A q \in Persisters : stepOf'[q] = "wait" => loading'[KeyOf[q]] # N
      BY <1>0, <2>1, <2>3 DEF TInv, TCalls
    <3>. QED BY <1>1, <2>1, <3>1 DEF TInv, TCalls
  <2>7. THolds' BY <1>1, <2>2, <2>3, SMTT(30) DEF TInv, THolds, Mine, RightItem
  <2>8. TCached'
    <3>1. \A j \in TKeys : items'[j] # N => items[j] # N BY <2>2
    <3>. QED BY <3>1, CacheFits
  <2>9. TPurge' BY <1>1 DEF TInv, TPurge
  <2>10. TIndexed' BY <1>1, <2>1 DEF TInv, TIndexed, Indexed
  <2>11. \A q \in Persisters : (Has(q)' => Has(q)) /\ (Past(q)' <=> Past(q))
    <3>. SUFFICES ASSUME NEW q \in Persisters, Has(q)' PROVE Has(q)
      BY <1>1 DEF Past
    <3>1. CASE Moving(q)' BY <2>3, <3>1 DEF Moving, Has
    <3>2. CASE ~Moving(q)' BY <1>0, <1>1, <2>1, <2>2, <3>2 DEF Moving, Has
    <3>. QED BY <3>1, <3>2
  <2>12. \A q \in Persisters \ {p} :
           /\ Transient!InProgress(q)' <=> Transient!InProgress(q)
           /\ KeyOf[q] # k => (AboutToPut(q)' <=> AboutToPut(q))
           /\ AboutToPut(q)' => Transient!InProgress(q)'
           /\ stepOf'[q] = "put" <=> stepOf[q] = "put"
    BY <1>0, <2>1, <2>3 DEF Transient!InProgress, AboutToPut
  <2>13. TFirst'
    <3>. SUFFICES ASSUME NEW r \in Persisters \ contended', NEW q \in Rivals(r)
                  PROVE  /\ Transient!InProgress(r)' => ~Transient!InProgress(q)'
                         /\ AboutToPut(r)' /\ Has(q)' => Past(q)'
      BY DEF TFirst, Rivals
    <3>1. r \notin contended /\ q \in Persisters /\ q # r /\ KeyOf[q] = KeyOf[r] BY <2>4 DEF Rivals
    <3>2. CASE r = p
      <4>1. ~fails /\ loading[k] = N /\ rivals = {} BY <1>3, <3>2
      <4>2. ~Transient!InProgress(q)' BY <2>12, <3>1, <3>2, <4>1
      <4>3. ASSUME AboutToPut(p)', Has(q)' PROVE Past(q)
        <5>1. loading'[k].val = N BY <2>1, <4>3 DEF AboutToPut
        <5>2. tdb[k] = N \/ tdb[k].exp <= clock BY <2>3, <4>1, <5>1
        <5>3. stepOf'[q] # "value" BY <4>2 DEF Transient!InProgress
        <5>4. tdb[k].by = q
          BY <1>1, <2>2, <3>1, <3>2, <4>3, <5>1, <5>3, NIsNone DEF Has
        <5>5. tdb[k] # N BY <3>1, <5>4, NIsNone
        <5>6. value[q] = tdb[k] BY <1>0, <5>4, <5>5 DEF TInv, THolds, Mine
        <5>. QED BY <5>2, <5>5, <5>6 DEF Past
      <4>. QED BY <2>11, <3>1, <3>2, <4>2, <4>3
    <3>3. CASE r # p /\ KeyOf[r] = k
      <4>1. ~Transient!InProgress(r) BY <1>3, <3>3
      <4>. QED BY <2>12, <3>3, <4>1
    <3>4. CASE r # p /\ KeyOf[r] # k
      <4>1. q # p BY <3>1, <3>4
      <4>. QED BY <2>11, <2>12, <3>1, <3>4, <4>1 DEF TInv, TFirst
    <3>. QED BY <3>2, <3>3, <3>4
  <2>14. TAlone'
    <3>. SUFFICES ASSUME NEW r \in Persisters, Calm(r)', NEW q \in Rivals(r)
                  PROVE  /\ Has(r)' /\ Has(q)' => Past(r)' \/ Past(q)'
                         /\ Moving(r)' => stepOf'[q] # "put" /\ (Has(q)' => Past(q)')
      BY DEF TAlone, Rivals
    <3>1. q \in Persisters /\ Calm(r) /\ (stepOf'[q] = "put" => stepOf[q] = "put")
      BY <2>1, <2>4 DEF Rivals, Calm
    <3>2. Has(r)' /\ Has(q)' => Past(r)' \/ Past(q)' BY <2>11, <3>1 DEF TInv, TAlone
    <3>3. CASE Moving(r) BY <2>11, <3>1, <3>2, <3>3 DEF TInv, TAlone
    <3>4. CASE tdb[KeyOf[r]].by = r /\ ~Past(r)
      <4>1. Has(r) BY <3>4 DEF Has
      <4>2. stepOf[q] # "put" /\ (Has(q) => Past(q)) BY <3>1, <3>4, <4>1, CanMove
      <4>. QED BY <2>11, <3>1, <3>2, <4>2
    <3>. QED BY <2>3, <3>2, <3>3, <3>4
  <2>. QED BY <2>5, <2>6, <2>7, <2>8, <2>9, <2>10, <2>13, <2>14 DEF TInv
<1>. QED BY <1>2, <1>3 DEF Transient!PersistGet, N

\* What an eviction moves to the database has not expired.
LEMMA SetMoves ==
    ASSUME TInv, NEW k \in TKeys, NEW i \in Items, evicting = N, Transient!Set(k, i), always' = always
    PROVE  /\ evicting' # N => Mine(evicting'.key, evicting'.val) /\ ~always'
           /\ evicting' # N => evicting'.step = "value"
           /\ \A r \in Persisters : evicting' # N /\ evicting'.val.by = r =>
                Has(r) /\ ~Past(r) /\ KeyOf[r] # k
           /\ \A r \in Persisters : items'[KeyOf[r]] # N /\ items'[KeyOf[r]].by = r =>
                (items[KeyOf[r]] # N /\ items[KeyOf[r]].by = r) \/ (KeyOf[r] = k /\ i.by = r)
<1>0. \A r \in Persisters : KeyOf[r] \in TKeys BY TransientAssumption
<1>1. /\ items'[k] = i
      /\ \A j \in TKeys \ {k} : items'[j] = items[j] \/ items'[j] = N
      /\ \/ evicting' = N
         \/ \E j \in TKeys \ {k} :
              /\ items[j] # N /\ ~always /\ clock < items[j].exp
              /\ evicting' = [key |-> j, val |-> Transient!ValueOf(items[j]), step |-> "value"]
  BY SetEffect
<1>2. \A r \in Persisters : items'[KeyOf[r]] # N /\ items'[KeyOf[r]].by = r =>
                (items[KeyOf[r]] # N /\ items[KeyOf[r]].by = r) \/ (KeyOf[r] = k /\ i.by = r)
  BY <1>0, <1>1
<1>3. CASE evicting' # N
  <2>1. PICK j \in TKeys \ {k} :
          /\ items[j] # N /\ ~always /\ clock < items[j].exp
          /\ evicting' = [key |-> j, val |-> Transient!ValueOf(items[j]), step |-> "value"]
    BY <1>1, <1>3
  <2>. DEFINE v == Transient!ValueOf(items[j])
  <2>2. Mine(j, v) /\ v.by = items[j].by /\ v.exp = items[j].exp /\ items[j] \in Items
    BY <2>1 DEF TInv, TTypes, THolds, RightItem, Transient!ValueOf
  <2>. HIDE DEF v
  <2>3. evicting'.key = j /\ evicting'.val = v /\ evicting'.step = "value" BY <2>1 DEF v
  <2>4. v # N BY <2>2, NIsNone DEF Items
  <2>5. ASSUME NEW r \in Persisters, v.by = r PROVE Has(r) /\ ~Past(r) /\ KeyOf[r] # k
    <3>1. KeyOf[r] = j /\ value[r] = v BY <2>2, <2>4, <2>5 DEF Mine
    <3>2. v.exp \in Int /\ clock \in Int BY <2>2, TimesInt, ClockNat DEF Items
    <3>3. ~(v.exp <= clock) BY <2>1, <2>2, <3>2, Order
    <3>. QED BY <2>1, <2>2, <2>5, <3>1, <3>3 DEF Has, Past
  <2>. QED BY <1>2, <2>1, <2>2, <2>3, <2>5
<1>. QED BY <1>2, <1>3

\* A load ends: what it has found is cached.
LEMMA TFinishLoad == ASSUME TInv, NEW k \in TKeys, Transient!FinishLoad(k) PROVE TInv'
<1>1. PICK l : l = loading[k] OBVIOUS
<1>2. /\ evicting = N /\ l # N /\ loading' = [loading EXCEPT ![k] = N]
      /\ stepOf' = [p \in Persisters |-> IF stepOf[p] = "wait" /\ KeyOf[p] = k
                                         THEN IF l.val = N THEN "put" ELSE "exists" ELSE stepOf[p]]
      /\ UNCHANGED <<clock, always, tdb, index, tpurge, value, contended, halfway, tfaults>>
      /\ IF l.val = N THEN UNCHANGED <<items, evicting>>
         ELSE Transient!Set(k, Transient!Item(l.val, clock + Transient!Remaining(l), clock - l.began))
  BY <1>1 DEF Transient!FinishLoad, Transient!Unlocked, N
<1>0. \A p \in Persisters : KeyOf[p] \in TKeys BY TransientAssumption
<1>3. /\ stepOf' \in [Persisters -> Steps]
      /\ \A p \in Persisters : \/ stepOf'[p] = stepOf[p] /\ (stepOf[p] = "wait" => KeyOf[p] # k)
                               \/ stepOf[p] = "wait" /\ KeyOf[p] = k /\ l.val = N /\ stepOf'[p] = "put"
                               \/ stepOf[p] = "wait" /\ KeyOf[p] = k /\ stepOf'[p] = "exists"
  BY <1>2 DEF TInv, TTypes, Steps
<1>4. /\ loading' \in [TKeys -> TLoads \cup {N}] /\ loading'[k] = N
      /\ \A j \in TKeys \ {k} : loading'[j] = loading[j]
  BY <1>2 DEF TInv, TTypes
<1>5. l \in TLoads /\ Mine(k, l.val) /\ l.began <= clock /\ l.began \in Nat /\ clock \in Nat
  BY <1>1, <1>2, ClockNat DEF TInv, TTypes, THolds, TLoads
<1>6. TCalls'
  <2>1. \A p \in Persisters : stepOf'[p] = "wait" => loading'[KeyOf[p]] # N
    <3>. SUFFICES ASSUME NEW p \in Persisters, stepOf'[p] = "wait" PROVE loading'[KeyOf[p]] # N
      OBVIOUS
    <3>1. stepOf[p] = "wait" /\ KeyOf[p] # k BY <1>3
    <3>2. loading[KeyOf[p]] # N BY <3>1 DEF TInv, TCalls
    <3>. QED BY <1>0, <1>4, <3>1, <3>2
  <2>. QED BY <1>2, <1>3, <2>1 DEF TInv, TCalls
<1>7. TPurge' BY <1>2 DEF TInv, TPurge
<1>8. TIndexed' BY <1>2, <1>3 DEF TInv, TIndexed, Indexed
<1>9. \A p \in Persisters : /\ Transient!InProgress(p)' => Transient!InProgress(p)
                            /\ AboutToPut(p)' => AboutToPut(p)
                            /\ stepOf'[p] = "value" => stepOf[p] = "value"
                            /\ Past(p)' <=> Past(p)
                            /\ stepOf'[p] = "put" => stepOf[p] = "put" \/ (l.val = N /\ KeyOf[p] = k)
  <2>1. \A p \in Persisters : /\ Transient!InProgress(p)' => Transient!InProgress(p)
                              /\ stepOf'[p] = "value" => stepOf[p] = "value"
                              /\ stepOf'[p] = "put" => stepOf[p] = "put" \/ (l.val = N /\ KeyOf[p] = k)
    BY <1>3 DEF Transient!InProgress
  <2>2. \A p \in Persisters : AboutToPut(p)' => AboutToPut(p)
    BY <1>0, <1>1, <1>3, <1>4 DEF AboutToPut
  <2>. QED BY <1>2, <2>1, <2>2 DEF Past
<1>10. /\ TTypes' /\ THolds' /\ TCached' /\ \A p \in Persisters : Has(p)' => Has(p)
       /\ \A p \in Persisters : Moving(p)' =>
            \/ Moving(p) /\ (l.val = N => KeyOf[p] # k)
            \/ l.val # N /\ Has(p) /\ ~Past(p)
  <2>1. CASE l.val = N
    <3>1. UNCHANGED <<items, evicting>> BY <1>2, <2>1
    <3>2. TTypes' /\ TCached' BY <1>2, <1>3, <1>4, <3>1 DEF TInv, TTypes, TCached
    <3>3. THolds' BY <1>2, <1>4, <3>1 DEF TInv, THolds, Mine, RightItem
    <3>4. \A p \in Persisters : (Has(p)' => Has(p)) /\ (Moving(p)' => Moving(p) /\ KeyOf[p] # k)
      BY <1>0, <1>2, <1>4, <1>9, <3>1 DEF Has, Moving
    <3>. QED BY <2>1, <3>2, <3>3, <3>4
  <2>2. CASE l.val # N
    <3>. DEFINE late == clock - l.began
                until == clock + Transient!Remaining(l)
                i == Transient!Item(l.val, until, late)
    <3>0. l.val \in Some /\ l.val.exp \in Int BY <1>5, <2>2, TimesInt DEF TLoads, Some
    <3>1. late \in Nat /\ until \in Int /\ until = l.val.exp + late
      BY <1>5, <3>0, SMTT(30) DEF Transient!Remaining
    <3>2. Transient!Set(k, i) BY <1>2, <2>2
    <3>. HIDE DEF late, until
    <3>3. i = [by |-> l.val.by, exp |-> l.val.exp, until |-> until, late |-> late] BY DEF Transient!Item
    <3>. HIDE DEF i
    <3>4. i \in Items /\ i.by = l.val.by /\ i.exp = l.val.exp /\ i.until = i.exp + i.late
      BY <3>0, <3>1, <3>3 DEF Items, Some
    <3>5. Transient!ValueOf(i) = l.val BY <3>0, <3>4 DEF Transient!ValueOf, Some
    <3>6. /\ items' \in [TKeys -> Items \cup {N}] /\ items'[k] = i /\ TCached'
          /\ evicting' \in Evictions \cup {N}
          /\ \A j \in TKeys \ {k} : items'[j] = items[j] \/ items'[j] = N
      BY <1>2, <3>2, <3>4, SetEffect
    <3>7. /\ evicting' # N => Mine(evicting'.key, evicting'.val) /\ ~always'
          /\ \A r \in Persisters : evicting' # N /\ evicting'.val.by = r => Has(r) /\ ~Past(r)
          /\ \A r \in Persisters : items'[KeyOf[r]] # N /\ items'[KeyOf[r]].by = r =>
                (items[KeyOf[r]] # N /\ items[KeyOf[r]].by = r) \/ (KeyOf[r] = k /\ i.by = r)
      BY <1>2, <3>2, <3>4, SetMoves
    <3>8. TTypes' BY <1>2, <1>3, <1>4, <3>6 DEF TInv, TTypes
    <3>9. THolds'
      <4>1. \A j, v : Mine(j, v)' <=> Mine(j, v) BY <1>2 DEF Mine
      <4>2. \A j \in TKeys : RightItem(j, items'[j])
        BY <1>5, <3>4, <3>5, <3>6 DEF TInv, THolds, RightItem
      <4>3. \A j \in TKeys : RightItem(j, items[j])' BY <4>1, <4>2 DEF RightItem, Transient!ValueOf
      <4>4. \A j \in TKeys : loading'[j] # N => Mine(j, loading'[j].val) /\ loading'[j].began <= clock
        BY <1>4 DEF TInv, THolds
      <4>5. \A j \in TKeys : Mine(j, tdb'[j]) BY <1>2 DEF TInv, THolds
      <4>6. \A j \in TKeys : Mine(j, tdb[j])' BY <1>2, <4>5 DEF Mine
      <4>7. \A j \in TKeys : loading'[j] # N => Mine(j, loading[j].val)' /\ loading'[j].began <= clock'
        BY <1>2, <4>4 DEF Mine
      <4>8. evicting' # N => Mine(evicting.key, evicting.val)' /\ ~always' BY <1>2, <3>7 DEF Mine
      <4>. QED BY <4>3, <4>6, <4>7, <4>8 DEF THolds
    <3>10. \A p \in Persisters : Moving(p)' => Moving(p) \/ (Has(p) /\ ~Past(p))
      BY <1>0, <1>4, <3>7 DEF Moving
    <3>11. \A p \in Persisters : Has(p)' => Has(p)
      <4>. SUFFICES ASSUME NEW p \in Persisters, Has(p)' PROVE Has(p)
        OBVIOUS
      <4>1. CASE Moving(p)' BY <3>10, <4>1 DEF Has, Moving
      <4>2. CASE items'[KeyOf[p]] # N /\ items'[KeyOf[p]].by = p
        <5>1. (items[KeyOf[p]] # N /\ items[KeyOf[p]].by = p) \/ (KeyOf[p] = k /\ l.val.by = p)
          BY <3>4, <3>7, <4>2
        <5>. QED BY <1>1, <1>2, <5>1 DEF Has
      <4>3. CASE tdb'[KeyOf[p]].by = p \/ stepOf'[p] = "value" BY <1>2, <1>9, <4>3 DEF Has
      <4>. QED BY <4>1, <4>2, <4>3 DEF Has, Moving
    <3>. QED BY <2>2, <3>6, <3>8, <3>9, <3>10, <3>11
  <2>. QED BY <2>1, <2>2
<1>11. TFirst'
  <2>. SUFFICES ASSUME NEW p \in Persisters \ contended, NEW q \in Rivals(p)
                PROVE  /\ Transient!InProgress(p)' => ~Transient!InProgress(q)'
                       /\ AboutToPut(p)' /\ Has(q)' => Past(q)'
    BY <1>2 DEF TFirst, Rivals
  <2>. QED BY <1>9, <1>10 DEF TInv, TFirst, Rivals
<1>12. TAlone'
  <2>. SUFFICES ASSUME NEW p \in Persisters, Calm(p), NEW q \in Rivals(p)
                PROVE  /\ Has(p)' /\ Has(q)' => Past(p)' \/ Past(q)'
                       /\ Moving(p)' => stepOf'[q] # "put" /\ (Has(q)' => Past(q)')
    BY <1>2 DEF TAlone, Rivals, Calm
  <2>1. q \in Persisters /\ KeyOf[q] = KeyOf[p] BY DEF Rivals
  <2>2. Has(p)' /\ Has(q)' => Past(p)' \/ Past(q)' BY <1>9, <1>10, <2>1 DEF TInv, TAlone
  <2>3. CASE Moving(p) /\ (l.val = N => KeyOf[p] # k)
    BY <1>9, <1>10, <2>1, <2>2, <2>3 DEF TInv, TAlone
  <2>4. CASE l.val # N /\ Has(p) /\ ~Past(p)
    <3>1. stepOf[q] # "put" /\ (Has(q) => Past(q)) BY <2>4, CanMove
    <3>. QED BY <1>9, <1>10, <2>1, <2>2, <2>4, <3>1
  <2>. QED BY <1>10, <2>2, <2>3, <2>4
<1>. QED BY <1>6, <1>7, <1>8, <1>10, <1>11, <1>12 DEF TInv

\* A call of Persist puts its value: nobody else of its key is in progress, unless contended.
LEMMA TPut == ASSUME TInv, NEW p \in Persisters, Transient!PutWithExpire(p) PROVE TInv'
<1>. DEFINE k == KeyOf[p]
            v == [by |-> p, exp |-> clock + TimeToLive]
            i == Transient!Item(v, clock + TimeToLive, 0)
<1>0. k \in TKeys /\ \A q \in Persisters : KeyOf[q] \in TKeys BY TransientAssumption
<1>1. /\ evicting = N /\ stepOf[p] = "put" /\ value' = [value EXCEPT ![p] = v] /\ Transient!Set(k, i)
      /\ stepOf' = [stepOf EXCEPT ![p] = IF always THEN "value" ELSE "done"]
      /\ UNCHANGED <<clock, always, loading, tdb, index, tpurge, contended, halfway, tfaults>>
  BY DEF Transient!PutWithExpire, Transient!Unlocked, N
<1>2. clock \in Nat /\ clock + TimeToLive \in Times /\ clock + TimeToLive \in Int
  BY ClockNat, ExpiryTime
<1>3. v \in Some /\ v.by = p /\ v.exp = clock + TimeToLive BY <1>2 DEF Some
<1>4. i = [by |-> p, exp |-> clock + TimeToLive, until |-> clock + TimeToLive, late |-> 0]
  BY DEF Transient!Item
<1>. HIDE DEF i
<1>5. i \in Items /\ i.by = p /\ i.until = i.exp + i.late /\ Transient!ValueOf(i) = v
  BY <1>2, <1>4, SMTT(30) DEF Items, Transient!ValueOf
<1>. HIDE DEF v, k
<1>6. /\ value' \in [Persisters -> Some \cup {N}] /\ value'[p] = v
      /\ \A q \in Persisters \ {p} : value'[q] = value[q]
  BY <1>1, <1>3 DEF TInv, TTypes
<1>7. /\ stepOf' \in [Persisters -> Steps] /\ stepOf'[p] \in {"value", "done"}
      /\ \A q \in Persisters \ {p} : stepOf'[q] = stepOf[q]
  BY <1>1 DEF TInv, TTypes, Steps
<1>8. /\ items' \in [TKeys -> Items \cup {N}] /\ items'[k] = i /\ TCached'
      /\ evicting' \in Evictions \cup {N}
      /\ \A j \in TKeys \ {k} : items'[j] = items[j] \/ items'[j] = N
  BY <1>0, <1>1, <1>5, SetEffect
<1>9. /\ evicting' # N => Mine(evicting'.key, evicting'.val) /\ ~always'
      /\ \A r \in Persisters : evicting' # N /\ evicting'.val.by = r => Has(r) /\ ~Past(r) /\ KeyOf[r] # k
      /\ \A r \in Persisters : items'[KeyOf[r]] # N /\ items'[KeyOf[r]].by = r =>
                (items[KeyOf[r]] # N /\ items[KeyOf[r]].by = r) \/ (KeyOf[r] = k /\ i.by = r)
  BY <1>0, <1>1, <1>5, SetMoves
<1>10. value[p] = N /\ ~Has(p)
  <2>1. value[p] = N BY <1>1 DEF TInv, TCalls
  <2>. QED BY <2>1, HasValue
<1>11. \A j, w : Mine(j, w) => Mine(j, w)'
  <2>. SUFFICES ASSUME NEW j, NEW w, Mine(j, w), w # N PROVE Mine(j, w)'
    BY DEF Mine
  <2>1. w.by \in Persisters /\ w.by # p BY <1>10 DEF Mine, Some
  <2>. QED BY <1>6, <2>1 DEF Mine
<1>12. TTypes' BY <1>1, <1>6, <1>7, <1>8 DEF TInv, TTypes
<1>13. TCalls'
  <2>1. v # N BY <1>3, NIsNone
  <2>. QED BY <1>1, <1>3, <1>6, <1>7, <2>1 DEF TInv, TCalls
<1>14. THolds'
  <2>1. Mine(k, v)'
    <3>1. v \in Some /\ KeyOf[v.by] = k /\ value'[v.by] = v BY <1>3, <1>6 DEF k
    <3>2. k' = k /\ v' = v BY <1>1 DEF k, v
    <3>. QED BY <3>1, <3>2 DEF Mine
  <2>2. \A j \in TKeys : RightItem(j, items[j])'
    <3>1. \A j \in TKeys \ {k} : RightItem(j, items[j])'
      BY <1>8, <1>11 DEF TInv, THolds, RightItem, Transient!ValueOf
    <3>2. RightItem(k, items[k])'
      <4>1. k' = k /\ v' = v BY <1>1 DEF k, v
      <4>2. Transient!ValueOf(items'[k]) = v /\ items'[k].until = items'[k].exp + items'[k].late
        BY <1>5, <1>8
      <4>. QED BY <2>1, <4>1, <4>2 DEF RightItem, Mine, Transient!ValueOf
    <3>. QED BY <3>1, <3>2
  <2>3. \A j \in TKeys : loading'[j] # N => Mine(j, loading[j].val)' /\ loading'[j].began <= clock'
    BY <1>1, <1>11 DEF TInv, THolds
  <2>4. \A j \in TKeys : Mine(j, tdb[j])' BY <1>1, <1>11 DEF TInv, THolds
  <2>5. evicting' # N => Mine(evicting.key, evicting.val)' /\ ~always' BY <1>9, <1>11
  <2>. QED BY <2>2, <2>3, <2>4, <2>5 DEF THolds
<1>15. TPurge' BY <1>1 DEF TInv, TPurge
<1>16. TIndexed'
  <2>. SUFFICES ASSUME NEW j \in TKeys, tdb[j] # N PROVE Indexed(j)'
    BY <1>1 DEF TIndexed
  <2>1. Indexed(j) BY DEF TInv, TIndexed
  <2>. QED BY <1>1, <1>6, <1>7, <2>1 DEF Indexed
<1>17. \A q \in Persisters \ {p} : /\ Past(q)' <=> Past(q)
                                   /\ Transient!InProgress(q)' <=> Transient!InProgress(q)
                                   /\ AboutToPut(q)' <=> AboutToPut(q)
                                   /\ Has(q)' => Has(q)
  <2>1. ASSUME NEW q \in Persisters \ {p}, Has(q)' PROVE Has(q)
    <3>1. CASE evicting' # N /\ evicting'.val.by = q BY <1>9, <3>1
    <3>2. CASE items'[KeyOf[q]] # N /\ items'[KeyOf[q]].by = q BY <1>5, <1>9, <3>2 DEF Has
    <3>3. CASE tdb'[KeyOf[q]].by = q \/ stepOf'[q] = "value" BY <1>1, <1>7, <3>3 DEF Has
    <3>4. CASE loading'[KeyOf[q]] # N /\ loading'[KeyOf[q]].val.by = q BY <1>1, <3>4 DEF Has
    <3>. QED BY <2>1, <3>1, <3>2, <3>3, <3>4 DEF Has
  <2>. QED BY <1>1, <1>6, <1>7, <2>1 DEF Past, Transient!InProgress, AboutToPut
<1>18. ~AboutToPut(p)' /\ Transient!InProgress(p) /\ AboutToPut(p)
  BY <1>1, <1>7 DEF AboutToPut, Transient!InProgress
<1>19. TFirst'
  <2>. SUFFICES ASSUME NEW r \in Persisters \ contended, NEW q \in Rivals(r)
                PROVE  /\ Transient!InProgress(r)' => ~Transient!InProgress(q)'
                       /\ AboutToPut(r)' /\ Has(q)' => Past(q)'
    BY <1>1 DEF TFirst, Rivals
  <2>1. q \in Persisters /\ q # r BY DEF Rivals
  <2>2. AboutToPut(r) => Transient!InProgress(r) BY DEF AboutToPut, Transient!InProgress
  <2>3. Transient!InProgress(r) => ~Transient!InProgress(q) BY DEF TInv, TFirst
  <2>4. CASE r = p BY <1>17, <1>18, <2>1, <2>3, <2>4
  <2>5. CASE q = p /\ r # p BY <1>17, <1>18, <2>2, <2>3, <2>5
  <2>6. CASE q # p /\ r # p BY <1>17, <2>1, <2>6 DEF TInv, TFirst
  <2>. QED BY <2>4, <2>5, <2>6
<1>20. TAlone'
  <2>. SUFFICES ASSUME NEW r \in Persisters, Calm(r), NEW q \in Rivals(r)
                PROVE  /\ Has(r)' /\ Has(q)' => Past(r)' \/ Past(q)'
                       /\ Moving(r)' => stepOf'[q] # "put" /\ (Has(q)' => Past(q)')
    BY <1>1 DEF TAlone, Rivals, Calm
  <2>1. q \in Persisters /\ q # r /\ r \in Rivals(q) /\ r \notin contended /\ q \notin contended
    BY DEF Rivals, Calm
  <2>2. Has(r)' /\ Has(q)' => Past(r)' \/ Past(q)'
    <3>1. CASE r = p BY <1>17, <1>18, <2>1, <3>1 DEF TInv, TFirst
    <3>2. CASE q = p BY <1>17, <1>18, <2>1, <3>2 DEF TInv, TFirst
    <3>3. CASE q # p /\ r # p BY <1>17, <2>1, <3>3 DEF TInv, TAlone
    <3>. QED BY <3>1, <3>2, <3>3
  <2>3. ASSUME Moving(r)' PROVE stepOf'[q] # "put" /\ (Has(q)' => Past(q)')
    <3>1. CASE evicting' # N /\ evicting'.val.by = r
      <4>1. Has(r) /\ ~Past(r) /\ KeyOf[r] # k BY <1>9, <3>1
      <4>2. q # p BY <4>1 DEF Rivals, k
      <4>3. stepOf[q] # "put" /\ (Has(q) => Past(q)) BY <4>1, CanMove
      <4>. QED BY <1>7, <1>17, <2>1, <4>2, <4>3
    <3>2. CASE loading'[KeyOf[r]] # N /\ loading'[KeyOf[r]].val.by = r
      <4>1. Moving(r) BY <1>1, <3>2 DEF Moving
      <4>2. stepOf[q] # "put" /\ (Has(q) => Past(q)) BY <4>1 DEF TInv, TAlone
      <4>. QED BY <1>1, <1>7, <1>17, <2>1, <4>2
    <3>. QED BY <2>3, <3>1, <3>2 DEF Moving
  <2>. QED BY <2>2, <2>3
<1>. QED BY <1>8, <1>12, <1>13, <1>14, <1>15, <1>16, <1>19, <1>20 DEF TInv

\* An evicted value is written: the value, then its expiry entry.
LEMMA TAddEvicted == ASSUME TInv, Transient!AddKeyOfEvicted PROVE TInv'
<1>1. /\ evicting # N
      /\ UNCHANGED <<clock, always, items, loading, tpurge, stepOf, value, contended>>
  BY DEF Transient!AddKeyOfEvicted, N
<1>2. PICK k, v : k = evicting.key /\ v = evicting.val OBVIOUS
<1>3. evicting \in Evictions /\ k \in TKeys /\ v \in Some /\ v.exp \in Int /\ Mine(k, v) /\ ~always
  BY <1>1, <1>2, TimesInt DEF TInv, TTypes, THolds, Evictions, Some
<1>4. v # N /\ v.by \in Persisters /\ KeyOf[v.by] = k /\ Has(v.by)
  BY <1>1, <1>2, <1>3, NIsNone DEF Mine, Some, Has
<1>5. /\ tfaults' \in 0..TMaxFaults
      /\ \/ /\ evicting.step = "value" /\ tdb' = [tdb EXCEPT ![k] = v] /\ halfway' = halfway \ {k}
            /\ evicting' = [evicting EXCEPT !.step = "index"] /\ index' = index
         \/ /\ evicting.step = "index" /\ index' = index \cup {<<v.exp, k>>} /\ evicting' = N
            /\ UNCHANGED <<tdb, halfway>>
         \/ /\ evicting' = N /\ UNCHANGED <<tdb, index>>
            /\ halfway' = IF evicting.step = "index" THEN halfway \cup {k} ELSE halfway
  <2>1. /\ Transient!NoFault \/ Transient!Fault
        /\ \/ /\ evicting.step = "value" /\ tdb' = [tdb EXCEPT ![k] = v] /\ halfway' = halfway \ {k}
              /\ evicting' = [evicting EXCEPT !.step = "index"] /\ index' = index
           \/ /\ evicting.step = "index" /\ index' = index \cup {<<v.exp, k>>} /\ evicting' = N
              /\ UNCHANGED <<tdb, halfway>>
           \/ /\ evicting' = N /\ UNCHANGED <<tdb, index>>
              /\ halfway' = IF evicting.step = "index" THEN halfway \cup {k} ELSE halfway
    BY <1>2 DEF Transient!AddKeyOfEvicted, Transient!IndexWith, N
  <2>2. tfaults' \in 0..TMaxFaults
    BY <2>1, FaultsBounded
  <2>. QED BY <2>1, <2>2
<1>6. /\ tdb' \in [TKeys -> Some \cup {N}] /\ index' \subseteq Int \X TKeys /\ halfway' \subseteq TKeys
      /\ \A j \in TKeys : tdb'[j] = tdb[j] \/ (j = k /\ tdb'[j] = v)
  BY <1>3, <1>5, SMTT(30) DEF TInv, TTypes
<1>7. evicting' = N \/ (evicting' \in Evictions /\ evicting' = [key |-> k, val |-> v, step |-> "index"])
  <2>1. evicting = [key |-> k, val |-> v, step |-> evicting.step] BY <1>2, <1>3 DEF Evictions
  <2>2. [evicting EXCEPT !.step = "index"] = [key |-> k, val |-> v, step |-> "index"] BY <2>1, SMTT(30)
  <2>3. [key |-> k, val |-> v, step |-> "index"] \in Evictions BY <1>3 DEF Evictions
  <2>. QED BY <1>5, <2>2, <2>3
<1>8. evicting' # N => evicting'.key = k /\ evicting'.val = v BY <1>7, SMTT(30)
<1>9. TTypes' BY <1>1, <1>5, <1>6, <1>7 DEF TInv, TTypes
<1>10. TCalls' /\ TCached' /\ TPurge' BY <1>1 DEF TInv, TCalls, TCached, TPurge
<1>11. THolds'
  <2>1. \A j \in TKeys : Mine(j, tdb'[j]) BY <1>3, <1>6 DEF TInv, THolds
  <2>. QED BY <1>1, <1>3, <1>8, <2>1 DEF TInv, THolds, Mine, RightItem
<1>12. TIndexed'
  <2>. SUFFICES ASSUME NEW j \in TKeys, tdb'[j] # N PROVE Indexed(j)'
    BY DEF TIndexed
  <2>1. CASE /\ evicting.step = "value" /\ tdb' = [tdb EXCEPT ![k] = v] /\ halfway' = halfway \ {k}
             /\ evicting' = [evicting EXCEPT !.step = "index"] /\ index' = index
    <3>1. evicting' = [key |-> k, val |-> v, step |-> "index"] /\ evicting' # N
      BY <1>3, <1>7, <2>1, NIsNone DEF Evictions
    <3>2. CASE j = k
      <4>1. tdb'[j] = v BY <1>3, <2>1, <3>2 DEF TInv, TTypes
      <4>2. evicting'.key = j /\ evicting'.step = "index" /\ evicting'.val = tdb'[j]
        BY <3>1, <3>2, <4>1
      <4>. QED BY <3>1, <4>2 DEF Indexed
    <3>3. CASE j # k
      <4>1. tdb'[j] = tdb[j] BY <2>1, <3>3 DEF TInv, TTypes
      <4>2. Indexed(j) BY <4>1 DEF TInv, TIndexed
      <4>. QED BY <1>1, <2>1, <3>3, <4>1, <4>2, SMTT(30) DEF Indexed
    <3>. QED BY <3>2, <3>3
  <2>2. CASE /\ evicting.step = "index" /\ index' = index \cup {<<v.exp, k>>} /\ evicting' = N
             /\ UNCHANGED <<tdb, halfway>>
    <3>1. Indexed(j) BY <2>2 DEF TInv, TIndexed
    <3>. QED BY <1>1, <1>2, <2>2, <3>1 DEF Indexed
  <2>3. CASE /\ evicting' = N /\ UNCHANGED <<tdb, index>>
             /\ halfway' = IF evicting.step = "index" THEN halfway \cup {k} ELSE halfway
    <3>1. Indexed(j) BY <2>3 DEF TInv, TIndexed
    <3>. QED BY <1>1, <1>2, <2>3, <3>1 DEF Indexed
  <2>. QED BY <1>5, <2>1, <2>2, <2>3
<1>13. TFirst' /\ TAlone'
  <2>1. \A p \in Persisters : (Has(p)' => Has(p)) /\ (Moving(p)' => Moving(p))
    <3>1. \A p \in Persisters : Moving(p)' => Moving(p) BY <1>1, <1>2, <1>8 DEF Moving
    <3>2. \A p \in Persisters : tdb'[KeyOf[p]].by = p => tdb[KeyOf[p]].by = p \/ v.by = p
      BY <1>6, TransientAssumption
    <3>. QED BY <1>1, <1>2, <1>8, <3>1, <3>2 DEF Has
  <2>2. \A p \in Persisters : /\ Transient!InProgress(p)' => Transient!InProgress(p)
                              /\ AboutToPut(p)' => AboutToPut(p)
                              /\ stepOf'[p] = "put" => stepOf[p] = "put"
    BY <1>1 DEF Transient!InProgress, AboutToPut
  <2>3. clock <= clock' /\ clock' \in Nat BY <1>1, ClockNat
  <2>. QED BY <1>1, <2>1, <2>2, <2>3, QuietStep
<1>. QED BY <1>9, <1>10, <1>11, <1>12, <1>13 DEF TInv

\* ... and so is a value that is persisted at once.
LEMMA TAddPut == ASSUME TInv, NEW p \in Persisters, Transient!AddKeyOfPut(p) PROVE TInv'
<1>1. UNCHANGED <<clock, always, items, loading, evicting, tpurge, value, contended>>
  BY DEF Transient!AddKeyOfPut
<1>2. PICK k, v : k = KeyOf[p] /\ v = value[p] OBVIOUS
<1>3. PICK step \in {"index", "done"} : stepOf' = [stepOf EXCEPT ![p] = step]
  BY DEF Transient!AddKeyOfPut
<1>4. /\ tfaults' \in 0..TMaxFaults /\ stepOf[p] \in {"value", "index"}
      /\ \/ stepOf[p] = "value" /\ step = "done" /\ UNCHANGED <<tdb, index, halfway>>
         \/ /\ stepOf[p] = "value" /\ tdb' = [tdb EXCEPT ![k] = v] /\ halfway' = halfway \ {k}
            /\ stepOf'[p] = "index" /\ index' = index
         \/ /\ stepOf[p] = "index" /\ index' = index \cup {<<v.exp, k>>} /\ stepOf'[p] = "done"
            /\ UNCHANGED <<tdb, halfway>>
         \/ /\ stepOf[p] = "index" /\ halfway' = halfway \cup {k} /\ stepOf'[p] = "done"
            /\ UNCHANGED <<tdb, index>>
  <2>0. \A s : [stepOf EXCEPT ![p] = s][p] = s BY DEF TInv, TTypes
  <2>1. stepOf'[p] = step BY <1>3, <2>0
  <2>2. /\ Transient!NoFault \/ Transient!Fault
        /\ stepOf[p] \in {"value", "index"}
        /\ \/ stepOf[p] = "value" /\ stepOf'[p] = "done" /\ UNCHANGED <<tdb, index, halfway>>
           \/ /\ stepOf[p] = "value" /\ tdb' = [tdb EXCEPT ![k] = v] /\ halfway' = halfway \ {k}
              /\ stepOf'[p] = "index" /\ index' = index
           \/ /\ stepOf[p] = "index" /\ index' = index \cup {<<v.exp, k>>} /\ stepOf'[p] = "done"
              /\ UNCHANGED <<tdb, halfway>>
           \/ /\ stepOf[p] = "index" /\ halfway' = halfway \cup {k} /\ stepOf'[p] = "done"
              /\ UNCHANGED <<tdb, index>>
    BY <1>2, <2>0 DEF Transient!AddKeyOfPut, Transient!IndexWith
  <2>3. tfaults' \in 0..TMaxFaults
    BY <2>2, FaultsBounded
  <2>. QED BY <2>1, <2>2, <2>3
<1>5. /\ stepOf' \in [Persisters -> Steps] /\ stepOf'[p] = step
      /\ \A q \in Persisters \ {p} : stepOf'[q] = stepOf[q]
  BY <1>3 DEF TInv, TTypes, Steps
<1>6. /\ k \in TKeys /\ v \in Some /\ v # N /\ v.by = p /\ v.exp \in Int /\ Mine(k, v)
      /\ \A q \in Persisters : KeyOf[q] \in TKeys
  <2>1. v \in Some /\ v # N /\ v.by = p BY <1>2, <1>4, NIsNone DEF TInv, TTypes, TCalls
  <2>. QED BY <1>2, <2>1, TransientAssumption, TimesInt DEF Mine, Some
<1>7. /\ tdb' \in [TKeys -> Some \cup {N}] /\ index' \subseteq Int \X TKeys /\ halfway' \subseteq TKeys
      /\ \A j \in TKeys : tdb'[j] = tdb[j] \/ (j = k /\ tdb'[j] = v /\ stepOf[p] = "value")
  BY <1>4, <1>6, SMTT(30) DEF TInv, TTypes
<1>8. TTypes' BY <1>1, <1>4, <1>5, <1>7 DEF TInv, TTypes
<1>9. TCalls' BY <1>1, <1>2, <1>5, <1>6 DEF TInv, TCalls
<1>10. TCached' /\ TPurge' BY <1>1 DEF TInv, TCached, TPurge
<1>11. THolds'
  <2>1. \A j \in TKeys : Mine(j, tdb'[j]) BY <1>6, <1>7 DEF TInv, THolds
  <2>. QED BY <1>1, <2>1 DEF TInv, THolds, Mine, RightItem
<1>12. TIndexed'
  <2>. SUFFICES ASSUME NEW j \in TKeys, tdb'[j] # N PROVE Indexed(j)'
    BY DEF TIndexed
  <2>1. CASE stepOf[p] = "value" /\ step = "done" /\ UNCHANGED <<tdb, index, halfway>>
    <3>1. Indexed(j) BY <2>1 DEF TInv, TIndexed
    <3>. QED BY <1>1, <1>5, <2>1, <3>1 DEF Indexed
  <2>2. CASE /\ stepOf[p] = "value" /\ tdb' = [tdb EXCEPT ![k] = v] /\ halfway' = halfway \ {k}
             /\ stepOf'[p] = "index" /\ index' = index
    <3>1. CASE j = k
      <4>1. tdb'[j] = value'[p] BY <1>1, <1>2, <1>6, <2>2, <3>1 DEF TInv, TTypes
      <4>. QED BY <2>2, <4>1 DEF Indexed
    <3>2. CASE j # k
      <4>1. tdb'[j] = tdb[j] BY <2>2, <3>2 DEF TInv, TTypes
      <4>2. Indexed(j) BY <4>1 DEF TInv, TIndexed
      <4>. QED BY <1>1, <1>5, <2>2, <3>2, <4>1, <4>2, SMTT(30) DEF Indexed
    <3>. QED BY <3>1, <3>2
  <2>3. CASE /\ stepOf[p] = "index" /\ stepOf'[p] = "done" /\ UNCHANGED tdb
             /\ \/ index' = index \cup {<<v.exp, k>>} /\ UNCHANGED halfway
                \/ halfway' = halfway \cup {k} /\ UNCHANGED index
    <3>1. Indexed(j) /\ Mine(j, tdb[j]) /\ tdb[j] # N BY <2>3 DEF TInv, TIndexed, THolds
    <3>2. CASE value[p] = tdb[j]
      <4>1. j = k BY <1>2, <1>6, <3>1, <3>2 DEF Mine
      <4>. QED BY <1>2, <2>3, <3>2, <4>1 DEF Indexed
    <3>3. CASE value[p] # tdb[j] BY <1>1, <1>5, <2>3, <3>1, <3>3 DEF Indexed
    <3>. QED BY <3>2, <3>3
  <2>. QED BY <1>4, <2>1, <2>2, <2>3
<1>13. TFirst' /\ TAlone'
  <2>1. \A q \in Persisters : (Has(q)' => Has(q)) /\ (Moving(q)' => Moving(q))
    <3>1. \A q \in Persisters : Moving(q)' => Moving(q) BY <1>1 DEF Moving
    <3>2. \A q \in Persisters : tdb'[KeyOf[q]].by = q => tdb[KeyOf[q]].by = q \/ (p = q /\ stepOf[p] = "value")
      BY <1>6, <1>7
    <3>3. \A q \in Persisters : stepOf'[q] = "value" => stepOf[q] = "value" BY <1>5
    <3>. QED BY <1>1, <3>2, <3>3, <3>1 DEF Has
  <2>2. \A q \in Persisters : /\ Transient!InProgress(q)' => Transient!InProgress(q)
                              /\ AboutToPut(q)' => AboutToPut(q)
                              /\ stepOf'[q] = "put" => stepOf[q] = "put"
    BY <1>1, <1>4, <1>5 DEF Transient!InProgress, AboutToPut
  <2>3. clock <= clock' /\ clock' \in Nat BY <1>1, ClockNat
  <2>. QED BY <1>1, <2>1, <2>2, <2>3, QuietStep
<1>. QED BY <1>8, <1>9, <1>10, <1>11, <1>12, <1>13 DEF TInv

\* The purge looks for entries of the past, and deletes their keys.
LEMMA TPurges == ASSUME TInv, Transient!PurgeScan \/ Transient!PurgeDelete PROVE TInv'
<1>1. UNCHANGED <<clock, always, items, loading, evicting, stepOf, value, contended, halfway>>
  BY DEF Transient!PurgeScan, Transient!PurgeDelete
<1>2. /\ index' \subseteq index
      /\ tdb' \in [TKeys -> Some \cup {N}] /\ \A j \in TKeys : tdb'[j] = tdb[j] \/ tdb'[j] = N
      /\ \A j \in TKeys : tdb'[j] # N => \A e \in index \ index' : e[2] # j
      /\ tfaults' \in 0..TMaxFaults
      /\ tpurge' \in Purges \cup {N} /\ TPurge'
  <2>1. CASE Transient!PurgeScan
    <3>. DEFINE entries == {e \in index : e[1] < clock}
                low == {k \in LowKeys : tdb[k] # N}
    <3>1. tpurge' = [entries |-> entries, low |-> low] /\ UNCHANGED <<tdb, index, tfaults>>
      BY <2>1 DEF Transient!PurgeScan, N
    <3>2. entries \subseteq Int \X TKeys /\ low \subseteq LowKeys /\ \A e \in entries : e[1] < clock
      BY DEF TInv, TTypes
    <3>. HIDE DEF entries, low
    <3>3. tpurge' \in Purges /\ tpurge'.entries = entries BY <3>1, <3>2 DEF Purges
    <3>. QED BY <1>1, <3>1, <3>2, <3>3 DEF TInv, TTypes, TPurge
  <2>2. CASE Transient!PurgeDelete
    <3>1. /\ tpurge' = N /\ (Transient!NoFault \/ Transient!Fault)
          /\ \/ UNCHANGED <<index, tdb>>
             \/ /\ index' = index \ tpurge.entries
                /\ tdb' = [k \in TKeys |-> IF Transient!Purged(k) THEN N ELSE tdb[k]]
      BY <2>2 DEF Transient!PurgeDelete, N
    <3>2. tfaults' \in 0..TMaxFaults
      BY <3>1, FaultsBounded
    <3>3. TPurge' BY <3>1 DEF TPurge
    <3>4. CASE UNCHANGED <<index, tdb>> BY <3>1, <3>2, <3>3, <3>4 DEF TInv, TTypes
    <3>5. CASE /\ index' = index \ tpurge.entries
               /\ tdb' = [k \in TKeys |-> IF Transient!Purged(k) THEN N ELSE tdb[k]]
      <4>1. tdb' \in [TKeys -> Some \cup {N}] /\ \A j \in TKeys : tdb'[j] = tdb[j] \/ tdb'[j] = N
        BY <3>5 DEF TInv, TTypes
      <4>2. ASSUME NEW j \in TKeys, tdb'[j] # N, NEW e \in index \ index' PROVE e[2] # j
        <5>1. ~Transient!Purged(j) BY <3>5, <4>2
        <5>. QED BY <3>5, <5>1 DEF Transient!Purged
      <4>. QED BY <3>1, <3>2, <3>3, <3>5, <4>1, <4>2
    <3>. QED BY <3>1, <3>4, <3>5
  <2>. QED BY <2>1, <2>2
<1>3. TTypes' BY <1>1, <1>2 DEF TInv, TTypes
<1>4. TCalls' /\ TCached' BY <1>1 DEF TInv, TCalls, TCached
<1>5. THolds'
  <2>1. \A j \in TKeys : Mine(j, tdb'[j]) BY <1>2 DEF TInv, THolds, Mine
  <2>. QED BY <1>1, <2>1 DEF TInv, THolds, Mine, RightItem
<1>6. TIndexed'
  <2>. SUFFICES ASSUME NEW j \in TKeys, tdb'[j] # N PROVE Indexed(j)'
    BY DEF TIndexed
  <2>1. tdb'[j] = tdb[j] /\ Indexed(j) BY <1>2 DEF TInv, TIndexed
  <2>2. <<tdb[j].exp, j>> \in index => <<tdb[j].exp, j>> \in index' BY <1>2
  <2>. QED BY <1>1, <2>1, <2>2 DEF Indexed
<1>7. TFirst' /\ TAlone'
  <2>1. \A p \in Persisters : (Has(p)' => Has(p)) /\ (Moving(p)' => Moving(p))
    <3>1. \A p \in Persisters : tdb'[KeyOf[p]].by = p => tdb[KeyOf[p]].by = p
      BY <1>2, NIsNone, TransientAssumption
    <3>. QED BY <1>1, <3>1 DEF Has, Moving
  <2>2. \A p \in Persisters : /\ Transient!InProgress(p)' => Transient!InProgress(p)
                              /\ AboutToPut(p)' => AboutToPut(p)
                              /\ stepOf'[p] = "put" => stepOf[p] = "put"
    BY <1>1 DEF Transient!InProgress, AboutToPut
  <2>3. clock <= clock' /\ clock' \in Nat BY <1>1, ClockNat
  <2>. QED BY <1>1, <2>1, <2>2, <2>3, QuietStep
<1>. QED BY <1>2, <1>3, <1>4, <1>5, <1>6, <1>7 DEF TInv

LEMMA TRestart == ASSUME TInv, Transient!Restart PROVE TInv'
<1>1. /\ items' = [k \in TKeys |-> N] /\ loading' = [k \in TKeys |-> N] /\ evicting' = N /\ tpurge' = N
      /\ stepOf' = [p \in Persisters |-> IF Transient!InProgress(p) THEN "done" ELSE stepOf[p]]
      /\ halfway' = halfway \cup {KeyOf[p] : p \in {q \in Persisters : stepOf[q] = "index"}}
                            \cup (IF evicting # N /\ evicting.step = "index" THEN {evicting.key} ELSE {})
      /\ UNCHANGED <<clock, always, tdb, index, value, contended>> /\ Transient!Fault
  BY DEF Transient!Restart, N
<1>0. \A p \in Persisters : KeyOf[p] \in TKeys BY TransientAssumption
<1>2. /\ stepOf' \in [Persisters -> Steps]
      /\ \A p \in Persisters : ~Transient!InProgress(p)' /\ (stepOf'[p] = "new" => stepOf[p] = "new")
  BY <1>1 DEF TInv, TTypes, Steps, Transient!InProgress
<1>3. halfway' \subseteq TKeys
  <2>1. evicting # N => evicting.key \in TKeys BY DEF TInv, TTypes, Evictions
  <2>. QED BY <1>0, <1>1, <2>1, ZenonT(40) DEF TInv, TTypes
<1>4. TTypes'
  <2>1. tfaults' \in 0..TMaxFaults BY <1>1, FaultsBounded
  <2>. QED BY <1>1, <1>2, <1>3, <2>1 DEF TInv, TTypes
<1>5. TCalls' BY <1>1, <1>2 DEF TInv, TCalls, Transient!InProgress
<1>6. THolds' /\ TPurge' BY <1>1 DEF TInv, THolds, Mine, RightItem, TPurge
<1>7. TCached' BY <1>1, CacheFits
<1>8. TIndexed'
  <2>. SUFFICES ASSUME NEW j \in TKeys, tdb[j] # N PROVE Indexed(j)'
    BY <1>1 DEF TIndexed
  <2>1. Indexed(j) /\ Mine(j, tdb[j]) BY DEF TInv, TIndexed, THolds
  <2>2. CASE <<tdb[j].exp, j>> \in index \/ j \in halfway BY <1>1, <2>2 DEF Indexed
  <2>3. CASE evicting # N /\ evicting.key = j /\ evicting.step = "index" BY <1>1, <2>3 DEF Indexed
  <2>4. ASSUME NEW p \in Persisters, stepOf[p] = "index", value[p] = tdb[j] PROVE j \in halfway'
    <3>1. KeyOf[p] = j BY <2>1, <2>4 DEF Mine, TInv, TCalls
    <3>. QED BY <1>1, <2>4, <3>1
  <2>. QED BY <2>1, <2>2, <2>3, <2>4 DEF Indexed
<1>9. TFirst' /\ TAlone'
  <2>1. \A p \in Persisters : (Has(p)' => Has(p)) /\ ~Moving(p)'
    BY <1>0, <1>1, <1>2 DEF Has, Moving, Transient!InProgress
  <2>2. \A p \in Persisters : ~AboutToPut(p)' /\ stepOf'[p] # "put"
    BY <1>2 DEF Transient!InProgress, AboutToPut
  <2>3. clock <= clock' /\ clock' \in Nat BY <1>1, ClockNat
  <2>. QED BY <1>1, <1>2, <2>1, <2>2, <2>3, QuietStep
<1>. QED BY <1>4, <1>5, <1>6, <1>7, <1>8, <1>9 DEF TInv

LEMMA TNext == ASSUME TInv, [Transient!Next]_transientVars PROVE TInv'
<1>1. CASE UNCHANGED transientVars
  <2>1. UNCHANGED <<clock, always, items, loading, evicting, tdb, index, tpurge, stepOf, value,
                    contended, halfway, tfaults>>
    BY <1>1 DEF transientVars
  <2>2. TTypes' /\ TCalls' BY <2>1 DEF TInv, TTypes, TCalls
  <2>3. THolds' /\ TCached' /\ TPurge' BY <2>1 DEF TInv, THolds, Mine, RightItem, TCached, TPurge
  <2>4. TIndexed' BY <2>1 DEF TInv, TIndexed, Indexed
  <2>5. \A p : /\ Has(p)' = Has(p) /\ Past(p)' = Past(p) /\ Moving(p)' = Moving(p)
              /\ Rivals(p)' = Rivals(p) /\ AboutToPut(p)' = AboutToPut(p) /\ Calm(p)' = Calm(p)
              /\ Transient!InProgress(p)' = Transient!InProgress(p)
    BY <2>1 DEF Rivals, Calm, Has, Past, Moving, AboutToPut, Transient!InProgress
  <2>6. TFirst' BY <2>1, <2>5 DEF TInv, TFirst
  <2>7. TAlone' BY <2>1, <2>5 DEF TInv, TAlone
  <2>. QED BY <2>2, <2>3, <2>4, <2>6, <2>7 DEF TInv
<1>2. ASSUME NEW k \in TKeys, Transient!StartLoad(k) \/ Transient!FinishLoad(k) PROVE TInv'
  BY <1>2, TStartLoad, TFinishLoad
<1>3. ASSUME NEW p \in Persisters,
             Transient!PersistGet(p) \/ Transient!PutWithExpire(p) \/ Transient!AddKeyOfPut(p)
      PROVE  TInv'
  BY <1>3, TPersistGet, TPut, TAddPut
<1>. QED BY <1>1, <1>2, <1>3, TTick, TAddEvicted, TPurges, TRestart DEF Transient!Next

\* What the invariant says of what can be observed.
LEMMA TExact == TInv => Transient!TypeOK /\ Transient!ServedInTime /\ Transient!ExpiryIndexed
<1>. SUFFICES ASSUME TInv PROVE Transient!TypeOK /\ Transient!ServedInTime /\ Transient!ExpiryIndexed
  OBVIOUS
<1>1. \A v \in Some : Transient!IsValue(v) BY DEF Transient!IsValue, Some, Times
<1>2. Transient!IsValue(N) BY DEF Transient!IsValue, N
<1>3. \A k \in TKeys : items[k] # N =>
        Transient!IsValue(Transient!ValueOf(items[k])) /\ items[k].by # 0
  <2>. SUFFICES ASSUME NEW k \in TKeys, items[k] # N
                PROVE  Transient!IsValue(Transient!ValueOf(items[k])) /\ items[k].by # 0
    OBVIOUS
  <2>1. items[k] \in Items BY DEF TInv, TTypes
  <2>2. Transient!ValueOf(items[k]) \in Some BY <2>1 DEF Items, Some, Transient!ValueOf
  <2>. QED BY <1>1, <2>1, <2>2, TransientAssumption DEF Items
<1>4. Transient!TypeOK
  <2>1. \A k \in TKeys : Transient!IsValue(tdb[k]) /\ (tdb[k] # N => KeyOf[tdb[k].by] = k)
    BY <1>1, <1>2 DEF TInv, THolds, Mine
  <2>2. \A p \in Persisters : Transient!IsValue(value[p]) BY <1>1, <1>2 DEF TInv, TTypes
  <2>3. \A e \in index : e[2] \in TKeys BY DEF TInv, TTypes
  <2>4. Cardinality({k \in TKeys : items[k] # N}) <= CacheSize BY DEF TInv, TCached
  <2>5. /\ clock \in 0..TMaxTime /\ tfaults \in 0..TMaxFaults
        /\ contended \subseteq Persisters /\ halfway \subseteq TKeys
    BY DEF TInv, TTypes
  <2>. QED BY <1>3, <2>1, <2>2, <2>3, <2>4, <2>5, SameCardinality DEF Transient!TypeOK, N
<1>5. Transient!ServedInTime
  BY DEF Transient!ServedInTime, Transient!Usable, TInv, THolds, RightItem, N
<1>6. Transient!ExpiryIndexed
  BY DEF Transient!ExpiryIndexed, TInv, TIndexed, Indexed, N
<1>. QED BY <1>4, <1>5, <1>6

\* A value that is held is somewhere.
LEMMA HeldHas == ASSUME NEW p, Transient!Held(p) PROVE Has(p)
BY DEF Transient!Held, Has, N

\* A call that is not contended puts over nothing that has not expired.
LEMMA PutsOver == TInv => Transient!PutsOverNothing
<1>. SUFFICES ASSUME TInv, NEW p \in Persisters, NEW q \in Persisters, stepOf[q] = "put",
                     KeyOf[p] = KeyOf[q], Transient!Held(p), clock < value[p].exp
              PROVE  q \in contended
  BY DEF Transient!PutsOverNothing
<1>1. Has(p) BY HeldHas
<1>2. value[p] # N /\ value[p].exp \in Int /\ clock \in Int BY <1>1, HasValue, TimesInt, ClockNat DEF Some
<1>3. p # q BY <1>2 DEF TInv, TCalls
<1>4. ~Past(p) BY <1>2, Order DEF Past
<1>. QED BY <1>1, <1>3, <1>4 DEF TInv, TFirst, Rivals, AboutToPut

\* Setting a key keeps the value of p, unless it is another value under the key of p.
LEMMA SetKeeps ==
    ASSUME TInv, NEW p \in Persisters, ~always, items[KeyOf[p]] # N, items[KeyOf[p]].by = p,
           clock < value[p].exp, NEW k \in TKeys, NEW i \in Items, i # N, evicting = N, Transient!Set(k, i),
           KeyOf[p] = k => i.by = p
    PROVE  \/ items'[KeyOf[p]] # N /\ items'[KeyOf[p]].by = p
           \/ evicting' # N /\ evicting'.step = "value" /\ evicting'.val.by = p
<1>. DEFINE j == KeyOf[p]
<1>1. j \in TKeys BY TransientAssumption
<1>2. /\ items'[k] = i /\ evicting' \in Evictions \cup {N}
      /\ j # k => \/ items'[j] = items[j]
                  \/ always \/ items[j].exp <= clock
                  \/ evicting' = [key |-> j, val |-> Transient!ValueOf(items[j]), step |-> "value"]
  BY <1>1, SetEffect
<1>3. value[p].exp = items[j].exp /\ value[p].exp \in Int /\ clock \in Int
  <2>1. Mine(j, Transient!ValueOf(items[j])) BY <1>1 DEF TInv, THolds, RightItem
  <2>2. Transient!ValueOf(items[j]).by = p /\ Transient!ValueOf(items[j]).exp = items[j].exp
    BY DEF Transient!ValueOf
  <2>3. Transient!ValueOf(items[j]) # N BY <2>2, NIsNone
  <2>. QED BY <2>1, <2>2, <2>3, TimesInt, ClockNat DEF Mine, Some
<1>4. CASE j = k BY <1>2, <1>4
<1>5. CASE j # k /\ items'[j] = items[j] BY <1>5
<1>6. CASE evicting' = [key |-> j, val |-> Transient!ValueOf(items[j]), step |-> "value"]
  <2>1. evicting' # N BY <1>6 DEF N, Transient!None
  <2>2. evicting'.step = "value" /\ evicting'.val = Transient!ValueOf(items[j]) BY <1>6
  <2>3. Transient!ValueOf(items[j]).by = p BY DEF Transient!ValueOf
  <2>. QED BY <2>1, <2>2, <2>3
<1>. QED BY <1>2, <1>3, <1>4, <1>5, <1>6, Order

\* A value that has not expired is kept.
LEMMA Keeps == ASSUME TInv, [Transient!Next]_transientVars PROVE Transient!KeepsUnexpired
<1>. SUFFICES ASSUME NEW p \in Persisters, Transient!Held(p), ~Transient!Held(p)', clock' < value[p].exp,
                     tfaults' = tfaults, Calm(p)
              PROVE  /\ tpurge # N /\ tpurge' = N
                     /\ KeyOf[p] \in LowKeys \/ \E e \in tpurge.entries : e[2] = KeyOf[p] /\ e[1] # value[p].exp
  BY DEF Transient!KeepsUnexpired, Calm, N
<1>. DEFINE j == KeyOf[p]
<1>0. /\ j \in TKeys /\ Has(p) /\ value[p] \in Some /\ value[p] # N /\ value[p].by = p
      /\ value[p].exp \in Int /\ clock \in Nat /\ tfaults \in Int
  <2>1. j \in TKeys BY TransientAssumption
  <2>2. Has(p) BY HeldHas
  <2>3. value[p] \in Some /\ value[p] # N /\ value[p].by = p BY <2>2, HasValue
  <2>4. value[p].exp \in Times BY <2>3 DEF Some
  <2>5. value[p].exp \in Int /\ clock \in Nat /\ tfaults \in Int
    BY <2>4, TimesInt, ClockNat
  <2>. QED BY <2>1, <2>2, <2>3, <2>5
<1>1. /\ tdb'[j].by # p /\ stepOf'[p] # "value" /\ ~(~always' /\ items'[j] # N /\ items'[j].by = p)
      /\ ~(evicting' # N /\ evicting'.step = "value" /\ evicting'.val.by = p)
  BY DEF Transient!Held, N
<1>2. \/ tdb[j].by = p \/ stepOf[p] = "value"
      \/ evicting # N /\ evicting.step = "value" /\ evicting.val.by = p
      \/ ~always /\ items[j] # N /\ items[j].by = p
  BY DEF Transient!Held, N
<1>3. ~Transient!Fault
  <2>1. tfaults' # tfaults + 1 BY <1>0, Order
  <2>. QED BY <2>1 DEF Transient!Fault
<1>now. ASSUME clock' = clock PROVE ~(value[p].exp <= clock)
  <2>1. clock < value[p].exp BY <1>now
  <2>. QED BY <1>0, <2>1, ClockNat, Order
\* The item of p in the cache has its expiry.
<1>4. items[j] # N /\ items[j].by = p => items[j].exp = value[p].exp /\ items[j].exp <= items[j].until
  <2>. SUFFICES ASSUME items[j] # N, items[j].by = p
                PROVE  items[j].exp = value[p].exp /\ items[j].exp <= items[j].until
    OBVIOUS
  <2>1. Mine(j, Transient!ValueOf(items[j])) /\ items[j].until = items[j].exp + items[j].late
    BY <1>0 DEF TInv, THolds, RightItem
  <2>2. Transient!ValueOf(items[j]).by = p /\ Transient!ValueOf(items[j]).exp = items[j].exp
    BY DEF Transient!ValueOf
  <2>3. Transient!ValueOf(items[j]) # N BY <2>2, NIsNone
  <2>4. items[j].late \in Nat BY <1>0 DEF TInv, TTypes, Items
  <2>5. items[j].exp = value[p].exp BY <2>1, <2>2, <2>3 DEF Mine
  <2>6. items[j].exp <= items[j].exp + items[j].late BY <1>0, <2>4, <2>5, Order
  <2>. QED BY <2>1, <2>5, <2>6
\* The cache drops the item of p only after its expiry, when it is asked for the key.
<1>5. ASSUME clock' = clock, NEW k \in TKeys, ~Transient!Usable(k) PROVE items[j] # N /\ items[j].by = p => j # k
  <2>. SUFFICES ASSUME items[j] # N, items[j].by = p, j = k PROVE FALSE
    OBVIOUS
  <2>1. ~(clock < items[j].until) BY <1>5 DEF Transient!Usable, N
  <2>2. items[j].until \in Int BY <1>0 DEF TInv, TTypes, Items
  <2>3. items[j].exp = value[p].exp /\ items[j].exp <= items[j].until BY <1>4
  <2>4. clock < value[p].exp BY <1>5
  <2>. QED BY <1>0, <2>1, <2>2, <2>3, <2>4, ClockNat, Order
\* Nobody else of the key has a value that has not expired.
<1>6. ASSUME clock' = clock, NEW q \in Persisters, q # p, KeyOf[q] = j, Moving(q) \/ (Has(q) /\ ~Past(q))
      PROVE  FALSE
  <2>1. p \in Rivals(q) /\ Calm(q) BY <1>6 DEF Rivals, Calm
  <2>2. Past(p) BY <1>0, <1>6, <2>1 DEF TInv, TAlone
  <2>. QED BY <1>6, <1>now, <2>2 DEF Past
<1>7. CASE UNCHANGED <<always, tdb, items, evicting, stepOf>>
  BY <1>1, <1>2, <1>7
<1>8. CASE Transient!Tick \/ Transient!PurgeScan \/ UNCHANGED transientVars
  BY <1>7, <1>8 DEF Transient!Tick, Transient!PurgeScan, transientVars
<1>9. CASE Transient!Restart BY <1>3, <1>9 DEF Transient!Restart
<1>10. ASSUME NEW k \in TKeys, Transient!StartLoad(k) PROVE FALSE
  <2>1. /\ ~Transient!Usable(k) /\ items' = [items EXCEPT ![k] = N]
        /\ UNCHANGED <<clock, always, tdb, evicting, stepOf>>
    BY <1>10 DEF Transient!StartLoad, N
  <2>2. items[j] # N /\ items[j].by = p => items'[j] = items[j] BY <1>0, <1>5, <2>1 DEF TInv, TTypes
  <2>. QED BY <1>1, <1>2, <2>1, <2>2
<1>11. ASSUME NEW q \in Persisters, Transient!PersistGet(q) PROVE FALSE
  <2>1. UNCHANGED <<clock, always, tdb, evicting>> /\ stepOf[q] = "new"
    BY <1>11 DEF Transient!PersistGet
  <2>2. stepOf[p] = "value" => stepOf'[p] = "value" BY <1>11, <2>1 DEF Transient!PersistGet, TInv, TTypes
  <2>3. CASE UNCHANGED items BY <1>1, <1>2, <2>1, <2>2, <2>3
  <2>4. CASE ~Transient!Usable(KeyOf[q]) /\ items' = [items EXCEPT ![KeyOf[q]] = N]
    <3>1. KeyOf[q] \in TKeys BY TransientAssumption
    <3>2. items[j] # N /\ items[j].by = p => items'[j] = items[j]
      BY <1>0, <1>5, <2>1, <2>4, <3>1 DEF TInv, TTypes
    <3>. QED BY <1>1, <1>2, <2>1, <2>2, <3>2
  <2>. QED BY <1>11, <2>3, <2>4 DEF Transient!PersistGet, N
<1>12. ASSUME NEW k \in TKeys, Transient!FinishLoad(k) PROVE FALSE
  <2>1. PICK l : l = loading[k] OBVIOUS
  <2>2. /\ evicting = N /\ l # N /\ UNCHANGED <<clock, always, tdb, value>>
        /\ stepOf' = [r \in Persisters |-> IF stepOf[r] = "wait" /\ KeyOf[r] = k
                                           THEN IF l.val = N THEN "put" ELSE "exists" ELSE stepOf[r]]
        /\ IF l.val = N THEN UNCHANGED <<items, evicting>>
           ELSE Transient!Set(k, Transient!Item(l.val, clock + Transient!Remaining(l), clock - l.began))
    BY <1>12, <2>1 DEF Transient!FinishLoad, Transient!Unlocked, N
  <2>3. stepOf[p] = "value" => stepOf'[p] = "value" BY <2>2
  <2>4. CASE l.val = N
    <3>1. UNCHANGED <<items, evicting>> BY <2>2, <2>4
    <3>. QED BY <1>1, <1>2, <2>2, <2>3, <3>1
  <2>5. CASE l.val # N
    <3>. DEFINE late == clock - l.began
                until == clock + Transient!Remaining(l)
                i == Transient!Item(l.val, until, late)
    <3>0. /\ l \in TLoads /\ l.val \in Some /\ l.val.exp \in Int /\ l.began \in Nat /\ l.began <= clock
          /\ l.val.by \in Persisters /\ KeyOf[l.val.by] = k
      BY <2>1, <2>2, <2>5, TimesInt DEF TInv, TTypes, THolds, Mine, TLoads, Some
    <3>1. late \in Nat /\ until \in Int BY <3>0, ClockNat, SMTT(30) DEF Transient!Remaining
    <3>2. Transient!Set(k, i) BY <2>2, <2>5
    <3>. HIDE DEF late, until
    <3>3. i = [by |-> l.val.by, exp |-> l.val.exp, until |-> until, late |-> late] BY DEF Transient!Item
    <3>. HIDE DEF i
    <3>4. i \in Items /\ i.by = l.val.by /\ i # N BY <3>0, <3>1, <3>3, NIsNone, SMTT(30) DEF Items, Some
    <3>5. j = k => i.by = p
      <4>. SUFFICES ASSUME j = k, l.val.by # p PROVE FALSE
        BY <3>4
      <4>1. Moving(l.val.by) BY <2>1, <2>2, <3>0 DEF Moving
      <4>. QED BY <1>6, <2>2, <3>0, <4>1
    <3>6. ~always /\ items[j] # N /\ items[j].by = p BY <1>1, <1>2, <2>2, <2>3
    <3>7. clock < value[p].exp BY <2>2
    <3>8. \/ items'[j] # N /\ items'[j].by = p
          \/ evicting' # N /\ evicting'.step = "value" /\ evicting'.val.by = p
      BY <2>2, <3>2, <3>4, <3>5, <3>6, <3>7, SetKeeps
    <3>. QED BY <1>1, <2>2, <3>6, <3>8
  <2>. QED BY <2>4, <2>5
<1>13. ASSUME NEW q \in Persisters, Transient!PutWithExpire(q) PROVE FALSE
  <2>. DEFINE v == [by |-> q, exp |-> clock + TimeToLive]
              i == Transient!Item(v, clock + TimeToLive, 0)
  <2>1. /\ evicting = N /\ stepOf[q] = "put" /\ Transient!Set(KeyOf[q], i)
        /\ stepOf' = [stepOf EXCEPT ![q] = IF always THEN "value" ELSE "done"]
        /\ UNCHANGED <<clock, always, tdb>>
    BY <1>13 DEF Transient!PutWithExpire, Transient!Unlocked, N
  <2>2. q # p BY <1>0, <2>1 DEF TInv, TCalls
  <2>3. KeyOf[q] # j
    <3>. SUFFICES ASSUME KeyOf[q] = j PROVE FALSE
      OBVIOUS
    <3>1. q \notin contended /\ p \in Rivals(q) BY <2>2 DEF Calm, Rivals
    <3>2. Past(p) BY <1>0, <2>1, <3>1 DEF TInv, TFirst, AboutToPut
    <3>. QED BY <1>now, <2>1, <3>2 DEF Past
  <2>4. i = [by |-> q, exp |-> clock + TimeToLive, until |-> clock + TimeToLive, late |-> 0]
    BY DEF Transient!Item
  <2>. HIDE DEF i
  <2>5. i \in Items /\ i # N
    <3>1. clock + TimeToLive \in Times /\ clock + TimeToLive \in Int
      BY ExpiryTime
    <3>2. i \in Items BY <2>4, <3>1 DEF Items
    <3>. QED BY <3>2, NIsNone
  <2>6. stepOf[p] = "value" => stepOf'[p] = "value" BY <2>1, <2>2 DEF TInv, TTypes
  <2>7. ~always /\ items[j] # N /\ items[j].by = p BY <1>1, <1>2, <2>1, <2>6
  <2>8. clock < value[p].exp /\ KeyOf[q] \in TKeys BY <2>1, TransientAssumption
  <2>9. \/ items'[j] # N /\ items'[j].by = p
        \/ evicting' # N /\ evicting'.step = "value" /\ evicting'.val.by = p
    BY <2>1, <2>3, <2>5, <2>7, <2>8, SetKeeps
  <2>. QED BY <1>1, <2>1, <2>7, <2>9
<1>14. CASE Transient!AddKeyOfEvicted
  <2>1. evicting # N /\ UNCHANGED <<clock, always, items, stepOf>>
    BY <1>14 DEF Transient!AddKeyOfEvicted, N
  <2>2. PICK k, v : k = evicting.key /\ v = evicting.val OBVIOUS
  <2>3. /\ k \in TKeys /\ v \in Some /\ v.by \in Persisters /\ KeyOf[v.by] = k
    BY <2>1, <2>2, NIsNone DEF TInv, TTypes, THolds, Mine, Evictions, Some
  <2>4. \/ evicting.step = "value" /\ tdb' = [tdb EXCEPT ![k] = v]
        \/ evicting.step = "index" /\ UNCHANGED tdb
    BY <1>3, <1>14, <2>2 DEF Transient!AddKeyOfEvicted
  <2>5. CASE evicting.step = "index" /\ UNCHANGED tdb BY <1>1, <1>2, <2>1, <2>5
  <2>6. CASE evicting.step = "value" /\ tdb' = [tdb EXCEPT ![k] = v]
    <3>1. v.by # p BY <1>0, <1>1, <2>3, <2>6 DEF TInv, TTypes
    <3>2. Moving(v.by) BY <2>1, <2>2 DEF Moving
    <3>3. k # j BY <1>6, <2>1, <2>3, <3>1, <3>2
    <3>4. tdb'[j] = tdb[j] BY <1>0, <2>6, <3>3 DEF TInv, TTypes
    <3>. QED BY <1>1, <1>2, <2>1, <2>2, <3>1, <3>4
  <2>. QED BY <2>4, <2>5, <2>6
<1>15. ASSUME NEW q \in Persisters, Transient!AddKeyOfPut(q) PROVE FALSE
  <2>0. UNCHANGED <<clock, always, items, evicting>> BY <1>15 DEF Transient!AddKeyOfPut
  <2>1. \/ /\ stepOf[q] = "value" /\ Transient!checkExpiryTime(value[q]) /\ UNCHANGED tdb
           /\ stepOf' = [stepOf EXCEPT ![q] = "done"]
        \/ /\ stepOf[q] = "value" /\ ~Transient!checkExpiryTime(value[q])
           /\ tdb' = [tdb EXCEPT ![KeyOf[q]] = value[q]] /\ stepOf' = [stepOf EXCEPT ![q] = "index"]
        \/ stepOf[q] = "index" /\ UNCHANGED tdb /\ stepOf' = [stepOf EXCEPT ![q] = "done"]
    BY <1>3, <1>15 DEF Transient!AddKeyOfPut
  <2>2. q # p /\ stepOf[p] = "value" => stepOf'[p] = "value" BY <2>1 DEF TInv, TTypes
  <2>3. CASE stepOf[q] = "value" /\ Transient!checkExpiryTime(value[q]) /\ UNCHANGED tdb
    <3>1. q # p BY <1>now, <2>0, <2>3 DEF Transient!checkExpiryTime
    <3>. QED BY <1>1, <1>2, <2>0, <2>2, <2>3, <3>1, ZenonT(40)
  <2>4. CASE stepOf[q] = "index" /\ UNCHANGED tdb
    <3>1. stepOf[p] = "value" => stepOf'[p] = "value" BY <2>2, <2>4
    <3>. QED BY <1>1, <1>2, <2>0, <2>4, <3>1
  <2>5. CASE /\ stepOf[q] = "value" /\ ~Transient!checkExpiryTime(value[q])
             /\ tdb' = [tdb EXCEPT ![KeyOf[q]] = value[q]]
    <3>1. Has(q) /\ ~Past(q) /\ value[q].by = q /\ KeyOf[q] \in TKeys
      BY <2>5, TransientAssumption, NIsNone DEF Has, Past, Transient!checkExpiryTime, TInv, TCalls
    <3>2. q # p
      <4>1. q = p => tdb'[j] = value[q] BY <1>0, <2>5 DEF TInv, TTypes
      <4>. QED BY <1>1, <3>1, <4>1
    <3>3. KeyOf[q] # j BY <1>6, <2>0, <3>1, <3>2
    <3>4. tdb'[j] = tdb[j] BY <1>0, <2>5, <3>3 DEF TInv, TTypes
    <3>. QED BY <1>1, <1>2, <2>0, <2>2, <3>2, <3>4
  <2>. QED BY <2>1, <2>3, <2>4, <2>5
<1>16. CASE Transient!PurgeDelete
  <2>1. /\ tpurge # N /\ tpurge' = N /\ UNCHANGED <<clock, always, items, evicting, stepOf>>
        /\ tdb' = [k \in TKeys |-> IF Transient!Purged(k) THEN N ELSE tdb[k]]
    BY <1>3, <1>16 DEF Transient!PurgeDelete, N
  <2>2. Transient!Purged(j) BY <1>0, <1>1, <1>2, <2>1
  <2>3. tpurge \in Purges BY <2>1 DEF TInv, TTypes
  <2>4. CASE j \in tpurge.low BY <2>1, <2>3, <2>4, ZenonT(40) DEF Purges
  <2>5. ASSUME NEW e \in tpurge.entries, e[2] = j PROVE e[1] # value[p].exp
    <3>1. e[1] < clock /\ e[1] \in Int BY <2>1, <2>3 DEF TInv, TPurge, Purges
    <3>2. clock < value[p].exp BY <2>1
    <3>. QED BY <1>0, <3>1, <3>2, ClockNat, Order
  <2>. QED BY <2>1, <2>2, <2>4, <2>5 DEF Transient!Purged
<1>. QED BY <1>8, <1>9, <1>10, <1>11, <1>12, <1>13, <1>14, <1>15, <1>16 DEF Transient!Next

-----------------------------------------------------------------------------
\* Whatever path a value took, it is found under its own hash in a DCAS collection
\* (beforeSave, dcas.Decorator).
THEOREM FoundUnderItsHash == Spec => []ContentAddressed
<1>1. Init => OInv BY OInit
<1>2. OInv /\ [Next]_vars => OInv' BY ONext
<1>3. OInv => ContentAddressed BY OExact
<1>. QED BY <1>1, <1>2, <1>3, PTL DEF Spec

\* The caches of both stores serve a value after its expiry for no longer than its load took,
\* do not hide a put of the peer itself, and what goes to the database of the transient store
\* can be found by the purge (cache.Put, load, updateCache, AddKey).
THEOREM CachesStayExact == Spec /\ Transient!Spec => []CachesExact
<1>1. Init => OInv BY OInit
<1>2. OInv /\ [Next]_vars => OInv' BY ONext
<1>3. Transient!Init => TInv BY TStart
<1>4. TInv /\ [Transient!Next]_(Transient!vars) => TInv'
  BY TNext DEF Transient!vars, transientVars
<1>5. OInv /\ TInv => CachesExact BY OExact, TExact DEF CachesExact
<1>. QED BY <1>1, <1>2, <1>3, <1>4, <1>5, PTL DEF Spec, Transient!Spec

\* Faults are only counted up.
LEMMA FaultsCount == ASSUME faults \in Nat, [Next]_vars PROVE (faults \in Nat)'
<1>. DEFINE Counted == faults' = faults \/ faults' = faults + 1
<1>1. ASSUME UNCHANGED vars \/ Tick PROVE Counted BY <1>1 DEF vars, Tick
<1>2. ASSUME NEW p \in Peers, FinishPut(p) \/ Restart(p) PROVE Counted BY <1>2 DEF FinishPut, Restart
<1>3. ASSUME NEW p \in Peers, FinishLoad(p) \/ StartPurge(p) \/ DeleteExpiredKeys(p) PROVE Counted
  BY <1>3 DEF FinishLoad, StartPurge, DeleteExpiredKeys
<1>4. ASSUME NEW p \in Peers, NEW t \in Txs, Persist(p, t) PROVE Counted BY <1>4 DEF Persist
<1>5. ASSUME NEW p \in Peers, NEW k \in Keys, Evict(p, k) \/ StartLoad(p, k) PROVE Counted
  BY <1>5 DEF Evict, StartLoad
<1>6. ASSUME NEW p \in Peers, NEW q \in Peers, NEW t \in Readers, NEW k \in Keys,
             persistMissingKey(p, q, t, k)
      PROVE  Counted
  BY <1>6 DEF persistMissingKey
<1>7. Counted
  <2>. HIDE DEF Counted
  <2>. QED BY <1>1, <1>2, <1>3, <1>4, <1>5, <1>6 DEF Next
<1>. QED BY <1>7, SMTT(30)

\* A document is deleted only by a transaction or after its expiry; a write that meets no other
\* takes effect; a transient value that was accepted is held until it expires, and is not
\* replaced before (DB.Put, DeleteExpiredKeys, PutWithExpire, persistKVWrite), with the
\* exceptions of the parts.
THEOREM ValuesAreKept == Spec /\ Transient!Spec => ValuesKept
<1>1. Init => OInv /\ faults \in Nat BY OInit, SMTT(30) DEF Init
<1>2. OInv /\ faults \in Nat /\ [Next]_vars => OInv' /\ (faults \in Nat)' BY ONext, FaultsCount
<1>3. Transient!Init => TInv BY TStart
<1>4. TInv /\ [Transient!Next]_(Transient!vars) => TInv' /\ Transient!KeepsUnexpired /\ Transient!PutsOverNothing
  BY TNext, Keeps, PutsOver DEF Transient!vars, transientVars
<1>5. OInv /\ [Next]_vars =>
        [\A k \in Keys : db[k] # None /\ db'[k] = None =>
           \/ Expired(db[k])
           \/ \E p \in Peers : put[p] # NoPut /\ put'[p] = NoPut /\ put[p].key = k
                               /\ put[p].doc = None]_vars
  BY OPurges
<1>6. OInv /\ faults \in Nat /\ [Next]_vars =>
        [\A p \in Peers : put[p] # NoPut /\ put'[p] = NoPut /\ ~put[p].clash /\ faults' = faults
           => db'[put[p].key] = put[p].doc]_vars
  BY OWrites
<1>7. Spec => PurgeExact BY <1>1, <1>2, <1>5, PTL DEF Spec, PurgeExact
<1>8. Spec => LostOnlyToConflict BY <1>1, <1>2, <1>6, PTL DEF Spec, LostOnlyToConflict
<1>9. Transient!Spec => [][Transient!KeepsUnexpired /\ Transient!PutsOverNothing]_MCvars
  BY <1>3, <1>4, PTL DEF Transient!Spec
<1>. QED BY <1>7, <1>8, <1>9, PTL DEF ValuesKept
=============================================================================
