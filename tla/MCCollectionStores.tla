-------------------------- MODULE MCCollectionStores --------------------------
(***************************************************************************)
(* The stores of the two sorts of collections, one part at a time.         *)
(*                                                                         *)
(* Off-ledger: an endorser and a committer, and one of two scenarios: one  *)
(* transaction writes a content-addressed key, and another tries to with a *)
(* value that is not its content; or two transactions write a key that is  *)
(* not cached, a third deletes it and a fourth writes what is refused.     *)
(* Both keys have a time to live.                                          *)
(*                                                                         *)
(* Transient: two Persist calls for one key, and the value of an earlier   *)
(* one for another, whose loads evict the first key from the cache.        *)
(***************************************************************************)
EXTENDS OffLedgerStore

CONSTANTS TKeys, LowKeys, Persisters, KeyOf, Earlier, TimeToLive, CacheSize, TMaxTime, TMaxFaults

\* The value 0 stands for nobody.
ASSUME TransientAssumption ==
    /\ KeyOf \in [Persisters -> TKeys] /\ Earlier \subseteq Persisters /\ 0 \notin Persisters
    /\ IsFiniteSet(TKeys) /\ {TimeToLive, CacheSize, TMaxTime, TMaxFaults} \subseteq Nat

VARIABLES part,
          key,    \* the key of the off-ledger scenario
          clock, always, items, loading, evicting, tdb, index, tpurge, stepOf, value,
          contended, halfway, tfaults

Transient == INSTANCE TransientData WITH
    Keys <- TKeys, TTL <- TimeToLive, MaxTime <- TMaxTime, MaxFaults <- TMaxFaults,
    now <- clock, cache <- items, db <- tdb, purge <- tpurge, faults <- tfaults

transientVars == <<clock, always, items, loading, evicting, tdb, index, tpurge, stepOf, value,
                   contended, halfway, tfaults>>
MCvars == <<vars, transientVars, part, key>>

KeyOfCall == <<"k", "k", "low">>

HashOf == [v |-> "h", w |-> "other", x |-> "other", r |-> "other"]
Writes == [dcas |-> [key |-> "h", val |-> "v"],
           bad |-> [key |-> "h", val |-> "x"],
           first |-> [key |-> "k", val |-> "w"],
           second |-> [key |-> "k", val |-> "x"],
           delete |-> [key |-> "k", val |-> Nil],
           json |-> [key |-> "k", val |-> "r"]]
TTLs == [h |-> 1, k |-> 1]

Written == {t \in Txs : \E p \in Peers : <<p, t>> \in todo}
OffLedgerInit ==
    /\ Init /\ key \in Keys
    /\ Written \in (IF key = "h" THEN {{"dcas", "bad"}}
                     ELSE {{"first", "second", "delete", "json"}})
    /\ {<<"c", "bad">>, <<"c", "json">>} \cap todo = {}

Bound ==
    /\ key' = key
    /\ \A p \in Peers : load'[p] # NoLoad => load'[p].key = key
    /\ Cardinality({p \in Peers : load'[p] # NoLoad}) <= 1
    /\ key = "h" => Cardinality({p \in Peers : purge'[p] # {}}) <= 1

\* The transient cache loads one key at a time.
TransientBound == Cardinality({k \in TKeys : loading'[k] # Transient!None}) <= 1

\* One store stands still while the other one is looked at.
MCInit ==
    /\ OffLedgerInit /\ Transient!Init
    /\ \/ part = "offledger" /\ ~always
       \/ part = "transient" /\ key = "h" /\ todo = {<<"e", "dcas">>, <<"e", "bad">>}

MCNext ==
    /\ UNCHANGED part
    /\ \/ part = "offledger" /\ Next /\ Bound /\ UNCHANGED transientVars
       \/ part = "transient" /\ Transient!Next /\ TransientBound /\ UNCHANGED <<vars, key>>

\* The fairness of each store, in its part.
OffLedgerRuns(A) == part = "offledger" /\ A /\ UNCHANGED <<transientVars, part, key>>
TransientRuns(A) == part = "transient" /\ A /\ UNCHANGED <<vars, part, key>>

MCFairness ==
    /\ \A p \in Peers : WF_MCvars(OffLedgerRuns(Purging(p)))
    /\ WF_MCvars(TransientRuns(Transient!Purging))

MCSpec == MCInit /\ [][MCNext]_MCvars /\ MCFairness

-----------------------------------------------------------------------------
\* The caches of both stores say what they may: a value is served after its expiry for no
\* longer than its load took, no put of the peer itself is hidden by a miss, and what goes to
\* the database can be found by the purge (cache.Put, load, updateCache, AddKey), with the
\* exceptions of the parts.
CachesExact ==
    /\ TypeOK /\ NoExpiredFromCache /\ OwnPutNotMissed
    /\ Transient!TypeOK /\ Transient!ServedInTime /\ Transient!ExpiryIndexed

\* A value that was accepted by either store is neither lost nor replaced before its time,
\* whatever writes, loads, evictions and purges interleave (DB.Put, DeleteExpiredKeys,
\* PutWithExpire, persistKVWrite), with the exceptions of the parts.
ValuesKept ==
    /\ PurgeExact /\ LostOnlyToConflict
    /\ [][Transient!KeepsUnexpired /\ Transient!PutsOverNothing]_MCvars

\* A value that has expired and can be found does not stay in either database (periodicPurge,
\* DeleteExpiredKeys).
AllPurged == ExpiredPurged /\ Transient!ExpiredPurged
===============================================================================
