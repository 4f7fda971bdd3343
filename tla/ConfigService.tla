---------------------------- MODULE ConfigService ----------------------------
(***************************************************************************)
(* The ledger configuration.  The configuration chaincode saves and deletes *)
(* configuration in the state of its namespace, with one index entry for    *)
(* each key.  Its transactions are simulated on the state, then committed   *)
(* if what they read has not changed.  On a peer, the configuration         *)
(* service caches values: a key is loaded from the state database when it   *)
(* is first asked for, and from then on follows the writes that the block   *)
(* publisher hands to it, one at a time.  Each write is also put in a       *)
(* bounded channel, from which one goroutine notifies the subscribers.      *)
(*                                                                         *)
(* A key has the parts msp, peer, app and comp, "" for one that is not set; *)
(* versions, which go with app and comp, are left out.  A value is known by *)
(* the transaction that wrote it.                                           *)
(***************************************************************************)
EXTENDS Integers, Sequences, FiniteSets, Functions

CONSTANTS
    Requests,    \* [fcn |-> "save", arg |-> a config] and [fcn |-> "delete", arg |-> criteria]
    KeyOrder,    \* the keys, each once, in the order of their string form
    Saved,       \* keys that transaction 1 has saved
    TxnApp,      \* name of the application whose configuration has a validator
    TxnComps,    \* the components that its validator accepts
    MaxTxs,      \* bound on transactions
    BufferSize   \* size of the channel of updates

ASSUME BoundsAssumption == MaxTxs \in Nat \ {0} /\ BufferSize \in Nat

VARIABLES
    db,          \* the state of the namespace: key in its string form -> transaction
    simulated,   \* transactions that are endorsed and not yet committed
    txs,         \* number of transactions so far
    writes,      \* writes of committed blocks that are to be published
    cache,       \* key -> transaction
    updateChan,  \* updates that are to be notified
    notified,    \* updates that have been notified (history)
    log          \* updates that have been committed since the peer was started (history)

cfgVars == <<db, simulated, txs, writes, cache, updateChan, notified, log>>

Nil == -1       \* no value
NoTxID == 0     \* TxID of a value that was made of "{}"

(***************************************************************************)
(* A configuration: apps of the MSP and of its peers.                       *)
(***************************************************************************)
\* Components are looked at only in an app that has no configuration of its own.
AppValid(a) == a.app # "" /\ (a.cfg \/ a.comps # {}) /\ (a.cfg \/ "" \notin a.comps)

PeerValid(p) == p.peer # "" /\ p.apps # {} /\ \A a \in p.apps : AppValid(a)

ConfigValid(c) ==
    /\ c.msp # "" /\ (c.peers # {} \/ c.apps # {})
    /\ \A p \in c.peers : PeerValid(p)
    /\ \A a \in c.apps : AppValid(a)

NewKey(msp, peer, app, comp) == [msp |-> msp, peer |-> peer, app |-> app, comp |-> comp]

populateApp(msp, peer, a) ==
    {NewKey(msp, peer, a.app, c) : c \in a.comps} \cup
    IF a.cfg THEN {NewKey(msp, peer, a.app, "")} ELSE {}

newKeyValueMap(c) ==
    UNION {UNION {populateApp(c.msp, p.peer, a) : a \in p.apps} : p \in c.peers}
      \cup UNION {populateApp(c.msp, "", a) : a \in c.apps}

KeyValid(k) == k.msp # "" /\ k.app # ""

\* The one validator in the registry, of the transaction service.
TxnConfigValid(k) == k.app = TxnApp => k.peer # "" /\ k.comp \in TxnComps

RegistryValid(k) == KeyValid(k) /\ TxnConfigValid(k)

CriteriaValid(c) == c.msp # "" /\ (c.comp # "" => c.app # "")

mayHave(part, wanted) == wanted \in {"", part}

Filter(keys, c) ==
    {k \in keys : mayHave(k.peer, c.peer) /\ mayHave(k.app, c.app) /\ mayHave(k.comp, c.comp)}

(***************************************************************************)
(* Keys as strings: the parts joined by dividers.  An index key has a       *)
(* prefix and a suffix, and the dividers of the key in it.                  *)
(***************************************************************************)
MarshalKey(k) == <<k.msp, k.peer, k.app, k.comp>>

getIndexKey(k) == <<"index/" \o k.msp, k.peer, k.app, k.comp \o "/">>

UnmarshalKey(str) == NewKey(str[1], str[2], str[3], str[4])

AllKeys == Range(KeyOrder)

\* Keys have their four parts.  A key and an index entry are never the same string, and the
\* index entries of two keys differ.
ASSUME KeysAssumption ==
    /\ KeyOrder \in Seq(AllKeys) /\ Saved \subseteq AllKeys
    /\ \A k \in AllKeys : k = NewKey(k.msp, k.peer, k.app, k.comp)
    /\ \A j, k \in AllKeys : getIndexKey(j) # MarshalKey(k)
    /\ \A j, k \in AllKeys : getIndexKey(j) = getIndexKey(k) => j = k

IsIndex(str) == \E k \in AllKeys : str = getIndexKey(k)

(***************************************************************************)
(* The chaincode.                                                           *)
(***************************************************************************)
At(f, x) == IF x \in DOMAIN f THEN f[x] ELSE Nil

getConfig(k) == At(db, MarshalKey(k))

query(c) == Filter({k \in AllKeys : k.msp = c.msp /\ getIndexKey(k) \in DOMAIN db}, c)

\* What a query has read: the index entries of the MSP, and the values of the keys in them.
ReadBy(c) == {<<k, getConfig(k)>> :
                k \in {j \in AllKeys : j.msp = c.msp /\ getIndexKey(j) \in DOMAIN db}}

Write(str, del, tx) == [str |-> str, del |-> del, tx |-> tx]

Before(j, k) == \E m, n \in DOMAIN KeyOrder : m < n /\ KeyOrder[m] = j /\ KeyOrder[n] = k

Sorted(keys) ==
    CHOOSE ks \in [1..Cardinality(keys) -> keys] :
      \A m, n \in 1..Cardinality(keys) : m < n => Before(ks[m], ks[n])

\* The writes of a transaction reach the block in the order of their keys: index keys first.
InOrder(keys, entry, indexEntry) ==
    LET ks == Sorted(keys \cap AllKeys)
    IN  [i \in 1..Len(ks) |-> indexEntry[ks[i]]] \o [i \in 1..Len(ks) |-> entry[ks[i]]]

save(keys, tx) ==
    InOrder(keys, [k \in keys |-> Write(MarshalKey(k), FALSE, tx)],
                  [k \in keys |-> Write(getIndexKey(k), FALSE, NoTxID)])

Save(c, tx) ==
    [ok |-> ConfigValid(c) /\ \A k \in newKeyValueMap(c) : RegistryValid(k),
     tx |-> tx, crit |-> {}, read |-> {}, writes |-> save(newKeyValueMap(c), tx)]

\* Mutant: the index entry is written again.
deleteIndex_Writes(k, tx) == Write(getIndexKey(k), FALSE, NoTxID)

deleteIndex(k, tx) == Write(getIndexKey(k), TRUE, tx)

Delete(c, tx) ==
    [ok |-> CriteriaValid(c), tx |-> tx, crit |-> {c}, read |-> ReadBy(c),
     writes |-> InOrder(query(c), [k \in query(c) |-> Write(MarshalKey(k), TRUE, tx)],
                                  [k \in query(c) |-> deleteIndex(k, tx)])]

put(c) == Save(c, txs + 1).ok /\ simulated' = simulated \cup {Save(c, txs + 1)}

remove(c) == Delete(c, txs + 1).ok /\ simulated' = simulated \cup {Delete(c, txs + 1)}

\* A request that the access control, or a validation, refuses has no transaction.
Invoke ==
    /\ txs < MaxTxs /\ txs' = txs + 1
    /\ \E r \in Requests : IF r.fcn = "save" THEN put(r.arg) ELSE remove(r.arg)
    /\ UNCHANGED <<db, writes, cache, updateChan, notified, log>>

UpdateOf(w) == [key |-> UnmarshalKey(w.str), tx |-> IF w.del THEN Nil ELSE w.tx]
Updates(ws) == [i \in 1..Len(ws) |-> UpdateOf(ws[i])]

\* The state after a batch of writes, each of another key.
ApplyUpdates(f, ws) ==
    LET gone == {ws[i].str : i \in {j \in DOMAIN ws : ws[j].del}}
        set == {ws[i].str : i \in {j \in DOMAIN ws : ~ws[j].del}}
    IN  [s \in (DOMAIN f \ gone) \cup set |->
           IF s \in set THEN ws[CHOOSE i \in DOMAIN ws : ws[i].str = s].tx ELSE f[s]]

\* A transaction is committed to the state database, if what it read is still there, and its
\* block goes to the publishers.
Commit ==
    /\ \E t \in simulated :
         /\ simulated' = simulated \ {t}
         /\ IF \A c \in t.crit : t.read = ReadBy(c)
            THEN /\ db' = ApplyUpdates(db, t.writes) /\ writes' = writes \o t.writes
                 /\ log' = log \o Updates(t.writes)
            ELSE UNCHANGED <<db, writes, log>>
    /\ UNCHANGED <<txs, cache, updateChan, notified>>

(***************************************************************************)
(* The service of a peer.                                                   *)
(***************************************************************************)
\* The publisher waits while the channel is full.
handleKeyUpdate(w) ==
    LET k == UnmarshalKey(w.str)
    IN  /\ Len(updateChan) < BufferSize
        /\ cache' = IF w.del THEN [j \in DOMAIN cache \ {k} |-> cache[j]]
                    ELSE [j \in DOMAIN cache \cup {k} |-> IF j = k THEN w.tx ELSE cache[j]]
        /\ updateChan' = Append(updateChan, UpdateOf(w))

PublishWrite ==
    /\ writes # <<>> /\ handleKeyUpdate(Head(writes)) /\ writes' = Tail(writes)
    /\ UNCHANGED <<db, simulated, txs, notified, log>>

\* One update is taken from the channel and given to the subscribers.
notify ==
    /\ updateChan # <<>> /\ updateChan' = Tail(updateChan)
    /\ notified' = Append(notified, Head(updateChan))
    /\ UNCHANGED <<db, simulated, txs, writes, cache, log>>

\* The cache forgets everything when the peer restarts.
CfgReset ==
    /\ cache' = [k \in {} |-> Nil] /\ updateChan' = <<>> /\ writes' = <<>>
    /\ notified' = <<>> /\ log' = <<>>

CfgInit ==
    /\ db = [s \in {MarshalKey(k) : k \in Saved} \cup {getIndexKey(k) : k \in Saved} |->
               IF IsIndex(s) THEN NoTxID ELSE 1]
    /\ simulated = {} /\ txs = 1 /\ writes = <<>>
    /\ cache = [k \in {} |-> Nil] /\ updateChan = <<>> /\ notified = <<>> /\ log = <<>>

-----------------------------------------------------------------------------
(***************************************************************************)
(* Properties.                                                              *)
(***************************************************************************)
\* The index has an entry for a key exactly if there is a value for the key, whatever saves and
\* deletes were endorsed side by side (updatemgr.go Save, Delete): a query by MSP finds all of
\* the configuration and nothing else.
IndexExact ==
    \A k \in AllKeys : getIndexKey(k) \in DOMAIN db <=> MarshalKey(k) \in DOMAIN db

\* The subscribers are told every update of the ledger, in the order of the ledger, however full
\* the channel is (service.go handleKeyUpdate, listen): what they were told, what is in the
\* channel and what is still to be published are together what was committed.
NotifiedInOrder == log = notified \o updateChan \o Updates(writes)
=============================================================================
