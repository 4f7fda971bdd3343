------------------------------ MODULE TxnService ------------------------------
(***************************************************************************)
(* The transaction service of a peer, a subscriber of its configuration     *)
(* service.  The service has a client, made of two values of the            *)
(* configuration; when one of these is updated, a goroutine loads them      *)
(* again, makes a new client, closes the old one and installs the new one.  *)
(* Invocations take whatever client there is.  A client counts its          *)
(* references, so that its SDK is closed only when it is not in use.        *)
(***************************************************************************)
EXTENDS ConfigService

CONSTANTS
    txnCfgKey, sdkCfgKey,  \* the keys that the service loads
    Invokers               \* goroutines that invoke the client

VARIABLES
    loads,       \* load -> [pc, got, val]; load 1 is part of newService
    registered,  \* the service is subscribed to configuration updates
    cfgTxID,     \* transaction of the last update that was handled
    client,      \* the client, 0 for none; a client has the number of the load that made it
    mutex,       \* the load that holds the lock of the service, 0 for none
    refs,        \* client -> [count, closed]
    shut,        \* the client that Close of the service is closing, 0 before and Nil after
    inv,         \* invoker -> [pc, c]
    stale,       \* keys that a load has put back to an older value (history)
    dirty,       \* a value changed when no later load was to come (history)
    straddled    \* invokers whose Increment was overtaken by a Close, or came between the two
                 \* steps of another invoker's Decrement to zero (history)

txnVars == <<loads, registered, cfgTxID, client, mutex, refs, shut, inv, stale, dirty, straddled>>
vars == <<cfgVars, txnVars>>

LoadIDs == 1..MaxTxs
CfgKeys == <<txnCfgKey, sdkCfgKey>>
Idle == [pc |-> "idle", got |-> <<>>, val |-> Nil]

\* The service loads two keys of its own application, for this peer.
ASSUME CfgKeysAssumption ==
    /\ {txnCfgKey, sdkCfgKey} \subseteq AllKeys
    /\ \A k \in {txnCfgKey, sdkCfgKey} :
         k.app = TxnApp /\ k.msp = txnCfgKey.msp /\ k.peer = txnCfgKey.peer

ASSUME InvokersAssumption == IsFiniteSet(Invokers)

TxnReset ==
    /\ loads' = [l \in LoadIDs |-> Idle] /\ registered' = FALSE /\ cfgTxID' = NoTxID
    /\ client' = 0 /\ mutex' = 0 /\ refs' = [l \in LoadIDs |-> [count |-> 0, closed |-> "ready"]]
    /\ shut' = 0 /\ inv' = [i \in Invokers |-> [pc |-> "idle", c |-> 0]]
    /\ stale' = {} /\ dirty' = FALSE /\ straddled' = {}

Init ==
    /\ CfgInit
    /\ loads = [l \in LoadIDs |-> Idle] /\ registered = FALSE /\ cfgTxID = NoTxID
    /\ client = 0 /\ mutex = 0 /\ refs = [l \in LoadIDs |-> [count |-> 0, closed |-> "ready"]]
    /\ shut = 0 /\ inv = [i \in Invokers |-> [pc |-> "idle", c |-> 0]]
    /\ stale = {} /\ dirty = FALSE /\ straddled = {}

Active(l) == loads[l].pc \notin {"idle", "done", "failed"}
SomeLoad == \E l \in LoadIDs : Active(l)

(***************************************************************************)
(* Loading the client.                                                      *)
(***************************************************************************)
\* ForChannel makes the service when there is none.
newService ==
    /\ loads[1].pc \in {"idle", "failed"} /\ loads' = [loads EXCEPT ![1] = [Idle EXCEPT !.pc = "get"]]
    /\ UNCHANGED <<cfgVars, registered, cfgTxID, client, mutex, refs, shut, inv, stale, dirty, straddled>>

NextKey(l) == CfgKeys[Len(loads[l].got) + 1]

GotKey(l, val) ==
    LET got == Append(loads[l].got, val)
    IN  loads' = [loads EXCEPT ![l] = [pc |-> IF Len(got) = 2 THEN "create" ELSE "get",
                                       got |-> got, val |-> Nil]]

\* Get of a key: from the cache, or else from the state database.
Get(l) ==
    /\ loads[l].pc = "get"
    /\ IF NextKey(l) \in DOMAIN cache THEN GotKey(l, cache[NextKey(l)])
       ELSE loads' = [loads EXCEPT ![l].pc = "store", ![l].val = getConfig(NextKey(l))]
    /\ UNCHANGED <<cfgVars, registered, cfgTxID, client, mutex, refs, shut, inv, stale, dirty, straddled>>

\* The value that was read goes to the cache; ErrConfigNotFound if there was none.
Store(l) ==
    /\ loads[l].pc = "store"
    /\ IF loads[l].val = Nil
       THEN /\ loads' = [loads EXCEPT ![l].pc = "failed"] /\ dirty' = TRUE
            /\ UNCHANGED cache
       ELSE /\ GotKey(l, loads[l].val)
            /\ cache' = [k \in DOMAIN cache \cup {NextKey(l)} |->
                           IF k = NextKey(l) THEN loads[l].val ELSE cache[k]]
            /\ UNCHANGED dirty
    /\ UNCHANGED <<db, simulated, txs, writes, updateChan, notified, log, registered, cfgTxID,
                   client, mutex, refs, shut, inv, stale, straddled>>

\* CreateClient
CreateClient(l) ==
    /\ loads[l].pc = "create"
    /\ \/ loads' = [loads EXCEPT ![l].pc = "lock"] /\ UNCHANGED dirty
       \/ loads' = [loads EXCEPT ![l].pc = "failed"] /\ dirty' = TRUE
    /\ UNCHANGED <<cfgVars, registered, cfgTxID, client, mutex, refs, shut, inv, stale, straddled>>

\* The lock is taken, and Close of the old client sets its flag.
LockAndClose(l) ==
    /\ loads[l].pc = "lock" /\ mutex = 0 /\ mutex' = l
    /\ IF client = 0 \/ refs[client].closed # "ready"
       THEN loads' = [loads EXCEPT ![l].pc = "install"] /\ UNCHANGED refs
       ELSE /\ refs' = [refs EXCEPT ![client].closed = "pending"]
            /\ loads' = [loads EXCEPT ![l].pc = "close"]
    /\ UNCHANGED <<cfgVars, registered, cfgTxID, client, shut, inv, stale, dirty, straddled>>

\* Mutant: Close does not look at the count.
closeIfUnused_Now(c) == refs' = [refs EXCEPT ![c].closed = "closed"]

\* What Close does after it has set the flag, and notifyClosed.
closeIfUnused(c) ==
    refs' = IF refs[c].count = 0 /\ refs[c].closed = "pending"
            THEN [refs EXCEPT ![c].closed = "closed"] ELSE refs

CloseOld(l) ==
    /\ loads[l].pc = "close" /\ closeIfUnused(client)
    /\ loads' = [loads EXCEPT ![l].pc = "install"]
    /\ UNCHANGED <<cfgVars, registered, cfgTxID, client, mutex, shut, inv, stale, dirty, straddled>>

\* The service has the new client; newService then subscribes to updates.
Install(l) ==
    /\ loads[l].pc = "install" /\ client' = l /\ mutex' = 0
    /\ loads' = [loads EXCEPT ![l].pc = IF l = 1 THEN "register" ELSE "done"]
    /\ UNCHANGED <<cfgVars, registered, cfgTxID, refs, shut, inv, stale, dirty, straddled>>

AddUpdateHandler ==
    /\ loads[1].pc = "register" /\ registered' = TRUE
    /\ loads' = [loads EXCEPT ![1].pc = "done"]
    /\ UNCHANGED <<cfgVars, cfgTxID, client, mutex, refs, shut, inv, stale, dirty, straddled>>

(***************************************************************************)
(* Updates of the configuration.                                            *)
(***************************************************************************)
\* The publisher hands over a write.  A load that has read the key from the database and has
\* not yet stored it will put the older value back; and no load follows if the update of the
\* transaction was handled before.
Publish ==
    /\ PublishWrite
    /\ LET w == Head(writes) k == UnmarshalKey(w.str)
       IN  /\ stale' = IF \E l \in LoadIDs : loads[l].pc = "store" /\ NextKey(l) = k
                       THEN stale \cup {k} ELSE stale \ {k}
           /\ dirty' = (dirty \/ (k \in Range(CfgKeys) /\ (SomeLoad \/ cfgTxID = w.tx)))
    /\ UNCHANGED <<loads, registered, cfgTxID, client, mutex, refs, shut, inv, straddled>>

ForMe(kv) == kv.key.app = TxnApp /\ kv.key.msp = txnCfgKey.msp /\ kv.key.peer = txnCfgKey.peer

\* Mutant: an update of a transaction that was handled before makes a load, a new one none.
compareAndSetTxID_Swapped(tx) == cfgTxID = tx

compareAndSetTxID(tx) == cfgTxID # tx

\* The goroutine that loads the configuration again.
Reload ==
    /\ \E l \in LoadIDs \ {1} :
         /\ loads[l] = Idle /\ \A m \in 2..(l - 1) : loads[m] # Idle
         /\ loads' = [loads EXCEPT ![l].pc = "get"]
    /\ dirty' = (dirty /\ SomeLoad)

\* A notification.  Nothing is done if nobody is subscribed, if it is not about this peer's
\* configuration, or if its transaction has been handled.
handleConfigUpdate ==
    LET kv == Head(updateChan)
    IN  /\ notify
        /\ IF ~registered \/ ~ForMe(kv) THEN UNCHANGED <<cfgTxID, loads, dirty>>
           ELSE /\ kv.tx # Nil
                /\ IF compareAndSetTxID(kv.tx) THEN cfgTxID' = kv.tx /\ Reload
                   ELSE UNCHANGED <<cfgTxID, loads, dirty>>
        /\ UNCHANGED <<registered, client, mutex, refs, shut, inv, stale, straddled>>

\* A deleted key has no value, and so no TxID to compare: the peer panics and is started again.
Panic ==
    /\ updateChan # <<>> /\ registered /\ ForMe(Head(updateChan)) /\ Head(updateChan).tx = Nil
    /\ CfgReset /\ TxnReset /\ UNCHANGED <<db, simulated, txs>>

(***************************************************************************)
(* Invocations.                                                             *)
(***************************************************************************)
\* The client is read under the lock of the service.
InvokeHandler(i) ==
    /\ inv[i].pc = "idle" /\ mutex = 0 /\ client # 0
    /\ inv' = [inv EXCEPT ![i] = [pc |-> "check", c |-> client]]
    /\ UNCHANGED <<cfgVars, loads, registered, cfgTxID, client, mutex, refs, shut, stale, dirty, straddled>>

\* Increment looks at the flag first: an error if the client is closed.
CheckClosed(i) ==
    /\ inv[i].pc = "check"
    /\ inv' = [inv EXCEPT ![i] = IF refs[inv[i].c].closed = "ready" THEN [@ EXCEPT !.pc = "increment"]
                                 ELSE [pc |-> "idle", c |-> 0]]
    /\ UNCHANGED <<cfgVars, loads, registered, cfgTxID, client, mutex, refs, shut, stale, dirty, straddled>>

Increment(i) ==
    LET c == inv[i].c
    IN  /\ inv[i].pc = "increment" /\ inv' = [inv EXCEPT ![i].pc = "running"]
        /\ refs' = [refs EXCEPT ![c].count = @ + 1]
        /\ straddled' = IF refs[c].closed # "ready" \/ \E j \in Invokers : inv[j] = [pc |-> "notify", c |-> c]
                        THEN straddled \cup {i} ELSE straddled
        /\ UNCHANGED <<cfgVars, loads, registered, cfgTxID, client, mutex, shut, stale, dirty>>

Decrement(i) ==
    LET c == inv[i].c
    IN  /\ inv[i].pc = "running" /\ refs' = [refs EXCEPT ![c].count = @ - 1]
        /\ inv' = [inv EXCEPT ![i] = IF refs[c].count = 1 THEN [pc |-> "notify", c |-> c]
                                     ELSE [pc |-> "idle", c |-> 0]]
        /\ straddled' = straddled \ {i}
        /\ UNCHANGED <<cfgVars, loads, registered, cfgTxID, client, mutex, shut, stale, dirty>>

\* Mutant: the last one to leave does not close the client.
notifyClosed_Never(i) == inv[i].pc = "notify" /\ UNCHANGED refs

notifyClosed(i) ==
    /\ inv[i].pc = "notify"
    /\ refs' = IF refs[inv[i].c].closed = "pending" THEN [refs EXCEPT ![inv[i].c].closed = "closed"]
               ELSE refs

LastDecrement(i) ==
    /\ notifyClosed(i) /\ inv' = [inv EXCEPT ![i] = [pc |-> "idle", c |-> 0]]
    /\ UNCHANGED <<cfgVars, loads, registered, cfgTxID, client, mutex, shut, stale, dirty, straddled>>

\* Close of the service, when the peer shuts down.
Close ==
    /\ shut = 0 /\ mutex = 0 /\ client # 0
    /\ shut' = client
    /\ refs' = IF refs[client].closed = "ready" THEN [refs EXCEPT ![client].closed = "pending"] ELSE refs
    /\ UNCHANGED <<cfgVars, loads, registered, cfgTxID, client, mutex, inv, stale, dirty, straddled>>

CloseLast ==
    /\ shut > 0 /\ closeIfUnused(shut) /\ shut' = Nil
    /\ UNCHANGED <<cfgVars, loads, registered, cfgTxID, client, mutex, inv, stale, dirty, straddled>>

Load(l) == Get(l) \/ Store(l) \/ CreateClient(l) \/ LockAndClose(l) \/ CloseOld(l) \/ Install(l)
Invocation(i) == CheckClosed(i) \/ Increment(i) \/ Decrement(i) \/ LastDecrement(i)

Next ==
    \/ Invoke /\ UNCHANGED txnVars
    \/ Commit /\ UNCHANGED txnVars
    \/ Publish \/ handleConfigUpdate \/ Panic
    \/ newService \/ AddUpdateHandler \/ \E l \in LoadIDs : Load(l)
    \/ \E i \in Invokers : InvokeHandler(i) \/ Invocation(i)
    \/ Close \/ CloseLast

\* Goroutines that can go on do go on: the publisher, the notifications, loads, and invocations,
\* which end by themselves or by their timeout.  Nothing has to begin.
Fairness ==
    /\ WF_vars(Publish) /\ WF_vars(handleConfigUpdate) /\ WF_vars(Panic) /\ WF_vars(CloseLast)
    /\ WF_vars(AddUpdateHandler)
    /\ \A l \in LoadIDs : WF_vars(Load(l))
    /\ \A i \in Invokers : WF_vars(Invocation(i))

Spec == Init /\ [][Next]_vars /\ Fairness

-----------------------------------------------------------------------------
(***************************************************************************)
(* Properties.                                                              *)
(***************************************************************************)
\* Every variable holds a value of its kind.
TypeOK ==
    /\ client \in {0} \cup LoadIDs /\ mutex \in {0} \cup LoadIDs
    /\ \A l \in LoadIDs : refs[l].count \in 0..Cardinality(Invokers)
    /\ Len(updateChan) <= BufferSize
    /\ \A k \in AllKeys \cap DOMAIN cache : cache[k] \in 1..txs

Quiet == writes = <<>> /\ updateChan = <<>> /\ ~SomeLoad

\* When every write has been published, a cached value is the value of the ledger, unless a
\* load had read the key before the write and stored it after (service.go:61-75, load and
\* handleKeyUpdate).
CacheFresh ==
    writes = <<>> => \A k \in (AllKeys \cap DOMAIN cache) \ stale : cache[k] = getConfig(k)

\* When everything has settled, the client is made of the configuration that the service has
\* cached, unless a value changed during a load or after the only load of its transaction had
\* begun, or a load failed (service.go handleConfigUpdate, load).
ConfigApplied ==
    Quiet /\ registered /\ ~dirty =>
        \A n \in 1..2 : CfgKeys[n] \in DOMAIN cache => loads[client].got[n] = cache[CfgKeys[n]]

\* The SDK of a client is not closed under an invocation (counter.go, "the provided close func
\* is invoked only after the count reaches 0"), unless Close came between the two steps of the
\* invocation's Increment, or the Increment between the two steps of a Decrement to zero.
NotClosedInUse ==
    \A i \in Invokers : inv[i].pc = "running" /\ i \notin straddled => refs[inv[i].c].closed # "closed"

\* A client that was replaced, or closed with the service, gets its SDK closed in the end
\* (service.go load, Close; counter.go), or the peer is started again.
ReplacedClosed ==
    \A l \in LoadIDs : (loads[l].pc = "done" /\ client # l) \/ refs[l].closed = "pending"
                          ~> refs[l].closed = "closed" \/ loads[l] = Idle

\* Every update that is published is notified in the end, or the peer is started again: the
\* channel never stays full.
AllNotified == writes # <<>> ~> Quiet

\* Configuration updates take effect: every subscriber is told them in order, the cache follows
\* them and the client is made of them, with the exceptions above (handleKeyUpdate, listen,
\* handleConfigUpdate).
UpdatesFollowed == TypeOK /\ NotifiedInOrder /\ CacheFresh /\ ConfigApplied

\* The service goes on: updates are notified, and replaced clients are closed (listen, load).
ServiceGoesOn == ReplacedClosed /\ AllNotified

=============================================================================
