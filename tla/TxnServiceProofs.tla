--------------------------- MODULE TxnServiceProofs ---------------------------
(***************************************************************************)
(* The configuration and the transaction service, for any keys, requests,  *)
(* number of transactions, size of the channel and invokers: the index is  *)
(* exact, updates are followed, and no client is closed in use.            *)
(*                                                                         *)
(* The inductive invariant has three parts: what the chaincode and the     *)
(* publisher do (CfgInv), the counter of references (RefInv), and what     *)
(* loads do with the cache and the client (LoadInv), which rests on the    *)
(* first part.                                                             *)
(***************************************************************************)
EXTENDS TxnService, FiniteSetTheorems, WellFoundedInduction, TLAPS

\* Steps are proved by Zenon unless they name another prover.
USE Zenon

Strs == {MarshalKey(k) : k \in AllKeys} \cup {getIndexKey(k) : k \in AllKeys}
Writes == [str : Strs, del : BOOLEAN, tx : Nat]
AllUpdates == [key : {UnmarshalKey(s) : s \in Strs}, tx : Nat \cup {Nil}]

\* A write of the key k.
Writing(w, k) == w.str = MarshalKey(k)
InRange(ws, n) == \A i \in DOMAIN ws : \A k \in AllKeys : Writing(ws[i], k) => ws[i].tx \in 1..n

\* The writes of a transaction: saves or deletes, one of a key, and of its index entry with it.
RightTx(t, n) ==
    LET ws == t.writes
    IN  /\ ws \in Seq(Writes) /\ InRange(ws, n)
        /\ \A i, j \in DOMAIN ws : ws[i].del = ws[j].del /\ (ws[i].str = ws[j].str => ws[i] = ws[j])
        /\ \A k \in AllKeys : (\E i \in DOMAIN ws : ws[i].str = getIndexKey(k))
                                <=> (\E i \in DOMAIN ws : Writing(ws[i], k))

CfgTypes ==
    /\ txs \in Nat \ {0} /\ writes \in Seq(Writes) /\ InRange(writes, txs)
    /\ updateChan \in Seq(AllUpdates) /\ notified \in Seq(AllUpdates) /\ log \in Seq(AllUpdates)
    /\ Len(updateChan) <= BufferSize
    /\ \A t \in simulated : RightTx(t, txs)
    /\ \A k \in AllKeys : MarshalKey(k) \in DOMAIN db => db[MarshalKey(k)] \in 1..txs

\* The last write of a key that is to be published is the one that the ledger has.
Latest ==
    \A k \in AllKeys, i \in DOMAIN writes :
      Writing(writes[i], k) /\ (\A j \in DOMAIN writes : j > i => ~Writing(writes[j], k))
        => getConfig(k) = IF writes[i].del THEN Nil ELSE writes[i].tx

CfgInv == CfgTypes /\ IndexExact /\ NotifiedInOrder /\ Latest

-----------------------------------------------------------------------------
Running(c) == {i \in Invokers : inv[i].pc = "running" /\ inv[i].c = c}

RefTypes ==
    /\ client \in {0} \cup LoadIDs
    /\ refs \in [LoadIDs -> [count : Int, closed : {"ready", "pending", "closed"}]]
    /\ inv \in [Invokers -> [pc : {"idle", "check", "increment", "running", "notify"},
                             c : {0} \cup LoadIDs]]
    /\ \A i \in Invokers : inv[i].pc # "idle" => inv[i].c \in LoadIDs

\* The count is the number of invocations, and whoever came after the count was zero, and
\* before this was noted, has straddled.
Counted == \A c \in LoadIDs : refs[c].count = Cardinality(Running(c))
Noted ==
    \A i, j \in Invokers : inv[i].pc = "running" /\ inv[j].pc = "notify" /\ inv[j].c = inv[i].c
                             => i \in straddled

RefInv == RefTypes /\ Counted /\ Noted /\ NotClosedInUse

-----------------------------------------------------------------------------
Pcs == {"idle", "get", "store", "create", "lock", "close", "install", "register", "done", "failed"}

\* How far a load has got, of two keys.
Staged(r, n) ==
    /\ r.pc \in {"get", "store"} => Len(r.got) \in 0..1
    /\ r.pc \in Pcs \ {"idle", "failed", "get", "store"} => Len(r.got) = 2
    /\ r.pc = "store" => r.val \in {Nil} \cup 1..n

LoadRecs == [pc : Pcs, got : Seq(Int), val : Int]

LoadTypes ==
    /\ loads \in [LoadIDs -> LoadRecs]
    /\ mutex \in {0} \cup LoadIDs
    /\ cfgTxID \in Nat /\ registered \in BOOLEAN /\ dirty \in BOOLEAN
    /\ \A l \in LoadIDs : Staged(loads[l], txs)
    /\ \A k \in AllKeys \cap DOMAIN cache : cache[k] \in 1..txs

\* Nothing is loaded again before the service is registered, with its first client.
Begun ==
    /\ registered => loads[1].pc = "done"
    /\ ~registered => \A l \in LoadIDs \ {1} : loads[l] = Idle
    /\ loads[1].pc = "register" => client = 1

ToPublish(k) == \E i \in DOMAIN writes : Writing(writes[i], k)
Storing(l, k) == loads[l].pc = "store" /\ NextKey(l) = k

\* A value in the cache, or on its way there, is the ledger's when no write of its key is to be
\* published.
Fresh ==
    \A k \in AllKeys \ stale : ~ToPublish(k) =>
      /\ k \in DOMAIN cache => cache[k] = getConfig(k)
      /\ \A l \in LoadIDs : Storing(l, k) => loads[l].val = getConfig(k)

\* ... and while no value changes during a load, also if the key is stale.
Alike ==
    ~dirty => \A k \in AllKeys, l \in LoadIDs : Storing(l, k) /\ ~ToPublish(k) =>
                /\ loads[l].val = getConfig(k)
                /\ k \in DOMAIN cache => cache[k] = loads[l].val

\* What a load has got is what the cache has.
RecMatches(r) ==
    \A n \in 1..2 : n <= Len(r.got) => CfgKeys[n] \in DOMAIN cache /\ r.got[n] = cache[CfgKeys[n]]
Matches(l) == RecMatches(loads[l])

\* An update for which the client will be loaded again is in the channel.
Coming == \E i \in DOMAIN updateChan : ForMe(updateChan[i]) /\ updateChan[i].tx # cfgTxID

Followed ==
    ~dirty /\ (\A n \in 1..2 : ~ToPublish(CfgKeys[n])) =>
      /\ \A l \in LoadIDs : Active(l) => Matches(l)
      /\ registered /\ ~SomeLoad /\ ~Coming =>
           client \in LoadIDs /\ Len(loads[client].got) = 2 /\ Matches(client)

LoadInv == LoadTypes /\ Begun /\ Fresh /\ Alike /\ Followed

-----------------------------------------------------------------------------
(***************************************************************************)
(* The counter of references.                                               *)
(***************************************************************************)
LEMMA RunningFinite == \A c : IsFiniteSet(Running(c)) /\ Cardinality(Running(c)) \in 0..Cardinality(Invokers)
<1>. SUFFICES ASSUME NEW c PROVE IsFiniteSet(Running(c)) /\ Cardinality(Running(c)) \in 0..Cardinality(Invokers)
  OBVIOUS
<1>1. Running(c) \subseteq Invokers BY DEF Running
<1>2. IsFiniteSet(Running(c)) /\ Cardinality(Running(c)) <= Cardinality(Invokers)
  BY <1>1, InvokersAssumption, FS_Subset
<1>. QED BY <1>2, InvokersAssumption, FS_CardinalityType, SMT

LEMMA RefInit == Init => RefInv
<1>. SUFFICES ASSUME Init PROVE RefInv
  OBVIOUS
<1>1. RefTypes BY SMT DEF Init, RefTypes
<1>2. Counted
  <2>1. \A c : Running(c) = {} BY DEF Init, Running
  <2>. QED BY <2>1, FS_EmptySet DEF Init, Counted
<1>3. Noted /\ NotClosedInUse BY DEF Init, Noted, NotClosedInUse
<1>. QED BY <1>1, <1>2, <1>3 DEF RefInv

\* Steps that leave the invocations alone: a flag goes on to pending, or to closed when the
\* count is zero, or the service has another client.
LEMMA FlagKeeps ==
    ASSUME RefInv, UNCHANGED <<inv, straddled>>, client' \in {0} \cup LoadIDs,
           refs' \in [LoadIDs -> [count : Int, closed : {"ready", "pending", "closed"}]],
           \A c \in LoadIDs : /\ refs'[c].count = refs[c].count
                              /\ refs'[c].closed = "closed" => refs[c].closed = "closed" \/ refs[c].count = 0
    PROVE  RefInv'
<1>1. RefTypes' BY DEF RefInv, RefTypes
<1>2. \A c : Running(c)' = Running(c) BY DEF Running
<1>3. Counted' BY <1>2 DEF RefInv, Counted
<1>4. Noted' BY DEF RefInv, Noted
<1>5. NotClosedInUse'
  <2>. SUFFICES ASSUME NEW i \in Invokers, inv[i].pc = "running", i \notin straddled
                PROVE  refs'[inv[i].c].closed # "closed"
    BY DEF NotClosedInUse
  <2>. DEFINE c == inv[i].c
  <2>1. c \in LoadIDs /\ refs[c].closed # "closed" BY DEF RefInv, RefTypes, NotClosedInUse
  <2>2. refs[c].count # 0
    <3>1. i \in Running(c) BY DEF Running
    <3>2. Cardinality(Running(c)) # 0 BY <3>1, RunningFinite, FS_EmptySet
    <3>. QED BY <2>1, <3>2 DEF RefInv, Counted
  <2>. QED BY <2>1, <2>2
<1>. QED BY <1>1, <1>3, <1>4, <1>5 DEF RefInv

LEMMA CloseKeeps ==
    ASSUME RefInv, NEW c,
           \/ refs' = [refs EXCEPT ![c].closed = "pending"] /\ (c \in LoadIDs => refs[c].closed = "ready")
           \/ closeIfUnused(c) \/ refs' = refs
    PROVE  /\ refs' \in [LoadIDs -> [count : Int, closed : {"ready", "pending", "closed"}]]
           /\ \A d \in LoadIDs : /\ refs'[d].count = refs[d].count
                                 /\ refs'[d].closed = "closed" => refs[d].closed = "closed" \/ refs[d].count = 0
BY SMT DEF RefInv, RefTypes, closeIfUnused

LEMMA FlagSteps ==
    ASSUME RefInv,
           \/ \E l \in LoadIDs : LockAndClose(l) \/ CloseOld(l) \/ Install(l)
           \/ Close \/ CloseLast
           \/ UNCHANGED <<client, refs, inv, straddled>>
    PROVE  RefInv'
<1>1. ASSUME NEW l \in LoadIDs, LockAndClose(l) \/ CloseOld(l) PROVE RefInv'
  <2>1. UNCHANGED <<inv, straddled, client>> BY <1>1 DEF LockAndClose, CloseOld
  <2>2. \/ refs' = [refs EXCEPT ![client].closed = "pending"] /\ (client \in LoadIDs => refs[client].closed = "ready")
        \/ closeIfUnused(client) \/ refs' = refs
    BY <1>1 DEF LockAndClose, CloseOld
  <2>3. client' \in {0} \cup LoadIDs BY <2>1 DEF RefInv, RefTypes
  <2>. QED BY <2>1, <2>2, <2>3, CloseKeeps, FlagKeeps
<1>2. ASSUME NEW l \in LoadIDs, Install(l) PROVE RefInv'
  <2>1. UNCHANGED <<inv, straddled, refs>> /\ client' = l BY <1>2 DEF Install
  <2>. QED BY <2>1, FlagKeeps DEF RefInv, RefTypes
<1>3. CASE Close
  <2>1. UNCHANGED <<inv, straddled, client>> BY <1>3 DEF Close
  <2>2. \/ refs' = [refs EXCEPT ![client].closed = "pending"] /\ (client \in LoadIDs => refs[client].closed = "ready")
        \/ closeIfUnused(client) \/ refs' = refs
    BY <1>3 DEF Close
  <2>3. client' \in {0} \cup LoadIDs BY <2>1 DEF RefInv, RefTypes
  <2>. QED BY <2>1, <2>2, <2>3, CloseKeeps, FlagKeeps
<1>4. CASE CloseLast
  <2>1. UNCHANGED <<inv, straddled, client>> /\ closeIfUnused(shut) BY <1>4 DEF CloseLast
  <2>3. client' \in {0} \cup LoadIDs BY <2>1 DEF RefInv, RefTypes
  <2>. QED BY <2>1, <2>3, CloseKeeps, FlagKeeps
<1>5. CASE UNCHANGED <<client, refs, inv, straddled>>
  BY <1>5, FlagKeeps DEF RefInv, RefTypes
<1>. QED BY <1>1, <1>2, <1>3, <1>4, <1>5

\* An invocation gets the client, or is refused: nobody's count changes.
LEMMA EnterKeeps ==
    ASSUME RefInv, NEW i \in Invokers, InvokeHandler(i) \/ CheckClosed(i)
    PROVE  RefInv'
<1>1. /\ UNCHANGED <<client, refs, straddled>> /\ inv[i].pc \in {"idle", "check"}
      /\ \E e \in [pc : {"idle", "check", "increment"}, c : {0} \cup LoadIDs] :
           inv' = [inv EXCEPT ![i] = e] /\ (e.pc # "idle" => e.c \in LoadIDs)
  <2>1. CASE InvokeHandler(i)
    <3>. DEFINE e == [pc |-> "check", c |-> client]
    <3>1. e \in [pc : {"idle", "check", "increment"}, c : {0} \cup LoadIDs] /\ e.c \in LoadIDs
      BY <2>1 DEF InvokeHandler, RefInv, RefTypes
    <3>. QED BY <2>1, <3>1 DEF InvokeHandler
  <2>2. CASE CheckClosed(i)
    <3>. DEFINE e == IF refs[inv[i].c].closed = "ready" THEN [inv[i] EXCEPT !.pc = "increment"]
                     ELSE [pc |-> "idle", c |-> 0]
    <3>1. inv[i].c \in LoadIDs /\ inv[i] \in [pc : {"idle", "check", "increment", "running", "notify"}, c : {0} \cup LoadIDs]
      BY <2>2 DEF CheckClosed, RefInv, RefTypes
    <3>2. e \in [pc : {"idle", "check", "increment"}, c : {0} \cup LoadIDs] /\ (e.pc # "idle" => e.c \in LoadIDs)
      BY <3>1
    <3>3. inv' = [inv EXCEPT ![i] = e] BY <2>2 DEF CheckClosed
    <3>. QED BY <2>2, <3>2, <3>3 DEF CheckClosed
  <2>. QED BY <2>1, <2>2
<1>2. PICK e \in [pc : {"idle", "check", "increment"}, c : {0} \cup LoadIDs] :
           inv' = [inv EXCEPT ![i] = e] /\ (e.pc # "idle" => e.c \in LoadIDs)
  BY <1>1
<1>3. RefTypes' BY <1>1, <1>2 DEF RefInv, RefTypes
<1>4. inv'[i].pc \notin {"running", "notify"} /\ \A j \in Invokers \ {i} : inv'[j] = inv[j]
  BY <1>2 DEF RefInv, RefTypes
<1>5. \A c : Running(c)' = Running(c) BY <1>1, <1>4, SMT DEF Running
<1>6. Counted' BY <1>1, <1>5 DEF RefInv, Counted
<1>7. Noted' /\ NotClosedInUse' BY <1>1, <1>4, SMT DEF RefInv, Noted, NotClosedInUse
<1>. QED BY <1>3, <1>6, <1>7 DEF RefInv

LEMMA IncrementKeeps == ASSUME RefInv, NEW i \in Invokers, Increment(i) PROVE RefInv'
<1>. DEFINE c == inv[i].c
<1>1. /\ inv[i].pc = "increment" /\ inv' = [inv EXCEPT ![i].pc = "running"]
      /\ refs' = [refs EXCEPT ![c].count = @ + 1] /\ client' = client
      /\ straddled' = IF refs[c].closed # "ready" \/ \E j \in Invokers : inv[j] = [pc |-> "notify", c |-> c]
                      THEN straddled \cup {i} ELSE straddled
  BY DEF Increment
<1>2. c \in LoadIDs BY <1>1 DEF RefInv, RefTypes
<1>3. RefTypes' BY <1>1, <1>2, SMT DEF RefInv, RefTypes
<1>4. /\ inv'[i].pc = "running" /\ inv'[i].c = c /\ \A j \in Invokers \ {i} : inv'[j] = inv[j]
      /\ \A d \in LoadIDs : refs'[d].closed = refs[d].closed
      /\ \A d \in LoadIDs \ {c} : refs'[d] = refs[d]
      /\ refs'[c].count = refs[c].count + 1
  BY <1>1, <1>2 DEF RefInv, RefTypes
<1>5. Counted'
  <2>1. \A d \in LoadIDs \ {c} : Running(d)' = Running(d) BY <1>1, <1>4, SMT DEF Running
  <2>2. i \notin Running(c) /\ Running(c)' = Running(c) \cup {i} BY <1>1, <1>4 DEF Running
  <2>3. Cardinality(Running(c)') = Cardinality(Running(c)) + 1
    BY <2>2, RunningFinite, FS_AddElement
  <2>. QED BY <1>2, <1>4, <2>1, <2>3, SMT DEF RefInv, Counted
<1>6. Noted'
  <2>. SUFFICES ASSUME NEW h \in Invokers, NEW j \in Invokers, inv'[h].pc = "running",
                       inv'[j].pc = "notify", inv'[j].c = inv'[h].c
                PROVE  h \in straddled'
    BY DEF Noted
  <2>1. inv'[j] = inv[j] BY <1>4
  <2>2. CASE h = i
    <3>1. inv[j] = [pc |-> "notify", c |-> c] BY <1>4, <2>1, <2>2 DEF RefInv, RefTypes
    <3>. QED BY <1>1, <2>2, <3>1
  <2>3. CASE h # i BY <1>1, <1>4, <2>1, <2>3 DEF RefInv, Noted
  <2>. QED BY <2>2, <2>3
<1>7. NotClosedInUse'
  <2>. SUFFICES ASSUME NEW h \in Invokers, inv'[h].pc = "running", h \notin straddled'
                PROVE  refs'[inv'[h].c].closed # "closed"
    BY DEF NotClosedInUse
  <2>1. CASE h = i BY <1>1, <1>2, <1>4, <2>1, SMT
  <2>2. CASE h # i
    <3>1. inv'[h] = inv[h] /\ h \notin straddled BY <1>1, <1>4, <2>2
    <3>2. inv[h].c \in LoadIDs BY <3>1 DEF RefInv, RefTypes
    <3>. QED BY <1>4, <3>1, <3>2 DEF RefInv, NotClosedInUse
  <2>. QED BY <2>1, <2>2
<1>. QED BY <1>3, <1>5, <1>6, <1>7 DEF RefInv

LEMMA DecrementKeeps == ASSUME RefInv, NEW i \in Invokers, Decrement(i) PROVE RefInv'
<1>1. inv[i].pc = "running" /\ inv[i].c \in LoadIDs BY DEF Decrement, RefInv, RefTypes
<1>2. PICK c \in LoadIDs : c = inv[i].c BY <1>1
<1>. DEFINE e == IF refs[c].count = 1 THEN [pc |-> "notify", c |-> c] ELSE [pc |-> "idle", c |-> 0]
<1>0. /\ inv' = [inv EXCEPT ![i] = e]
      /\ refs' = [refs EXCEPT ![c].count = @ - 1] /\ client' = client
      /\ straddled' = straddled \ {i}
  BY <1>2 DEF Decrement
<1>3. RefTypes' BY <1>0, <1>1, <1>2, SMT DEF RefInv, RefTypes
<1>4. /\ inv'[i] = e /\ \A j \in Invokers \ {i} : inv'[j] = inv[j]
      /\ \A d \in LoadIDs : refs'[d].closed = refs[d].closed
      /\ \A d \in LoadIDs \ {c} : refs'[d] = refs[d]
      /\ refs'[c].count = refs[c].count - 1
  BY <1>0, <1>1, <1>2 DEF RefInv, RefTypes
<1>5. e.pc # "running" OBVIOUS
<1>6. i \in Running(c) BY <1>1, <1>2 DEF Running
<1>7. Counted'
  <2>1. \A d \in LoadIDs \ {c} : Running(d)' = Running(d) BY <1>0, <1>1, <1>2, <1>4, <1>5, SMT DEF Running
  <2>2. Running(c)' = Running(c) \ {i} BY <1>0, <1>1, <1>4, <1>5, SMT DEF Running
  <2>3. Cardinality(Running(c)') = Cardinality(Running(c)) - 1
    BY <1>6, <2>2, RunningFinite, FS_RemoveElement
  <2>. QED BY <1>2, <1>4, <2>1, <2>3, SMT DEF RefInv, Counted
<1>8. Noted'
  <2>. SUFFICES ASSUME NEW h \in Invokers, NEW j \in Invokers, inv'[h].pc = "running",
                       inv'[j].pc = "notify", inv'[j].c = inv'[h].c
                PROVE  h \in straddled'
    BY DEF Noted
  <2>1. h # i /\ inv'[h] = inv[h] BY <1>4, <1>5
  <2>2. CASE j = i
    <3>1. refs[c].count = 1 /\ inv[h].c = c BY <1>2, <1>4, <2>1, <2>2, SMT
    <3>2. h \in Running(c) BY <2>1, <3>1 DEF Running
    <3>3. Cardinality(Running(c)) = 1 BY <1>2, <3>1 DEF RefInv, Counted
    <3>. HIDE DEF e
    <3>0. Cardinality(Running(c) \ {i}) = Cardinality(Running(c)) - 1
      BY <1>6, RunningFinite, FS_RemoveElement
    <3>4. Cardinality(Running(c) \ {i}) = 0 BY <3>3, <3>0, SMT
    <3>5. IsFiniteSet(Running(c) \ {i}) BY RunningFinite, FS_RemoveElement
    <3>6. Running(c) \ {i} = {} BY <3>4, <3>5, FS_EmptySet
    <3>. QED BY <2>1, <3>2, <3>6
  <2>3. CASE j # i BY <1>0, <1>1, <1>4, <2>1, <2>3, SMT DEF RefInv, Noted
  <2>. QED BY <2>2, <2>3
<1>9. NotClosedInUse'
  <2>. SUFFICES ASSUME NEW h \in Invokers, inv'[h].pc = "running", h \notin straddled'
                PROVE  refs'[inv'[h].c].closed # "closed"
    BY DEF NotClosedInUse
  <2>1. h # i BY <1>4, <1>5
  <2>2. inv'[h] = inv[h] /\ h \notin straddled BY <1>0, <1>1, <1>4, <2>1
  <2>3. inv[h].c \in LoadIDs BY <2>2 DEF RefInv, RefTypes
  <2>. QED BY <1>4, <2>2, <2>3 DEF RefInv, NotClosedInUse
<1>. QED BY <1>3, <1>7, <1>8, <1>9 DEF RefInv

\* The last one to leave closes the client: whoever runs by now has straddled.
LEMMA LastKeeps == ASSUME RefInv, NEW i \in Invokers, LastDecrement(i) PROVE RefInv'
<1>. DEFINE c == inv[i].c
<1>1. /\ inv[i].pc = "notify" /\ inv' = [inv EXCEPT ![i] = [pc |-> "idle", c |-> 0]]
      /\ refs' = IF refs[c].closed = "pending" THEN [refs EXCEPT ![c].closed = "closed"] ELSE refs
      /\ UNCHANGED <<client, straddled>>
  BY DEF LastDecrement, notifyClosed
<1>2. c \in LoadIDs BY <1>1 DEF RefInv, RefTypes
<1>3. RefTypes' BY <1>1, <1>2, SMT DEF RefInv, RefTypes
<1>4. /\ inv'[i].pc = "idle" /\ \A j \in Invokers \ {i} : inv'[j] = inv[j]
      /\ \A d \in LoadIDs : refs'[d].count = refs[d].count
      /\ \A d \in LoadIDs \ {c} : refs'[d] = refs[d]
  BY <1>1, <1>2 DEF RefInv, RefTypes
<1>5. Counted'
  <2>1. \A d : Running(d)' = Running(d) BY <1>1, <1>4, SMT DEF Running
  <2>. QED BY <1>4, <2>1 DEF RefInv, Counted
<1>6. Noted' BY <1>1, <1>4 DEF RefInv, Noted
<1>7. NotClosedInUse'
  <2>. SUFFICES ASSUME NEW h \in Invokers, inv'[h].pc = "running", h \notin straddled'
                PROVE  refs'[inv'[h].c].closed # "closed"
    BY DEF NotClosedInUse
  <2>1. inv'[h] = inv[h] /\ h \notin straddled BY <1>1, <1>4
  <2>2. inv[h].c \in LoadIDs BY <2>1 DEF RefInv, RefTypes
  <2>3. inv[h].c # c BY <1>1, <2>1 DEF RefInv, Noted
  <2>. QED BY <1>4, <2>1, <2>2, <2>3, SMT DEF RefInv, NotClosedInUse
<1>. QED BY <1>3, <1>5, <1>6, <1>7 DEF RefInv

LEMMA RefNext == ASSUME RefInv, [Next]_vars PROVE RefInv'
<1>1. CASE Panic
  <2>1. TxnReset BY <1>1 DEF Panic
  <2>2. RefTypes' BY <2>1, SMT DEF TxnReset, RefTypes
  <2>3. \A d : Running(d)' = {} BY <2>1 DEF TxnReset, Running
  <2>4. Counted' BY <2>1, <2>3, FS_EmptySet DEF TxnReset, Counted
  <2>5. Noted' /\ NotClosedInUse' BY <2>1 DEF TxnReset, Noted, NotClosedInUse
  <2>. QED BY <2>2, <2>4, <2>5 DEF RefInv
<1>2. ASSUME NEW i \in Invokers, InvokeHandler(i) \/ Invocation(i) PROVE RefInv'
  BY <1>2, EnterKeeps, IncrementKeeps, DecrementKeeps, LastKeeps DEF Invocation
<1>3. ASSUME NEW l \in LoadIDs, Load(l) PROVE RefInv'
  <2>1. CASE Get(l) \/ Store(l) \/ CreateClient(l)
    <3>1. UNCHANGED <<client, refs, inv, straddled>> BY <2>1 DEF Get, Store, CreateClient
    <3>. QED BY <3>1, FlagSteps
  <2>2. CASE LockAndClose(l) \/ CloseOld(l) \/ Install(l) BY <2>2, FlagSteps
  <2>. QED BY <1>3, <2>1, <2>2 DEF Load
<1>4. CASE Close \/ CloseLast BY <1>4, FlagSteps
<1>5. CASE \/ UNCHANGED txnVars \/ Publish \/ handleConfigUpdate \/ newService \/ AddUpdateHandler
  <2>1. UNCHANGED <<client, refs, inv, straddled>>
    BY <1>5 DEF txnVars, Publish, handleConfigUpdate, newService, AddUpdateHandler
  <2>. QED BY <2>1, FlagSteps
<1>. QED BY <1>1, <1>2, <1>3, <1>4, <1>5 DEF Next, vars

-----------------------------------------------------------------------------
(***************************************************************************)
(* The chaincode and the publisher.                                         *)
(***************************************************************************)
\* The least number of a set.
LEMMA Least == ASSUME NEW T, T \subseteq Nat, T # {} PROVE \E x \in T : \A y \in T : x <= y
<1>. DEFINE R == OpToRel(<, Nat)
<1>1. IsWellFoundedOn(R, Nat) BY NatLessThanWellFounded
<1>2. \A x, y \in Nat : y < x => <<y, x>> \in R BY DEF OpToRel
<1>. HIDE DEF R
<1>3. PICK x \in T : \A y \in T : ~ (<<y, x>> \in R) BY <1>1, WFMin
<1>4. ASSUME NEW y \in T PROVE x <= y
  <2>1. x \in Nat /\ y \in Nat OBVIOUS
  <2>2. ~(y < x) BY <1>2, <1>3, <2>1
  <2>. QED BY <2>1, <2>2, SMT
<1>. QED BY <1>4

LEMMA KeysFinite == \A keys \in SUBSET AllKeys : IsFiniteSet(keys) /\ Cardinality(keys) \in Nat
<1>1. IsFiniteSet(AllKeys)
  <2>1. KeyOrder \in [1..Len(KeyOrder) -> AllKeys] /\ Len(KeyOrder) \in Nat BY KeysAssumption, SMT
  <2>2. \A k \in AllKeys : \E i \in 1..Len(KeyOrder) : KeyOrder[i] = k
    BY <2>1 DEF AllKeys, Range
  <2>3. IsFiniteSet(1..Len(KeyOrder)) BY <2>1, FS_Interval, SMT
  <2>4. KeyOrder \in Surjection(1..Len(KeyOrder), AllKeys) BY <2>1, <2>2, FS_Surjection DEF Surjection
  <2>. QED BY <2>3, <2>4, FS_Surjection
<1>. QED BY <1>1, FS_Subset, FS_CardinalityType

InOrderOf(ks, n) == \A a, b \in 1..n : a < b => Before(ks[a], ks[b])

\* Any keys can be put in their order.
LEMMA SortedRight ==
    ASSUME NEW keys \in SUBSET AllKeys
    PROVE  Sorted(keys) \in [1..Cardinality(keys) -> keys]
<1>. DEFINE S(n) == \A ke \in SUBSET AllKeys : Cardinality(ke) = n => \E ks \in [1..n -> ke] : InOrderOf(ks, n)
            T == {n \in Nat : ~S(n)}
<1>1. T = {}
  <2>. SUFFICES ASSUME T # {} PROVE FALSE
    OBVIOUS
  <2>1. PICK n \in T : \A m \in T : n <= m
    <3>. HIDE DEF S
    <3>1. T \subseteq Nat OBVIOUS
    <3>. HIDE DEF T
    <3>. QED BY <3>1, Least
  <2>2. PICK ke \in SUBSET AllKeys : Cardinality(ke) = n /\ ~\E ks \in [1..n -> ke] : InOrderOf(ks, n)
    BY <2>1
  <2>3. n \in Nat OBVIOUS
  <2>4. n # 0
    <3>. SUFFICES ASSUME n = 0 PROVE FALSE
      OBVIOUS
    <3>1. [i \in 1..n |-> i] \in [1..n -> ke] /\ InOrderOf([i \in 1..n |-> i], n)
      BY SMT DEF InOrderOf
    <3>. QED BY <2>2, <3>1
  <2>5. ke # {} BY <2>2, <2>4, FS_EmptySet
  <2>. DEFINE P == {m \in DOMAIN KeyOrder : KeyOrder[m] \in ke}
  <2>6. P \subseteq Nat /\ P # {} BY <2>5, KeysAssumption, SMT DEF AllKeys, Range
  <2>7. PICK p \in P : \A q \in P : p <= q BY <2>6, Least
  <2>. DEFINE first == KeyOrder[p]
              rest == ke \ {first}
  <2>8. first \in ke /\ rest \in SUBSET AllKeys OBVIOUS
  <2>9. Cardinality(rest) = n - 1 BY <2>2, <2>8, KeysFinite, FS_RemoveElement
  <2>10. PICK ks \in [1..(n - 1) -> rest] : InOrderOf(ks, n - 1)
    <3>1. n - 1 \in Nat /\ n - 1 \notin T
      <4>. HIDE DEF T
      <4>. QED BY <2>1, <2>3, <2>4, SMT
    <3>2. S(n - 1) BY <3>1
    <3>. HIDE DEF rest
    <3>. QED BY <2>8, <2>9, <3>2
  <2>. DEFINE all == [i \in 1..n |-> IF i = 1 THEN first ELSE ks[i - 1]]
  <2>11. all \in [1..n -> ke]
    <3>1. \A i \in 1..n : i # 1 => i - 1 \in 1..(n - 1) BY <2>3, SMT
    <3>. HIDE DEF first
    <3>. QED BY <2>8, <3>1
  <2>12. InOrderOf(all, n)
    <3>. SUFFICES ASSUME NEW a \in 1..n, NEW b \in 1..n, a < b PROVE Before(all[a], all[b])
      BY DEF InOrderOf
    <3>1. b # 1 /\ b - 1 \in 1..(n - 1) /\ all[b] = ks[b - 1] BY <2>3, SMT
    <3>2. CASE a = 1
      <4>1. ks[b - 1] \in rest BY <3>1
      <4>2. PICK m \in DOMAIN KeyOrder : KeyOrder[m] = ks[b - 1] BY <2>8, <4>1 DEF AllKeys, Range
      <4>3. m \in P /\ m # p BY <4>1, <4>2
      <4>4. p < m BY <2>6, <2>7, <4>3, SMT
      <4>5. p \in DOMAIN KeyOrder OBVIOUS
      <4>. HIDE DEF P
      <4>. QED BY <3>1, <3>2, <4>2, <4>4, <4>5 DEF Before
    <3>3. CASE a # 1
      <4>1. a - 1 \in 1..(n - 1) /\ all[a] = ks[a - 1] /\ a - 1 < b - 1 BY <2>3, <3>3, SMT
      <4>. QED BY <2>10, <3>1, <4>1 DEF InOrderOf
    <3>. QED BY <3>2, <3>3
  <2>. QED BY <2>2, <2>11, <2>12
<1>2. \E ks \in [1..Cardinality(keys) -> keys] : InOrderOf(ks, Cardinality(keys))
  <2>1. Cardinality(keys) \in Nat BY KeysFinite
  <2>2. S(Cardinality(keys)) BY <1>1, <2>1
  <2>. QED BY <2>2
<1>. QED BY <1>2 DEF Sorted, InOrderOf

\* A key and its strings.
LEMMA KeyStrings ==
    /\ \A k \in AllKeys : UnmarshalKey(MarshalKey(k)) = k
    /\ \A j, k \in AllKeys : MarshalKey(j) = MarshalKey(k) => j = k
    /\ \A j, k \in AllKeys : UnmarshalKey(getIndexKey(j)) # k
<1>1. \A k \in AllKeys : UnmarshalKey(MarshalKey(k)) = k
  BY KeysAssumption DEF UnmarshalKey, MarshalKey
<1>2. \A j, k \in AllKeys : MarshalKey(j) = MarshalKey(k) => j = k BY <1>1
<1>3. \A j \in AllKeys : MarshalKey(UnmarshalKey(getIndexKey(j))) = getIndexKey(j)
  BY DEF UnmarshalKey, MarshalKey, getIndexKey, NewKey
<1>4. \A j, k \in AllKeys : UnmarshalKey(getIndexKey(j)) # k BY <1>3, KeysAssumption
<1>. QED BY <1>1, <1>2, <1>4

LEMMA WriteParts ==
    \A x, d, y : Write(x, d, y).str = x /\ Write(x, d, y).del = d /\ Write(x, d, y).tx = y
BY DEF Write

\* The writes that a request makes are those of a transaction.
LEMMA InOrderRight ==
    ASSUME NEW keys, NEW entry, NEW indexEntry, NEW del \in BOOLEAN, NEW n \in Nat \ {0}, NEW m \in Nat, NEW t,
           \A k \in keys \cap AllKeys : /\ entry[k] = Write(MarshalKey(k), del, n)
                                        /\ indexEntry[k] = Write(getIndexKey(k), del, m),
           t.writes = InOrder(keys, entry, indexEntry)
    PROVE  RightTx(t, n)
<1>. DEFINE kk == keys \cap AllKeys
            ks == Sorted(kk)
            c == Cardinality(kk)
            ws == InOrder(keys, entry, indexEntry)
<1>1. ks \in [1..c -> kk] /\ c \in Nat BY SortedRight, KeysFinite
<1>. HIDE DEF kk, ks, c
<1>2. ks \in Seq(kk) /\ Len(ks) = c BY <1>1, SMT
<1>. DEFINE A == [i \in 1..c |-> indexEntry[ks[i]]]
            B == [i \in 1..c |-> entry[ks[i]]]
<1>3. ws = A \o B BY <1>2 DEF InOrder, kk, ks
<1>4. \A k \in kk : /\ k \in AllKeys /\ entry[k] = Write(MarshalKey(k), del, n)
                    /\ indexEntry[k] = Write(getIndexKey(k), del, m)
  BY DEF kk
<1>5. \A k \in kk : entry[k] \in Writes /\ indexEntry[k] \in Writes
  <2>1. \A k \in kk : MarshalKey(k) \in Strs /\ getIndexKey(k) \in Strs BY <1>4 DEF Strs
  <2>2. \A x \in Strs, y \in Nat : Write(x, del, y) \in Writes BY DEF Writes, Write
  <2>. QED BY <1>4, <2>1, <2>2
<1>6. \A i \in 1..c : ks[i] \in kk BY <1>1
<1>7. A \in Seq(Writes) /\ Len(A) = c /\ B \in Seq(Writes) /\ Len(B) = c
  BY <1>1, <1>5, <1>6, SMT
<1>8. /\ \A i \in 1..c : A[i] = Write(getIndexKey(ks[i]), del, m)
      /\ \A i \in 1..c : B[i] = Write(MarshalKey(ks[i]), del, n)
  BY <1>4, <1>6
<1>. HIDE DEF A, B
<1>9. /\ ws \in Seq(Writes) /\ DOMAIN ws = 1..(c + c)
      /\ \A i \in 1..c : ws[i] = A[i] /\ ws[c + i] = B[i]
      /\ \A i \in DOMAIN ws : i \in 1..c \/ i - c \in 1..c
  <2>1. c \in Nat BY <1>1
  <2>2. A \o B \in Seq(Writes) BY <1>7, SMT
  <2>3. Len(A \o B) = Len(A) + Len(B) BY <1>7, SMT
  <2>4. ws \in Seq(Writes) /\ Len(ws) = c + c BY <1>3, <1>7, <2>2, <2>3
  <2>5. DOMAIN ws = 1..(c + c) BY <2>4, SMT
  <2>6. \A i \in 1..c : ws[i] = A[i] BY <1>3, <1>7, <2>1, SMT
  <2>7. \A i \in 1..c : ws[c + i] = B[i] BY <1>3, <1>7, <2>1, SMT
  <2>8. \A i \in 1..(c + c) : i \in 1..c \/ i - c \in 1..c BY <2>1, SMT
  <2>. QED BY <2>4, <2>5, <2>6, <2>7, <2>8
<1>. HIDE DEF ws
<1>10. \A i \in DOMAIN ws : \E k \in kk : /\ k \in AllKeys
                                          /\ ws[i] \in {Write(getIndexKey(k), del, m), Write(MarshalKey(k), del, n)}
  <2>. SUFFICES ASSUME NEW i \in DOMAIN ws
                PROVE  \E k \in kk : k \in AllKeys /\ ws[i] \in {Write(getIndexKey(k), del, m), Write(MarshalKey(k), del, n)}
    OBVIOUS
  <2>1. CASE i \in 1..c BY <1>4, <1>6, <1>8, <1>9, <2>1, SMT
  <2>2. CASE i - c \in 1..c
    <3>1. c + (i - c) = i BY <1>1, <1>9, SMT
    <3>2. ws[i] = B[i - c] BY <1>9, <2>2, <3>1
    <3>. QED BY <1>4, <1>6, <1>8, <2>2, <3>2, SMT
  <2>. QED BY <1>9, <2>1, <2>2
<1>11. InRange(ws, n)
  <2>. SUFFICES ASSUME NEW i \in DOMAIN ws, NEW j \in AllKeys, ws[i].str = MarshalKey(j) PROVE ws[i].tx \in 1..n
    BY DEF InRange, Writing
  <2>1. PICK k \in kk : k \in AllKeys /\ ws[i] \in {Write(getIndexKey(k), del, m), Write(MarshalKey(k), del, n)}
    BY <1>10
  <2>2. getIndexKey(k) # MarshalKey(j) BY <2>1, KeysAssumption
  <2>3. ws[i].tx = n BY <2>1, <2>2, SMT DEF Write
  <2>. QED BY <2>3, SMT
<1>12. \A i, j \in DOMAIN ws : ws[i].del = ws[j].del /\ (ws[i].str = ws[j].str => ws[i] = ws[j])
  <2>. SUFFICES ASSUME NEW i \in DOMAIN ws, NEW j \in DOMAIN ws
                PROVE  ws[i].del = ws[j].del /\ (ws[i].str = ws[j].str => ws[i] = ws[j])
    OBVIOUS
  <2>1. PICK k \in kk : k \in AllKeys /\ ws[i] \in {Write(getIndexKey(k), del, m), Write(MarshalKey(k), del, n)}
    BY <1>10
  <2>2. PICK h \in kk : h \in AllKeys /\ ws[j] \in {Write(getIndexKey(h), del, m), Write(MarshalKey(h), del, n)}
    BY <1>10
  <2>3. getIndexKey(k) # MarshalKey(h) /\ getIndexKey(h) # MarshalKey(k) BY <2>1, <2>2, KeysAssumption
  <2>. QED BY <2>1, <2>2, <2>3, SMT DEF Write
<1>13. ASSUME NEW k \in AllKeys
       PROVE  /\ (\E i \in DOMAIN ws : ws[i].str = getIndexKey(k)) <=> (\E i \in 1..c : ks[i] = k)
              /\ (\E i \in DOMAIN ws : Writing(ws[i], k)) <=> (\E i \in 1..c : ks[i] = k)
  <2>1. ASSUME NEW i \in 1..c, ks[i] = k
        PROVE  i \in DOMAIN ws /\ ws[i].str = getIndexKey(k) /\ c + i \in DOMAIN ws /\ Writing(ws[c + i], k)
    <3>1. ws[i].str = getIndexKey(k) BY <1>8, <1>9, <2>1, WriteParts, SMT
    <3>2. ws[c + i].str = MarshalKey(k) BY <1>8, <1>9, <2>1, WriteParts, SMT
    <3>. QED BY <1>1, <1>9, <3>1, <3>2, SMT DEF Writing
  <2>2. ASSUME NEW i \in DOMAIN ws, ws[i].str = getIndexKey(k) \/ Writing(ws[i], k)
        PROVE  \E j \in 1..c : ks[j] = k
    <3>1. CASE i \in 1..c
      <4>1. ws[i].str = getIndexKey(ks[i]) /\ ks[i] \in AllKeys BY <1>4, <1>6, <1>8, <1>9, <3>1, WriteParts, SMT
      <4>2. ks[i] = k BY <2>2, <4>1, KeysAssumption DEF Writing
      <4>. QED BY <3>1, <4>2
    <3>2. CASE i - c \in 1..c
      <4>1. c + (i - c) = i BY <1>1, <1>9, SMT
      <4>2. ws[i].str = MarshalKey(ks[i - c]) /\ ks[i - c] \in AllKeys
        BY <1>4, <1>6, <1>8, <1>9, <3>2, <4>1, WriteParts, SMT
      <4>3. ks[i - c] = k BY <2>2, <4>2, KeysAssumption, KeyStrings DEF Writing
      <4>. QED BY <3>2, <4>3
    <3>. QED BY <1>9, <3>1, <3>2
  <2>. QED BY <2>1, <2>2
<1>14. t.writes = ws BY DEF ws
<1>. QED BY <1>9, <1>11, <1>12, <1>13, <1>14, SMT DEF RightTx

LEMMA UpdateOfType == \A w \in Writes : UpdateOf(w) \in AllUpdates
<1>. SUFFICES ASSUME NEW w \in Writes PROVE UpdateOf(w) \in AllUpdates
  OBVIOUS
<1>1. w.str \in Strs /\ w.tx \in Nat BY DEF Writes
<1>2. (IF w.del THEN Nil ELSE w.tx) \in Nat \cup {Nil} BY <1>1
<1>. QED BY <1>1, <1>2 DEF UpdateOf, AllUpdates

LEMMA UpdatesType == \A ws \in Seq(Writes) : Updates(ws) \in Seq(AllUpdates) /\ Len(Updates(ws)) = Len(ws)
<1>. SUFFICES ASSUME NEW ws \in Seq(Writes) PROVE Updates(ws) \in Seq(AllUpdates) /\ Len(Updates(ws)) = Len(ws)
  OBVIOUS
<1>1. \A i \in 1..Len(ws) : UpdateOf(ws[i]) \in AllUpdates BY UpdateOfType, SMT
<1>. QED BY <1>1, SMT DEF Updates

LEMMA UpdatesOfConcat == \A a, b \in Seq(Writes) : Updates(a \o b) = Updates(a) \o Updates(b)
<1>. SUFFICES ASSUME NEW a \in Seq(Writes), NEW b \in Seq(Writes) PROVE Updates(a \o b) = Updates(a) \o Updates(b)
  OBVIOUS
<1>. DEFINE x == Updates(a \o b)
            ua == Updates(a)
            ub == Updates(b)
<1>1. a \o b \in Seq(Writes) /\ Len(a \o b) = Len(a) + Len(b) BY SMT
<1>2. /\ x \in Seq(AllUpdates) /\ Len(x) = Len(a) + Len(b)
      /\ ua \in Seq(AllUpdates) /\ Len(ua) = Len(a) /\ ub \in Seq(AllUpdates) /\ Len(ub) = Len(b)
  BY <1>1, UpdatesType
<1>. HIDE DEF x, ua, ub
<1>3. ua \o ub \in Seq(AllUpdates) /\ Len(ua \o ub) = Len(x) BY <1>2, SMT
<1>4. ASSUME NEW i \in 1..Len(x) PROVE x[i] = (ua \o ub)[i]
  <2>1. x[i] = UpdateOf((a \o b)[i]) BY <1>1, <1>2 DEF Updates, x
  <2>2. CASE i <= Len(a)
    <3>1. (a \o b)[i] = a[i] /\ (ua \o ub)[i] = ua[i] BY <1>2, <2>2, SMT
    <3>. QED BY <1>2, <2>1, <2>2, <3>1, SMT DEF Updates, ua
  <2>3. CASE i > Len(a)
    <3>1. (a \o b)[i] = b[i - Len(a)] /\ (ua \o ub)[i] = ub[i - Len(a)] /\ i - Len(a) \in 1..Len(b)
      BY <1>2, <2>3, SMT
    <3>. QED BY <2>1, <3>1 DEF Updates, ub
  <2>. QED BY <1>2, <2>2, <2>3, SMT
<1>5. x = ua \o ub BY <1>2, <1>3, <1>4, SMT
<1>. QED BY <1>5 DEF x, ua, ub

LEMMA UpdatesOfTail ==
    \A a \in Seq(Writes) : a # <<>> => Updates(a) = <<UpdateOf(Head(a))>> \o Updates(Tail(a))
<1>. SUFFICES ASSUME NEW a \in Seq(Writes), a # <<>> PROVE Updates(a) = <<UpdateOf(Head(a))>> \o Updates(Tail(a))
  OBVIOUS
<1>. DEFINE x == Updates(a)
            h == UpdateOf(Head(a))
            u == Updates(Tail(a))
<1>1. Tail(a) \in Seq(Writes) /\ Len(Tail(a)) = Len(a) - 1 /\ Head(a) \in Writes BY SMT
<1>2. /\ h \in AllUpdates /\ u \in Seq(AllUpdates) /\ Len(u) = Len(a) - 1
      /\ x \in Seq(AllUpdates) /\ Len(x) = Len(a)
  BY <1>1, UpdateOfType, UpdatesType
<1>. HIDE DEF x, h, u
<1>3. <<h>> \o u \in Seq(AllUpdates) /\ Len(<<h>> \o u) = Len(a) BY <1>2, SMT
<1>4. ASSUME NEW i \in 1..Len(a) PROVE x[i] = (<<h>> \o u)[i]
  <2>1. CASE i = 1
    <3>1. (<<h>> \o u)[i] = h BY <1>2, <2>1, SMT
    <3>2. Head(a) = a[1] /\ 1 \in 1..Len(a) BY <2>1, SMT
    <3>3. x[1] = UpdateOf(a[1]) BY <3>2 DEF Updates, x
    <3>. QED BY <2>1, <3>1, <3>2, <3>3 DEF h
  <2>2. CASE i # 1
    <3>1. (<<h>> \o u)[i] = u[i - 1] /\ i - 1 \in 1..Len(Tail(a)) BY <1>1, <1>2, <2>2, SMT
    <3>2. Tail(a)[i - 1] = a[i] BY <1>1, <2>2, <3>1, SMT
    <3>. QED BY <3>1, <3>2 DEF Updates, u, x
  <2>. QED BY <2>1, <2>2
<1>5. x = <<h>> \o u
  <2>. DEFINE z == <<h>> \o u
  <2>1. z \in Seq(AllUpdates) /\ Len(z) = Len(x) /\ \A i \in 1..Len(x) : x[i] = z[i] BY <1>2, <1>3, <1>4
  <2>. HIDE DEF z
  <2>2. x = z BY <1>2, <2>1, SMT
  <2>. QED BY <2>2 DEF z
<1>. QED BY <1>5 DEF x, h, u

LEMMA Concats ==
    ASSUME NEW S, NEW a \in Seq(S), NEW b \in Seq(S), NEW c \in Seq(S), NEW e \in S
    PROVE  /\ a \o b \in Seq(S) /\ (a \o b) \o c = a \o (b \o c)
           /\ a \o <<e>> = Append(a, e) /\ <<>> \o a = a /\ a \o <<>> = a
           /\ a # <<>> => <<Head(a)>> \o Tail(a) = a
<1>1. a \o b \in Seq(S) BY SMT
<1>2. (a \o b) \o c = a \o (b \o c) BY SMT
<1>3. a \o <<e>> = Append(a, e) BY SMT
<1>4. <<>> \o a = a /\ a \o <<>> = a BY SMT
<1>5. ASSUME a # <<>> PROVE <<Head(a)>> \o Tail(a) = a BY <1>5, SMT
<1>. QED BY <1>1, <1>2, <1>3, <1>4, <1>5

LEMMA CfgInitRight == Init => CfgInv
<1>. SUFFICES ASSUME Init PROVE CfgInv
  OBVIOUS
<1>1. CfgInit BY DEF Init
<1>2. /\ DOMAIN db = {MarshalKey(k) : k \in Saved} \cup {getIndexKey(k) : k \in Saved}
      /\ \A s \in DOMAIN db : db[s] = IF IsIndex(s) THEN NoTxID ELSE 1
  BY <1>1 DEF CfgInit
<1>3. ASSUME NEW k \in AllKeys
      PROVE  /\ MarshalKey(k) \in DOMAIN db <=> k \in Saved
             /\ getIndexKey(k) \in DOMAIN db <=> k \in Saved
             /\ MarshalKey(k) \in DOMAIN db => db[MarshalKey(k)] = 1
  <2>1. MarshalKey(k) \in DOMAIN db <=> k \in Saved BY <1>2, KeyStrings, KeysAssumption
  <2>2. getIndexKey(k) \in DOMAIN db <=> k \in Saved BY <1>2, KeyStrings, KeysAssumption, SMT
  <2>3. ~IsIndex(MarshalKey(k)) BY KeysAssumption DEF IsIndex
  <2>. QED BY <1>2, <2>1, <2>2, <2>3
<1>4. IndexExact BY <1>3 DEF IndexExact
<1>5. CfgTypes BY <1>1, <1>3, BoundsAssumption, SMT DEF CfgTypes, CfgInit, InRange
<1>6. NotifiedInOrder /\ Latest BY <1>1, SMT DEF CfgInit, NotifiedInOrder, Latest, Updates
<1>. QED BY <1>4, <1>5, <1>6 DEF CfgInv

LEMMA RightTxLater == ASSUME NEW t, NEW n \in Nat, NEW m \in Nat, n <= m, RightTx(t, n) PROVE RightTx(t, m)
BY SMT DEF RightTx, InRange

LEMMA InvokeKeeps == ASSUME CfgInv, Invoke PROVE CfgInv'
<1>. DEFINE n == txs + 1
<1>1. /\ txs \in Nat \ {0} /\ n \in Nat \ {0} /\ txs' = n
      /\ UNCHANGED <<db, writes, cache, updateChan, notified, log>>
  BY SMT DEF CfgInv, CfgTypes, Invoke
<1>2. PICK r \in Requests : IF r.fcn = "save" THEN put(r.arg) ELSE remove(r.arg) BY DEF Invoke
<1>3. ASSUME NEW c, put(c) PROVE \A t \in simulated' : RightTx(t, n)
  <2>. DEFINE t == Save(c, n)
              keys == newKeyValueMap(c)
  <2>1. simulated' = simulated \cup {t} BY <1>3 DEF put
  <2>2. t.writes = InOrder(keys, [k \in keys |-> Write(MarshalKey(k), FALSE, n)],
                                 [k \in keys |-> Write(getIndexKey(k), FALSE, NoTxID)])
    BY DEF Save, save
  <2>. HIDE DEF t, keys
  <2>3. RightTx(t, n)
    <3>. DEFINE del == FALSE
                entry == [k \in keys |-> Write(MarshalKey(k), del, n)]
                ie == [k \in keys |-> Write(getIndexKey(k), del, NoTxID)]
    <3>1. \A k \in keys \cap AllKeys : /\ entry[k] = Write(MarshalKey(k), del, n)
                                       /\ ie[k] = Write(getIndexKey(k), del, NoTxID)
      OBVIOUS
    <3>2. del \in BOOLEAN /\ NoTxID \in Nat BY DEF NoTxID
    <3>3. t.writes = InOrder(keys, entry, ie) BY <2>2
    <3>. HIDE DEF entry, ie, n, del
    <3>. QED BY <1>1, <3>1, <3>2, <3>3, InOrderRight, SMT
  <2>4. \A u \in simulated : RightTx(u, n) BY <1>1, RightTxLater, SMT DEF CfgInv, CfgTypes
  <2>. QED BY <2>1, <2>3, <2>4
<1>4. ASSUME NEW c, remove(c) PROVE \A t \in simulated' : RightTx(t, n)
  <2>. DEFINE t == Delete(c, n)
              keys == query(c)
  <2>1. simulated' = simulated \cup {t} BY <1>4 DEF remove
  <2>2. t.writes = InOrder(keys, [k \in keys |-> Write(MarshalKey(k), TRUE, n)],
                                 [k \in keys |-> Write(getIndexKey(k), TRUE, n)])
    BY DEF Delete, deleteIndex
  <2>. HIDE DEF t, keys
  <2>3. RightTx(t, n)
    <3>. DEFINE del == TRUE
                entry == [k \in keys |-> Write(MarshalKey(k), del, n)]
                ie == [k \in keys |-> Write(getIndexKey(k), del, n)]
    <3>1. \A k \in keys \cap AllKeys : /\ entry[k] = Write(MarshalKey(k), del, n)
                                       /\ ie[k] = Write(getIndexKey(k), del, n)
      OBVIOUS
    <3>2. del \in BOOLEAN /\ NoTxID \in Nat BY DEF NoTxID
    <3>3. t.writes = InOrder(keys, entry, ie) BY <2>2
    <3>. HIDE DEF entry, ie, n, del
    <3>. QED BY <1>1, <3>1, <3>2, <3>3, InOrderRight, SMT
  <2>4. \A u \in simulated : RightTx(u, n) BY <1>1, RightTxLater, SMT DEF CfgInv, CfgTypes
  <2>. QED BY <2>1, <2>3, <2>4
<1>5. \A t \in simulated' : RightTx(t, n) BY <1>2, <1>3, <1>4
<1>6. InRange(writes, n) BY <1>1, SMT DEF CfgInv, CfgTypes, InRange
<1>7. \A k \in AllKeys : MarshalKey(k) \in DOMAIN db => db[MarshalKey(k)] \in 1..n
  BY <1>1, SMT DEF CfgInv, CfgTypes
<1>. HIDE DEF n
<1>8. CfgTypes' BY <1>1, <1>5, <1>6, <1>7 DEF CfgInv, CfgTypes
<1>9. IndexExact' /\ NotifiedInOrder' BY <1>1 DEF CfgInv, IndexExact, NotifiedInOrder
<1>10. Latest' BY <1>1 DEF CfgInv, Latest, getConfig, At
<1>. QED BY <1>8, <1>9, <1>10 DEF CfgInv

\* g is the state f after the writes ws: a string that is written has what was written, the
\* others stay.
Applied(ws, f, g) ==
    /\ \A s : (\A i \in DOMAIN ws : ws[i].str # s) =>
               (s \in DOMAIN g <=> s \in DOMAIN f) /\ (s \in DOMAIN f => g[s] = f[s])
    /\ \A i \in DOMAIN ws : IF ws[i].del THEN ws[i].str \notin DOMAIN g
                            ELSE ws[i].str \in DOMAIN g /\ g[ws[i].str] = ws[i].tx

LEMMA AppliedRight ==
    ASSUME NEW t, NEW n, RightTx(t, n), NEW f
    PROVE  Applied(t.writes, f, ApplyUpdates(f, t.writes))
<1>. DEFINE ws == t.writes
            g == ApplyUpdates(f, ws)
            gone == {ws[i].str : i \in {j \in DOMAIN ws : ws[j].del}}
            set == {ws[i].str : i \in {j \in DOMAIN ws : ~ws[j].del}}
<1>1. g = [s \in (DOMAIN f \ gone) \cup set |->
             IF s \in set THEN ws[CHOOSE i \in DOMAIN ws : ws[i].str = s].tx ELSE f[s]]
  BY DEF ApplyUpdates
<1>2. /\ \A s : (\A i \in DOMAIN ws : ws[i].str # s) => s \notin gone /\ s \notin set
      /\ \A i \in DOMAIN ws : ws[i].del \in BOOLEAN
      /\ \A i, j \in DOMAIN ws : ws[i].str = ws[j].str => ws[i] = ws[j]
  <2>1. \A i \in DOMAIN ws : ws[i] \in Writes BY SMT DEF RightTx
  <2>2. \A i \in DOMAIN ws : ws[i].del \in BOOLEAN BY <2>1 DEF Writes
  <2>3. \A i, j \in DOMAIN ws : ws[i].str = ws[j].str => ws[i] = ws[j] BY DEF RightTx
  <2>. QED BY <2>2, <2>3
<1>3. \A i \in DOMAIN ws : /\ ws[i].del => ws[i].str \in gone /\ ws[i].str \notin set
                           /\ ~ws[i].del => ws[i].str \in set
  <2>1. \A i \in DOMAIN ws : ws[i].del => ws[i].str \in gone OBVIOUS
  <2>2. \A i \in DOMAIN ws : ~ws[i].del => ws[i].str \in set OBVIOUS
  <2>3. ASSUME NEW i \in DOMAIN ws, ws[i].del, ws[i].str \in set PROVE FALSE
    <3>1. PICK j \in DOMAIN ws : ~ws[j].del /\ ws[j].str = ws[i].str BY <2>3
    <3>2. ws[i] = ws[j] BY <1>2, <3>1
    <3>. QED BY <2>3, <3>1, <3>2
  <2>. QED BY <2>1, <2>2, <2>3
<1>. HIDE DEF ws, gone, set, g
<1>4. DOMAIN g = (DOMAIN f \ gone) \cup set BY <1>1
<1>5. \A s : (\A i \in DOMAIN ws : ws[i].str # s) =>
               (s \in DOMAIN g <=> s \in DOMAIN f) /\ (s \in DOMAIN f => g[s] = f[s])
  BY <1>1, <1>2, <1>4
<1>6. ASSUME NEW i \in DOMAIN ws
      PROVE  IF ws[i].del THEN ws[i].str \notin DOMAIN g
             ELSE ws[i].str \in DOMAIN g /\ g[ws[i].str] = ws[i].tx
  <2>1. CASE ws[i].del BY <1>3, <1>4, <2>1
  <2>2. CASE ~ws[i].del
    <3>. DEFINE c == CHOOSE j \in DOMAIN ws : ws[j].str = ws[i].str
    <3>1. c \in DOMAIN ws /\ ws[c].str = ws[i].str OBVIOUS
    <3>2. ws[i].str \in set /\ ws[i].str \in DOMAIN g BY <1>3, <1>4, <2>2
    <3>3. g[ws[i].str] = ws[c].tx BY <1>1, <1>4, <3>2
    <3>. HIDE DEF c
    <3>4. ws[c] = ws[i] BY <1>2, <3>1
    <3>. QED BY <2>2, <3>2, <3>3, <3>4
  <2>. QED BY <2>1, <2>2
<1>. QED BY <1>5, <1>6 DEF ws, g, Applied

LEMMA CommitKeeps == ASSUME CfgInv, Commit PROVE CfgInv'
<1>1. PICK t \in simulated : 
         /\ simulated' = simulated \ {t}
         /\ \/ /\ db' = ApplyUpdates(db, t.writes) /\ writes' = writes \o t.writes
               /\ log' = log \o Updates(t.writes)
            \/ UNCHANGED <<db, writes, log>>
  BY DEF Commit
<1>2. UNCHANGED <<txs, cache, updateChan, notified>> BY DEF Commit
<1>3. CASE UNCHANGED <<db, writes, log>>
  <2>1. CfgTypes' BY <1>1, <1>2, <1>3 DEF CfgInv, CfgTypes, InRange
  <2>2. IndexExact' /\ NotifiedInOrder' BY <1>2, <1>3 DEF CfgInv, IndexExact, NotifiedInOrder
  <2>3. Latest' BY <1>3 DEF CfgInv, Latest, getConfig, At
  <2>. QED BY <2>1, <2>2, <2>3 DEF CfgInv
<1>4. CASE /\ db' = ApplyUpdates(db, t.writes) /\ writes' = writes \o t.writes
           /\ log' = log \o Updates(t.writes)
  <2>. DEFINE ws == t.writes
  <2>1. RightTx(t, txs) /\ txs \in Nat \ {0} /\ writes \in Seq(Writes) /\ InRange(writes, txs)
    BY DEF CfgInv, CfgTypes
  <2>2. /\ ws \in Seq(Writes) /\ InRange(ws, txs)
        /\ \A k \in AllKeys : (\E i \in DOMAIN ws : ws[i].str = getIndexKey(k))
                                <=> (\E i \in DOMAIN ws : Writing(ws[i], k))
        /\ \A i, j \in DOMAIN ws : ws[i].del = ws[j].del /\ (ws[i].str = ws[j].str => ws[i] = ws[j])
    BY <2>1 DEF RightTx
  <2>3. /\ \A s : (\A i \in DOMAIN ws : ws[i].str # s) =>
                    (s \in DOMAIN db' <=> s \in DOMAIN db) /\ (s \in DOMAIN db => db'[s] = db[s])
        /\ \A i \in DOMAIN ws : IF ws[i].del THEN ws[i].str \notin DOMAIN db'
                                ELSE ws[i].str \in DOMAIN db' /\ db'[ws[i].str] = ws[i].tx
    <3>1. Applied(ws, db, db') BY <1>4, <2>1, AppliedRight
    <3>. QED BY <3>1 DEF Applied
  <2>. HIDE DEF ws
  <2>4. IndexExact'
    <3>. SUFFICES ASSUME NEW k \in AllKeys
                  PROVE  getIndexKey(k) \in DOMAIN db' <=> MarshalKey(k) \in DOMAIN db'
      BY DEF IndexExact
    <3>1. CASE \E i \in DOMAIN ws : Writing(ws[i], k)
      <4>1. PICK i \in DOMAIN ws : ws[i].str = MarshalKey(k) BY <3>1 DEF Writing
      <4>2. PICK j \in DOMAIN ws : ws[j].str = getIndexKey(k) BY <2>2, <3>1
      <4>3. ws[i].del = ws[j].del BY <2>2
      <4>. QED BY <2>3, <4>1, <4>2, <4>3, SMT
    <3>2. CASE ~\E i \in DOMAIN ws : Writing(ws[i], k)
      <4>1. \A i \in DOMAIN ws : ws[i].str # MarshalKey(k) /\ ws[i].str # getIndexKey(k)
        BY <2>2, <3>2 DEF Writing
      <4>. QED BY <2>3, <4>1 DEF CfgInv, IndexExact
    <3>. QED BY <3>1, <3>2
  <2>5. /\ writes' \in Seq(Writes) /\ Len(writes') = Len(writes) + Len(ws)
        /\ \A i \in DOMAIN writes : i \in DOMAIN writes' /\ writes'[i] = writes[i]
        /\ \A i \in DOMAIN ws : Len(writes) + i \in DOMAIN writes' /\ writes'[Len(writes) + i] = ws[i]
        /\ \A i \in DOMAIN writes' : i \in DOMAIN writes \/ i - Len(writes) \in DOMAIN ws
        /\ \A i \in DOMAIN ws, j \in DOMAIN writes : Len(writes) + i > j
        /\ \A i \in DOMAIN writes' : i \in DOMAIN writes => writes'[i] = writes[i]
        /\ \A i \in DOMAIN writes' : i - Len(writes) \in DOMAIN ws => writes'[i] = ws[i - Len(writes)]
    BY <1>4, <2>1, <2>2, SMT DEF ws
  <2>6. InRange(writes', txs)
    <3>. SUFFICES ASSUME NEW i \in DOMAIN writes', NEW k \in AllKeys, Writing(writes'[i], k)
                  PROVE  writes'[i].tx \in 1..txs
      BY DEF InRange
    <3>. QED BY <2>1, <2>2, <2>5 DEF InRange
  <2>7. CfgTypes'
    <3>1. log' \in Seq(AllUpdates)
      <4>1. Updates(ws) \in Seq(AllUpdates) BY <2>2, UpdatesType
      <4>. QED BY <1>4, <4>1, SMT DEF CfgInv, CfgTypes, ws
    <3>2. ASSUME NEW k \in AllKeys, MarshalKey(k) \in DOMAIN db' PROVE db'[MarshalKey(k)] \in 1..txs
      <4>1. CASE \E i \in DOMAIN ws : Writing(ws[i], k)
        BY <2>2, <2>3, <3>2, <4>1, SMT DEF InRange, Writing
      <4>2. CASE ~\E i \in DOMAIN ws : Writing(ws[i], k)
        BY <2>3, <3>2, <4>2 DEF CfgInv, CfgTypes, Writing
      <4>. QED BY <4>1, <4>2
    <3>3. \A u \in simulated' : RightTx(u, txs) BY <1>1 DEF CfgInv, CfgTypes
    <3>. QED BY <1>2, <2>5, <2>6, <3>1, <3>2, <3>3 DEF CfgInv, CfgTypes
  <2>8. NotifiedInOrder'
    <3>. DEFINE a == notified \o updateChan
                u == Updates(writes)
                v == Updates(ws)
    <3>1. u \in Seq(AllUpdates) /\ v \in Seq(AllUpdates) BY <2>1, <2>2, UpdatesType
    <3>2. a \in Seq(AllUpdates) BY SMT DEF CfgInv, CfgTypes
    <3>3. log = a \o u /\ log' = log \o v BY <1>4 DEF CfgInv, NotifiedInOrder, ws
    <3>4. Updates(writes)' = u \o v
      <4>1. writes' = writes \o ws BY <1>4 DEF ws
      <4>2. Updates(writes)' = Updates(writes \o ws) BY <4>1 DEF Updates, UpdateOf
      <4>. QED BY <2>1, <2>2, <4>2, UpdatesOfConcat
    <3>. HIDE DEF a, u, v
    <3>5. log' = a \o (u \o v) BY <3>1, <3>2, <3>3, SMT
    <3>. QED BY <1>2, <3>4, <3>5 DEF NotifiedInOrder, a
  <2>9. Latest'
    <3>. SUFFICES ASSUME NEW k \in AllKeys, NEW i \in DOMAIN writes', Writing(writes'[i], k),
                         \A j \in DOMAIN writes' : j > i => ~Writing(writes'[j], k)
                  PROVE  getConfig(k)' = IF writes'[i].del THEN Nil ELSE writes'[i].tx
      BY DEF Latest
    <3>1. CASE i - Len(writes) \in DOMAIN ws
      <4>1. writes'[i] = ws[i - Len(writes)] BY <2>5, <3>1
      <4>2. IF writes'[i].del THEN MarshalKey(k) \notin DOMAIN db'
            ELSE MarshalKey(k) \in DOMAIN db' /\ db'[MarshalKey(k)] = writes'[i].tx
        BY <2>3, <3>1, <4>1, SMT DEF Writing
      <4>. QED BY <4>2 DEF getConfig, At
    <3>2. CASE i \in DOMAIN writes
      <4>1. \A j \in DOMAIN ws : ~Writing(ws[j], k) BY <2>5, <3>2
      <4>2. getConfig(k)' = getConfig(k) BY <2>3, <4>1 DEF getConfig, At, Writing
      <4>3. \A j \in DOMAIN writes : j > i => ~Writing(writes[j], k) BY <2>5
      <4>4. writes'[i] = writes[i] BY <2>5, <3>2
      <4>. QED BY <3>2, <4>2, <4>3, <4>4 DEF CfgInv, Latest
    <3>. QED BY <2>5, <3>1, <3>2
  <2>. QED BY <2>4, <2>7, <2>8, <2>9 DEF CfgInv
<1>. QED BY <1>1, <1>3, <1>4

\* The head of what is to be published, and what is left.
LEMMA HeadTail ==
    ASSUME NEW S, NEW s \in Seq(S), s # <<>>
    PROVE  /\ Head(s) = s[1] /\ Head(s) \in S /\ 1 \in DOMAIN s /\ Tail(s) \in Seq(S)
           /\ \A i \in DOMAIN Tail(s) : i + 1 \in DOMAIN s /\ Tail(s)[i] = s[i + 1]
           /\ \A i \in DOMAIN s : i # 1 => i - 1 \in DOMAIN Tail(s) /\ Tail(s)[i - 1] = s[i]
           /\ \A i \in DOMAIN Tail(s) : i \in Nat
           /\ \A i \in DOMAIN s : i \in Nat
           /\ Len(Tail(s)) = Len(s) - 1
BY SMT

LEMMA PublishKeeps == ASSUME CfgInv, PublishWrite PROVE CfgInv'
<1>. DEFINE w == Head(writes)
<1>1. /\ writes # <<>> /\ writes' = Tail(writes) /\ UNCHANGED <<db, simulated, txs, notified, log>>
      /\ Len(updateChan) < BufferSize /\ updateChan' = Append(updateChan, UpdateOf(w))
  BY DEF PublishWrite, handleKeyUpdate
<1>2. writes \in Seq(Writes) /\ InRange(writes, txs) BY DEF CfgInv, CfgTypes
<1>3. /\ w \in Writes /\ writes' \in Seq(Writes)
      /\ \A i \in DOMAIN writes' : i + 1 \in DOMAIN writes /\ writes'[i] = writes[i + 1]
      /\ \A i \in DOMAIN writes : i # 1 => i - 1 \in DOMAIN writes' /\ writes'[i - 1] = writes[i]
      /\ \A i \in DOMAIN writes' : i \in Nat
      /\ \A i \in DOMAIN writes : i \in Nat
  BY <1>1, <1>2, HeadTail
<1>4. UpdateOf(w) \in AllUpdates BY <1>3, UpdateOfType
<1>5. CfgTypes'
  <2>1. InRange(writes', txs) BY <1>2, <1>3 DEF InRange
  <2>2. updateChan' \in Seq(AllUpdates) /\ Len(updateChan') <= BufferSize
    <3>. HIDE DEF w
    <3>. QED BY <1>1, <1>4, BoundsAssumption, SMT DEF CfgInv, CfgTypes
  <2>. QED BY <1>1, <1>3, <2>1, <2>2 DEF CfgInv, CfgTypes
<1>6. IndexExact' BY <1>1 DEF CfgInv, IndexExact
<1>7. NotifiedInOrder'
  <2>. DEFINE u == UpdateOf(w)
              rest == Updates(Tail(writes))
  <2>1. Updates(writes) = <<u>> \o rest BY <1>1, <1>2, UpdatesOfTail
  <2>2. rest \in Seq(AllUpdates) BY <1>1, <1>3, UpdatesType
  <2>3. log = notified \o updateChan \o (<<u>> \o rest) BY <2>1 DEF CfgInv, NotifiedInOrder
  <2>4. Updates(writes)' = rest BY <1>1 DEF Updates, UpdateOf
  <2>5. updateChan' = Append(updateChan, u) BY <1>1
  <2>. HIDE DEF u, rest
  <2>6. notified \in Seq(AllUpdates) /\ updateChan \in Seq(AllUpdates) /\ u \in AllUpdates
    BY <1>4 DEF CfgInv, CfgTypes, u
  <2>7. notified \o updateChan \o (<<u>> \o rest) = notified \o Append(updateChan, u) \o rest
    <3>1. <<u>> \in Seq(AllUpdates) /\ notified \o updateChan \in Seq(AllUpdates) BY <2>6, SMT
    <3>2. (notified \o updateChan) \o (<<u>> \o rest) = ((notified \o updateChan) \o <<u>>) \o rest
      BY <2>2, <2>6, <3>1, Concats, SMT
    <3>3. (notified \o updateChan) \o <<u>> = notified \o (updateChan \o <<u>>) BY <2>6, <3>1, Concats, SMT
    <3>4. updateChan \o <<u>> = Append(updateChan, u) BY <2>6, Concats, SMT
    <3>. QED BY <3>2, <3>3, <3>4
  <2>. QED BY <1>1, <2>3, <2>4, <2>5, <2>7 DEF NotifiedInOrder
<1>8. Latest'
  <2>. SUFFICES ASSUME NEW k \in AllKeys, NEW i \in DOMAIN writes', Writing(writes'[i], k),
                       \A j \in DOMAIN writes' : j > i => ~Writing(writes'[j], k)
                PROVE  getConfig(k)' = IF writes'[i].del THEN Nil ELSE writes'[i].tx
    BY DEF Latest
  <2>1. i + 1 \in DOMAIN writes /\ writes'[i] = writes[i + 1] BY <1>3
  <2>2. ASSUME NEW j \in DOMAIN writes, j > i + 1 PROVE ~Writing(writes[j], k)
    <3>1. i \in Nat /\ j \in Nat BY <1>3
    <3>2. j # 1 /\ j - 1 > i BY <2>2, <3>1, SMT
    <3>3. j - 1 \in DOMAIN writes' /\ writes'[j - 1] = writes[j] BY <1>3, <3>2
    <3>. QED BY <3>2, <3>3
  <2>3. getConfig(k) = IF writes[i + 1].del THEN Nil ELSE writes[i + 1].tx
    BY <2>1, <2>2 DEF CfgInv, Latest
  <2>4. getConfig(k)' = getConfig(k) BY <1>1 DEF getConfig, At
  <2>. QED BY <2>1, <2>3, <2>4
<1>. QED BY <1>5, <1>6, <1>7, <1>8 DEF CfgInv

LEMMA NotifyKeeps == ASSUME CfgInv, notify PROVE CfgInv'
<1>1. /\ updateChan # <<>> /\ updateChan' = Tail(updateChan)
      /\ notified' = Append(notified, Head(updateChan))
      /\ UNCHANGED <<db, simulated, txs, writes, cache, log>>
  BY DEF notify
<1>2. notified \in Seq(AllUpdates) /\ updateChan \in Seq(AllUpdates) /\ Len(updateChan) <= BufferSize
  BY DEF CfgInv, CfgTypes
<1>3. /\ Head(updateChan) \in AllUpdates /\ Tail(updateChan) \in Seq(AllUpdates)
      /\ Len(Tail(updateChan)) = Len(updateChan) - 1
  BY <1>1, <1>2, HeadTail
<1>4. CfgTypes'
  <2>1. notified' \in Seq(AllUpdates) /\ updateChan' \in Seq(AllUpdates) BY <1>1, <1>2, <1>3, SMT
  <2>2. Len(updateChan') <= BufferSize BY <1>1, <1>2, <1>3, BoundsAssumption, SMT
  <2>. QED BY <1>1, <2>1, <2>2 DEF CfgInv, CfgTypes, InRange
<1>5. IndexExact' BY <1>1 DEF CfgInv, IndexExact
<1>6. NotifiedInOrder'
  <2>. DEFINE h == Head(updateChan)
              l == Tail(updateChan)
  <2>1. updateChan = <<h>> \o l BY <1>1, <1>2, <1>3, Concats
  <2>2. Append(notified, h) = notified \o <<h>> BY <1>2, <1>3, Concats, SMT
  <2>. HIDE DEF h, l
  <2>3. <<h>> \in Seq(AllUpdates) /\ l \in Seq(AllUpdates) BY <1>3, SMT DEF h, l
  <2>4. notified \o updateChan = Append(notified, h) \o l BY <1>2, <2>1, <2>2, <2>3, Concats, SMT
  <2>5. Updates(writes)' = Updates(writes) BY <1>1 DEF Updates, UpdateOf
  <2>. QED BY <1>1, <2>4, <2>5 DEF CfgInv, NotifiedInOrder, h, l
<1>7. Latest' BY <1>1 DEF CfgInv, Latest, getConfig, At
<1>. QED BY <1>4, <1>5, <1>6, <1>7 DEF CfgInv

LEMMA ResetKeeps == ASSUME CfgInv, CfgReset, UNCHANGED <<db, simulated, txs>> PROVE CfgInv'
<1>1. writes' = <<>> /\ updateChan' = <<>> /\ notified' = <<>> /\ log' = <<>> BY DEF CfgReset
<1>2. CfgTypes' BY <1>1, BoundsAssumption, SMT DEF CfgInv, CfgTypes, InRange
<1>3. NotifiedInOrder' /\ Latest' BY <1>1, SMT DEF NotifiedInOrder, Latest, Updates
<1>. QED BY <1>2, <1>3 DEF CfgInv, IndexExact

LEMMA CfgNext == ASSUME CfgInv, [Next]_vars PROVE CfgInv'
<1>1. CASE UNCHANGED <<db, simulated, txs, writes, updateChan, notified, log>>
  <2>1. CfgTypes' BY <1>1 DEF CfgInv, CfgTypes, InRange
  <2>2. NotifiedInOrder' BY <1>1 DEF CfgInv, NotifiedInOrder, Updates, UpdateOf
  <2>3. IndexExact' /\ Latest' BY <1>1 DEF CfgInv, IndexExact, Latest, getConfig, At
  <2>. QED BY <2>1, <2>2, <2>3 DEF CfgInv
<1>2. CASE Panic BY <1>2, ResetKeeps DEF Panic
<1>3. CASE Publish BY <1>3, PublishKeeps DEF Publish
<1>4. CASE handleConfigUpdate BY <1>4, NotifyKeeps DEF handleConfigUpdate
<1>5. ASSUME NEW l \in LoadIDs, Load(l) PROVE CfgInv'
  BY <1>1, <1>5 DEF Load, Get, Store, CreateClient, LockAndClose, CloseOld, Install, cfgVars
<1>6. ASSUME NEW i \in Invokers, InvokeHandler(i) \/ Invocation(i) PROVE CfgInv'
  BY <1>1, <1>6 DEF InvokeHandler, Invocation, CheckClosed, Increment, Decrement, LastDecrement, cfgVars
<1>7. CASE newService \/ AddUpdateHandler \/ Close \/ CloseLast \/ UNCHANGED vars
  BY <1>1, <1>7 DEF newService, AddUpdateHandler, Close, CloseLast, cfgVars, vars
<1>. QED BY <1>2, <1>3, <1>4, <1>5, <1>6, <1>7, InvokeKeeps, CommitKeeps DEF Next

-----------------------------------------------------------------------------
(***************************************************************************)
(* Loads, the cache and the client.                                         *)
(***************************************************************************)
LEMMA CfgKeysRight ==
    /\ \A n \in 1..2 : CfgKeys[n] \in AllKeys /\ CfgKeys[n] \in {txnCfgKey, sdkCfgKey}
    /\ \A k \in {txnCfgKey, sdkCfgKey} : \E n \in 1..2 : k = CfgKeys[n]
    /\ Range(CfgKeys) = {txnCfgKey, sdkCfgKey}
    /\ 1 \in LoadIDs
<1>2. CfgKeys[1] = txnCfgKey /\ CfgKeys[2] = sdkCfgKey BY DEF CfgKeys
<1>1. \A n \in 1..2 : CfgKeys[n] \in {txnCfgKey, sdkCfgKey}
  <2>1. \A n \in 1..2 : n = 1 \/ n = 2 BY SMT
  <2>. QED BY <1>2, <2>1
<1>3. DOMAIN CfgKeys = 1..2 BY SMT DEF CfgKeys
<1>4. \A k \in {txnCfgKey, sdkCfgKey} : \E n \in 1..2 : k = CfgKeys[n] BY <1>2, SMT
<1>5. Range(CfgKeys) = {txnCfgKey, sdkCfgKey} BY <1>1, <1>3, <1>4 DEF Range
<1>. QED BY <1>1, <1>4, <1>5, CfgKeysAssumption, BoundsAssumption, SMT DEF LoadIDs

LEMMA NextKeyRight ==
    ASSUME LoadTypes, NEW l \in LoadIDs, loads[l].pc \in {"get", "store"}
    PROVE  /\ Len(loads[l].got) + 1 \in 1..2 /\ NextKey(l) = CfgKeys[Len(loads[l].got) + 1]
           /\ NextKey(l) \in AllKeys /\ Active(l)
<1>1. Len(loads[l].got) \in 0..1 BY DEF LoadTypes, Staged
<1>0. \A n \in 0..1 : n + 1 \in 1..2 BY SMT
<1>2. Len(loads[l].got) + 1 \in 1..2 BY <1>0, <1>1
<1>3. Active(l) BY DEF Active
<1>. QED BY <1>2, <1>3, CfgKeysRight DEF NextKey

LEMMA LoadInit == Init => LoadInv
<1>. SUFFICES ASSUME Init PROVE LoadInv
  OBVIOUS
<1>1. /\ \A l \in LoadIDs : loads[l] = Idle /\ loads[l].pc = "idle"
      /\ writes = <<>> /\ DOMAIN cache = {} /\ ~registered
  BY DEF Init, CfgInit, Idle
<1>2. LoadTypes
  <2>1. Idle \in LoadRecs BY SMT DEF Idle, LoadRecs, Pcs, Nil
  <2>2. loads \in [LoadIDs -> LoadRecs] BY <2>1 DEF Init
  <2>3. cfgTxID \in Nat BY DEF Init, NoTxID
  <2>4. registered \in BOOLEAN /\ dirty \in BOOLEAN BY DEF Init
  <2>5. mutex \in {0} \cup LoadIDs BY DEF Init
  <2>. QED BY <1>1, <2>2, <2>3, <2>4, <2>5 DEF LoadTypes, Staged, Pcs
<1>3. Begun BY <1>1, CfgKeysRight DEF Begun
<1>4. Fresh /\ Alike BY <1>1 DEF Fresh, Alike, Storing
<1>5. Followed BY <1>1 DEF Followed, Active
<1>. QED BY <1>2, <1>3, <1>4, <1>5 DEF LoadInv

\* Steps of others.
LEMMA OthersKeep ==
    ASSUME LoadInv, CfgInv, CfgInv',
           UNCHANGED <<db, writes, cache, updateChan, loads, registered, cfgTxID, client, mutex, stale, dirty>>,
           txs' \in {txs, txs + 1}
    PROVE  LoadInv'
<1>1. 1..txs \subseteq 1..txs' BY SMT DEF CfgInv, CfgTypes
<1>2. LoadTypes'
  <2>1. \A k \in AllKeys \cap DOMAIN cache : cache[k] \in 1..txs' BY <1>1 DEF LoadInv, LoadTypes
  <2>2. \A l \in LoadIDs : Staged(loads[l], txs') BY <1>1 DEF LoadInv, LoadTypes, Staged
  <2>. QED BY <2>1, <2>2 DEF LoadInv, LoadTypes
<1>3. Begun' BY DEF LoadInv, Begun
<1>4. \A k : getConfig(k)' = getConfig(k) /\ ToPublish(k)' = ToPublish(k) BY DEF getConfig, At, ToPublish
<1>5. \A l, k : Storing(l, k)' = Storing(l, k) BY DEF Storing, NextKey
<1>6. Fresh' BY <1>4, <1>5 DEF LoadInv, Fresh
<1>7. Alike' BY <1>4, <1>5 DEF LoadInv, Alike
<1>8. /\ \A l : Active(l)' = Active(l) /\ Matches(l)' = Matches(l)
      /\ SomeLoad' = SomeLoad /\ Coming' = Coming
  BY DEF Active, Matches, RecMatches, SomeLoad, Coming
<1>9. Followed' BY <1>4, <1>8 DEF LoadInv, Followed
<1>. QED BY <1>2, <1>3, <1>6, <1>7, <1>9 DEF LoadInv

\* What is committed is to be published: for the other keys nothing changes.
LEMMA CommitPublishes ==
    ASSUME CfgInv, Commit
    PROVE  \A k \in AllKeys : /\ ToPublish(k) => ToPublish(k)'
                              /\ ~ToPublish(k)' => getConfig(k)' = getConfig(k)
<1>1. PICK t \in simulated :
         \/ db' = ApplyUpdates(db, t.writes) /\ writes' = writes \o t.writes
         \/ UNCHANGED <<db, writes>>
  BY DEF Commit
<1>2. CASE UNCHANGED <<db, writes>> BY <1>2 DEF ToPublish, getConfig, At
<1>3. CASE db' = ApplyUpdates(db, t.writes) /\ writes' = writes \o t.writes
  <2>. DEFINE ws == t.writes
  <2>1. RightTx(t, txs) /\ writes \in Seq(Writes) BY DEF CfgInv, CfgTypes
  <2>2. Applied(ws, db, db') /\ ws \in Seq(Writes) BY <1>3, <2>1, AppliedRight DEF RightTx
  <2>. HIDE DEF ws
  <2>3. /\ \A i \in DOMAIN writes : i \in DOMAIN writes' /\ writes'[i] = writes[i]
        /\ \A i \in DOMAIN ws : Len(writes) + i \in DOMAIN writes' /\ writes'[Len(writes) + i] = ws[i]
    BY <1>3, <2>1, <2>2, SMT DEF ws
  <2>. SUFFICES ASSUME NEW k \in AllKeys
                PROVE  /\ ToPublish(k) => ToPublish(k)'
                       /\ ~ToPublish(k)' => getConfig(k)' = getConfig(k)
    OBVIOUS
  <2>4. ToPublish(k) => ToPublish(k)' BY <2>3 DEF ToPublish
  <2>5. ASSUME ~ToPublish(k)' PROVE getConfig(k)' = getConfig(k)
    <3>1. \A i \in DOMAIN ws : ws[i].str # MarshalKey(k) BY <2>3, <2>5 DEF ToPublish, Writing
    <3>. QED BY <2>2, <3>1 DEF Applied, getConfig, At
  <2>. QED BY <2>4, <2>5
<1>. QED BY <1>1, <1>2, <1>3

LEMMA CommitLoads == ASSUME LoadInv, CfgInv, Commit, UNCHANGED txnVars PROVE LoadInv'
<1>1. /\ UNCHANGED <<txs, cache, updateChan, loads, registered, cfgTxID, client, mutex, stale, dirty>>
  BY DEF Commit, txnVars
<1>2. LoadTypes' /\ Begun' BY <1>1 DEF LoadInv, LoadTypes, Begun
<1>3. \A l, k : Storing(l, k)' = Storing(l, k) BY <1>1 DEF Storing, NextKey
<1>4. Fresh' BY <1>1, <1>3, CommitPublishes DEF LoadInv, Fresh
<1>5. Alike' BY <1>1, <1>3, CommitPublishes DEF LoadInv, Alike
<1>6. /\ \A l : Active(l)' = Active(l) /\ Matches(l)' = Matches(l)
      /\ SomeLoad' = SomeLoad /\ Coming' = Coming
  BY <1>1 DEF Active, Matches, RecMatches, SomeLoad, Coming
<1>7. (\A n \in 1..2 : ~ToPublish(CfgKeys[n])') => \A n \in 1..2 : ~ToPublish(CfgKeys[n])
  BY CommitPublishes, CfgKeysRight
<1>8. Followed' BY <1>1, <1>6, <1>7 DEF LoadInv, Followed
<1>. QED BY <1>2, <1>4, <1>5, <1>8 DEF LoadInv

\* What publishing a write of the key k does to k, and to the other keys.
LEMMA PublishEffect ==
    ASSUME CfgInv, PublishWrite, NEW w, w = Head(writes), NEW k, k = UnmarshalKey(w.str)
    PROVE  /\ w \in Writes
           /\ \A j \in AllKeys \ {k} : /\ ToPublish(j)' <=> ToPublish(j)
                                       /\ j \in DOMAIN cache' <=> j \in DOMAIN cache
                                       /\ j \in DOMAIN cache => cache'[j] = cache[j]
           /\ k \in AllKeys => /\ w.tx \in 1..txs /\ ToPublish(k)
                               /\ k \in DOMAIN cache' => cache'[k] = w.tx /\ ~w.del
                               /\ ~ToPublish(k)' => getConfig(k) = IF w.del THEN Nil ELSE w.tx
<1>1. writes \in Seq(Writes) /\ InRange(writes, txs) /\ Latest BY DEF CfgInv, CfgTypes
<1>2. writes # <<>> /\ writes' = Tail(writes) /\ UNCHANGED db BY DEF PublishWrite
<1>3. /\ w = writes[1] /\ w \in Writes /\ 1 \in DOMAIN writes
      /\ \A i \in DOMAIN writes' : i + 1 \in DOMAIN writes /\ writes'[i] = writes[i + 1]
      /\ \A i \in DOMAIN writes : i # 1 => i - 1 \in DOMAIN writes' /\ writes'[i - 1] = writes[i]
  BY <1>1, <1>2, HeadTail
<1>4. cache' = IF w.del THEN [j \in DOMAIN cache \ {k} |-> cache[j]]
               ELSE [j \in DOMAIN cache \cup {k} |-> IF j = k THEN w.tx ELSE cache[j]]
  BY DEF PublishWrite, handleKeyUpdate
<1>5. w.str \in Strs /\ w.del \in BOOLEAN BY <1>3 DEF Writes
<1>6. \A j \in AllKeys : w.str = MarshalKey(j) <=> j = k
  <2>1. CASE w.str \in {MarshalKey(j) : j \in AllKeys} BY <2>1, KeyStrings, SMT
  <2>2. CASE w.str \in {getIndexKey(j) : j \in AllKeys} BY <2>2, KeyStrings, KeysAssumption, SMT
  <2>. QED BY <1>5, <2>1, <2>2 DEF Strs
<1>7. ASSUME NEW j \in AllKeys \ {k}
      PROVE  /\ ToPublish(j)' <=> ToPublish(j)
             /\ j \in DOMAIN cache' <=> j \in DOMAIN cache
             /\ j \in DOMAIN cache => cache'[j] = cache[j]
  <2>1. ToPublish(j)' => ToPublish(j) BY <1>3 DEF ToPublish
  <2>2. ToPublish(j) => ToPublish(j)' BY <1>3, <1>6 DEF ToPublish, Writing
  <2>3. /\ j \in DOMAIN cache' <=> j \in DOMAIN cache
        /\ j \in DOMAIN cache => cache'[j] = cache[j]
    BY <1>4, <1>5
  <2>. QED BY <2>1, <2>2, <2>3
<1>8. ASSUME k \in AllKeys
      PROVE  /\ w.tx \in 1..txs /\ ToPublish(k)
             /\ k \in DOMAIN cache' => cache'[k] = w.tx /\ ~w.del
             /\ ~ToPublish(k)' => getConfig(k) = IF w.del THEN Nil ELSE w.tx
  <2>1. Writing(writes[1], k) BY <1>3, <1>6, <1>8 DEF Writing
  <2>2. w.tx \in 1..txs /\ ToPublish(k) BY <1>1, <1>3, <1>8, <2>1 DEF InRange, ToPublish
  <2>3. k \in DOMAIN cache' => cache'[k] = w.tx /\ ~w.del BY <1>4, <1>5
  <2>4. ASSUME ~ToPublish(k)' PROVE getConfig(k) = IF w.del THEN Nil ELSE w.tx
    <3>1. \A j \in DOMAIN writes : j > 1 => ~Writing(writes[j], k) BY <1>3, <2>4, SMT DEF ToPublish
    <3>. QED BY <1>1, <1>3, <1>8, <2>1, <3>1, SMT DEF Latest
  <2>. QED BY <2>2, <2>3, <2>4
<1>. QED BY <1>3, <1>7, <1>8

LEMMA PublishLoads == ASSUME LoadInv, CfgInv, Publish PROVE LoadInv'
<1>1. PICK w : w = Head(writes) OBVIOUS
<1>2. PICK k : k = UnmarshalKey(w.str) OBVIOUS
<1>3. /\ PublishWrite /\ UNCHANGED <<loads, registered, cfgTxID, client, mutex, txs, db>>
      /\ stale' = IF \E l \in LoadIDs : loads[l].pc = "store" /\ NextKey(l) = k
                  THEN stale \cup {k} ELSE stale \ {k}
      /\ dirty' = (dirty \/ (k \in Range(CfgKeys) /\ (SomeLoad \/ cfgTxID = w.tx)))
  BY <1>1, <1>2 DEF Publish, PublishWrite
<1>4. /\ w \in Writes
      /\ \A j \in AllKeys \ {k} : /\ ToPublish(j)' <=> ToPublish(j)
                                  /\ j \in DOMAIN cache' <=> j \in DOMAIN cache
                                  /\ j \in DOMAIN cache => cache'[j] = cache[j]
      /\ k \in AllKeys => /\ w.tx \in 1..txs /\ ToPublish(k)
                          /\ k \in DOMAIN cache' => cache'[k] = w.tx /\ ~w.del
                          /\ ~ToPublish(k)' => getConfig(k) = IF w.del THEN Nil ELSE w.tx
  BY <1>1, <1>2, <1>3, PublishEffect
<1>5. LoadTypes'
  <2>1. \A j \in AllKeys \cap DOMAIN cache' : cache'[j] \in 1..txs BY <1>4 DEF LoadInv, LoadTypes
  <2>2. dirty' \in BOOLEAN BY <1>3
  <2>. QED BY <1>3, <2>1, <2>2 DEF LoadInv, LoadTypes
<1>6. Begun' BY <1>3 DEF LoadInv, Begun
<1>7. \A l, j : Storing(l, j)' = Storing(l, j) BY <1>3 DEF Storing, NextKey
<1>8. \A j : getConfig(j)' = getConfig(j) BY <1>3 DEF getConfig, At
<1>9. Fresh'
  <2>. SUFFICES ASSUME NEW j \in AllKeys, j \notin stale', ~ToPublish(j)'
                PROVE  /\ j \in DOMAIN cache' => cache'[j] = getConfig(j)
                       /\ \A l \in LoadIDs : Storing(l, j) => loads[l].val = getConfig(j)
    BY <1>3, <1>7, <1>8 DEF Fresh
  <2>1. CASE j = k
    <3>1. \A l \in LoadIDs : ~Storing(l, j) BY <1>3, <2>1 DEF Storing
    <3>2. j \in DOMAIN cache' => cache'[j] = getConfig(j) BY <1>4, <2>1
    <3>. QED BY <3>1, <3>2
  <2>2. CASE j # k
    <3>1. j \notin stale BY <1>3, <2>2
    <3>. QED BY <1>4, <2>2, <3>1 DEF LoadInv, Fresh
  <2>. QED BY <2>1, <2>2
<1>10. ASSUME ~dirty' PROVE ~dirty /\ (k \in Range(CfgKeys) => ~SomeLoad /\ cfgTxID # w.tx) BY <1>3, <1>10
<1>11. Alike'
  <2>. SUFFICES ASSUME ~dirty', NEW j \in AllKeys, NEW l \in LoadIDs, Storing(l, j), ~ToPublish(j)'
                PROVE  /\ loads[l].val = getConfig(j)
                       /\ j \in DOMAIN cache' => cache'[j] = loads[l].val
    BY <1>3, <1>7, <1>8 DEF Alike
  <2>1. j \in Range(CfgKeys) /\ SomeLoad
    BY NextKeyRight, CfgKeysRight DEF LoadInv, Storing, SomeLoad
  <2>2. j # k /\ ~dirty BY <1>10, <2>1
  <2>. QED BY <1>4, <2>2 DEF LoadInv, Alike
<1>12. Followed'
  <2>. SUFFICES ASSUME ~dirty', \A n \in 1..2 : ~ToPublish(CfgKeys[n])'
                PROVE  /\ \A l \in LoadIDs : Active(l)' => Matches(l)'
                       /\ registered /\ ~SomeLoad' /\ ~Coming' =>
                            client \in LoadIDs /\ Len(loads[client].got) = 2 /\ Matches(client)'
    BY <1>3 DEF Followed
  <2>1. (\A l : Active(l)' = Active(l)) /\ SomeLoad' = SomeLoad BY <1>3 DEF Active, SomeLoad
  <2>2. CASE k \in Range(CfgKeys)
    <3>1. ~SomeLoad /\ cfgTxID # w.tx BY <1>10, <2>2
    <3>2. Coming'
      <4>. DEFINE u == UpdateOf(w)
                  n == Len(updateChan) + 1
      <4>0. u \in AllUpdates BY <1>4, UpdateOfType
      <4>1. updateChan' = Append(updateChan, u) BY <1>1, <1>3 DEF PublishWrite, handleKeyUpdate
      <4>2. n \in DOMAIN updateChan' /\ updateChan'[n] = u
        <5>. HIDE DEF u
        <5>1. updateChan \in Seq(AllUpdates) BY DEF CfgInv, CfgTypes
        <5>. QED BY <4>0, <4>1, <5>1, SMT
      <4>3. u.key = k /\ u.tx \in {Nil, w.tx} BY <1>2 DEF UpdateOf
      <4>4. ForMe(u) BY <2>2, <4>3, CfgKeysRight, CfgKeysAssumption DEF ForMe
      <4>5. u.tx # cfgTxID BY <3>1, <4>3, SMT DEF LoadInv, LoadTypes, Nil
      <4>. HIDE DEF u, n
      <4>. QED BY <1>3, <4>2, <4>4, <4>5 DEF Coming
    <3>. QED BY <2>1, <3>1, <3>2 DEF SomeLoad
  <2>3. CASE k \notin Range(CfgKeys)
    <3>1. \A n \in 1..2 : CfgKeys[n] \in AllKeys \ {k} BY <2>3, CfgKeysRight
    <3>2. \A l : Matches(l)' <=> Matches(l) BY <1>3, <1>4, <3>1 DEF Matches, RecMatches
    <3>3. ~Coming' => ~Coming
      <4>1. updateChan' = Append(updateChan, UpdateOf(w)) BY <1>1, <1>3 DEF PublishWrite, handleKeyUpdate
      <4>2. updateChan \in Seq(AllUpdates) /\ UpdateOf(w) \in AllUpdates
        BY <1>4, UpdateOfType DEF CfgInv, CfgTypes
      <4>3. \A i \in DOMAIN updateChan : i \in DOMAIN updateChan' /\ updateChan'[i] = updateChan[i]
        BY <4>1, <4>2, SMT
      <4>. QED BY <1>3, <4>3 DEF Coming
    <3>4. \A n \in 1..2 : ~ToPublish(CfgKeys[n]) BY <1>4, <3>1
    <3>. QED BY <1>3, <1>10, <2>1, <3>2, <3>3, <3>4 DEF LoadInv, Followed
  <2>. QED BY <2>2, <2>3
<1>. QED BY <1>5, <1>6, <1>9, <1>11, <1>12 DEF LoadInv

LEMMA HandleLoads == ASSUME LoadInv, CfgInv, handleConfigUpdate PROVE LoadInv'
<1>. DEFINE kv == Head(updateChan)
<1>1. /\ updateChan # <<>> /\ updateChan' = Tail(updateChan)
      /\ UNCHANGED <<db, txs, writes, cache, registered, client, mutex, stale>>
  BY DEF handleConfigUpdate, notify
<1>2. updateChan \in Seq(AllUpdates) BY DEF CfgInv, CfgTypes
<1>3. /\ kv = updateChan[1] /\ kv \in AllUpdates
      /\ \A i \in DOMAIN updateChan : i # 1 => i - 1 \in DOMAIN updateChan' /\ updateChan'[i - 1] = updateChan[i]
  BY <1>1, <1>2, HeadTail
<1>4. \A k : getConfig(k)' = getConfig(k) /\ ToPublish(k)' = ToPublish(k) BY <1>1 DEF getConfig, At, ToPublish
<1>5. ASSUME UNCHANGED <<cfgTxID, loads, dirty>>, ~registered \/ ~ForMe(kv) \/ kv.tx = cfgTxID PROVE LoadInv'
  <2>1. LoadTypes' /\ Begun' BY <1>1, <1>5 DEF LoadInv, LoadTypes, Begun
  <2>2. \A l, k : Storing(l, k)' = Storing(l, k) BY <1>5 DEF Storing, NextKey
  <2>3. Fresh' BY <1>1, <1>4, <1>5, <2>2 DEF LoadInv, Fresh
  <2>4. Alike' BY <1>1, <1>4, <1>5, <2>2 DEF LoadInv, Alike
  <2>5. (\A l : Active(l)' = Active(l) /\ Matches(l)' = Matches(l)) /\ SomeLoad' = SomeLoad
    BY <1>1, <1>5 DEF Active, Matches, RecMatches, SomeLoad
  <2>6. registered /\ ~Coming' => ~Coming
    <3>. SUFFICES ASSUME registered, Coming PROVE Coming'
      OBVIOUS
    <3>1. PICK i \in DOMAIN updateChan : ForMe(updateChan[i]) /\ updateChan[i].tx # cfgTxID BY DEF Coming
    <3>2. i # 1 BY <1>3, <1>5, <3>1
    <3>3. i - 1 \in DOMAIN updateChan' /\ updateChan'[i - 1] = updateChan[i] BY <1>3, <3>2
    <3>. QED BY <1>5, <3>1, <3>3 DEF Coming
  <2>7. Followed' BY <1>1, <1>4, <1>5, <2>5, <2>6 DEF LoadInv, Followed
  <2>. QED BY <2>1, <2>3, <2>4, <2>7 DEF LoadInv
<1>6. ASSUME registered, kv.tx # Nil, cfgTxID' = kv.tx, Reload PROVE LoadInv'
  <2>1. PICK l \in LoadIDs \ {1} : loads[l] = Idle /\ loads' = [loads EXCEPT ![l].pc = "get"]
    BY <1>6 DEF Reload
  <2>2. dirty' = (dirty /\ SomeLoad) BY <1>6 DEF Reload
  <2>3. loads \in [LoadIDs -> LoadRecs] BY DEF LoadInv, LoadTypes
  <2>4. /\ loads' \in [LoadIDs -> LoadRecs]
        /\ \A m \in LoadIDs \ {l} : loads'[m] = loads[m]
        /\ loads'[l].pc = "get" /\ loads'[l].got = <<>> /\ Len(loads'[l].got) = 0
    BY <2>1, <2>3, SMT DEF Idle, LoadRecs, Pcs
  <2>5. LoadTypes'
    <3>1. cfgTxID' \in Nat BY <1>3, <1>6 DEF AllUpdates
    <3>2. dirty' \in BOOLEAN BY <2>2
    <3>3. Staged(loads'[l], txs) BY <2>4, SMT DEF Staged
    <3>4. \A m \in LoadIDs : Staged(loads'[m], txs) BY <2>4, <3>3 DEF LoadInv, LoadTypes
    <3>. QED BY <1>1, <2>4, <3>1, <3>2, <3>4 DEF LoadInv, LoadTypes
  <2>6. Begun' BY <1>1, <1>6, <2>1, <2>4, CfgKeysRight DEF LoadInv, Begun
  <2>7. /\ \A m \in LoadIDs, k \in AllKeys : Storing(m, k)' => m # l /\ Storing(m, k) /\ Active(m)
        /\ \A m \in LoadIDs : m # l => loads'[m] = loads[m]
    BY <2>4 DEF Storing, NextKey, Active
  <2>8. Fresh' BY <1>1, <1>4, <2>7 DEF LoadInv, Fresh
  <2>9. Alike'
    <3>. SUFFICES ASSUME ~dirty', NEW k \in AllKeys, NEW m \in LoadIDs, Storing(m, k)', ~ToPublish(k)
                  PROVE  /\ loads'[m].val = getConfig(k)
                         /\ k \in DOMAIN cache => cache[k] = loads'[m].val
      BY <1>1, <1>4 DEF Alike
    <3>1. ~dirty BY <2>2, <2>7 DEF SomeLoad
    <3>. QED BY <2>7, <3>1, SMT DEF LoadInv, Alike
  <2>10. Followed'
    <3>. SUFFICES ASSUME ~dirty', \A n \in 1..2 : ~ToPublish(CfgKeys[n])
                  PROVE  \A m \in LoadIDs : Active(m)' => Matches(m)'
      <4>1. SomeLoad' BY <2>4 DEF SomeLoad, Active
      <4>. QED BY <1>4, <4>1 DEF Followed
    <3>. SUFFICES ASSUME NEW m \in LoadIDs, Active(m)' PROVE Matches(m)'
      OBVIOUS
    <3>1. CASE m = l BY <2>4, <3>1, SMT DEF Matches, RecMatches
    <3>2. CASE m # l
      <4>1. Active(m) BY <2>4, <3>2 DEF Active
      <4>2. ~dirty BY <2>2, <4>1 DEF SomeLoad
      <4>3. Matches(m) BY <4>1, <4>2 DEF LoadInv, Followed
      <4>. QED BY <1>1, <2>4, <3>2, <4>3, SMT DEF Matches, RecMatches
    <3>. QED BY <3>1, <3>2
  <2>. QED BY <2>5, <2>6, <2>8, <2>9, <2>10 DEF LoadInv
<1>. QED BY <1>5, <1>6 DEF handleConfigUpdate, compareAndSetTxID

LEMMA PanicLoads == ASSUME LoadInv, CfgInv, Panic PROVE LoadInv'
<1>1. CfgReset /\ TxnReset /\ UNCHANGED <<db, simulated, txs>> BY DEF Panic
<1>2. /\ \A l \in LoadIDs : loads'[l] = Idle /\ loads'[l].pc = "idle"
      /\ writes' = <<>> /\ DOMAIN cache' = {} /\ ~registered'
  BY <1>1 DEF TxnReset, CfgReset, Idle
<1>3. LoadTypes'
  <2>1. Idle \in LoadRecs BY SMT DEF Idle, LoadRecs, Pcs, Nil
  <2>2. loads' \in [LoadIDs -> LoadRecs] BY <1>1, <2>1 DEF TxnReset
  <2>3. cfgTxID' \in Nat BY <1>1 DEF TxnReset, NoTxID
  <2>4. registered' \in BOOLEAN /\ dirty' \in BOOLEAN BY <1>1 DEF TxnReset
  <2>5. mutex' \in {0} \cup LoadIDs BY <1>1 DEF TxnReset
  <2>. QED BY <1>2, <2>2, <2>3, <2>4, <2>5 DEF LoadTypes, Staged, Pcs
<1>4. Begun' BY <1>2, CfgKeysRight DEF Begun
<1>5. Fresh' /\ Alike' BY <1>2 DEF Fresh, Alike, Storing
<1>6. Followed' BY <1>2 DEF Followed, Active
<1>. QED BY <1>3, <1>4, <1>5, <1>6 DEF LoadInv

\* A step of the load l that leaves the cache alone.
LEMMA LoadStep ==
    ASSUME LoadInv, CfgInv, NEW l \in LoadIDs, NEW e \in LoadRecs, Staged(e, txs),
           loads' = [loads EXCEPT ![l] = e],
           UNCHANGED <<db, writes, txs, cache, stale, updateChan, cfgTxID>>,
           mutex' \in {0} \cup LoadIDs, dirty' \in BOOLEAN, dirty => dirty', registered' \in BOOLEAN, Begun',
           e.pc = "store" => /\ CfgKeys[Len(e.got) + 1] \notin DOMAIN cache
                             /\ e.val = getConfig(CfgKeys[Len(e.got) + 1]),
           ~dirty' /\ (\A n \in 1..2 : ~ToPublish(CfgKeys[n])) => RecMatches(e),
           e.pc \notin {"idle", "done", "failed"} \/ dirty' \/ (e.pc = "done" /\ client' = l)
    PROVE  LoadInv'
<1>1. loads \in [LoadIDs -> LoadRecs] /\ cfgTxID \in Nat BY DEF LoadInv, LoadTypes
<1>2. loads' \in [LoadIDs -> LoadRecs] /\ loads'[l] = e /\ \A m \in LoadIDs \ {l} : loads'[m] = loads[m]
  BY <1>1
<1>3. LoadTypes'
  <2>1. \A m \in LoadIDs : Staged(loads'[m], txs) BY <1>2 DEF LoadInv, LoadTypes
  <2>. QED BY <1>1, <1>2, <2>1 DEF LoadInv, LoadTypes
<1>4. \A k : getConfig(k)' = getConfig(k) /\ ToPublish(k)' = ToPublish(k) BY DEF getConfig, At, ToPublish
<1>5. \A m \in LoadIDs \ {l} : \A k : Storing(m, k)' = Storing(m, k) BY <1>2 DEF Storing, NextKey
<1>6. \A k : Storing(l, k)' => k \notin DOMAIN cache /\ loads'[l].val = getConfig(k)
  BY <1>2 DEF Storing, NextKey
<1>7. Fresh'
  <2>. SUFFICES ASSUME NEW k \in AllKeys \ stale, ~ToPublish(k)
                PROVE  /\ k \in DOMAIN cache => cache[k] = getConfig(k)
                       /\ \A m \in LoadIDs : Storing(m, k)' => loads'[m].val = getConfig(k)
    BY <1>4 DEF Fresh
  <2>. QED BY <1>2, <1>5, <1>6 DEF LoadInv, Fresh
<1>8. Alike'
  <2>. SUFFICES ASSUME ~dirty', NEW k \in AllKeys, NEW m \in LoadIDs, Storing(m, k)', ~ToPublish(k)
                PROVE  /\ loads'[m].val = getConfig(k)
                       /\ k \in DOMAIN cache => cache[k] = loads'[m].val
    BY <1>4 DEF Alike
  <2>. QED BY <1>2, <1>5, <1>6, SMT DEF LoadInv, Alike
<1>9. Followed'
  <2>. SUFFICES ASSUME ~dirty', \A n \in 1..2 : ~ToPublish(CfgKeys[n])
                PROVE  /\ \A m \in LoadIDs : Active(m)' => Matches(m)'
                       /\ registered' /\ ~SomeLoad' /\ ~Coming' =>
                            client' \in LoadIDs /\ Len(loads'[client'].got) = 2 /\ Matches(client)'
    BY <1>4 DEF Followed
  <2>1. \A m \in LoadIDs : Matches(m)' <=> RecMatches(loads'[m]) BY DEF Matches, RecMatches
  <2>2. ASSUME NEW m \in LoadIDs, Active(m)' PROVE Matches(m)'
    <3>1. CASE m = l BY <1>2, <2>1, <3>1
    <3>2. CASE m # l
      <4>1. Active(m) BY <1>2, <2>2, <3>2 DEF Active
      <4>2. Matches(m) BY <4>1 DEF LoadInv, Followed
      <4>. QED BY <1>2, <2>1, <3>2, <4>2 DEF Matches
    <3>. QED BY <3>1, <3>2
  <2>3. ASSUME ~SomeLoad' PROVE client' \in LoadIDs /\ Len(loads'[client'].got) = 2 /\ Matches(client)'
    <3>1. e.pc = "done" /\ client' = l BY <1>2, <2>3 DEF SomeLoad, Active
    <3>2. Len(e.got) = 2 BY <3>1 DEF Staged, Pcs
    <3>3. Matches(client)'
      <4>1. Matches(l)' BY <1>2, <2>1
      <4>. QED BY <3>1, <4>1 DEF Matches
    <3>. QED BY <1>2, <3>1, <3>2, <3>3
  <2>. QED BY <2>2, <2>3
<1>. QED BY <1>3, <1>7, <1>8, <1>9 DEF LoadInv

LEMMA BegunStep ==
    ASSUME LoadInv, NEW l \in LoadIDs, Active(l) \/ (l = 1 /\ ~registered), NEW e,
           loads' = [loads EXCEPT ![l] = e], UNCHANGED registered, client' \in {client, l},
           e.pc = "register" => client' = 1
    PROVE  Begun'
<1>1. loads \in [LoadIDs -> LoadRecs] /\ 1 \in LoadIDs BY CfgKeysRight DEF LoadInv, LoadTypes
<1>2. DOMAIN loads' = LoadIDs /\ loads'[l] = e /\ \A m \in LoadIDs \ {l} : loads'[m] = loads[m] BY <1>1
<1>3. CASE registered
  <2>1. loads[1].pc = "done" /\ l # 1 BY <1>3 DEF LoadInv, Begun, Active
  <2>. QED BY <1>1, <1>2, <1>3, <2>1 DEF Begun
<1>4. CASE ~registered
  <2>1. \A m \in LoadIDs \ {1} : loads[m] = Idle BY <1>4 DEF LoadInv, Begun
  <2>2. l = 1 BY <2>1, SMT DEF Active, Idle
  <2>. QED BY <1>1, <1>2, <1>4, <2>1, <2>2 DEF Begun
<1>. QED BY <1>3, <1>4

\* The load l goes on, with what it has.
LEMMA PcStep ==
    ASSUME LoadInv, NEW l \in LoadIDs, NEW p \in Pcs, NEW e, e = [loads[l] EXCEPT !.pc = p]
    PROVE  e \in LoadRecs /\ e.pc = p /\ e.got = loads[l].got /\ e.val = loads[l].val
BY DEF LoadInv, LoadTypes, LoadRecs

LEMMA NewServiceLoads == ASSUME LoadInv, CfgInv, newService PROVE LoadInv'
<1>. DEFINE e == [Idle EXCEPT !.pc = "get"]
<1>1. /\ loads[1].pc \in {"idle", "failed"} /\ loads' = [loads EXCEPT ![1] = e]
      /\ UNCHANGED <<cfgVars, registered, cfgTxID, client, mutex, stale, dirty>>
  BY DEF newService
<1>2. e \in LoadRecs /\ e.pc = "get" /\ e.got = <<>> /\ Len(e.got) = 0
  <2>1. e = [pc |-> "get", got |-> <<>>, val |-> Nil] BY SMT DEF Idle
  <2>2. <<>> \in Seq(Int) /\ Nil \in Int /\ "get" \in Pcs BY SMT DEF Nil, Pcs
  <2>3. Len(<<>>) = 0 OBVIOUS
  <2>. HIDE DEF e
  <2>. QED BY <2>1, <2>2, <2>3 DEF LoadRecs
<1>. HIDE DEF e
<1>3. Staged(e, txs) BY <1>2, SMT DEF Staged
<1>4. ~registered BY <1>1 DEF LoadInv, Begun
<1>5. Begun' BY <1>1, <1>2, <1>4, BegunStep, CfgKeysRight
<1>6. RecMatches(e) BY <1>2, SMT DEF RecMatches
<1>7. dirty' \in BOOLEAN /\ registered' \in BOOLEAN /\ mutex' \in {0} \cup LoadIDs /\ (dirty => dirty')
  BY <1>1 DEF LoadInv, LoadTypes
<1>8. UNCHANGED <<db, writes, txs, cache, stale, updateChan, cfgTxID>> BY <1>1 DEF cfgVars
<1>. QED BY <1>1, <1>2, <1>3, <1>5, <1>6, <1>7, <1>8, LoadStep, CfgKeysRight

LEMMA GetLoads == ASSUME LoadInv, CfgInv, NEW l \in LoadIDs, Get(l) PROVE LoadInv'
<1>. DEFINE k == NextKey(l)
            got == loads[l].got
<1>1. /\ loads[l].pc = "get" /\ UNCHANGED <<cfgVars, registered, cfgTxID, client, mutex, stale, dirty>>
      /\ UNCHANGED <<db, writes, txs, cache, stale, updateChan, cfgTxID>>
  BY DEF Get, cfgVars
<1>2. Len(got) + 1 \in 1..2 /\ k = CfgKeys[Len(got) + 1] /\ k \in AllKeys /\ Active(l)
  BY <1>1, NextKeyRight DEF LoadInv
<1>3. got \in Seq(Int) /\ loads[l] \in LoadRecs BY DEF LoadInv, LoadTypes, LoadRecs
<1>4. dirty' \in BOOLEAN /\ registered' \in BOOLEAN /\ mutex' \in {0} \cup LoadIDs /\ (dirty => dirty')
  BY <1>1 DEF LoadInv, LoadTypes
<1>5. ~dirty /\ (\A n \in 1..2 : ~ToPublish(CfgKeys[n])) => RecMatches(loads[l])
  BY <1>2 DEF LoadInv, Followed, Matches
<1>. HIDE DEF k, got
<1>6. CASE k \in DOMAIN cache
  <2>. DEFINE g == Append(got, cache[k])
              e == [pc |-> IF Len(g) = 2 THEN "create" ELSE "get", got |-> g, val |-> Nil]
  <2>1. loads' = [loads EXCEPT ![l] = e] BY <1>6 DEF Get, GotKey, k, got
  <2>2. cache[k] \in Int BY <1>2, <1>6, SMT DEF LoadInv, LoadTypes
  <2>3. /\ g \in Seq(Int) /\ Len(g) = Len(got) + 1 /\ Len(g) \in 1..2
        /\ \A n \in 1..2 : n <= Len(got) => g[n] = got[n]
        /\ g[Len(got) + 1] = cache[k]
    BY <1>2, <1>3, <2>2, SMT
  <2>. HIDE DEF g
  <2>4. e \in LoadRecs /\ e.pc \in {"create", "get"} /\ e.got = g BY <2>3, SMT DEF LoadRecs, Pcs, Nil
  <2>5. Staged(e, txs)
    <3>1. CASE Len(g) = 2 BY <3>1 DEF Staged
    <3>2. CASE Len(g) # 2
      <4>1. Len(g) \in 0..1 BY <2>3, <3>2, SMT
      <4>. QED BY <3>2, <4>1 DEF Staged
    <3>. QED BY <3>1, <3>2
  <2>6. RecMatches(loads[l]) => RecMatches(e)
    <3>1. \A n \in 1..2 : n <= Len(g) => n <= Len(got) \/ n = Len(got) + 1 BY <1>2, <2>3, SMT
    <3>. HIDE DEF e
    <3>. QED BY <1>2, <1>6, <2>3, <2>4, <3>1 DEF RecMatches, got
  <2>. HIDE DEF e
  <2>7. Begun' BY <1>1, <1>2, <2>1, <2>4, BegunStep
  <2>. QED BY <1>1, <1>4, <1>5, <2>1, <2>4, <2>5, <2>6, <2>7, LoadStep
<1>7. CASE k \notin DOMAIN cache
  <2>. DEFINE v == getConfig(k)
              e == [pc |-> "store", got |-> got, val |-> v]
  <2>1. loads' = [loads EXCEPT ![l] = e]
    <3>1. loads' = [loads EXCEPT ![l].pc = "store", ![l].val = v] BY <1>7 DEF Get, k
    <3>2. loads \in [LoadIDs -> LoadRecs] BY DEF LoadInv, LoadTypes
    <3>3. \A r \in LoadRecs : [[r EXCEPT !.pc = "store"] EXCEPT !.val = v]
                                 = [pc |-> "store", got |-> r.got, val |-> v]
      <4>. HIDE DEF v
      <4>. SUFFICES ASSUME NEW r \in LoadRecs
                    PROVE  [[r EXCEPT !.pc = "store"] EXCEPT !.val = v]
                             = [pc |-> "store", got |-> r.got, val |-> v]
        OBVIOUS
      <4>1. PICK q \in Pcs, g \in Seq(Int), u \in Int : r = [pc |-> q, got |-> g, val |-> u] BY DEF LoadRecs
      <4>2. [r EXCEPT !.pc = "store"] = [pc |-> "store", got |-> g, val |-> u] BY <4>1, SMT
      <4>3. r.got = g BY <4>1
      <4>4. [[pc |-> "store", got |-> g, val |-> u] EXCEPT !.val = v] = [pc |-> "store", got |-> g, val |-> v]
        BY SMT
      <4>5. [[r EXCEPT !.pc = "store"] EXCEPT !.val = v] = [[pc |-> "store", got |-> g, val |-> u] EXCEPT !.val = v]
        BY <4>2
      <4>6. [pc |-> "store", got |-> r.got, val |-> v] = [pc |-> "store", got |-> g, val |-> v] BY <4>3
      <4>. QED BY <4>4, <4>5, <4>6
    <3>4. loads' = [loads EXCEPT ![l] = [[loads[l] EXCEPT !.pc = "store"] EXCEPT !.val = v]] BY <3>1, <3>2
    <3>. QED BY <1>3, <3>3, <3>4 DEF got
  <2>2. v \in {Nil} \cup 1..txs BY <1>2 DEF getConfig, At, CfgInv, CfgTypes
  <2>3. v \in Int BY <2>2, SMT DEF Nil, CfgInv, CfgTypes
  <2>4. Len(got) \in 0..1 BY <1>1 DEF LoadInv, LoadTypes, Staged, got
  <2>. HIDE DEF v
  <2>5. e \in LoadRecs /\ e.pc = "store" /\ e.got = got /\ e.val = v BY <1>3, <2>3 DEF LoadRecs, Pcs
  <2>6. Staged(e, txs) BY <2>2, <2>4, <2>5 DEF Staged
  <2>7. RecMatches(loads[l]) => RecMatches(e) BY <2>5 DEF RecMatches, got
  <2>. HIDE DEF e
  <2>8. Begun' BY <1>1, <1>2, <2>1, <2>5, BegunStep
  <2>9. CfgKeys[Len(e.got) + 1] \notin DOMAIN cache /\ e.val = getConfig(CfgKeys[Len(e.got) + 1])
    BY <1>2, <1>7, <2>5 DEF v
  <2>. QED BY <1>1, <1>4, <1>5, <2>1, <2>5, <2>6, <2>7, <2>8, <2>9, LoadStep
<1>. QED BY <1>6, <1>7

\* A load fails, makes its client, installs it, or registers the service.
LEMMA GoOnLoads ==
    ASSUME LoadInv, CfgInv, NEW l \in LoadIDs, NEW p \in Pcs, Active(l),
           loads' = [loads EXCEPT ![l].pc = p],
           UNCHANGED <<db, writes, txs, cache, stale, updateChan, cfgTxID>>,
           mutex' \in {0} \cup LoadIDs, dirty' \in BOOLEAN, dirty => dirty', registered' \in BOOLEAN, Begun',
           p \notin {"get", "store"}, p = "failed" \/ loads[l].pc \notin {"get", "store"},
           p \notin {"idle", "done", "failed"} \/ dirty' \/ (p = "done" /\ client' = l)
    PROVE  LoadInv'
<1>. DEFINE e == [loads[l] EXCEPT !.pc = p]
<1>1. e \in LoadRecs /\ e.pc = p /\ e.got = loads[l].got /\ e.val = loads[l].val BY PcStep, SMT
<1>2. loads' = [loads EXCEPT ![l] = e] OBVIOUS
<1>. HIDE DEF e
<1>3. loads[l].pc \in Pcs BY DEF LoadInv, LoadTypes, LoadRecs
<1>4. Staged(e, txs)
  <2>1. CASE p = "failed" BY <1>1, <2>1 DEF Staged
  <2>2. CASE p # "failed"
    <3>1. Len(loads[l].got) = 2 BY <1>3, <2>2 DEF LoadInv, LoadTypes, Staged, Active
    <3>. QED BY <1>1, <3>1 DEF Staged
  <2>. QED BY <2>1, <2>2
<1>5. ~dirty /\ (\A n \in 1..2 : ~ToPublish(CfgKeys[n])) => RecMatches(loads[l])
  BY DEF LoadInv, Followed, Matches
<1>6. RecMatches(loads[l]) => RecMatches(e) BY <1>1 DEF RecMatches
<1>. QED BY <1>1, <1>2, <1>4, <1>5, <1>6, LoadStep

\* A load stores the value that it has read: the cache then has the value of the ledger, unless
\* the key is stale, and what other loads have got of the key is the same.
LEMMA StoreValueLoads ==
    ASSUME LoadInv, CfgInv, NEW l \in LoadIDs, Store(l), loads[l].val # Nil
    PROVE  LoadInv'
<1>. DEFINE k == NextKey(l)
            got == loads[l].got
            v == loads[l].val
            g == Append(got, v)
            e == [pc |-> IF Len(g) = 2 THEN "create" ELSE "get", got |-> g, val |-> Nil]
<1>1. /\ loads[l].pc = "store" /\ loads' = [loads EXCEPT ![l] = e]
      /\ DOMAIN cache' = DOMAIN cache \cup {k} /\ cache'[k] = v
      /\ \A j \in DOMAIN cache \ {k} : cache'[j] = cache[j]
      /\ UNCHANGED <<db, txs, writes, updateChan, registered, cfgTxID, client, mutex, stale, dirty>>
  BY DEF Store, GotKey
<1>2. Len(got) + 1 \in 1..2 /\ k = CfgKeys[Len(got) + 1] /\ k \in AllKeys /\ Active(l) /\ Storing(l, k)
  BY <1>1, NextKeyRight DEF LoadInv, Storing
<1>3. got \in Seq(Int) /\ v \in Int /\ loads \in [LoadIDs -> LoadRecs] BY DEF LoadInv, LoadTypes, LoadRecs
<1>4. v \in 1..txs BY <1>1 DEF LoadInv, LoadTypes, Staged
<1>. HIDE DEF k, got, v
<1>5. /\ g \in Seq(Int) /\ Len(g) = Len(got) + 1 /\ Len(g) \in 1..2
      /\ \A n \in 1..2 : n <= Len(got) => g[n] = got[n]
      /\ g[Len(got) + 1] = v
  BY <1>2, <1>3, SMT
<1>. HIDE DEF g
<1>6. e \in LoadRecs /\ e.pc \in {"create", "get"} /\ e.got = g BY <1>5, SMT DEF LoadRecs, Pcs, Nil
<1>7. Staged(e, txs)
  <2>1. CASE Len(g) = 2 BY <2>1 DEF Staged
  <2>2. CASE Len(g) # 2
    <3>1. Len(g) \in 0..1 BY <1>5, <2>2, SMT
    <3>. QED BY <2>2, <3>1 DEF Staged
  <2>. QED BY <2>1, <2>2
<1>. HIDE DEF e
<1>8. loads' \in [LoadIDs -> LoadRecs] /\ loads'[l] = e /\ \A m \in LoadIDs \ {l} : loads'[m] = loads[m]
  BY <1>1, <1>3, <1>6
<1>9. LoadTypes'
  <2>1. \A m \in LoadIDs : Staged(loads'[m], txs) BY <1>7, <1>8 DEF LoadInv, LoadTypes
  <2>2. \A j \in AllKeys \cap DOMAIN cache' : cache'[j] \in 1..txs BY <1>1, <1>4 DEF LoadInv, LoadTypes
  <2>. QED BY <1>1, <1>8, <2>1, <2>2 DEF LoadInv, LoadTypes
<1>10. Begun' BY <1>1, <1>2, <1>6, BegunStep
<1>11. \A j : getConfig(j)' = getConfig(j) /\ ToPublish(j)' = ToPublish(j)
  BY <1>1 DEF getConfig, At, ToPublish
<1>12. \A m \in LoadIDs : \A j : Storing(m, j)' => m # l /\ Storing(m, j)
  BY <1>6, <1>8 DEF Storing, NextKey
<1>13. Fresh'
  <2>. SUFFICES ASSUME NEW j \in AllKeys \ stale, ~ToPublish(j)
                PROVE  /\ j \in DOMAIN cache' => cache'[j] = getConfig(j)
                       /\ \A m \in LoadIDs : Storing(m, j)' => loads'[m].val = getConfig(j)
    BY <1>1, <1>11 DEF Fresh
  <2>1. j = k => v = getConfig(j) BY <1>2 DEF LoadInv, Fresh, v
  <2>2. j \in DOMAIN cache => cache[j] = getConfig(j) BY DEF LoadInv, Fresh
  <2>3. \A m \in LoadIDs : Storing(m, j)' => loads'[m].val = getConfig(j)
    BY <1>8, <1>12 DEF LoadInv, Fresh
  <2>. QED BY <1>1, <2>1, <2>2, <2>3
<1>14. Alike'
  <2>. SUFFICES ASSUME ~dirty, NEW j \in AllKeys, NEW m \in LoadIDs, Storing(m, j)', ~ToPublish(j)
                PROVE  /\ loads'[m].val = getConfig(j)
                       /\ j \in DOMAIN cache' => cache'[j] = loads'[m].val
    BY <1>1, <1>11 DEF Alike
  <2>1. Storing(m, j) /\ loads'[m].val = loads[m].val BY <1>8, <1>12
  <2>2. loads[m].val = getConfig(j) /\ (j \in DOMAIN cache => cache[j] = loads[m].val)
    BY <2>1 DEF LoadInv, Alike
  <2>3. j = k => v = getConfig(j) BY <1>2 DEF LoadInv, Alike, v
  <2>. QED BY <1>1, <2>1, <2>2, <2>3
<1>15. Followed'
  <2>. SUFFICES ASSUME ~dirty, \A n \in 1..2 : ~ToPublish(CfgKeys[n])
                PROVE  (\A m \in LoadIDs : Active(m)' => Matches(m)') /\ SomeLoad'
    BY <1>1, <1>11 DEF Followed
  <2>1. SomeLoad' BY <1>6, <1>8 DEF SomeLoad, Active
  <2>2. \A j \in DOMAIN cache : j \in DOMAIN cache' /\ cache'[j] = cache[j]
    <3>1. ~ToPublish(k) BY <1>2
    <3>2. k \in DOMAIN cache => cache[k] = v BY <1>2, <3>1 DEF LoadInv, Alike, v
    <3>. QED BY <1>1, <3>2
  <2>3. \A m \in LoadIDs : Active(m) => RecMatches(loads[m]) BY DEF LoadInv, Followed, Matches
  <2>. SUFFICES ASSUME NEW m \in LoadIDs, Active(m)', NEW n \in 1..2, n <= Len(loads'[m].got)
                PROVE  CfgKeys[n] \in DOMAIN cache' /\ loads'[m].got[n] = cache'[CfgKeys[n]]
    BY <2>1 DEF Matches, RecMatches
  <2>4. CASE m # l
    <3>1. Active(m) /\ loads'[m] = loads[m] BY <1>8, <2>4 DEF Active
    <3>. QED BY <2>2, <2>3, <3>1, SMT DEF RecMatches
  <2>5. CASE m = l /\ n <= Len(got)
    <3>1. CfgKeys[n] \in DOMAIN cache /\ got[n] = cache[CfgKeys[n]] BY <1>2, <2>3, <2>5 DEF RecMatches, got
    <3>. QED BY <1>5, <1>6, <1>8, <2>2, <2>5, <3>1
  <2>6. CASE m = l /\ ~(n <= Len(got))
    <3>1. n = Len(got) + 1 BY <1>2, <1>3, <1>5, <1>6, <1>8, <2>6, SMT
    <3>. QED BY <1>1, <1>2, <1>5, <1>6, <1>8, <2>6, <3>1, SMT
  <2>. QED BY <2>4, <2>5, <2>6
<1>. QED BY <1>9, <1>10, <1>13, <1>14, <1>15 DEF LoadInv

LEMMA EndLoads ==
    ASSUME LoadInv, CfgInv, NEW l \in LoadIDs,
           \/ Store(l) /\ loads[l].val = Nil
           \/ CreateClient(l) \/ LockAndClose(l) \/ CloseOld(l) \/ Install(l)
    PROVE  LoadInv'
<1>. DEFINE rest == UNCHANGED <<db, writes, txs, cache, stale, updateChan, cfgTxID, registered>>
<1>1. mutex \in {0} \cup LoadIDs /\ dirty \in BOOLEAN /\ registered \in BOOLEAN BY DEF LoadInv, LoadTypes
<1>2. ASSUME NEW p \in {"failed", "lock", "install", "close", "register", "done"},
             Active(l), loads' = [loads EXCEPT ![l].pc = p], client' \in {client, l},
             p = "register" => client' = 1
      PROVE  UNCHANGED registered => Begun'
  <2>. DEFINE e == [loads[l] EXCEPT !.pc = p]
  <2>1. p \in Pcs BY DEF Pcs
  <2>2. e.pc = p BY <2>1, PcStep, SMT
  <2>3. loads' = [loads EXCEPT ![l] = e] BY <1>2
  <2>. HIDE DEF e
  <2>. QED BY <1>2, <2>2, <2>3, BegunStep
<1>3. CASE Store(l) /\ loads[l].val = Nil
  <2>1. /\ loads[l].pc = "store" /\ loads' = [loads EXCEPT ![l].pc = "failed"]
        /\ dirty' = TRUE /\ rest /\ UNCHANGED <<mutex, client>>
    BY <1>3 DEF Store
  <2>2. Active(l) BY <2>1 DEF Active
  <2>3. Begun' BY <1>2, <2>1, <2>2
  <2>4. "failed" \in Pcs BY DEF Pcs
  <2>. QED BY <1>1, <2>1, <2>2, <2>3, <2>4, GoOnLoads
<1>4. CASE CreateClient(l)
  <2>1. loads[l].pc = "create" /\ rest /\ UNCHANGED <<mutex, client>> BY <1>4 DEF CreateClient, cfgVars
  <2>2. Active(l) BY <2>1 DEF Active
  <2>3. CASE loads' = [loads EXCEPT ![l].pc = "lock"] /\ UNCHANGED dirty
    <3>1. Begun' BY <1>2, <2>1, <2>2, <2>3
    <3>2. "lock" \in Pcs BY DEF Pcs
    <3>. QED BY <1>1, <2>1, <2>2, <2>3, <3>1, <3>2, GoOnLoads
  <2>4. CASE loads' = [loads EXCEPT ![l].pc = "failed"] /\ dirty' = TRUE
    <3>1. Begun' BY <1>2, <2>1, <2>2, <2>4
    <3>2. "failed" \in Pcs BY DEF Pcs
    <3>. QED BY <1>1, <2>1, <2>2, <2>4, <3>1, <3>2, GoOnLoads
  <2>. QED BY <1>4, <2>3, <2>4 DEF CreateClient
<1>5. CASE LockAndClose(l)
  <2>1. loads[l].pc = "lock" /\ mutex' = l /\ rest /\ UNCHANGED <<client, dirty>>
    BY <1>5 DEF LockAndClose, cfgVars
  <2>2. PICK p \in {"install", "close"} : loads' = [loads EXCEPT ![l].pc = p] BY <1>5 DEF LockAndClose
  <2>3. Active(l) BY <2>1 DEF Active
  <2>4. Begun' BY <1>2, <2>1, <2>2, <2>3
  <2>5. p \in Pcs BY DEF Pcs
  <2>. QED BY <1>1, <2>1, <2>2, <2>3, <2>4, <2>5, GoOnLoads
<1>6. CASE CloseOld(l)
  <2>1. /\ loads[l].pc = "close" /\ loads' = [loads EXCEPT ![l].pc = "install"]
        /\ rest /\ UNCHANGED <<client, dirty, mutex>>
    BY <1>6 DEF CloseOld, cfgVars
  <2>2. Active(l) BY <2>1 DEF Active
  <2>3. Begun' BY <1>2, <2>1, <2>2
  <2>4. "install" \in Pcs BY DEF Pcs
  <2>. QED BY <1>1, <2>1, <2>2, <2>3, <2>4, GoOnLoads
<1>7. CASE Install(l)
  <2>1. loads[l].pc = "install" /\ client' = l /\ mutex' = 0 /\ rest /\ UNCHANGED dirty
    BY <1>7 DEF Install, cfgVars
  <2>2. PICK p \in {"register", "done"} :
          loads' = [loads EXCEPT ![l].pc = p] /\ (p = "register" => l = 1)
    BY <1>7 DEF Install
  <2>3. Active(l) BY <2>1 DEF Active
  <2>4. Begun' BY <1>2, <2>1, <2>2, <2>3
  <2>5. p \in Pcs BY DEF Pcs
  <2>. QED BY <1>1, <2>1, <2>2, <2>3, <2>4, <2>5, GoOnLoads
<1>. QED BY <1>3, <1>4, <1>5, <1>6, <1>7

LEMMA RegisterLoads == ASSUME LoadInv, CfgInv, AddUpdateHandler PROVE LoadInv'
<1>1. /\ loads[1].pc = "register" /\ registered' = TRUE /\ loads' = [loads EXCEPT ![1].pc = "done"]
      /\ UNCHANGED <<db, writes, txs, cache, stale, updateChan, cfgTxID, client, mutex, dirty>>
  BY DEF AddUpdateHandler, cfgVars
<1>2. 1 \in LoadIDs /\ Active(1) /\ client = 1 BY <1>1, CfgKeysRight DEF Active, LoadInv, Begun
<1>3. loads'[1].pc = "done" BY <1>1, <1>2 DEF LoadInv, LoadTypes, LoadRecs
<1>4. Begun' BY <1>1, <1>3 DEF Begun
<1>5. mutex' \in {0} \cup LoadIDs /\ dirty' \in BOOLEAN /\ (dirty => dirty')
  BY <1>1 DEF LoadInv, LoadTypes
<1>6. "done" \in Pcs BY DEF Pcs
<1>. QED BY <1>1, <1>2, <1>4, <1>5, <1>6, GoOnLoads

LEMMA LoadNext == ASSUME LoadInv, CfgInv, [Next]_vars PROVE LoadInv'
<1>1. CfgInv' BY CfgNext
<1>2. ASSUME UNCHANGED <<cfgVars, loads, registered, cfgTxID, client, mutex, stale, dirty>> PROVE LoadInv'
  BY <1>1, <1>2, OthersKeep DEF cfgVars
<1>3. CASE Invoke /\ UNCHANGED txnVars
  <2>1. /\ UNCHANGED <<db, writes, cache, updateChan, loads, registered, cfgTxID, client, mutex, stale, dirty>>
        /\ txs' \in {txs, txs + 1}
    BY <1>3 DEF Invoke, txnVars
  <2>. QED BY <1>1, <2>1, OthersKeep
<1>4. CASE Commit /\ UNCHANGED txnVars BY <1>4, CommitLoads
<1>5. CASE Publish \/ handleConfigUpdate \/ Panic BY <1>5, PublishLoads, HandleLoads, PanicLoads
<1>6. CASE newService \/ AddUpdateHandler BY <1>6, NewServiceLoads, RegisterLoads
<1>7. ASSUME NEW l \in LoadIDs, Load(l) PROVE LoadInv'
  BY <1>7, GetLoads, StoreValueLoads, EndLoads DEF Load
<1>8. ASSUME NEW i \in Invokers, InvokeHandler(i) \/ Invocation(i) PROVE LoadInv'
  BY <1>2, <1>8 DEF InvokeHandler, Invocation, CheckClosed, Increment, Decrement, LastDecrement
<1>9. CASE Close \/ CloseLast BY <1>2, <1>9 DEF Close, CloseLast
<1>10. CASE UNCHANGED vars BY <1>2, <1>10 DEF vars, txnVars
<1>. QED BY <1>3, <1>4, <1>5, <1>6, <1>7, <1>8, <1>9, <1>10, SMT DEF Next

-----------------------------------------------------------------------------
(***************************************************************************)
(* The theorems.                                                            *)
(***************************************************************************)
LEMMA Invariance == Spec => [](CfgInv /\ RefInv /\ LoadInv)
<1>1. Init => CfgInv /\ RefInv /\ LoadInv BY CfgInitRight, RefInit, LoadInit
<1>2. CfgInv /\ RefInv /\ LoadInv /\ [Next]_vars => (CfgInv /\ RefInv /\ LoadInv)'
  BY CfgNext, RefNext, LoadNext
<1>. QED BY <1>1, <1>2, PTL DEF Spec

\* For any keys, any transactions and any order of their blocks: the index of the ledger
\* configuration has an entry for exactly the keys that have a value (updatemgr.go Save, Delete).
THEOREM IndexStaysExact == Spec => []IndexExact
<1>1. CfgInv => IndexExact BY DEF CfgInv
<1>. QED BY <1>1, Invariance, PTL

\* With any number of loads, invocations and configuration transactions: subscribers are told
\* the updates in the order of the ledger, the cache has the value of the ledger when everything is
\* published, and a service that has settled runs the client of the configuration in the cache, but
\* for the races that `stale' and `dirty' name (service.go handleKeyUpdate, load,
\* handleConfigUpdate).
THEOREM UpdatesAreFollowed == Spec => []UpdatesFollowed
<1>1. CfgInv /\ RefInv /\ LoadInv => UpdatesFollowed
  <2>. SUFFICES ASSUME CfgInv, RefInv, LoadInv PROVE UpdatesFollowed
    OBVIOUS
  <2>1. TypeOK
    <3>1. \A l \in LoadIDs : refs[l].count \in 0..Cardinality(Invokers)
      BY RunningFinite DEF RefInv, Counted
    <3>. QED BY <3>1 DEF TypeOK, RefInv, RefTypes, LoadInv, LoadTypes, CfgInv, CfgTypes
  <2>2. NotifiedInOrder BY DEF CfgInv
  <2>3. writes = <<>> => \A k : ~ToPublish(k) BY SMT DEF ToPublish
  <2>4. CacheFresh BY <2>3 DEF CacheFresh, LoadInv, Fresh
  <2>5. ConfigApplied
    <3>. SUFFICES ASSUME Quiet, registered, ~dirty, NEW n \in 1..2
                  PROVE  loads[client].got[n] = cache[CfgKeys[n]]
      BY DEF ConfigApplied
    <3>1. ~Coming BY SMT DEF Quiet, Coming
    <3>2. Len(loads[client].got) = 2 /\ Matches(client) BY <2>3, <3>1 DEF Quiet, LoadInv, Followed
    <3>. QED BY <3>2, SMT DEF Matches, RecMatches
  <2>. QED BY <2>1, <2>2, <2>4, <2>5 DEF UpdatesFollowed
<1>. QED BY <1>1, Invariance, PTL

\* Whatever the number of invocations: the SDK of a client is closed only when no invocation
\* uses it, but for the invocations that passed the check of the flag before it was set, or the
\* increment before a decrement to zero was noted (counter.go Increment, Decrement, Close).
THEOREM ClosedOnlyUnused == Spec => []NotClosedInUse
<1>1. RefInv => NotClosedInUse BY DEF RefInv
<1>. QED BY <1>1, Invariance, PTL

=============================================================================
