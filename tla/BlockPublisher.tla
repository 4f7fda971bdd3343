-------------------------- MODULE BlockPublisher --------------------------
(***************************************************************************)
(* The block publisher of one channel of an endorser (gossip/              *)
(* blockpublisher): a goroutine hands the events of the published blocks   *)
(* to the handlers, which resources add when the channel is joined         *)
(* (gossip/state, chaincode/notifier) or later; the join also initialises  *)
(* the height of the visitor.  The publishers of other channels share      *)
(* nothing with this one.                                                  *)
(*                                                                         *)
(* All the channels of the publisher are unbuffered and have one receiver, *)
(* so an event is handed over when the receiver is idle.                   *)
(***************************************************************************)
EXTENDS ResourceMgr, BlockVisitor

CONSTANTS
    Channel,     \* the channel of this publisher
    Chain,       \* [block number -> its transactions]
    IsCommitter, \* the role of the peer
    Registered,  \* the sequences of creators to start with
    Early,       \* the handlers added before the first block
    Subscribers, \* the handlers added at any time
    KindOf,      \* [handler -> the kind of its events]
    Lifecycle    \* the namespace that the notifier listens to

VARIABLES
    height,             \* of the ledger (GetBlockchainInfo)
    publishing,         \* the block being published, or 0
    visiting,           \* the events of it that are still to be handed over
    lastCommittedBlock, \* of the visitor
    handlers,           \* the handlers, in the order in which they were added
    listener,           \* idle, got (an event), busy (with its handlers) or exited
    setter,             \* the call of SetLastCommittedBlockNum
    \* history
    sent,               \* the events whose handlers were looked up
    since,              \* [handler -> the number of them before it was added]
    delivered           \* [handler -> what it was called with]

pvars == <<height, publishing, visiting, lastCommittedBlock, handlers, listener, setter, sent, since, delivered>>
vars == <<rvars, pvars>>

AllHandlers == DOMAIN KindOf

\* newChaincodeUpgradeHandler, and handleWrite and handleHashWrite of the notifier, pass
\* on a part of the events of their kind.
Upgrade(ev) == ev.key = "lscc.upgrade"

Handles(h, ev) ==
    /\ h = "upgrade" => Upgrade(ev)
    /\ h \in {"ccWrite", "ccHash"} => ev.ns = Lifecycle

-----------------------------------------------------------------------------
(* Publishing.                                                             *)

BlockEvents(b) == SelectSeq(visit([num |-> b, txs |-> Chain[b]], defaultHandleError), LAMBDA e : e.kind # "error")

\* CheckpointBlock, up to the notification: the height is set, then the block published.
Publish ==
    /\ publishing = 0 /\ height \in DOMAIN Chain
    /\ publishing' = height
    /\ visiting' = BlockEvents(height)
    /\ height' = height + 1
    /\ UNCHANGED <<rvars, lastCommittedBlock, handlers, listener, setter, sent, since, delivered>>

Send ==
    /\ visiting # <<>> /\ listener.state = "idle"
    /\ visiting' = Tail(visiting)
    /\ listener' = [state |-> "got", ev |-> <<Head(visiting)>>, left |-> <<>>]
    /\ UNCHANGED <<rvars, height, publishing, lastCommittedBlock, handlers, setter, sent, since, delivered>>

\* Mutant: the visitor does not wait for the last event.
Visited_Early ==
    /\ publishing # 0 /\ Len(visiting) <= 1
    /\ lastCommittedBlock' = publishing
    /\ publishing' = IF visiting = <<>> THEN 0 ELSE publishing
    /\ UNCHANGED <<rvars, height, visiting, handlers, listener, setter, sent, since, delivered>>

\* The deferred store of Visit.
Visited ==
    /\ publishing # 0 /\ visiting = <<>>
    /\ lastCommittedBlock' = publishing
    /\ publishing' = 0
    /\ UNCHANGED <<rvars, height, visiting, handlers, listener, setter, sent, since, delivered>>

\* listen is back in its select.
Listening == [state |-> "idle", ev |-> <<>>, left |-> <<>>]

HandlersOf(kind) == SelectSeq(handlers, LAMBDA h : KindOf[h] = kind)

\* The start of handleWrite, handleRead, ...: the handlers are those of this moment.
getHandlers ==
    /\ listener.state = "got"
    /\ listener' = IF HandlersOf(listener.ev[1].kind) = <<>> THEN Listening
                   ELSE [listener EXCEPT !.state = "busy", !.left = HandlersOf(listener.ev[1].kind)]
    /\ sent' = sent \o listener.ev
    /\ UNCHANGED <<rvars, height, publishing, visiting, lastCommittedBlock, handlers, setter, since, delivered>>

\* One turn of the loop over the handlers; an error that it returns is logged.
handle ==
    /\ listener.state = "busy"
    /\ listener' = IF Len(listener.left) = 1 THEN Listening ELSE [listener EXCEPT !.left = Tail(@)]
    /\ delivered' = [delivered EXCEPT ![Head(listener.left)] =
                         IF Handles(Head(listener.left), listener.ev[1]) THEN Append(@, listener.ev[1]) ELSE @]
    /\ UNCHANGED <<rvars, height, publishing, visiting, lastCommittedBlock, handlers, setter, sent, since>>

-----------------------------------------------------------------------------
(* Handlers.                                                               *)

AddHandler(h) ==
    /\ handlers' = Append(handlers, h)
    /\ since' = [since EXCEPT ![h] = Len(sent)]

\* A service adds its handler: the configuration service, a retriever.
Subscribe(h) ==
    /\ h \notin Range(handlers)
    /\ AddHandler(h)
    /\ UNCHANGED <<rvars, height, publishing, visiting, lastCommittedBlock, listener, setter, sent, delivered>>

Told == notified /\ UNCHANGED <<creators, stage, resources, joined, joinedChan, chanOpen, registry, built, toClose, panicked>>

ForThis(r) == Telling(r) /\ notifying.ch = Channel

\* ChannelJoined of the handler of state updates.
ChannelJoinedState ==
    /\ ForThis("updateHandler")
    /\ IF IsCommitter THEN UNCHANGED <<handlers, since>> ELSE AddHandler("state")
    /\ Told
    /\ UNCHANGED <<height, publishing, visiting, lastCommittedBlock, listener, setter, sent, delivered>>

\* ChannelJoined of the chaincode notifier: two handlers, one after the other.
ChannelJoinedNotifier ==
    /\ ForThis("notifier")
    /\ IF IsCommitter THEN Told /\ UNCHANGED <<handlers, since>>
       ELSE \/ /\ "ccWrite" \notin Range(handlers)
               /\ AddHandler("ccWrite")
               /\ UNCHANGED rvars
            \/ /\ "ccWrite" \in Range(handlers)
               /\ AddHandler("ccHash")
               /\ Told
    /\ UNCHANGED <<height, publishing, visiting, lastCommittedBlock, listener, setter, sent, delivered>>

\* Any other resource, and this one for another channel.
ChannelJoinedOther ==
    /\ notifying.ch # NoChannel /\ Head(notifying.left) # UCC
    /\ notifying.ch = Channel => Head(notifying.left) \notin {"publisher", "updateHandler", "notifier"}
    /\ Told
    /\ UNCHANGED pvars

-----------------------------------------------------------------------------
(* The height of the visitor.                                              *)

\* ChannelJoined of the publisher: it asks for the height, or fails to and returns.
ChannelJoinedPublisher ==
    /\ ForThis("publisher") /\ setter.pc = "none"
    /\ \/ /\ setter' = [pc |-> "load", target |-> height - 1, n |-> 0]
          /\ UNCHANGED rvars
       \/ /\ setter' = [setter EXCEPT !.pc = "done"]
          /\ Told
    /\ UNCHANGED <<height, publishing, visiting, lastCommittedBlock, handlers, listener, sent, since, delivered>>

LoadLast ==
    /\ setter.pc = "load"
    /\ setter' = [setter EXCEPT !.pc = "cas", !.n = lastCommittedBlock]
    /\ UNCHANGED <<rvars, height, publishing, visiting, lastCommittedBlock, handlers, listener, sent, since, delivered>>

\* Mutant: the number is stored whatever it was.
SetLastCommittedBlockNum_Stores ==
    /\ setter.pc = "cas"
    /\ lastCommittedBlock' = IF setter.n < setter.target THEN setter.target ELSE lastCommittedBlock
    /\ setter' = [setter EXCEPT !.pc = "done"]
    /\ Told
    /\ UNCHANGED <<height, publishing, visiting, handlers, listener, sent, since, delivered>>

\* The loop of SetLastCommittedBlockNum compares and swaps with the number that it loaded
\* before the loop.
SetLastCommittedBlockNum ==
    /\ setter.pc = "cas"
    /\ setter.n < setter.target => lastCommittedBlock = setter.n
    /\ lastCommittedBlock' = IF setter.n < setter.target THEN setter.target ELSE lastCommittedBlock
    /\ setter' = [setter EXCEPT !.pc = "done"]
    /\ Told
    /\ UNCHANGED <<height, publishing, visiting, handlers, listener, sent, since, delivered>>

\* A block was visited between the load and the swap: the loop never ends.
Spinning == setter.pc = "cas" /\ setter.n < setter.target /\ lastCommittedBlock # setter.n

-----------------------------------------------------------------------------
(* Closing.                                                                *)

\* Mutant: the receiver never looks at the channel of Close.
Close_NotReceived ==
    /\ Closing("publisher") /\ listener.state = "exited"
    /\ closedOne
    /\ UNCHANGED <<creators, resources, joined, joinedChan, chanOpen, notifying, registry, built, panicked, pvars>>

\* Close of the publisher: the receiver takes it when it is idle, and exits.
Close ==
    /\ Closing("publisher") /\ listener.state = "idle"
    /\ listener' = [listener EXCEPT !.state = "exited"]
    /\ closedOne
    /\ UNCHANGED <<creators, resources, joined, joinedChan, chanOpen, notifying, registry, built, panicked>>
    /\ UNCHANGED <<height, publishing, visiting, lastCommittedBlock, handlers, setter, sent, since, delivered>>

-----------------------------------------------------------------------------
Init ==
    /\ ResourceInit(Registered)
    /\ height \in {1, 2}
    /\ publishing = 0 /\ visiting = <<>>
    /\ lastCommittedBlock = 0
    /\ handlers = Early
    /\ listener = Listening
    /\ setter = [pc |-> "none", target |-> 0, n |-> 0]
    /\ sent = <<>>
    /\ since = [h \in AllHandlers |-> 0]
    /\ delivered = [h \in AllHandlers |-> <<>>]

listen == getHandlers \/ handle

Notifying ==
    \/ listenChannel /\ UNCHANGED pvars
    \/ NotifyChaincodes /\ UNCHANGED pvars
    \/ ChannelJoinedState
    \/ ChannelJoinedNotifier
    \/ ChannelJoinedOther
    \/ ChannelJoinedPublisher
    \/ LoadLast
    \/ SetLastCommittedBlockNum

ClosingDown == (AcquireClose /\ UNCHANGED pvars) \/ Close

Registering == (Resources \/ registerChaincodes) /\ UNCHANGED pvars

Next ==
    /\ ~panicked
    /\ \/ Initialize /\ UNCHANGED pvars
       \/ \E ch \in Channels : ChannelJoined(ch) /\ UNCHANGED pvars
       \/ BeginClose /\ UNCHANGED pvars
       \/ Registering
       \/ stage # "start" /\ \E h \in Subscribers : Subscribe(h)
       \/ stage # "start" /\ Publish
       \/ Send
       \/ Visited
       \/ listen
       \/ Notifying
       \/ ClosingDown

\* Every goroutine that can take a step takes one.
Fairness ==
    /\ WF_vars(~panicked /\ Registering)
    /\ WF_vars(~panicked /\ Notifying)
    /\ WF_vars(~panicked /\ listen)
    /\ WF_vars(~panicked /\ (Send \/ Visited))
    /\ WF_vars(~panicked /\ ClosingDown)

Spec == Init /\ [][Next]_vars /\ Fairness

-----------------------------------------------------------------------------
(* Properties.                                                             *)

\* Every variable holds a value of its kind.
TypeOK ==
    /\ stage \in {"start", "running", "failed", "closing", "closed"}
    /\ Range(resources) \subseteq Range(Providers) \cup {creators[i].name : i \in DOMAIN creators}
    /\ joined \subseteq Channels /\ Len(joinedChan) <= 1 /\ Range(joinedChan) \subseteq joined
    /\ notifying.ch \in joined \cup {NoChannel} /\ Len(notifying.left) <= Len(resources)
    /\ registry \in {"none", "locked", "building", "ready"}
    /\ chanOpen \in BOOLEAN /\ panicked \in BOOLEAN
    /\ height \in Nat /\ publishing \in 0..height /\ lastCommittedBlock \in 0..height
    /\ Range(handlers) \subseteq AllHandlers /\ Len(handlers) <= Cardinality(AllHandlers)
    /\ listener.state \in {"idle", "got", "busy", "exited"} /\ Len(listener.ev) <= 1
    /\ setter.pc \in {"none", "load", "cas", "done"}

Args(c) == {creators[i].args : i \in {j \in DOMAIN creators : creators[j].name = c}}

\* The resources that can be made: the least set closed under the creators whose arguments
\* are in it or provided.
Creatable ==
    LET names == {creators[i].name : i \in DOMAIN creators}
        closed(S) == \A i \in DOMAIN creators :
                         creators[i].args \subseteq S \cup Range(Providers) => creators[i].name \in S
    IN  {c \in names : \A S \in SUBSET names : closed(S) => c \in S}

BadCreator(i) == Unsupported \in creators[i].args \/ ~creators[i].ok

\* Initialize makes every resource once, each after those it asks for, exactly when this can
\* be done in some order, whatever the order of registration; and when a provider is
\* missing everything else was made.
InitializeExact ==
    stage # "start" /\ (\A i \in DOMAIN creators : ~BadCreator(i)) =>
        /\ (stage # "failed") <=> (Cardinality(Creatable) = Len(creators))
        /\ Range(resources) = Range(Providers) \cup Creatable
        /\ Len(resources) = Len(Providers) + Cardinality(Creatable)
        /\ \A i \in DOMAIN resources : \A as \in Args(resources[i]) :
               as \subseteq {resources[j] : j \in 1..(i - 1)}

Valid(b, i) ==
    Chain[b][i].env /\ Chain[b][i].type = "ENDORSER_TRANSACTION" /\ Chain[b][i].code = "VALID" /\ Chain[b][i].ok

\* The writes that a block makes to the public state.
PublicWrites(b) ==
    UNION {UNION {UNION {{Event("write", [block |-> b, tx |-> i], rw.ns, k) : k \in Range(rw.writes)} :
                           rw \in {r \in Range(a.results) : r.ns # LsccID}} :
                      a \in {x \in Range(Chain[b][i].actions) : x.ok /\ x.resultsOK}} :
               i \in {j \in DOMAIN Chain[b] : Valid(b, j)}}

\* The blocks published since the peer started.
Published == {b \in DOMAIN Chain : b < height /\ sent # <<>> /\ sent[1].block <= b}

\* The visitor leaves out none of the public writes of the valid transactions of a block,
\* and publishes nothing of any other transaction, even when elements before or after
\* cannot be unmarshalled; the events come in the order of blocks and transactions.
EventsExact ==
    /\ \A b \in Published \ {publishing} : PublicWrites(b) \subseteq Range(sent) \cup Range(listener.ev)
    /\ \A i \in DOMAIN sent : sent[i].kind \notin {"block", "config"} => Valid(sent[i].block, sent[i].tx)
    /\ \A i, j \in DOMAIN sent : i < j =>
           sent[i].block < sent[j].block \/ (sent[i].block = sent[j].block /\ sent[i].tx <= sent[j].tx)

\* A handler has been called with exactly the events of its kind that were handed over since
\* it was added, in order, but for the one that is being handled.
DeliveredExact ==
    \A h \in Range(handlers) :
        LET due(s) == SelectSeq(SubSeq(s, since[h] + 1, Len(s)), LAMBDA e : e.kind = KindOf[h] /\ Handles(h, e))
        IN  delivered[h] = IF h \in Range(listener.left) THEN due(Front(sent)) ELSE due(sent)

\* Once the visitor counts a block in its height, every event of it has been handed over and
\* at most its last one is still being handled, unless it was the join that counted it.
HandledBeforeHeight ==
    \A b \in Published : setter.target < b /\ b <= lastCommittedBlock =>
        Range(BlockEvents(b)) \subseteq Range(sent) \cup Range(listener.ev)

\* Handlers see exactly what they are to see, before the height tells that they have (handle,
\* Publish).
DeliveredInTime == TypeOK /\ DeliveredExact /\ HandledBeforeHeight

\* The height that the visitor reports never goes back, whichever of a join and a published
\* block comes first.
HeightGrows == [][lastCommittedBlock' >= lastCommittedBlock]_lastCommittedBlock

\* A join that waits for the registry while a close waits for the join: the registry's
\* goroutine, a new reader of the manager, waits for the close.
Deadlocked == stage = "closing" /\ chanOpen /\ Telling(UCC) /\ registry = "locked"

\* Every resource is told of the joined channels, unless the loop of the height spins, a join
\* and a close are deadlocked, or the peer has panicked.
JoinsNotified ==
    (joinedChan # <<>> \/ notifying.ch # NoChannel)
        ~> ((joinedChan = <<>> /\ notifying.ch = NoChannel) \/ Spinning \/ Deadlocked \/ panicked)

\* The lock of the chaincode registry, taken by its creator (ucc.go), is released, unless the
\* loop of the height spins, join and close are deadlocked, or the peer has panicked.
RegistryReady == registry = "locked" ~> (registry = "ready" \/ Spinning \/ Deadlocked \/ panicked)

\* Closing the resource manager ends, unless the loop of the height spins, join and close are
\* deadlocked, or the peer has panicked.
CloseCompletes == stage = "closing" ~> (stage = "closed" \/ Spinning \/ Deadlocked \/ panicked)

\* A block that is being published is published, unless the publisher is closed meanwhile.
BlocksPublished == publishing # 0 ~> (publishing = 0 \/ listener.state = "exited" \/ panicked)

\* Nobody waits for ever, with the exceptions above: joins are told to everybody, the registry
\* becomes ready, blocks are published and Close ends (ChannelJoined, Publish, Close).
NobodyStuck == JoinsNotified /\ RegistryReady /\ CloseCompletes /\ BlocksPublished
=============================================================================
