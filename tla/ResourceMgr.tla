---------------------------- MODULE ResourceMgr ----------------------------
(***************************************************************************)
(* The resource manager of a peer (pkg/resource with injectinvoker): it    *)
(* creates the registered resources in an order that satisfies their       *)
(* arguments, tells them which channels are joined, and closes them; and   *)
(* the registry of the in-process chaincodes (pkg/chaincode/ucc), which    *)
(* holds its own lock from its creation until a goroutine has built the    *)
(* chaincodes from the resources.                                          *)
(*                                                                         *)
(* A creator is [name, args, ok]: the resource it makes, the interfaces it *)
(* asks for and whether it returns exactly one value.  An interface is     *)
(* named after the resource that implements it; Unsupported is an argument *)
(* of another type.  The manager's lock is a Go RWMutex: a writer that     *)
(* waits keeps new readers out.                                            *)
(***************************************************************************)
EXTENDS Naturals, Sequences, SequencesExt, FiniteSets

CONSTANTS
    Providers,   \* the sequence of providers that the peer passes to Initialize
    Unsupported, \* an argument that is neither an interface nor a struct
    Chaincodes,  \* the creators of the in-process chaincodes
    Channels,    \* the channels that the peer joins
    UCC,         \* the registry's name among the resources
    Notifiers,   \* the resources that have ChannelJoined
    Closables    \* the resources that have Close

VARIABLES
    creators,   \* the creators registered, in order
    stage,      \* of the peer: start, running, failed, closing, closed
    resources,  \* the resources, in the order in which they were created
    joined,     \* the channels whose join was reported
    joinedChan, \* the channel of the manager, of capacity 1
    chanOpen,
    notifying,  \* the channel being notified and the resources still to be told
    registry,   \* of the chaincodes: none, locked, building, ready
    built,      \* the resources that the chaincodes were built from
    toClose,    \* the resources still to be closed
    panicked

rvars == <<creators, stage, resources, joined, joinedChan, chanOpen, notifying, registry, built, toClose, panicked>>

NoChannel == ""

\* Invoke: what calling a creator with these providers gives.
Invoke(c, providers) ==
    CASE Unsupported \in c.args -> "error"
      [] Unsupported \notin c.args /\ ~(c.args \subseteq Range(providers)) -> "notFound"
      [] OTHER -> IF c.ok THEN "ok" ELSE "error"

\* Mutant: only the last of the creators that lack a provider is tried again.
initialize_LastOnly(st, cs) ==
    FoldLeft(LAMBDA acc, c :
                 CASE Invoke(c, acc.providers) = "ok" ->
                          [acc EXCEPT !.made = Append(@, c.name), !.providers = Append(@, c.name)]
                   [] OTHER -> [acc EXCEPT !.left = <<c>>, !.err = Invoke(c, acc.providers)],
             [made |-> <<>>, left |-> <<>>, err |-> "", providers |-> st.providers], cs)

\* initialize: one attempt over the creators that are left.  A resource is at once a
\* provider of the next ones; any other error than a missing provider ends the attempt,
\* and drops what it had made.
initialize(st, cs) ==
    FoldLeft(LAMBDA acc, c :
                 IF acc.err = "error" THEN acc
                 ELSE CASE Invoke(c, acc.providers) = "ok" ->
                               [acc EXCEPT !.made = Append(@, c.name), !.providers = Append(@, c.name)]
                        [] Invoke(c, acc.providers) = "notFound" ->
                               [acc EXCEPT !.left = Append(@, c), !.err = "notFound"]
                        [] OTHER -> [acc EXCEPT !.made = <<>>, !.left = <<>>, !.err = "error"],
             [made |-> <<>>, left |-> <<>>, err |-> "", providers |-> st.providers], cs)

\* The loop of Initialize, bounded by the number of creators: every attempt but the last
\* creates one at least.
Attempts(cs) ==
    LET step[n \in 0..Len(cs)] ==
            IF n = 0 THEN [resources |-> Providers, providers |-> Providers, left |-> cs, failed |-> FALSE]
            ELSE LET prev == step[n - 1]
                     r == initialize(prev, prev.left)
                 IN  IF prev.left = <<>> \/ prev.failed THEN prev
                     ELSE [resources |-> prev.resources \o r.made, providers |-> r.providers, left |-> r.left,
                           failed |-> r.err = "error" \/ (r.err = "notFound" /\ r.made = <<>>)]
    IN  step[Len(cs)]

\* Initialize, under the manager's lock throughout.  The registry of the chaincodes takes
\* its own lock in its creator, and keeps it.
Initialize ==
    /\ stage = "start"
    /\ LET r == Attempts(creators)
       IN  /\ resources' = r.resources
           /\ stage' = IF r.failed THEN "failed" ELSE "running"
           /\ registry' = IF UCC \in Range(r.resources) THEN "locked" ELSE "none"
    /\ UNCHANGED <<creators, joined, joinedChan, chanOpen, notifying, built, toClose, panicked>>

NewReaderAllowed == stage = "running" \/ stage = "failed" \/ stage = "closed"

\* registerChaincodes, first step: Resources takes the manager's lock for reading.
Resources ==
    /\ registry = "locked"
    /\ NewReaderAllowed
    /\ registry' = "building"
    /\ built' = resources
    /\ UNCHANGED <<creators, stage, resources, joined, joinedChan, chanOpen, notifying, toClose, panicked>>

\* Build: a chaincode is no provider of the next one.
Build(providers) == \A i \in DOMAIN Chaincodes : Invoke(Chaincodes[i], providers) = "ok"

registered(i) == \E j \in 1..(i - 1) : Chaincodes[j].name = Chaincodes[i].name

\* registerChaincodes, the rest: it panics on a chaincode that cannot be built, or that is
\* registered twice; the lock of the registry is released.
registerChaincodes ==
    /\ registry = "building"
    /\ registry' = "ready"
    /\ panicked' = ~(Build(built) /\ \A i \in DOMAIN Chaincodes : ~registered(i))
    /\ UNCHANGED <<creators, stage, resources, joined, joinedChan, chanOpen, notifying, built, toClose>>

-----------------------------------------------------------------------------
\* ChannelJoined: the sender waits while the channel is full, and panics once it is closed.
ChannelJoined(ch) ==
    /\ stage \in {"running", "closing", "closed"}
    /\ ch \notin joined
    /\ \/ /\ chanOpen /\ Len(joinedChan) < 1
          /\ joinedChan' = Append(joinedChan, ch)
          /\ UNCHANGED panicked
       \/ /\ ~chanOpen
          /\ panicked' = TRUE
          /\ UNCHANGED joinedChan
    /\ joined' = joined \cup {ch}
    /\ UNCHANGED <<creators, stage, resources, chanOpen, notifying, registry, built, toClose>>

\* listenChannel; notifyChannelJoined with its lock held for reading.
listenChannel ==
    /\ notifying.ch = NoChannel /\ joinedChan # <<>>
    /\ NewReaderAllowed
    /\ notifying' = [ch |-> Head(joinedChan), left |-> SelectSeq(resources, LAMBDA r : r \in Notifiers)]
    /\ joinedChan' = Tail(joinedChan)
    /\ UNCHANGED <<creators, stage, resources, joined, chanOpen, registry, built, toClose, panicked>>

\* The resource at hand has been told; after the last one the lock is released.
notified ==
    notifying' = IF Len(notifying.left) = 1 THEN [ch |-> NoChannel, left |-> <<>>]
                 ELSE [notifying EXCEPT !.left = Tail(@)]

Telling(r) == notifying.ch # NoChannel /\ Head(notifying.left) = r

\* Chaincodes waits for the lock of the registry.
NotifyChaincodes ==
    /\ Telling(UCC) /\ registry = "ready"
    /\ notified
    /\ UNCHANGED <<creators, stage, resources, joined, joinedChan, chanOpen, registry, built, toClose, panicked>>

\* Close: it waits for the lock; the readers that come later wait for it.
BeginClose ==
    /\ stage = "running"
    /\ stage' = "closing"
    /\ UNCHANGED <<creators, resources, joined, joinedChan, chanOpen, notifying, registry, built, toClose, panicked>>

AcquireClose ==
    /\ stage = "closing" /\ chanOpen /\ notifying.ch = NoChannel
    /\ chanOpen' = FALSE
    /\ toClose' = SelectSeq(resources, LAMBDA r : r \in Closables)
    /\ UNCHANGED <<creators, stage, resources, joined, joinedChan, notifying, registry, built, panicked>>

Closing(r) == stage = "closing" /\ toClose # <<>> /\ Head(toClose) = r

\* doClose of the resource at hand is done; after the last one the lock is released.
closedOne ==
    /\ toClose' = Tail(toClose)
    /\ stage' = IF Len(toClose) = 1 THEN "closed" ELSE stage

ResourceInit(Registered) ==
    /\ creators \in Registered
    /\ stage = "start"
    /\ resources = <<>>
    /\ joined = {}
    /\ joinedChan = <<>>
    /\ chanOpen = TRUE
    /\ notifying = [ch |-> NoChannel, left |-> <<>>]
    /\ registry = "none"
    /\ built = <<>>
    /\ toClose = <<>>
    /\ panicked = FALSE

ResourceNext ==
    \/ Initialize
    \/ Resources
    \/ registerChaincodes
    \/ \E ch \in Channels : ChannelJoined(ch)
    \/ listenChannel
    \/ NotifyChaincodes
    \/ BeginClose
    \/ AcquireClose
=============================================================================
