------------------------------ MODULE Retrieval ------------------------------
(***************************************************************************)
(* Getting data from other peers over gossip: the retrievers of            *)
(* pkg/collections/offledger, pkg/collections/transientdata and            *)
(* pkg/gossip/appdata on multirequest and requestmgr, and the dispatcher,  *)
(* on the local peer and on the peers that are asked.                      *)
(*                                                                         *)
(* A call asks one group of peers after the other.  It runs a goroutine    *)
(* for each peer it asks, <<call, peer, i>>: i tells the two requests      *)
(* apart that a peer with two roles may get.  A goroutine registers a      *)
(* request with the request manager of the channel, sends it and waits for *)
(* the response or for the end of its context.  The dispatcher gives the   *)
(* response with the number of a request to its channel of capacity 1,     *)
(* holding the read lock of the manager.                                   *)
(*                                                                         *)
(* A request that is lost, a peer that does not answer, and an answer that *)
(* is lost are one thing: the message stays in net for ever.  The value of *)
(* a key is [q, c]: the peer that had it and the call that asked for it.   *)
(***************************************************************************)
EXTENDS Dissemination, CollConfig

CONSTANTS Calls, Keys,
          Policy,          \* the organisations of the policy of each version
          TransientKey,    \* the key of a call for transient data
          AppKey,          \* the data of a call for application data
          MaxRetrievalAttempts, GossipMaxPeers,
          Period           \* a common multiple of the numbers of endorsers

VARIABLES members,         \* the peers of the channel as gossip reports them
          held,            \* the keys in the store of each peer
          table,           \* the request manager in the map of requestmgr, 0 for none
          managers,        \* the number of managers made
          mgr,             \* the manager of the dispatcher and of each retriever, 0 for none
          looked,          \* who has found no manager in the map
          nextID,          \* of each manager
          registered,      \* the requests in the managers: [m, id, r]
          req,             \* the goroutines
          call,            \* the calls
          net,             \* the requests sent: [id, q, c]
          blocked,         \* the responders that hold the read lock of a manager: [m, r, ans]
          plan,            \* the plans last made for a write set, and from what
          up               \* FALSE after a panic

mgrVars == <<table, managers, mgr, looked>>
askVars == <<nextID, registered, req, net, blocked>>
static == <<held, plan>>
vars == <<members, held, mgrVars, askVars, call, plan, up, configVars>>

Kinds == {"offledger", "transient", "appdata"}
Users == {"dispatcher"} \cup Kinds
Managers == 1..Cardinality(Users)
Reqs == Calls \X Peers \X {1, 2}

None == [q |-> 0, c |-> ""]
NoAnswer == [q |-> 0, c |-> "", has |-> {}]
NoReq == [pc |-> "none", m |-> 0, id |-> 0, respChan |-> NoAnswer, ans |-> NoAnswer]

KeysOf(c) == CASE call[c].kind = "offledger" -> Keys \ {TransientKey, AppKey}
               [] call[c].kind = "transient" -> {TransientKey}
               [] OTHER -> {AppKey}

IdleCall(kind) ==
    [kind |-> kind, pc |-> "idle", ver |-> 0, attempt |-> 1, tried |-> {}, heard |-> {}, stayed |-> {},
     vals |-> [k \in Keys |-> None], expired |-> FALSE, cancelled |-> FALSE,
     round |-> 0, chosen |-> {}, all |-> 0, out |-> ""]

\* Every variable holds a value of its kind.
TypeOK ==
    /\ ConfigTypeOK
    /\ members \subseteq Peers /\ Self \in members /\ held \in [Peers -> SUBSET Keys]
    /\ managers \in 0..Cardinality(Users) /\ table \in 0..managers
    /\ mgr \in [Users -> 0..managers] /\ looked \subseteq Users
    /\ \A e \in registered : e.m \in 1..managers /\ e.id \in 1..nextID[e.m] /\ e.r \in Reqs
    /\ \A r \in Reqs : req[r].pc \in {"none", "new", "wait", "remove", "over"}
    /\ \A c \in Calls : /\ call[c].kind \in Kinds
                        /\ call[c].vals \in [Keys -> [q : Peers, c : Calls] \cup {None}]
                        /\ call[c].tried \subseteq Peers /\ call[c].chosen \subseteq Peers
                        /\ call[c].out \in {"", "ok", "none", "error", "unauthorized"}
    /\ plan.ms \subseteq Peers /\ up \in BOOLEAN

NoPlan == [ms |-> {}, writes |-> <<>>, offledger |-> {}, transient |-> {}]

Init ==
    /\ members = Peers /\ held \in [Peers -> SUBSET Keys]
    /\ table = 0 /\ managers = 0 /\ mgr = [u \in Users |-> 0] /\ looked = {}
    /\ nextID = [m \in Managers |-> 0]
    /\ registered = {} /\ net = {} /\ blocked = {}
    /\ req = [r \in Reqs |-> NoReq]
    /\ call \in [Calls -> {IdleCall(k) : k \in Kinds}]
    /\ plan = NoPlan /\ up = TRUE
    /\ ConfigInit

---------------------------------------------------------------------------
(* The membership. *)

Leave(p) ==
    /\ p \in members \ {Self}
    /\ members' = members \ {p}
    /\ call' = [c \in Calls |-> [call[c] EXCEPT !.stayed = @ \ {p}]]
    /\ UNCHANGED <<mgrVars, askVars, up, configVars>>

Join(p) ==
    /\ p \notin members
    /\ members' = members \cup {p}
    /\ UNCHANGED <<mgrVars, askVars, call, up, configVars>>

---------------------------------------------------------------------------
(* Dissemination: the plans for a write set to one off-ledger and one transient collection. *)

WriteSets == [1..2 -> [key : Keys, delete : BOOLEAN, valid : BOOLEAN]]

Disseminate(writes) ==
    /\ plan' = [ms |-> members, writes |-> writes,
                offledger |-> ComputeOffLedgerPlan(members, writes, Policy[committed]),
                transient |-> ComputeDisseminationPlan(members, writes, Policy[committed])]
    /\ UNCHANGED <<members, held, mgrVars, askVars, call, up, configVars>>

---------------------------------------------------------------------------
(* requestmgr.Get. *)

\* forChannel looks into the map with the read lock ...
forChannel(u) ==
    /\ mgr[u] = 0 /\ u \notin looked
    /\ IF table # 0 THEN mgr' = [mgr EXCEPT ![u] = table] /\ UNCHANGED looked
       ELSE looked' = looked \cup {u} /\ UNCHANGED mgr
    /\ UNCHANGED <<members, table, managers, askVars, call, up, configVars>>

\* ... and makes a manager with the lock, without looking again.
newChannelMgr(u) ==
    /\ u \in looked
    /\ managers' = managers + 1 /\ table' = managers + 1
    /\ mgr' = [mgr EXCEPT ![u] = managers + 1]
    /\ looked' = looked \ {u}
    /\ UNCHANGED <<members, askVars, call, up, configVars>>

---------------------------------------------------------------------------
(* The start of a call. *)

Set(c, rec) == call' = [call EXCEPT ![c] = rec]

Returned(rec, out) == [rec EXCEPT !.pc = "done", !.out = out]

AllSet(c, vals) == \A k \in KeysOf(c) : vals[k] # None

Begin(c) ==
    /\ call[c].pc = "idle" /\ mgr[call[c].kind] # 0
    /\ Set(c, [call[c] EXCEPT !.pc = IF call[c].kind = "appdata" THEN "ask" ELSE "auth", !.stayed = members])
    /\ UNCHANGED <<members, mgrVars, askVars, up, configVars>>

\* isAuthorized, once the policy is there; then the off-ledger retriever reads its own store.
isAuthorized(rec, v) ==
    IF OrgOf[Self] \notin MemberOrgs(Policy[v]) THEN Returned(rec, "unauthorized")
    ELSE [rec EXCEPT !.pc = IF rec.kind = "offledger" THEN "local" ELSE "resolver"]

\* The call goes on with the policy that it asked for.
WithPolicy(rec, v) ==
    IF rec.pc \in {"auth", "authLoad"} THEN isAuthorized(rec, v)
    ELSE [rec EXCEPT !.pc = "ask", !.ver = v]

\* The retrievers whose lock a call holds in getOrCreateResolver.
Locked == {call[c].kind : c \in {d \in Calls : call[d].pc \in {"create", "createLoad"}}}

\* Policy: from the cache, or from the load that this call starts or joins.
GetPolicy(c) ==
    /\ call[c].pc \in {"auth", "create"}
    /\ IF cached # 0
       THEN /\ Set(c, WithPolicy(call[c], cached))
            /\ resolvers' = IF call[c].pc = "create" THEN [resolvers EXCEPT ![call[c].kind] = cached] ELSE resolvers
            /\ UNCHANGED <<committed, events, cached, loading, straddled, lifecycle>>
       ELSE /\ Set(c, [call[c] EXCEPT !.pc = @ \o "Load"])
            /\ IF loading = 0 THEN loadConfigAndPolicy ELSE UNCHANGED configVars
    /\ UNCHANGED <<members, mgrVars, askVars, up>>

PolicyLoaded ==
    LET waiting == {c \in Calls : call[c].pc \in {"authLoad", "createLoad"}}
    IN  /\ Loaded({call[c].kind : c \in {d \in waiting : call[d].pc = "createLoad"}})
        /\ call' = [c \in Calls |-> IF c \in waiting THEN WithPolicy(call[c], loading) ELSE call[c]]
        /\ UNCHANGED <<members, mgrVars, askVars, up>>

getMultipleKeysFromLocal(c) ==
    LET local == [k \in Keys |-> IF k \in KeysOf(c) \cap held[Self] THEN [q |-> Self, c |-> c] ELSE None]
    IN  /\ call[c].pc = "local"
        /\ Set(c, IF AllSet(c, local) THEN Returned([call[c] EXCEPT !.vals = local], "ok")
                  ELSE [call[c] EXCEPT !.vals = local, !.pc = "resolver"])
        /\ UNCHANGED <<members, mgrVars, askVars, up, configVars>>

\* A resolver that is there is used; else the call takes the lock to make one.
getResolver(c) ==
    /\ call[c].pc = "resolver" /\ call[c].kind \notin Locked
    /\ Set(c, IF resolvers[call[c].kind] # 0
              THEN [call[c] EXCEPT !.pc = "ask", !.ver = resolvers[call[c].kind]]
              ELSE [call[c] EXCEPT !.pc = "create"])
    /\ UNCHANGED <<members, mgrVars, askVars, up, configVars>>

---------------------------------------------------------------------------
(* The groups of peers, one after the other. *)

\* The requests of multirequest.Execute: its goroutines are started.
Execute(c, rec, group) ==
    /\ Set(c, [rec EXCEPT !.pc = "execute", !.tried = @ \cup {g[1] : g \in group}, !.cancelled = FALSE])
    /\ req' = [r \in Reqs |-> IF r[1] = c /\ <<r[2], r[3]>> \in group THEN [NoReq EXCEPT !.pc = "new"] ELSE req[r]]
    /\ UNCHANGED <<members, mgrVars, nextID, registered, net, blocked, up, configVars>>

Return(c, rec, out) ==
    /\ Set(c, Returned(rec, out))
    /\ UNCHANGED <<members, mgrVars, askVars, up, configVars>>

Asking(c, kind) == call[c].pc = "ask" /\ call[c].kind = kind

Orgs(c) == MemberOrgs(Policy[call[c].ver])

\* getDataFromRemotePeers and Retrieve: peers that were not asked before, until none is left
\* or the attempts are used up.
getDataFromRemotePeers(c) ==
    /\ Asking(c, "offledger")
    /\ IF call[c].attempt > MaxRetrievalAttempts THEN Return(c, call[c], "none")
       ELSE \E group \in ResolvePeersForRetrieval(members, Orgs(c), call[c].tried) :
                IF group = {} THEN Return(c, call[c], "none") ELSE Execute(c, call[c], group)

\* UpdateCache of the state cache asks committers of its own organisation.
UpdateCache(p) == OrgOf[p] = OrgOf[Self] /\ p \in Committers

getPeersForRetrieval(tried) == UpTo(GossipMaxPeers, {p \in Remote(members) \ tried : UpdateCache(p)})

Retrieve(c) ==
    /\ Asking(c, "appdata")
    /\ IF call[c].attempt > MaxRetrievalAttempts THEN Return(c, call[c], "none")
       ELSE \E group \in getPeersForRetrieval(call[c].tried) :
                IF group = {} THEN Return(c, call[c], "none") ELSE Execute(c, call[c], group \X {1})

\* getTransientDataFromEndorsers: the own store if the local peer is one of them, then the others.
getTransientDataFromEndorsers(c, endorsers) ==
    LET rec == [call[c] EXCEPT !.tried = @ \cup endorsers]
    IN  IF Self \in endorsers /\ TransientKey \in held[Self]
        THEN Return(c, [rec EXCEPT !.vals[TransientKey] = [q |-> Self, c |-> c]], "ok")
        ELSE Execute(c, rec, Remote(endorsers) \X {1})

KeyOrgs(c) == chooseOrgs(Hash[TransientKey], Orgs(c))

\* The three resolvers of GetTransientData.  The first one is a loop that reads the membership
\* in every round; its end is fixed by the number of endorsers at the start.
StartChoosing(c) ==
    LET all == getEndorsers(members, Range(KeyOrgs(c)), {})
    IN  /\ Asking(c, "transient") /\ call[c].attempt = 1
        /\ IF all = {} THEN Return(c, call[c], "error")
           ELSE /\ Set(c, [call[c] EXCEPT !.pc = "choose", !.all = Cardinality(all), !.stayed = members,
                                          !.round = Hash[TransientKey] % Period])
                /\ UNCHANGED <<members, mgrVars, askVars, up, configVars>>

\* Mutant: the hash is not incremented from round to round.
nextRound_Same(h) == h

nextRound(h) == (h + 1) % Period

ChooseRound(c) ==
    LET chosen == appendEndorsersFromOrgs(members, call[c].chosen, call[c].round, KeyOrgs(c))
    IN  /\ call[c].pc = "choose"
        /\ Set(c, [call[c] EXCEPT !.chosen = chosen, !.round = nextRound(@),
                                  !.pc = IF Cardinality(chosen) >= Min({call[c].all, MaximumPeerCount})
                                         THEN "chosen" ELSE "choose"])
        /\ UNCHANGED <<members, mgrVars, askVars, up, configVars>>

AskChosen(c) == call[c].pc = "chosen" /\ getTransientDataFromEndorsers(c, call[c].chosen)

AskInOrgsForKey(c) ==
    /\ Asking(c, "transient") /\ call[c].attempt = 2
    /\ getTransientDataFromEndorsers(c,
           ResolveAllEndorsersInOrgsForKey(members, TransientKey, Orgs(c), call[c].tried))

AskAllEndorsers(c) ==
    /\ Asking(c, "transient") /\ call[c].attempt = 3
    /\ getTransientDataFromEndorsers(c, ResolveAllEndorsers(members, Orgs(c), call[c].tried))

NotFoundOnAnyPeer(c) ==
    Asking(c, "transient") /\ call[c].attempt = 4 /\ Return(c, call[c], "none")

\* Execute returns when every goroutine has ended.
Executed(c) ==
    /\ call[c].pc = "execute"
    /\ \A r \in Reqs : r[1] = c => req[r].pc \in {"none", "over"}
    /\ Set(c, IF AllSet(c, call[c].vals) THEN Returned(call[c], "ok")
              ELSE [call[c] EXCEPT !.pc = "ask", !.attempt = @ + 1])
    /\ req' = [r \in Reqs |-> IF r[1] = c THEN NoReq ELSE req[r]]
    /\ UNCHANGED <<members, mgrVars, nextID, registered, net, blocked, up, configVars>>

\* The deadline of the context that the caller gave.
Expire(c) ==
    /\ call[c].pc \notin {"idle", "done"} /\ ~call[c].expired
    /\ Set(c, [call[c] EXCEPT !.expired = TRUE])
    /\ UNCHANGED <<members, mgrVars, askVars, up, configVars>>

---------------------------------------------------------------------------
(* One request, and the response to it. *)

\* Nobody holds the read lock of the manager.
Free(m) == \A b \in blocked : b.m # m

newRequestID(m) == nextID[m] + 1

\* NewRequest, and the request is sent.
NewRequest(r) ==
    LET m == mgr[call[r[1]].kind]
        id == newRequestID(m)
    IN  /\ req[r].pc = "new" /\ Free(m)
        /\ req' = [req EXCEPT ![r].pc = "wait", ![r].m = m, ![r].id = id]
        /\ nextID' = [nextID EXCEPT ![m] = id]
        /\ registered' = {e \in registered : ~(e.m = m /\ e.id = id)} \cup {[m |-> m, id |-> id, r |-> r]}
        /\ net' = net \cup {[id |-> id, q |-> r[2], c |-> r[1]]}
        /\ UNCHANGED <<members, mgrVars, blocked, call, up, configVars>>

\* On the peer that is asked: what its answer has.
getDataForKey(q, k) == k \in held[q]

isAuthorizedToRead == OrgOf[Self] \in MemberOrgs(Policy[committed])

getRequestDataElement(q, k) == isAuthorizedToRead /\ getDataForKey(q, k)

getRequestData(msg) == {k \in KeysOf(msg.c) : getRequestDataElement(msg.q, k)}

\* A peer that is neither endorser nor committer does not answer.
handleDataRequest(msg) == msg.q \in Endorsers \cup Committers

\* The answer is empty when the block is no more in the cache of updates of the committer ...
handleCacheUpdatesRequest(q) == {AppKey} \cap held[q]

\* ... or when there is no handler, which only committers register.
handleAppDataRequest(msg) == IF msg.q \in Committers THEN handleCacheUpdatesRequest(msg.q) ELSE {}

Answer(msg) ==
    [q |-> msg.q, c |-> msg.c,
     has |-> IF call[msg.c].kind = "appdata" THEN handleAppDataRequest(msg) ELSE getRequestData(msg)]

Room(r) == req[r].respChan = NoAnswer

\* The request, if it is still registered.
Respond(m, id) == {e.r : e \in {f \in registered : f.m = m /\ f.id = id}}

\* The peer answers, and the dispatcher gives the answer to the request with that number, if
\* there is one in its manager.
handleDataResponse(msg) ==
    LET m == mgr["dispatcher"]
        ans == Answer(msg)
        found == Respond(m, msg.id)
    IN  /\ m # 0
        /\ call[msg.c].kind # "appdata" => handleDataRequest(msg)
        /\ net' = net \ {msg}
        /\ req' = [r \in Reqs |-> IF r \in found /\ Room(r) THEN [req[r] EXCEPT !.respChan = ans] ELSE req[r]]
        /\ blocked' = blocked \cup {[m |-> m, r |-> r, ans |-> ans] : r \in {f \in found : ~Room(f)}}
        /\ UNCHANGED <<members, mgrVars, nextID, registered, call, up, configVars>>

\* A responder that waited for room in the channel.
Unblock(b) ==
    /\ Room(b.r)
    /\ blocked' = blocked \ {b}
    /\ req' = [req EXCEPT ![b.r].respChan = b.ans]
    /\ UNCHANGED <<members, mgrVars, nextID, registered, net, call, up, configVars>>

\* The answer to a request of the other sort does not have the type that is asserted.
Panics(r, ans) == (call[r[1]].kind = "appdata") # (call[ans.c].kind = "appdata")

GetResponse(r) ==
    LET ans == req[r].respChan
    IN  /\ req[r].pc = "wait" /\ ans # NoAnswer
        /\ req' = [req EXCEPT ![r].pc = "remove", ![r].ans = ans, ![r].respChan = NoAnswer]
        /\ up' = ~Panics(r, ans)
        /\ UNCHANGED <<members, mgrVars, nextID, registered, net, blocked, call, configVars>>

ContextDone(r) ==
    /\ req[r].pc = "wait"
    /\ call[r[1]].expired \/ call[r[1]].cancelled
    /\ req' = [req EXCEPT ![r].pc = "remove"]
    /\ UNCHANGED <<members, mgrVars, nextID, registered, net, blocked, call, up, configVars>>

\* Mutant: the values of the last answer replace those that are there.
Merge_Overwrites(vals, other) == other

Merge(vals, other) == [k \in Keys |-> IF vals[k] = None THEN other[k] ELSE vals[k]]

\* The answer has to have an element, with a value or without, for every key that was asked for.
getData(c, ans) == KeysOf(c) \subseteq KeysOf(ans.c)

findValue(ans) == TransientKey \in KeysOf(ans.c)

Understood(c, ans) ==
    CASE ans = NoAnswer -> FALSE
      [] ans # NoAnswer /\ call[c].kind = "offledger" -> getData(c, ans)
      [] ans # NoAnswer /\ call[c].kind = "transient" -> findValue(ans)
      [] OTHER -> TRUE

\* A complete answer ends the waiting for the others, and what they still bring is ignored.
handleResponse(c, ans) ==
    LET vals == [k \in Keys |-> IF k \in ans.has \cap KeysOf(c) THEN [q |-> ans.q, c |-> ans.c] ELSE None]
    IN  IF call[c].cancelled \/ ~Understood(c, ans) THEN call[c]
        ELSE [call[c] EXCEPT !.vals = Merge(@, vals), !.heard = @ \cup {[q |-> ans.q, has |-> ans.has]},
                             !.cancelled = AllSet(c, vals)]

\* Mutant: the request stays registered.
Unregistered_Kept(m, id) == registered

Unregistered(m, id) == {e \in registered : ~(e.m = m /\ e.id = id)}

\* The deferred Cancel, and the result goes to Execute.
remove(r) ==
    /\ req[r].pc = "remove" /\ Free(req[r].m)
    /\ registered' = Unregistered(req[r].m, req[r].id)
    /\ req' = [req EXCEPT ![r] = [NoReq EXCEPT !.pc = "over"]]
    /\ Set(r[1], handleResponse(r[1], req[r].ans))
    /\ UNCHANGED <<members, mgrVars, nextID, net, blocked, up, configVars>>

---------------------------------------------------------------------------

CallStep(c) ==
    \/ GetPolicy(c) \/ getMultipleKeysFromLocal(c) \/ getResolver(c)
    \/ getDataFromRemotePeers(c) \/ Retrieve(c)
    \/ StartChoosing(c) \/ ChooseRound(c) \/ AskChosen(c)
    \/ AskInOrgsForKey(c) \/ AskAllEndorsers(c) \/ NotFoundOnAnyPeer(c)
    \/ Executed(c)

ReqStep(r) == NewRequest(r) \/ GetResponse(r) \/ ContextDone(r) \/ remove(r)

Publish ==
    /\ HandleLSCCWrite \/ HandleLifecycleWrite \/ HandleUpgrade(Locked)
    /\ UNCHANGED <<members, mgrVars, askVars, call, up>>

Upgrade ==
    /\ UpgradeLSCC \/ UpgradeLifecycle
    /\ UNCHANGED <<members, mgrVars, askVars, call, up>>

Step ==
    /\ UNCHANGED static
    /\ \/ \E p \in Peers : Leave(p) \/ Join(p)
       \/ \E u \in Users : forChannel(u) \/ newChannelMgr(u)
       \/ \E c \in Calls : Begin(c) \/ CallStep(c) \/ Expire(c)
       \/ \E r \in Reqs : ReqStep(r)
       \/ \E msg \in net : handleDataResponse(msg)
       \/ \E b \in blocked : Unblock(b)
       \/ PolicyLoaded \/ Publish \/ Upgrade

Next == up /\ (Step \/ \E writes \in WriteSets : Disseminate(writes))

\* The calls, the goroutines, the loader and the publisher run, and deadlines pass; nothing is
\* assumed of the other peers, of the membership or of the network.
Running ==
    /\ up /\ UNCHANGED static
    /\ (\E r \in Reqs : ReqStep(r)) \/ (\E c \in Calls : Expire(c)) \/ PolicyLoaded \/ Publish

Fairness ==
    /\ \A c \in Calls : WF_vars(up /\ UNCHANGED static /\ CallStep(c))
    /\ WF_vars(Running)

Spec == Init /\ [][Next]_vars /\ Fairness

---------------------------------------------------------------------------
\* A value that a call got was in the store of a peer that this call asked for that key, or in
\* its own store.  Requests of several calls, late answers and answers to calls that have gone
\* on to other peers must not be mixed up.  The exception: two managers were made for the
\* channel, which number their requests alike.
AnswerOwn ==
    \A c \in Calls : \A k \in KeysOf(c) :
        LET v == call[c].vals[k]
        IN  v # None => /\ k \in held[v.q]
                        /\ (v.c = c /\ v.q \in call[c].tried \cup {Self}) \/ managers > 1

\* The managers hold nothing but requests that somebody waits for: whatever way a wait ends,
\* answered, cancelled or timed out, the request goes.
NothingLeft ==
    \A e \in registered : req[e.r].pc \in {"wait", "remove"} /\ req[e.r].m = e.m /\ req[e.r].id = e.id

\* A responder never waits, and so never keeps NewRequest and remove of all requests from the
\* lock, as long as the channel has one manager.
RespondNeverBlocks == managers <= 1 => blocked = {}

\* What a peer answered in time is in the result, also when every answer was partial, the
\* values came from several attempts, or part of them from the own store.
NoAnswerDropped ==
    \A c \in Calls : \A a \in call[c].heard :
        \A k \in a.has \cap KeysOf(c) : call[c].vals[k] # None

\* A call comes back without a value only when it has asked every peer that could have it and
\* that was there all along, whatever the membership did meanwhile; the calls with a limit on
\* the attempts may have used them up.
Explored ==
    \A c \in Calls : call[c].out = "none" =>
        CASE call[c].kind = "transient" -> getEndorsers(call[c].stayed, Orgs(c), call[c].tried) = {}
          [] call[c].kind = "offledger" ->
                \/ call[c].attempt > MaxRetrievalAttempts
                \/ \A role \in {Endorsers, Committers} :
                      Remote(getPeersWithRole(call[c].stayed, role, resolveOrgsForRetrieval(Orgs(c)))) \subseteq call[c].tried
          [] OTHER -> TRUE

\* The loop of chooseEndorsers cannot end: endorsers left after it had counted them.
Starved(c) ==
    /\ call[c].pc = "choose"
    /\ Cardinality(call[c].chosen \cup getEndorsers(members, Range(KeyOrgs(c)), {}))
            < Min({call[c].all, MaximumPeerCount})

\* Every call returns once its deadline has passed, whatever the other peers answer.  The
\* exceptions: endorsers left while the loop of chooseEndorsers was counting on them, and two
\* managers, where a responder may keep the lock for ever or a wrong answer stop the peer.
CallsReturn ==
    \A c \in Calls :
        (call[c].pc \notin {"idle", "done"}) ~> (call[c].pc = "done" \/ Starved(c) \/ managers > 1)

\* The plans reach whom they should.  Off-ledger data goes to as many peers as the policy allows
\* and there are, so that the required number can acknowledge it; the exception is a peer that is
\* committer and endorser, which the list may hold twice, leaving another one out.  Transient
\* data goes to exactly the endorsers that a later retrieval of the key asks first, spread over
\* the organisations, and a key that is only deleted to nobody.
DisseminationExact ==
    LET orgs == Policy[committed]
        able == Remote(getPeersWithRole(plan.ms, Committers \cup Endorsers, MemberOrgs(orgs)))
        sentTo(k) == {p.to : p \in {q \in plan.transient : \E i \in DOMAIN q.msg : q.msg[i].key = k}}
        written == {plan.writes[i].key : i \in {j \in DOMAIN plan.writes : ~plan.writes[j].delete}}
    IN  /\ \A d \in plan.offledger :
              /\ d.maxPeers <= MaximumPeerCount
              /\ \/ Cardinality(d.to) = Min({MaximumPeerCount, Cardinality(able)})
                 \/ able \cap Committers \cap Endorsers # {}
        /\ \A k \in Keys \ written : sentTo(k) = {}
        /\ plan.transient # {} => \A k \in written :
              LET to == ResolveEndorsers(plan.ms, k, orgs)
                  all == ResolveAllEndorsersInOrgsForKey(plan.ms, k, orgs, {})
                  used == {OrgOf[p] : p \in to}
              IN  /\ sentTo(k) = Remote(to)
                  /\ Cardinality(to) = Min({MaximumPeerCount, Cardinality(all)})
                  /\ used = {OrgOf[p] : p \in all} \/ Cardinality(used) = Cardinality(to)

\* What a call returns is exactly what it was answered, and it returns nothing only when there
\* was nobody left to ask (getMultiRequest, chooseEndorsers, Merge), with the exceptions above.
ResultExact == AnswerOwn /\ NoAnswerDropped /\ Explored

\* A request ends with its wait, and an answer, late or not, keeps nobody (Respond, remove).
RequestsEnd == TypeOK /\ NothingLeft /\ RespondNeverBlocks

\* Data goes to, and is asked from, the peers that the committed policy names (Disseminate,
\* GetPolicy, ResolvePeersForRetrieval), with the exceptions above.
RightPeers == ConfigFresh /\ ResolverFresh /\ DisseminationExact

=============================================================================
