-------------------------- MODULE ValidationHandler --------------------------
(***************************************************************************)
(* A validator that is not the committer: validation requests              *)
(* (validationhandler.go), the requests that came too early                *)
(* (requestcache.go), the contexts that cancel validations                 *)
(* (validationctx.go) and StoreBlock of the gossip state extension, which  *)
(* follows the committer's blocks.                                         *)
(*                                                                         *)
(* The gossip layer gives every request a goroutine of its own; blocks are *)
(* stored by one goroutine.  The ledger height that a request is compared  *)
(* with is read before the request is validated or cached.                 *)
(***************************************************************************)
EXTENDS Naturals, Sequences, FiniteSets

CONSTANTS Requests,   \* the requests that reach this peer
          BlockOf,    \* the number of the block that a request is for
          MaxBlock    \* the committer commits the blocks 1..MaxBlock

ASSUME HandlerAssumption == MaxBlock \in Nat /\ BlockOf \in [Requests -> 1..MaxBlock + 1]

NoRequest == "none"

VARIABLES
  height,        \* BlockPublisher.LedgerHeight
  request,       \* how far the goroutine of a request is
  requestCache,  \* the cached requests, in the order in which they were added
  cancelByBlock, \* the contexts: the requests that hold them, in order
  canceled,      \* the requests whose context is canceled
  writer,        \* where StoreBlock is
  pending        \* the request that validatePending took from the cache

vars == <<height, request, requestCache, cancelByBlock, canceled, writer, pending>>

Init == /\ height = 1
        /\ request = [r \in Requests |-> "sent"]
        /\ requestCache = <<>> /\ cancelByBlock = <<>> /\ canceled = {}
        /\ writer = "idle" /\ pending = NoRequest

At(r, label) == request[r] = label
Goto(r, label) == request' = [request EXCEPT ![r] = label]

-----------------------------------------------------------------------------
\* channelContext.create refuses a block that is not beyond the last one with a context.
Refused(r) == /\ cancelByBlock # <<>>
              /\ BlockOf[cancelByBlock[Len(cancelByBlock)]] >= BlockOf[r]

\* Mutant: the cancel function is not kept.
create_Unregistered(r) == /\ Goto(r, IF Refused(r) THEN "refused" ELSE "validating")
                          /\ UNCHANGED cancelByBlock

create(r) == IF Refused(r)
             THEN Goto(r, "refused") /\ UNCHANGED cancelByBlock
             ELSE Goto(r, "validating") /\ cancelByBlock' = Append(cancelByBlock, r)

\* channelContext.cancel: the contexts up to the first one of a later block.
cancel(n) ==
  \E k \in 0..Len(cancelByBlock) :
    /\ \A i \in 1..k : BlockOf[cancelByBlock[i]] <= n
    /\ k < Len(cancelByBlock) => BlockOf[cancelByBlock[k + 1]] > n
    /\ canceled' = canceled \cup {cancelByBlock[i] : i \in 1..k}
    /\ cancelByBlock' = SubSeq(cancelByBlock, k + 1, Len(cancelByBlock))

\* requestCache.Remove finds request r and removes the first k: all up to the first one for
\* the block or, without one, up to the last one for an earlier block.
Remove(n, k, r) ==
  \/ /\ k > 0 /\ r = requestCache[k] /\ BlockOf[r] = n
     /\ \A j \in 1..k - 1 : BlockOf[requestCache[j]] # n
  \/ /\ r = NoRequest /\ \A j \in 1..Len(requestCache) : BlockOf[requestCache[j]] # n
     /\ k > 0 => BlockOf[requestCache[k]] < n
     /\ \A j \in k + 1..Len(requestCache) : BlockOf[requestCache[j]] > n

-----------------------------------------------------------------------------
\* handleValidateRequest reads the height and decides.
handleValidateRequest(r) ==
  /\ At(r, "sent")
  /\ \/ BlockOf[r] = height /\ Goto(r, "now")
     \/ BlockOf[r] > height /\ Goto(r, "later")
     \/ BlockOf[r] < height /\ Goto(r, "committed")
  /\ UNCHANGED <<height, requestCache, cancelByBlock, canceled, writer, pending>>

ValidateNow(r) ==
  /\ At(r, "now")
  /\ create(r)
  /\ UNCHANGED <<height, requestCache, canceled, writer, pending>>

AddToCache(r) ==
  /\ At(r, "later")
  /\ requestCache' = Append(requestCache, r)
  /\ Goto(r, "cached")
  /\ UNCHANGED <<height, cancelByBlock, canceled, writer, pending>>

\* validate ends with an answer, or without one if it was canceled in time.
validate(r) ==
  /\ At(r, "validating")
  /\ Goto(r, "answered") \/ (r \in canceled /\ Goto(r, "quit"))
  /\ UNCHANGED <<height, requestCache, cancelByBlock, canceled, writer, pending>>

-----------------------------------------------------------------------------
\* StoreBlock of the next block of the committer, which has number height.
cancelValidation ==
  /\ writer = "idle" /\ height <= MaxBlock
  /\ cancel(height)
  /\ writer' = "publish"
  /\ UNCHANGED <<height, request, requestCache, pending>>

\* CheckpointBlock; its callback publishes the block.
CheckpointBlock ==
  /\ writer = "publish"
  /\ height' = height + 1
  /\ writer' = "pending"
  /\ UNCHANGED <<request, requestCache, cancelByBlock, canceled, pending>>

validatePendingRemove ==
  /\ writer = "pending"
  /\ \E k \in 0..Len(requestCache), r \in Requests \cup {NoRequest} :
       /\ Remove(height, k, r)
       /\ requestCache' = SubSeq(requestCache, k + 1, Len(requestCache))
       /\ pending' = r
       /\ request' = [s \in Requests |-> IF s # r /\ \E i \in 1..k : requestCache[i] = s
                                         THEN "discarded" ELSE request[s]]
       /\ writer' = IF r = NoRequest THEN "idle" ELSE "validate"
  /\ UNCHANGED <<height, cancelByBlock, canceled>>

\* The pending request is validated by StoreBlock itself.
validatePending ==
  /\ writer = "validate"
  /\ create(pending)
  /\ writer' = "wait"
  /\ UNCHANGED <<height, requestCache, canceled, pending>>

\* Mutant: a refused context is not noticed.
validatePendingDone_Refused ==
  /\ writer = "wait"
  /\ request[pending] \in {"answered", "quit"}
  /\ writer' = "idle" /\ pending' = NoRequest
  /\ UNCHANGED <<height, request, requestCache, cancelByBlock, canceled>>

validatePendingDone ==
  /\ writer = "wait"
  /\ request[pending] # "validating"
  /\ writer' = "idle" /\ pending' = NoRequest
  /\ UNCHANGED <<height, request, requestCache, cancelByBlock, canceled>>

-----------------------------------------------------------------------------
Handler(r) == handleValidateRequest(r) \/ ValidateNow(r) \/ AddToCache(r) \/ validate(r)
StoreBlock == \/ cancelValidation \/ CheckpointBlock \/ validatePendingRemove
              \/ validatePending \/ validatePendingDone

Next == (\E r \in Requests : Handler(r)) \/ StoreBlock

\* Goroutines run to their end, and the committer goes on committing.  A request may
\* never be delivered.
Fairness ==
  /\ WF_vars(StoreBlock)
  /\ \A r \in Requests : WF_vars(ValidateNow(r)) /\ WF_vars(AddToCache(r)) /\ WF_vars(validate(r))

Spec == Init /\ [][Next]_vars /\ Fairness

-----------------------------------------------------------------------------
\* Every variable holds a value of its kind.
TypeOK ==
  /\ height \in 1..MaxBlock + 1
  /\ request \in [Requests -> {"sent", "now", "later", "committed", "cached", "refused",
                               "validating", "answered", "quit", "discarded"}]
  /\ requestCache \in Seq(Requests) /\ cancelByBlock \in Seq(Requests)
  /\ canceled \subseteq Requests
  /\ writer \in {"idle", "publish", "pending", "validate", "wait"}
  /\ pending \in Requests \cup {NoRequest}

\* However requests are repeated and whoever picks them up, the peer never spends two
\* validations on the same block at the same time, unless one of them is canceled.
OneValidationPerBlock ==
  \A r, s \in Requests :
    r # s /\ BlockOf[r] = BlockOf[s] /\ At(r, "validating") /\ At(s, "validating")
      => r \in canceled \/ s \in canceled

\* A validation that is under way can still be canceled: unless it is canceled already,
\* its context is in the list that cancel goes through, and the list is in the order of
\* the blocks, which is what lets cancel stop at the first later one.
ValidationCancelable ==
  /\ \A r \in Requests : At(r, "validating") /\ r \notin canceled
                           => \E i \in 1..Len(cancelByBlock) : cancelByBlock[i] = r
  /\ \A i, j \in 1..Len(cancelByBlock) :
       i < j => BlockOf[cancelByBlock[i]] < BlockOf[cancelByBlock[j]]

\* Validation requests never keep the peer from following the committer: it reaches the
\* committer's last block although StoreBlock validates pending requests itself.
FollowsCommitter == <>(height = MaxBlock + 1 /\ writer = "idle")

\* StoreBlock is to "ValidateResults any pending request for the next block": a request
\* for the block that is next does not stay in the cache with nobody to pick it up.
NoRequestStranded ==
  \A i \in 1..Len(requestCache) : writer \in {"idle", "publish"} => BlockOf[requestCache[i]] # height
=============================================================================
