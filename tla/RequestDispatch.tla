--------------------------- MODULE RequestDispatch ---------------------------
(***************************************************************************)
(* The committer's side of distributed validation: AddPayload of the       *)
(* gossip state extension queues a validation request for every block that *)
(* reaches the committer, and the dispatcher of validationhandler.go sends *)
(* them to the other validators one at a time.                             *)
(*                                                                         *)
(* Blocks reach the committer from the orderer and from other peers: more  *)
(* than once, and not always in order, which also covers callers of        *)
(* AddPayload that run side by side.  A request has a context for its      *)
(* block (validationctx.go); StoreBlock cancels contexts on the other      *)
(* peers only, so that those of the committer stay.                        *)
(***************************************************************************)
EXTENDS Naturals, Sequences

CONSTANTS Blocks,        \* the numbers of the blocks
          ChanSize,      \* capacity of requestChan
          MaxPayloads    \* payloads that reach the committer

NoBlock == 0

VARIABLES
  payloads,    \* the blocks that reached the committer, in order (history)
  adding,      \* the block that AddPayload is about to queue
  requestChan,
  contexts,    \* cancelByBlock
  sending,     \* the block whose request waits for the validators
  answering,   \* whether all of the validators that were asked will answer
  requests     \* the blocks that the validators were asked about, in order (history)

vars == <<payloads, adding, requestChan, contexts, sending, answering, requests>>

Init == /\ payloads = <<>> /\ adding = NoBlock /\ requestChan = <<>>
        /\ contexts = <<>> /\ sending = NoBlock /\ answering = TRUE /\ requests = <<>>

-----------------------------------------------------------------------------
AddPayload(b) ==
  /\ adding = NoBlock /\ Len(payloads) < MaxPayloads
  /\ adding' = b /\ payloads' = Append(payloads, b)
  /\ UNCHANGED <<requestChan, contexts, sending, answering, requests>>

\* Mutant: a request that finds the channel full is dropped.
submitValidationRequest_Drops ==
  /\ adding # NoBlock
  /\ requestChan' = IF Len(requestChan) < ChanSize THEN Append(requestChan, adding) ELSE requestChan
  /\ adding' = NoBlock
  /\ UNCHANGED <<payloads, contexts, sending, answering, requests>>

\* The block is added to the payloads once its request is in the channel.
submitValidationRequest ==
  /\ adding # NoBlock /\ Len(requestChan) < ChanSize
  /\ requestChan' = Append(requestChan, adding) /\ adding' = NoBlock
  /\ UNCHANGED <<payloads, contexts, sending, answering, requests>>

-----------------------------------------------------------------------------
\* channelContext.create refuses a block that is not beyond the last one with a context.
Refused(b) == contexts # <<>> /\ contexts[Len(contexts)] >= b

\* sendValidationRequest up to the answers.  It ends early when it gets no context, when
\* there is nobody to ask, and when their selection fails.
sendValidationRequest(b) ==
  /\ contexts' = IF Refused(b) THEN contexts ELSE Append(contexts, b)
  /\ \/ ~Refused(b) /\ sending' = b /\ answering' \in BOOLEAN /\ requests' = Append(requests, b)
     \/ UNCHANGED <<sending, answering, requests>>

\* One turn of dispatchValidationRequests.
dispatchValidationRequests ==
  /\ sending = NoBlock /\ requestChan # <<>>
  /\ requestChan' = Tail(requestChan)
  /\ sendValidationRequest(Head(requestChan))
  /\ UNCHANGED <<payloads, adding>>

\* All of the validators answer, or requestTimeout passes.
Retrieve == /\ sending # NoBlock
            /\ sending' = NoBlock
            /\ UNCHANGED <<payloads, adding, requestChan, contexts, answering, requests>>

Dispatcher == dispatchValidationRequests \/ Retrieve

Next == (\E b \in Blocks : AddPayload(b)) \/ submitValidationRequest \/ Dispatcher

\* The goroutine that adds the payload and the dispatcher run, and the timer fires.
Fairness == WF_vars(submitValidationRequest) /\ WF_vars(Dispatcher)

Spec == Init /\ [][Next]_vars /\ Fairness

-----------------------------------------------------------------------------
\* Every variable holds a value of its kind.
TypeOK == /\ adding \in Blocks \cup {NoBlock} /\ sending \in Blocks \cup {NoBlock}
          /\ payloads \in Seq(Blocks) /\ requests \in Seq(Blocks) /\ contexts \in Seq(Blocks)
          /\ requestChan \in Seq(Blocks) /\ Len(requestChan) <= ChanSize /\ answering \in BOOLEAN

\* The validators are asked about a block once, and about blocks in their order, however often
\* and in whatever order the blocks reach the committer (AddPayload, channelContext.create).
AskedOnceInOrder == \A i, j \in 1..Len(requests) : i < j => requests[i] < requests[j]

\* No payload was handed over after that of a later block, but for one it had already.
InOrder == \A i \in 1..Len(payloads) :
             \/ \A j \in 1..i - 1 : payloads[j] < payloads[i]
             \/ \E j \in 1..i - 1 : payloads[j] = payloads[i]

\* No block is skipped: once the dispatcher has caught up each has had its context.  The
\* exception is a block that reached the committer after a later one: create refuses it, the
\* validators never hear of it and the committer validates it alone.
NoneSkipped ==
  InOrder /\ adding = NoBlock /\ requestChan = <<>>
    => \A i \in 1..Len(payloads) : \E k \in 1..Len(contexts) : contexts[k] = payloads[i]

\* Validators that do not answer delay the blocks of the committer but do not keep them:
\* AddPayload gets past a full channel (submitValidationRequest, requestTimeout).
PayloadsAdded == adding # NoBlock ~> adding = NoBlock

\* Every block that comes in order is asked about exactly once (AddPayload, create).
AskedExactly == TypeOK /\ AskedOnceInOrder /\ NoneSkipped

=============================================================================
