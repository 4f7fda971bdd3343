---------------------- MODULE DistributedValidationProofs ----------------------
(***************************************************************************)
(* Distributed validation: the validations of a validator, for any requests*)
(* and any blocks, and the requests of the committer, for any blocks, any  *)
(* capacity of the channel and any number of payloads.                     *)
(***************************************************************************)
EXTENDS MCDistributedValidation, SequenceTheorems, TLAPS

Places == {"sent", "now", "later", "committed", "cached", "refused", "validating", "answered",
           "quit", "discarded"}

IType == /\ request \in [Requests -> Places] /\ cancelByBlock \in Seq(Requests)
         /\ writer = "validate" => pending \in Requests

IInv == IType /\ ValidationCancelable

\* A context is made for a block beyond all that have one, and kept in the list.
LEMMA CreateInv ==
    ASSUME IInv, NEW r \in Requests, create(r), UNCHANGED canceled
    PROVE  request' \in [Requests -> Places] /\ cancelByBlock' \in Seq(Requests) /\ ValidationCancelable'
<1>1. /\ request \in [Requests -> Places] /\ cancelByBlock \in Seq(Requests) /\ ValidationCancelable
  BY DEF IInv, IType
<1>2. CASE Refused(r)
  <2>1. request' = [request EXCEPT ![r] = "refused"] /\ UNCHANGED cancelByBlock
    BY <1>2 DEF create, Goto
  <2>. QED BY <1>1, <2>1 DEF ValidationCancelable, At, Places
<1>3. CASE ~Refused(r)
  <2>. DEFINE n == Len(cancelByBlock)
  <2>1. request' = [request EXCEPT ![r] = "validating"] /\ cancelByBlock' = Append(cancelByBlock, r)
    BY <1>3 DEF create, Goto
  <2>2. /\ n \in Nat /\ cancelByBlock' \in Seq(Requests) /\ Len(cancelByBlock') = n + 1
        /\ cancelByBlock'[n + 1] = r /\ \A i \in 1..n : cancelByBlock'[i] = cancelByBlock[i]
    BY <1>1, <2>1
  <2>. HIDE DEF n
  <2>3. \A x \in Requests : BlockOf[x] \in Nat
    BY HandlerAssumption
  <2>4. \A i \in 1..n : cancelByBlock[i] \in Requests
    BY <1>1 DEF n
  <2>5. ASSUME NEW i \in 1..n PROVE BlockOf[cancelByBlock[i]] < BlockOf[r]
    <3>1. cancelByBlock # <<>> BY <1>1, <2>2, EmptySeq DEF n
    <3>2. ~(BlockOf[cancelByBlock[n]] >= BlockOf[r]) BY <1>3, <3>1 DEF Refused, n
    <3>3. n \in 1..n BY <2>2
    <3>4. i = n \/ BlockOf[cancelByBlock[i]] < BlockOf[cancelByBlock[n]]
      BY <1>1, <2>2, <3>3 DEF ValidationCancelable, n
    <3>5. BlockOf[cancelByBlock[i]] \in Nat /\ BlockOf[cancelByBlock[n]] \in Nat /\ BlockOf[r] \in Nat
      BY <2>3, <2>4, <3>3
    <3>. QED BY <3>2, <3>4, <3>5
  <2>6. ASSUME NEW s \in Requests, request'[s] = "validating", s \notin canceled
        PROVE  \E i \in 1..n + 1 : cancelByBlock'[i] = s
    <3>1. CASE s = r BY <2>2, <3>1
    <3>2. CASE s # r
      <4>1. request[s] = "validating" BY <1>1, <2>1, <2>6, <3>2
      <4>2. PICK i \in 1..n : cancelByBlock[i] = s
        BY <1>1, <2>6, <4>1 DEF ValidationCancelable, At, n
      <4>. QED BY <2>2, <4>2
    <3>. QED BY <3>1, <3>2
  <2>7. ASSUME NEW i \in 1..n + 1, NEW j \in 1..n + 1, i < j
        PROVE  BlockOf[cancelByBlock'[i]] < BlockOf[cancelByBlock'[j]]
    <3>1. i \in 1..n BY <2>2, <2>7
    <3>2. CASE j = n + 1 BY <2>2, <2>5, <3>1, <3>2
    <3>3. CASE j \in 1..n BY <1>1, <2>2, <2>7, <3>1, <3>3 DEF ValidationCancelable, n
    <3>. QED BY <2>2, <3>2, <3>3
  <2>8. ValidationCancelable' BY <2>2, <2>6, <2>7 DEF ValidationCancelable, At
  <2>. QED BY <1>1, <2>1, <2>2, <2>8 DEF Places
<1>. QED BY <1>2, <1>3

\* cancel takes from the front of the list what it cancels.
LEMMA CancelInv ==
    ASSUME IInv, NEW b, cancel(b), UNCHANGED request
    PROVE  cancelByBlock' \in Seq(Requests) /\ ValidationCancelable'
<1>. DEFINE n == Len(cancelByBlock)
<1>1. /\ cancelByBlock \in Seq(Requests) /\ n \in Nat /\ ValidationCancelable
  BY DEF IInv, IType
<1>2. PICK k \in 0..n : /\ canceled' = canceled \cup {cancelByBlock[i] : i \in 1..k}
                        /\ cancelByBlock' = SubSeq(cancelByBlock, k + 1, n)
  BY DEF cancel
<1>3. \A i \in 1..n : cancelByBlock[i] \in Requests BY <1>1
<1>4. /\ cancelByBlock' \in Seq(Requests) /\ Len(cancelByBlock') = n - k
      /\ \A i \in 1..n - k : cancelByBlock'[i] = cancelByBlock[k + i]
  <2>1. k + 1 \in Int /\ n \in Int /\ \A i \in k + 1..n : cancelByBlock[i] \in Requests
    BY <1>1, <1>3
  <2>. HIDE DEF n
  <2>. QED BY <1>1, <1>2, <2>1, SubSeqProperties
<1>. HIDE DEF n
<1>5. ASSUME NEW s \in Requests, request[s] = "validating", s \notin canceled'
      PROVE  \E i \in 1..n - k : cancelByBlock'[i] = s
  <2>1. PICK i \in 1..n : cancelByBlock[i] = s
    BY <1>1, <1>2, <1>5 DEF ValidationCancelable, At, n
  <2>2. i \notin 1..k BY <1>2, <1>5, <2>1
  <2>3. i - k \in 1..n - k /\ k + (i - k) = i BY <1>1, <2>2
  <2>. QED BY <1>4, <2>1, <2>3
<1>6. ASSUME NEW i \in 1..n - k, NEW j \in 1..n - k, i < j
      PROVE  BlockOf[cancelByBlock'[i]] < BlockOf[cancelByBlock'[j]]
  <2>1. k + i \in 1..n /\ k + j \in 1..n /\ k + i < k + j BY <1>1, <1>6
  <2>. QED BY <1>1, <1>4, <2>1 DEF ValidationCancelable, n
<1>. QED BY <1>4, <1>5, <1>6 DEF ValidationCancelable, At

\* Every step preserves the invariant.
LEMMA NextInv == ASSUME IInv, [Next]_vars PROVE IInv'
<1>. USE DEF IInv, IType
<1>1. ASSUME NEW r \in Requests, handleValidateRequest(r) \/ AddToCache(r) \/ validate(r) PROVE IInv'
  <2>1. /\ UNCHANGED <<cancelByBlock, canceled, writer, pending>>
        /\ \E p \in Places : p # "validating" /\ request' = [request EXCEPT ![r] = p]
    BY <1>1 DEF handleValidateRequest, AddToCache, validate, Goto, Places
  <2>2. /\ request' \in [Requests -> Places]
        /\ \A s \in Requests : request'[s] = "validating" => request[s] = "validating"
    BY <2>1
  <2>. QED BY <2>1, <2>2 DEF ValidationCancelable, At
<1>2. ASSUME NEW r \in Requests, ValidateNow(r) PROVE IInv'
  BY <1>2, CreateInv DEF ValidateNow
<1>3. CASE cancelValidation
  BY <1>3, CancelInv DEF cancelValidation
<1>4. CASE CheckpointBlock
  BY <1>4 DEF CheckpointBlock, ValidationCancelable, At
<1>5. CASE validatePendingRemove
  <2>1. PICK k \in 0..Len(requestCache), r \in Requests \cup {NoRequest} :
          /\ pending' = r /\ writer' = IF r = NoRequest THEN "idle" ELSE "validate"
          /\ request' = [s \in Requests |-> IF s # r /\ \E i \in 1..k : requestCache[i] = s
                                            THEN "discarded" ELSE request[s]]
    BY <1>5 DEF validatePendingRemove
  <2>2. UNCHANGED <<cancelByBlock, canceled>> BY <1>5 DEF validatePendingRemove
  <2>3. \A s \in Requests : request'[s] = "discarded" \/ request'[s] = request[s]
    BY <2>1
  <2>4. request' \in [Requests -> Places] BY <2>1 DEF Places
  <2>5. ValidationCancelable' BY <2>2, <2>3 DEF ValidationCancelable, At
  <2>. QED BY <2>1, <2>2, <2>4, <2>5
<1>6. CASE validatePending
  BY <1>6, CreateInv DEF validatePending
<1>7. CASE validatePendingDone
  BY <1>7 DEF validatePendingDone, ValidationCancelable, At
<1>8. CASE UNCHANGED vars
  BY <1>8 DEF vars, ValidationCancelable, At
<1>. QED BY <1>1, <1>2, <1>3, <1>4, <1>5, <1>6, <1>7, <1>8 DEF Next, Handler, StoreBlock

-----------------------------------------------------------------------------
\* The invariant holds in every state.
LEMMA Invariant == Spec => []IInv
<1>1. Init => IInv
  BY DEF Init, IInv, IType, ValidationCancelable, At, Places
<1>. QED BY <1>1, NextInv, PTL DEF Spec

\* A validation that is under way is canceled or can be, however many requests there are and
\* however they, the pending ones and StoreBlock interleave (create, cancel).
THEOREM AlwaysCancelable == Spec => []ValidationCancelable
<1>1. IInv => ValidationCancelable BY DEF IInv
<1>. QED BY <1>1, Invariant, PTL

\* Two validations of the same block never run side by side unless one of them is canceled: the
\* contexts of both would be in the list, which holds a block once.
THEOREM NeverTwice == Spec => []OneValidationPerBlock
<1>1. IInv => OneValidationPerBlock
  <2>. SUFFICES ASSUME IInv, NEW r \in Requests, NEW s \in Requests, r # s, BlockOf[r] = BlockOf[s],
                       At(r, "validating"), At(s, "validating"), r \notin canceled, s \notin canceled
                PROVE  FALSE
    BY DEF OneValidationPerBlock
  <2>. DEFINE n == Len(cancelByBlock)
  <2>1. PICK i \in 1..n : cancelByBlock[i] = r BY DEF IInv, ValidationCancelable
  <2>2. PICK j \in 1..n : cancelByBlock[j] = s BY DEF IInv, ValidationCancelable
  <2>3. i < j \/ j < i BY <2>1, <2>2
  <2>4. BlockOf[r] \in Nat BY HandlerAssumption
  <2>. QED BY <2>1, <2>2, <2>3, <2>4 DEF IInv, ValidationCancelable
<1>. QED BY <1>1, Invariant, PTL

-----------------------------------------------------------------------------
(* The committer. *)

\* The validators were asked about no block beyond the last one with a context.
DBehind == \A i \in 1..Len(requests) : contexts # <<>> /\ requests[i] <= contexts[Len(contexts)]

\* The payloads that are through the channel come first, then those in the channel, and last
\* the one that is being added.
Through == Len(payloads) - Len(requestChan) - (IF adding = Dispatch!NoBlock THEN 0 ELSE 1)

DQueue == /\ Through \in Nat
          /\ \A i \in 1..Len(requestChan) : requestChan[i] = payloads[Through + i]
          /\ adding # Dispatch!NoBlock => payloads[Len(payloads)] = adding

\* Contexts are for payloads that are through, and if those came in order then all of them
\* have one, and the last context is that of the latest block.
DContexts == /\ \A k \in 1..Len(contexts) : \E i \in 1..Through : contexts[k] = payloads[i]
             /\ Dispatch!InOrder => \A i \in 1..Through :
                  /\ \E k \in 1..Len(contexts) : contexts[k] = payloads[i]
                  /\ payloads[i] <= contexts[Len(contexts)]

DInv == Dispatch!TypeOK /\ DBehind /\ Dispatch!AskedOnceInOrder /\ DQueue /\ DContexts

\* A request for a block beyond the last one with a context keeps the order of the requests.
LEMMA SendDispatch ==
    ASSUME DInv, NEW b \in Blocks, Dispatch!sendValidationRequest(b)
    PROVE  /\ contexts' \in Seq(Blocks) /\ requests' \in Seq(Blocks)
           /\ DBehind' /\ Dispatch!AskedOnceInOrder'
<1>1. /\ contexts \in Seq(Blocks) /\ requests \in Seq(Blocks) /\ DBehind /\ Dispatch!AskedOnceInOrder
  BY DEF DInv, Dispatch!TypeOK
<1>2. b \in Nat /\ \A i \in 1..Len(requests) : requests[i] \in Nat
  <2>1. \A x \in Blocks : x \in Nat BY DispatchAssumption
  <2>2. \A i \in 1..Len(requests) : requests[i] \in Blocks BY <1>1
  <2>. QED BY <2>1, <2>2
<1>3. CASE Dispatch!Refused(b)
  <2>1. UNCHANGED <<contexts, requests>> BY <1>3 DEF Dispatch!sendValidationRequest
  <2>. QED BY <1>1, <2>1 DEF DBehind, Dispatch!AskedOnceInOrder
<1>4. CASE ~Dispatch!Refused(b)
  <2>1. contexts' = Append(contexts, b) BY <1>4 DEF Dispatch!sendValidationRequest
  <2>2. /\ contexts' \in Seq(Blocks) /\ contexts' # <<>> /\ contexts'[Len(contexts')] = b
    BY <1>1, <2>1
  <2>3. \A i \in 1..Len(requests) : requests[i] < b
    <3>. SUFFICES ASSUME NEW i \in 1..Len(requests) PROVE requests[i] < b
      OBVIOUS
    <3>1. contexts # <<>> /\ requests[i] <= contexts[Len(contexts)] BY <1>1 DEF DBehind
    <3>2. contexts[Len(contexts)] \in Blocks
      <4>1. Len(contexts) \in Nat /\ Len(contexts) # 0 BY <1>1, <3>1, EmptySeq
      <4>. QED BY <1>1, <4>1
    <3>3. ~(contexts[Len(contexts)] >= b) BY <1>4, <3>1 DEF Dispatch!Refused
    <3>4. contexts[Len(contexts)] \in Nat BY <3>2, DispatchAssumption
    <3>. QED BY <1>2, <3>1, <3>3, <3>4
  <2>4. CASE requests' = Append(requests, b)
    <3>1. /\ requests' \in Seq(Blocks) /\ Len(requests') = Len(requests) + 1
          /\ requests'[Len(requests) + 1] = b
          /\ \A i \in 1..Len(requests) : requests'[i] = requests[i]
      BY <1>1, <2>4
    <3>2. Len(requests) \in Nat BY <1>1
    <3>3. DBehind'
      <4>1. \A i \in 1..Len(requests) + 1 : requests'[i] \in Nat /\ requests'[i] <= b
        BY <1>2, <2>3, <3>1, <3>2
      <4>. QED BY <2>2, <3>1, <4>1 DEF DBehind
    <3>4. Dispatch!AskedOnceInOrder'
      <4>. SUFFICES ASSUME NEW i \in 1..Len(requests) + 1, NEW j \in 1..Len(requests) + 1, i < j
                    PROVE  requests'[i] < requests'[j]
        BY <3>1 DEF Dispatch!AskedOnceInOrder
      <4>1. i \in 1..Len(requests) BY <3>2
      <4>2. CASE j = Len(requests) + 1 BY <2>3, <3>1, <4>1, <4>2
      <4>3. CASE j \in 1..Len(requests) BY <1>1, <3>1, <4>1, <4>3 DEF Dispatch!AskedOnceInOrder
      <4>. QED BY <3>2, <4>2, <4>3
    <3>. QED BY <2>2, <3>1, <3>3, <3>4
  <2>5. CASE requests' = requests
    <3>1. \A i \in 1..Len(requests) : requests[i] \in Nat /\ requests[i] <= b BY <1>2, <2>3
    <3>2. DBehind' BY <2>2, <2>5, <3>1 DEF DBehind
    <3>3. Dispatch!AskedOnceInOrder' BY <1>1, <2>5 DEF Dispatch!AskedOnceInOrder
    <3>. QED BY <1>1, <2>2, <2>5, <3>2, <3>3
  <2>. QED BY <2>4, <2>5 DEF Dispatch!sendValidationRequest
<1>. QED BY <1>3, <1>4

\* The block at the head of the channel gets a context, or has one if the payloads came in order.
LEMMA SendContexts ==
    ASSUME DInv, requestChan # <<>>, requestChan' = Tail(requestChan),
           Dispatch!sendValidationRequest(Head(requestChan)), UNCHANGED <<payloads, adding>>
    PROVE  DQueue' /\ DContexts'
<1>. DEFINE n == Len(requestChan)  d == Through  b == payloads[d + 1]  c == Len(contexts)
<1>1. /\ requestChan \in Seq(Blocks) /\ contexts \in Seq(Blocks) /\ payloads \in Seq(Blocks)
      /\ DQueue /\ DContexts /\ Blocks \subseteq Nat
  BY DispatchAssumption DEF DInv, Dispatch!TypeOK
<1>2. /\ n \in Nat /\ n > 0 /\ c \in Nat /\ d \in Nat /\ d + n <= Len(payloads)
  <2>1. n \in Nat /\ n # 0 /\ c \in Nat /\ Len(payloads) \in Nat BY <1>1, EmptySeq
  <2>. QED BY <1>1, <2>1 DEF DQueue, Through
<1>3. /\ Len(requestChan') = n - 1 /\ Head(requestChan) = b
      /\ \A i \in 1..n - 1 : requestChan'[i] = requestChan[i + 1]
  <2>1. Head(requestChan) = requestChan[1] BY <1>1
  <2>2. requestChan[1] = b BY <1>1, <1>2 DEF DQueue
  <2>. QED BY <1>1, <1>2, <2>1, <2>2
<1>4. Through' = d + 1
  <2>1. Len(payloads) \in Nat BY <1>1
  <2>. QED BY <1>2, <1>3, <2>1 DEF Through
<1>5. DQueue'
  <2>1. \A i \in 1..n - 1 : requestChan'[i] = payloads[d + 1 + i]
    <3>. SUFFICES ASSUME NEW i \in 1..n - 1 PROVE requestChan'[i] = payloads[d + 1 + i]
      OBVIOUS
    <3>1. i + 1 \in 1..n /\ d + (i + 1) = d + 1 + i BY <1>2
    <3>2. requestChan[i + 1] = payloads[d + (i + 1)] BY <1>1, <3>1 DEF DQueue
    <3>. QED BY <1>3, <3>1, <3>2
  <2>. QED BY <1>1, <1>2, <1>3, <1>4, <2>1 DEF DQueue
<1>6. /\ \A i \in 1..d + 1 : payloads[i] \in Nat
      /\ \A k \in 1..c : contexts[k] \in Nat
  <2>1. \A i \in 1..d + 1 : i \in 1..Len(payloads) BY <1>1, <1>2
  <2>2. \A i \in 1..Len(payloads) : payloads[i] \in Blocks BY <1>1
  <2>3. \A k \in 1..c : contexts[k] \in Blocks BY <1>1
  <2>. QED BY <1>1, <2>1, <2>2, <2>3
<1>7. \A i \in 1..d + 1 : i \in 1..d \/ i = d + 1 BY <1>2
<1>8. 1..d \subseteq 1..d + 1 /\ d + 1 \in 1..d + 1 BY <1>2
<1>9. Dispatch!InOrder' <=> Dispatch!InOrder BY DEF Dispatch!InOrder
<1>. HIDE DEF n, d, b, c
<1>10. CASE Dispatch!Refused(b)
  <2>1. contexts' = contexts BY <1>3, <1>10 DEF Dispatch!sendValidationRequest
  <2>2. c > 0 /\ contexts[c] >= b
    <3>1. contexts # <<>> /\ contexts[c] >= b BY <1>10 DEF Dispatch!Refused, c
    <3>. QED BY <1>1, <1>2, <3>1, EmptySeq DEF c
  <2>3. ASSUME Dispatch!InOrder PROVE \E k \in 1..c : contexts[k] = b
    <3>1. d + 1 \in 1..Len(payloads) /\ (d + 1) - 1 = d BY <1>1, <1>2
    <3>2. (\A j \in 1..d : payloads[j] < b) \/ (\E j \in 1..d : payloads[j] = b)
      BY <2>3, <3>1 DEF Dispatch!InOrder, b
    <3>3. CASE \E j \in 1..d : payloads[j] = b BY <1>1, <2>3, <3>3 DEF DContexts, d, c
    <3>4. CASE \A j \in 1..d : payloads[j] < b
      <4>1. c \in 1..c BY <1>2, <2>2
      <4>2. PICK i \in 1..d : contexts[c] = payloads[i] BY <1>1, <4>1 DEF DContexts, d, c
      <4>3. payloads[i] \in Nat /\ b \in Nat BY <1>6, <1>8 DEF b
      <4>. QED BY <2>2, <3>4, <4>2, <4>3
    <3>. QED BY <3>2, <3>3, <3>4
  <2>4. \A k \in 1..c : \E i \in 1..d + 1 : contexts[k] = payloads[i]
    BY <1>1, <1>8 DEF DContexts, d, c
  <2>5. ASSUME Dispatch!InOrder, NEW i \in 1..d + 1
        PROVE  (\E k \in 1..c : contexts[k] = payloads[i]) /\ payloads[i] <= contexts[c]
    <3>1. CASE i \in 1..d BY <1>1, <2>5, <3>1 DEF DContexts, d, c
    <3>2. CASE i = d + 1
      <4>1. b \in Nat /\ contexts[c] \in Nat BY <1>2, <1>6, <1>8, <2>2 DEF b
      <4>. QED BY <2>2, <2>3, <2>5, <3>2, <4>1 DEF b
    <3>. QED BY <1>7, <3>1, <3>2
  <2>6. DContexts' BY <1>4, <1>9, <2>1, <2>4, <2>5 DEF DContexts, c
  <2>. QED BY <1>5, <2>6
<1>11. CASE ~Dispatch!Refused(b)
  <2>1. contexts' = Append(contexts, b) BY <1>3, <1>11 DEF Dispatch!sendValidationRequest
  <2>2. b \in Blocks
    <3>1. d + 1 \in 1..Len(payloads) BY <1>1, <1>2
    <3>. QED BY <1>1, <3>1 DEF b
  <2>3. /\ Len(contexts') = c + 1 /\ contexts'[c + 1] = b
        /\ \A k \in 1..c : contexts'[k] = contexts[k]
    BY <1>1, <2>1, <2>2 DEF c
  <2>4. ASSUME NEW k \in 1..c + 1 PROVE \E i \in 1..d + 1 : contexts'[k] = payloads[i]
    <3>1. CASE k \in 1..c BY <1>1, <1>8, <2>3, <3>1 DEF DContexts, d, c
    <3>2. CASE k = c + 1 BY <1>8, <2>3, <3>2 DEF b
    <3>. QED BY <1>2, <3>1, <3>2
  <2>5. ASSUME Dispatch!InOrder, NEW i \in 1..d + 1
        PROVE  (\E k \in 1..c + 1 : contexts'[k] = payloads[i]) /\ payloads[i] <= b
    <3>1. CASE i \in 1..d
      <4>1. PICK k \in 1..c : contexts[k] = payloads[i] /\ payloads[i] <= contexts[c]
        BY <1>1, <2>5, <3>1 DEF DContexts, d, c
      <4>2. k \in 1..c + 1 /\ c \in 1..c BY <1>2
      <4>3. contexts # <<>> BY <1>1, <1>2, <4>2, EmptySeq DEF c
      <4>4. ~(contexts[c] >= b) BY <1>11, <4>3 DEF Dispatch!Refused, c
      <4>5. contexts[c] \in Nat /\ payloads[i] \in Nat /\ b \in Nat BY <1>1, <1>6, <2>2, <4>2
      <4>. QED BY <2>3, <4>1, <4>2, <4>4, <4>5
    <3>2. CASE i = d + 1
      <4>1. b \in Nat /\ c + 1 \in 1..c + 1 BY <1>1, <1>2, <2>2
      <4>. QED BY <2>3, <3>2, <4>1 DEF b
    <3>. QED BY <1>7, <3>1, <3>2
  <2>6. DContexts' BY <1>4, <1>9, <2>3, <2>4, <2>5 DEF DContexts
  <2>. QED BY <1>5, <2>6
<1>. QED BY <1>10, <1>11

\* A new payload is behind those in the channel, and comes in order only if they did.
LEMMA AddDispatch == ASSUME DInv, NEW b \in Blocks, Dispatch!AddPayload(b) PROVE DInv'
<1>. DEFINE m == Len(payloads)
<1>1. /\ adding = Dispatch!NoBlock /\ adding' = b /\ payloads' = Append(payloads, b)
      /\ UNCHANGED <<requestChan, contexts, sending, answering, requests>>
  BY DEF Dispatch!AddPayload
<1>2. /\ payloads \in Seq(Blocks) /\ requestChan \in Seq(Blocks) /\ b # Dispatch!NoBlock
  BY DispatchAssumption DEF DInv, Dispatch!TypeOK, Dispatch!NoBlock
<1>3. /\ m \in Nat /\ Len(requestChan) \in Nat /\ payloads' \in Seq(Blocks) /\ Len(payloads') = m + 1
      /\ payloads'[m + 1] = b /\ \A i \in 1..m : payloads'[i] = payloads[i]
  BY <1>1, <1>2
<1>. HIDE DEF m
<1>4. Through' = Through /\ Through \in Nat /\ Through + Len(requestChan) = m
  <2>1. Through' = (m + 1) - Len(requestChan) - 1 BY <1>1, <1>2, <1>3 DEF Through
  <2>2. Through = m - Len(requestChan) - 0 BY <1>1 DEF Through, m
  <2>. QED BY <1>3, <2>1, <2>2 DEF DInv, DQueue
<1>5. DQueue'
  <2>1. ASSUME NEW i \in 1..Len(requestChan) PROVE requestChan[i] = payloads'[Through + i]
    <3>1. Through + i \in 1..m BY <1>3, <1>4
    <3>. QED BY <1>3, <3>1 DEF DInv, DQueue
  <2>. QED BY <1>1, <1>3, <1>4, <2>1 DEF DQueue
<1>6. Dispatch!InOrder' => Dispatch!InOrder
  <2>. SUFFICES ASSUME Dispatch!InOrder', NEW i \in 1..m
                PROVE  (\A j \in 1..i - 1 : payloads[j] < payloads[i]) \/ (\E j \in 1..i - 1 : payloads[j] = payloads[i])
    BY DEF Dispatch!InOrder, m
  <2>1. i \in 1..m + 1 /\ 1..i - 1 \subseteq 1..m BY <1>3
  <2>2. (\A j \in 1..i - 1 : payloads'[j] < payloads'[i]) \/ (\E j \in 1..i - 1 : payloads'[j] = payloads'[i])
    BY <1>3, <2>1 DEF Dispatch!InOrder
  <2>. QED BY <1>3, <2>1, <2>2
<1>7. DContexts'
  <2>1. \A i \in 1..Through : payloads'[i] = payloads[i]
    <3>1. 1..Through \subseteq 1..m BY <1>3, <1>4
    <3>. QED BY <1>3, <3>1
  <2>2. \A k \in 1..Len(contexts) : \E i \in 1..Through : contexts[k] = payloads'[i]
    BY <2>1 DEF DInv, DContexts
  <2>3. Dispatch!InOrder' => \A i \in 1..Through :
          /\ \E k \in 1..Len(contexts) : contexts[k] = payloads'[i]
          /\ payloads'[i] <= contexts[Len(contexts)]
    BY <1>6, <2>1 DEF DInv, DContexts
  <2>. QED BY <1>1, <1>4, <2>2, <2>3 DEF DContexts
<1>8. Dispatch!TypeOK' BY <1>1, <1>3 DEF DInv, Dispatch!TypeOK
<1>9. DBehind' /\ Dispatch!AskedOnceInOrder' BY <1>1 DEF DInv, DBehind, Dispatch!AskedOnceInOrder
<1>. QED BY <1>5, <1>7, <1>8, <1>9 DEF DInv

\* A payload that gets into the channel gets to its end.
LEMMA SubmitDispatch == ASSUME DInv, Dispatch!submitValidationRequest PROVE DInv'
<1>. DEFINE m == Len(payloads)  n == Len(requestChan)
<1>1. /\ adding # Dispatch!NoBlock /\ n < ChanSize /\ requestChan' = Append(requestChan, adding)
      /\ adding' = Dispatch!NoBlock
      /\ UNCHANGED <<payloads, contexts, sending, answering, requests>>
  BY DEF Dispatch!submitValidationRequest
<1>2. /\ payloads \in Seq(Blocks) /\ requestChan \in Seq(Blocks) /\ adding \in Blocks
  BY <1>1 DEF DInv, Dispatch!TypeOK
<1>3. /\ m \in Nat /\ n \in Nat /\ requestChan' \in Seq(Blocks) /\ Len(requestChan') = n + 1
      /\ requestChan'[n + 1] = adding /\ \A i \in 1..n : requestChan'[i] = requestChan[i]
  BY <1>1, <1>2
<1>. HIDE DEF m, n
<1>4. Through' = Through /\ Through \in Nat /\ Through + (n + 1) = m
  <2>1. Through' = m - (n + 1) - 0 BY <1>1, <1>3 DEF Through, m
  <2>2. Through = m - n - 1 BY <1>1 DEF Through, m, n
  <2>. QED BY <1>3, <2>1, <2>2 DEF DInv, DQueue
<1>5. DQueue'
  <2>1. ASSUME NEW i \in 1..n + 1 PROVE requestChan'[i] = payloads[Through + i]
    <3>1. CASE i \in 1..n BY <1>3, <3>1 DEF DInv, DQueue, n
    <3>2. CASE i = n + 1 BY <1>1, <1>3, <1>4, <3>2 DEF DInv, DQueue, m
    <3>. QED BY <1>3, <3>1, <3>2
  <2>. QED BY <1>1, <1>3, <1>4, <2>1 DEF DQueue
<1>6. DContexts'
  <2>1. DContexts BY DEF DInv
  <2>2. Dispatch!InOrder' <=> Dispatch!InOrder BY <1>1 DEF Dispatch!InOrder
  <2>. QED BY <1>1, <1>4, <2>1, <2>2 DEF DContexts
<1>7. Dispatch!TypeOK'
  <2>1. Len(requestChan') <= ChanSize BY <1>1, <1>3, DispatchAssumption
  <2>. QED BY <1>1, <1>3, <2>1 DEF DInv, Dispatch!TypeOK
<1>8. DBehind' /\ Dispatch!AskedOnceInOrder' BY <1>1 DEF DInv, DBehind, Dispatch!AskedOnceInOrder
<1>. QED BY <1>5, <1>6, <1>7, <1>8 DEF DInv

\* Every step of AddPayload and of the dispatcher preserves the invariant.
LEMMA NextDispatch == ASSUME DInv, [Dispatch!Next]_dispatchVars PROVE DInv'
<1>1. CASE Dispatch!dispatchValidationRequests
  <2>1. /\ requestChan # <<>> /\ requestChan' = Tail(requestChan)
        /\ Dispatch!sendValidationRequest(Head(requestChan)) /\ UNCHANGED <<payloads, adding>>
    BY <1>1 DEF Dispatch!dispatchValidationRequests
  <2>2. /\ Head(requestChan) \in Blocks /\ requestChan' \in Seq(Blocks) /\ Len(requestChan') <= ChanSize
    <3>1. requestChan \in Seq(Blocks) /\ Len(requestChan) <= ChanSize BY DEF DInv, Dispatch!TypeOK
    <3>2. Len(requestChan) \in Nat /\ Len(requestChan') = Len(requestChan) - 1 BY <2>1, <3>1
    <3>. QED BY <2>1, <3>1, <3>2, DispatchAssumption
  <2>3. sending' \in Blocks \cup {Dispatch!NoBlock} /\ answering' \in BOOLEAN
    BY <2>1, <2>2 DEF DInv, Dispatch!TypeOK, Dispatch!sendValidationRequest
  <2>4. DQueue' /\ DContexts' BY <2>1, SendContexts
  <2>5. /\ contexts' \in Seq(Blocks) /\ requests' \in Seq(Blocks)
        /\ DBehind' /\ Dispatch!AskedOnceInOrder'
    BY <2>1, <2>2, SendDispatch
  <2>6. Dispatch!TypeOK' BY <2>1, <2>2, <2>3, <2>5 DEF DInv, Dispatch!TypeOK
  <2>. QED BY <2>4, <2>5, <2>6 DEF DInv
<1>2. CASE Dispatch!Retrieve \/ UNCHANGED dispatchVars
  <2>1. UNCHANGED <<payloads, adding, requestChan, contexts, answering, requests>>
        /\ sending' \in {sending, Dispatch!NoBlock}
    BY <1>2 DEF Dispatch!Retrieve, dispatchVars
  <2>2. Through' = Through /\ (Dispatch!InOrder' <=> Dispatch!InOrder)
    BY <2>1 DEF Through, Dispatch!InOrder
  <2>3. Dispatch!TypeOK' /\ DBehind' /\ Dispatch!AskedOnceInOrder'
    BY <2>1 DEF DInv, Dispatch!TypeOK, DBehind, Dispatch!AskedOnceInOrder
  <2>4. DQueue' /\ DContexts' BY <2>1, <2>2 DEF DInv, DQueue, DContexts
  <2>. QED BY <2>3, <2>4 DEF DInv
<1>. QED BY <1>1, <1>2, AddDispatch, SubmitDispatch DEF Dispatch!Next, Dispatch!Dispatcher

\* The validators are asked about every block that came in order, once and in the order of the
\* blocks, for any blocks, any capacity of the channel and any repetition of the payloads
\* (AddPayload, channelContext.create).
THEOREM AsksExactly == Dispatch!Spec => []AskedExactly
<1>1. ASSUME Dispatch!Init PROVE DInv
  <2>1. Through = 0 BY <1>1 DEF Dispatch!Init, Through
  <2>2. Dispatch!TypeOK BY <1>1, DispatchAssumption DEF Dispatch!Init, Dispatch!TypeOK
  <2>3. DBehind /\ Dispatch!AskedOnceInOrder
    BY <1>1 DEF Dispatch!Init, DBehind, Dispatch!AskedOnceInOrder
  <2>4. DQueue /\ DContexts BY <1>1, <2>1 DEF Dispatch!Init, DQueue, DContexts
  <2>. QED BY <2>2, <2>3, <2>4 DEF DInv
<1>2. ASSUME DInv PROVE AskedExactly
  <2>1. Dispatch!NoneSkipped
    <3>. SUFFICES ASSUME Dispatch!InOrder, adding = Dispatch!NoBlock, requestChan = <<>>,
                         NEW i \in 1..Len(payloads)
                  PROVE  \E k \in 1..Len(contexts) : contexts[k] = payloads[i]
      BY DEF Dispatch!NoneSkipped
    <3>1. Through = Len(payloads)
      <4>1. Len(payloads) \in Nat /\ Len(requestChan) = 0 BY <1>2 DEF DInv, Dispatch!TypeOK
      <4>. QED BY <4>1 DEF Through
    <3>. QED BY <1>2, <3>1 DEF DInv, DContexts
  <2>. QED BY <1>2, <2>1 DEF DInv, AskedExactly, Dispatch!AskedExactly
<1>. QED BY <1>1, <1>2, NextDispatch, PTL DEF Dispatch!Spec, Dispatch!vars, dispatchVars
=============================================================================
