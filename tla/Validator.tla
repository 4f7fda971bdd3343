------------------------------ MODULE Validator ------------------------------
(***************************************************************************)
(* Distributed validation of blocks, as the committer sees it:             *)
(* pkg/validation/validator (Validate, txResults), the cache of results    *)
(* (validationresults) and the policy on results (validationpolicy).       *)
(*                                                                         *)
(* The committer validates one block after the other.  For each it may run *)
(* its own share of the block (validateLocal); validators send the results *)
(* of theirs, for this block or for a later one, in any order, repeated,   *)
(* or not at all; after a timeout the committer validates the rest itself  *)
(* (validateRemaining).  Goroutines of an earlier block may still be       *)
(* running when the next one starts.                                       *)
(*                                                                         *)
(* resultsChan is the set of the results that have been handed to a        *)
(* goroutine which sends them: the goroutines race, so any of them may be  *)
(* received next.  The ids that come with a result are those of the        *)
(* transactions it calls valid, so they are a function of its flags.       *)
(***************************************************************************)
EXTENDS Naturals, Sequences

CONSTANTS
  MaxBlock,    \* the blocks are 1..MaxBlock
  MaxTx,       \* the transactions of a block are 1..MaxTx
  Code,        \* Code[b][i]: what ValidateTx returns for transaction i of block b
  TxID,        \* TxID[b][i]: its id
  Faults,      \* the faults that may happen, and how many of them
  MaxFaults,
  MaxRemote    \* results that are received from other peers

Blocks == 1..MaxBlock
Txs == 1..MaxTx
NotValidated == "NOT_VALIDATED"
Codes == {"VALID", "INVALID"}
Flags == [Txs -> Codes \cup {NotValidated}]
NoID == "none"

ASSUME ValidatorAssumption ==
  /\ MaxBlock \in Nat /\ MaxTx \in Nat /\ MaxFaults \in Nat /\ MaxRemote \in Nat
  /\ Code \in [Blocks -> [Txs -> Codes]]
  /\ \A b \in Blocks, i \in Txs : TxID[b][i] # NoID
  /\ Faults \subseteq {"localError", "remoteError", "unsigned", "hour"}

\* validationresults.Results.  from: this peer, another peer of its organisation, or a
\* peer of another organisation.
Results == [block : Blocks, flags : Flags, err : {"", "canceled", "error"},
            from : {"local", "org", "other"}, signed : {"yes", "no"}]

VARIABLES
  block,       \* the block that is validated, or is next
  phase,       \* where Validate is
  flags, txIDs, \* txResults
  resultsChan,
  resultsCache, \* per block, the results in the order in which they were added
  jobs,        \* the goroutines validateLocal and validateRemaining
  metadata,    \* the flags that Validate set in a block, once it has
  faults, remote

txResults == <<flags, txIDs>>
vars == <<block, phase, txResults, resultsChan, resultsCache, jobs, metadata, faults, remote>>

\* What validating the transactions S of block b gives.
FlagsFor(b, S) == [i \in Txs |-> IF i \in S THEN Code[b][i] ELSE NotValidated]
NoFlags == [i \in Txs |-> NotValidated]
NoIDs == [i \in Txs |-> NoID]

Init == /\ block = 1 /\ phase = "idle"
        /\ flags = NoFlags /\ txIDs = NoIDs
        /\ resultsChan = {} /\ resultsCache = [b \in Blocks |-> <<>>]
        /\ jobs = {}
        /\ metadata = [b \in Blocks |-> NoFlags]
        /\ faults = 0 /\ remote = 0

Fault(f) == f \in Faults /\ faults < MaxFaults /\ faults' = faults + 1

-----------------------------------------------------------------------------
\* txResults.Merge: a flag that is set stays; then markDuplicateTxIDs goes over all the
\* ids, and of the transactions with the same id only the first keeps its flag.
MergedFlag(i, new) == IF new[i] # NotValidated /\ flags[i] = NotValidated THEN new[i] ELSE flags[i]
MergedID(i, new) == IF new[i] # NotValidated /\ flags[i] = NotValidated
                    THEN IF new[i] = "VALID" THEN TxID[block][i] ELSE NoID
                    ELSE txIDs[i]
\* Mutant: duplicates are looked for only within the results that are merged.
IsDuplicate_NewOnly(i, new) ==
  new[i] = "VALID" /\ \E j \in Txs : j < i /\ new[j] = "VALID" /\ TxID[block][j] = TxID[block][i]

IsDuplicate(i, new) == /\ MergedID(i, new) # NoID
                       /\ \E j \in Txs : j < i /\ MergedID(j, new) = MergedID(i, new)

Merge(new) ==
  /\ txIDs' = [i \in Txs |-> MergedID(i, new)]
  /\ flags' = [i \in Txs |-> IF IsDuplicate(i, new) THEN "DUPLICATE_TXID" ELSE MergedFlag(i, new)]

UnvalidatedMap == {i \in Txs : flags[i] = NotValidated}

\* The results of the segment with flags f that are not from another organisation.
Counts(r, f) == r.flags = f /\ r.from # "other"
\* Mutant: a result of this peer needs a signature too.
ValidateResults_SignedOnly(s, f) ==
  \E k \in 1..Len(s) : /\ Counts(s[k], f) /\ \A m \in 1..k - 1 : ~Counts(s[m], f)
                       /\ s[k].signed = "yes"

\* PolicyEvaluator.ValidateResults on the segment of the cache that holds the results with
\* flags f.  It looks at the first one that is not from another organisation: its own is
\* good, one of its organisation if the signature is.
ValidateResults(s, f) ==
  \E k \in 1..Len(s) : /\ Counts(s[k], f) /\ \A m \in 1..k - 1 : ~Counts(s[m], f)
                       /\ s[k].from = "local" \/ s[k].signed = "yes"

\* resultsCache.Remove, whose results a goroutine sends to the channel again.
InCache(b) == {resultsCache[b][k] : k \in 1..Len(resultsCache[b])}
Repost == /\ resultsChan' = resultsChan \cup InCache(block)
          /\ resultsCache' = [resultsCache EXCEPT ![block] = <<>>]

-----------------------------------------------------------------------------
\* Validate up to the first wait.  S is the committer's own share, if it is one of the
\* validating peers.
Validate(S) ==
  /\ phase = "idle" /\ block \in Blocks
  /\ flags' = NoFlags /\ txIDs' = NoIDs
  /\ jobs' = IF S = {} THEN jobs ELSE jobs \cup {[block |-> block, txs |-> S, ctx |-> "none"]}
  /\ Repost
  /\ phase' = "wait"
  /\ UNCHANGED <<block, metadata, faults, remote>>

\* The rest of the block is validated here; the second wait is for an hour.
ValidateRemaining ==
  /\ phase = "remaining"
  /\ IF UnvalidatedMap = {}
     THEN phase' = "check" /\ UNCHANGED <<jobs, resultsChan, resultsCache>>
     ELSE /\ jobs' = jobs \cup {[block |-> block, txs |-> UnvalidatedMap, ctx |-> "open"]}
          /\ Repost
          /\ phase' = "waitRemaining"
  /\ UNCHANGED <<block, txResults, metadata, faults, remote>>

\* The end of Validate: the flags go to the block, unless one is missing.
ValidateEnd ==
  /\ phase = "check"
  /\ IF UnvalidatedMap = {}
     THEN /\ metadata' = [metadata EXCEPT ![block] = flags]
          /\ phase' = "idle" /\ block' = block + 1
     ELSE phase' = "failed" /\ UNCHANGED <<block, metadata>>
  /\ UNCHANGED <<txResults, resultsChan, resultsCache, jobs, faults, remote>>

-----------------------------------------------------------------------------
Waiting == phase \in {"wait", "waitRemaining"}
CacheAdd(r) == resultsCache' = [resultsCache EXCEPT ![r.block] = Append(@, r)]

\* handleResults of a result that is for an earlier block or says that the validation
\* was canceled, or that is for a later block.
handleResultsDiscard(r) ==
  /\ Waiting /\ r \in resultsChan
  /\ r.block < block \/ (r.block = block /\ r.err = "canceled")
  /\ resultsChan' = resultsChan \ {r}
  /\ UNCHANGED <<block, phase, txResults, resultsCache, jobs, metadata, faults, remote>>

handleResultsLater(r) ==
  /\ Waiting /\ r \in resultsChan
  /\ r.block > block
  /\ resultsChan' = resultsChan \ {r}
  /\ CacheAdd(r)
  /\ UNCHANGED <<block, phase, txResults, jobs, metadata, faults, remote>>

\* An error ends the wait, the second time also Validate.
handleResultsError(r) ==
  /\ Waiting /\ r \in resultsChan
  /\ r.block = block /\ r.err = "error"
  /\ resultsChan' = resultsChan \ {r}
  /\ phase' = IF phase = "wait" THEN "remaining" ELSE "failed"
  /\ UNCHANGED <<block, txResults, resultsCache, jobs, metadata, faults, remote>>

handleResultsRejected(r) ==
  /\ Waiting /\ r \in resultsChan
  /\ r.block = block /\ r.err = ""
  /\ ~ValidateResults(Append(resultsCache[block], r), r.flags)
  /\ resultsChan' = resultsChan \ {r}
  /\ CacheAdd(r)
  /\ UNCHANGED <<block, phase, txResults, jobs, metadata, faults, remote>>

\* The cancel function of the second wait is called when the block is done.
Canceled == {IF j.block = block /\ j.ctx = "open" THEN [j EXCEPT !.ctx = "canceled"] ELSE j : j \in jobs}

handleResultsMerge(r) ==
  /\ Waiting /\ r \in resultsChan
  /\ r.block = block /\ r.err = ""
  /\ ValidateResults(Append(resultsCache[block], r), r.flags)
  /\ resultsChan' = resultsChan \ {r}
  /\ CacheAdd(r)
  /\ Merge(r.flags)
  /\ \/ /\ \E i \in Txs : flags'[i] = NotValidated
        /\ UNCHANGED <<phase, jobs>>
     \/ /\ \A i \in Txs : flags'[i] # NotValidated
        /\ phase' = IF phase = "wait" THEN "remaining" ELSE "check"
        /\ jobs' = IF phase = "wait" THEN jobs ELSE Canceled
  /\ UNCHANGED <<block, metadata, faults, remote>>

\* The hour of the second wait is over: either validation takes that long, or everything
\* that was to come has come and the block is still not done.
Hour == /\ phase = "waitRemaining" /\ phase' = "check"
        /\ Fault("hour") \/ (jobs = {} /\ resultsChan = {} /\ UNCHANGED faults)

\* Mutant: the first wait has no timeout.
Timeout_SecondOnly ==
  /\ Hour
  /\ UNCHANGED <<block, txResults, resultsChan, resultsCache, jobs, metadata, remote>>

\* The timeout of the first wait, and the hour of the second.
Timeout ==
  /\ \/ phase = "wait" /\ phase' = "remaining" /\ UNCHANGED faults
     \/ Hour
  /\ UNCHANGED <<block, txResults, resultsChan, resultsCache, jobs, metadata, remote>>

-----------------------------------------------------------------------------
Result(b, f, e, from, signed) ==
  [block |-> b, flags |-> f, err |-> e, from |-> from, signed |-> signed]

\* A goroutine of this peer ends with its results, with an error of ValidateTx, or, when
\* its context is canceled in time, with nothing.
JobDone(j) ==
  /\ j \in jobs
  /\ jobs' = jobs \ {j}
  /\ \/ /\ resultsChan' = resultsChan \cup {Result(j.block, FlagsFor(j.block, j.txs), "", "local", "no")}
        /\ UNCHANGED faults
     \/ /\ resultsChan' = resultsChan \cup {Result(j.block, NoFlags, "error", "local", "no")}
        /\ Fault("localError")
     \/ j.ctx = "canceled" /\ UNCHANGED <<resultsChan, faults>>
  /\ UNCHANGED <<block, phase, txResults, resultsCache, metadata, remote>>

\* SubmitValidationResults.  Validators of the organisation run the same code on the
\* transactions S of their share, and a failure to sign leaves the signature out; what a
\* peer of another organisation answers is not this organisation's to know.  A result
\* that is late for its block has stayed in the channel.
SubmitValidationResults(r) ==
  /\ remote < MaxRemote /\ remote' = remote + 1
  /\ r.block >= block
  /\ resultsChan' = resultsChan \cup {r}
  /\ UNCHANGED <<block, phase, txResults, resultsCache, jobs, metadata>>

RemoteResults(b, S) ==
  \/ SubmitValidationResults(Result(b, FlagsFor(b, S), "", "org", "yes")) /\ UNCHANGED faults
  \/ SubmitValidationResults(Result(b, NoFlags, "canceled", "org", "no")) /\ UNCHANGED faults
  \/ SubmitValidationResults(Result(b, FlagsFor(b, S), "", "org", "no")) /\ Fault("unsigned")
  \/ SubmitValidationResults(Result(b, NoFlags, "error", "org", "no")) /\ Fault("remoteError")

OtherOrgResults(b, f) == SubmitValidationResults(Result(b, f, "", "other", "yes")) /\ UNCHANGED faults

handleResults(r) == \/ handleResultsDiscard(r) \/ handleResultsLater(r) \/ handleResultsError(r)
                    \/ handleResultsRejected(r) \/ handleResultsMerge(r)

Next == \/ \E S \in SUBSET Txs : Validate(S)
        \/ ValidateRemaining \/ ValidateEnd \/ Timeout
        \/ \E r \in resultsChan : handleResults(r)
        \/ \E j \in jobs : JobDone(j)
        \/ \E b \in Blocks : \/ \E S \in SUBSET Txs : RemoteResults(b, S)
                             \/ \E f \in Flags : OtherOrgResults(b, f)

Spec == Init /\ [][Next]_vars

\* The committer goes on to its next block, its timers fire, its goroutines end, and the
\* loop that receives results goes on receiving.
Fairness ==
  /\ WF_vars(\E S \in SUBSET Txs : Validate(S)) /\ WF_vars(ValidateRemaining)
  /\ WF_vars(ValidateEnd) /\ WF_vars(Timeout)
  /\ WF_vars(\E r \in resultsChan : handleResults(r))
  /\ WF_vars(\E j \in jobs : JobDone(j))
FairSpec == Spec /\ Fairness

-----------------------------------------------------------------------------
AllFlags == [Txs -> Codes \cup {NotValidated, "DUPLICATE_TXID"}]

\* Every variable holds a value of its kind.
TypeOK ==
  /\ block \in 1..MaxBlock + 1
  /\ phase \in {"idle", "wait", "remaining", "waitRemaining", "check", "failed"}
  /\ flags \in AllFlags /\ txIDs \in [Txs -> {TxID[b][i] : b \in Blocks, i \in Txs} \cup {NoID}]
  /\ resultsChan \subseteq Results
  /\ resultsCache \in [Blocks -> Seq(Results)]
  /\ jobs \subseteq [block : Blocks, txs : SUBSET Txs, ctx : {"none", "open", "canceled"}]
  /\ metadata \in [Blocks -> AllFlags]
  /\ faults \in 0..MaxFaults /\ remote \in 0..MaxRemote

\* What one peer that validates the whole block by itself sets: the code of the
\* transaction, or that an earlier valid transaction of the block has its id.
Expected(b, i) ==
  IF Code[b][i] = "VALID" /\ \E j \in Txs : j < i /\ Code[b][j] = "VALID" /\ TxID[b][j] = TxID[b][i]
  THEN "DUPLICATE_TXID" ELSE Code[b][i]

\* However the block was shared out and in whatever order, how often and by whom results
\* were sent, a block that Validate accepts has exactly the flags of a single validating
\* peer (Validate, handleResults, Merge, markDuplicateTxIDs, ValidateResults).
SameAsSinglePeer ==
  \A b \in Blocks : b < block => \A i \in Txs : metadata[b][i] = Expected(b, i)

\* Validate always returns: results that are lost, late, repeated, canceled or rejected
\* never keep the committer waiting, and the chain goes on unless a block fails.
ValidateReturns == <>(block > MaxBlock \/ phase = "failed")

\* A result of this peer for the current block is merged, unless a result of another peer
\* of the organisation with the same flags and without a signature came before it
\* (ValidateResults looks at the first result of the organisation).
OwnResultAccepted(r) ==
  /\ r.from = "local" /\ r.block = block /\ r.err = "" /\ handleResults(r)
  /\ \A s \in InCache(block) : s.flags = r.flags /\ s.from = "org" => s.signed = "yes"
  => \A i \in Txs : r.flags[i] # NotValidated => flags'[i] # NotValidated

\* Nothing good is turned down.  Validate fails only because of a failure, an error of some
\* peer, a signature that is missing, or validation that takes more than an hour, and never
\* because of the order in which results came or because a transaction was left to nobody;
\* and what this peer has validated itself is accepted (Validate, ValidateResults).
RejectsOnlyOnFault ==
  [][/\ phase' = "failed" => faults' > 0
     /\ \A r \in resultsChan : OwnResultAccepted(r)]_vars
=============================================================================
