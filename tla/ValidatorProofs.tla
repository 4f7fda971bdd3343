--------------------------- MODULE ValidatorProofs ---------------------------
(***************************************************************************)
(* For any number of blocks and transactions, any codes and ids, and any   *)
(* number of results and faults: what Validate sets in a block is what one *)
(* peer alone would set.                                                   *)
(*                                                                         *)
(* Results of other organisations may say anything, so the invariant has   *)
(* to follow the results of this organisation through the channel and the  *)
(* cache (Honest), and to say what a partly merged txResults means         *)
(* (Partial): a flag may still turn from VALID to DUPLICATE_TXID when an   *)
(* earlier transaction with its id is merged later.                        *)
(***************************************************************************)
EXTENDS Validator, WellFoundedInduction, TLAPS

\* A result of this organisation has the code of ValidateTx wherever it has one.
Honest(r) == r.from # "other" => \A i \in Txs : r.flags[i] \in {NotValidated, Code[r.block][i]}

AllHonest ==
  /\ \A r \in resultsChan : Honest(r)
  /\ \A b \in Blocks : \A k \in 1..Len(resultsCache[b]) :
       resultsCache[b][k].block = b /\ Honest(resultsCache[b][k])

\* The id that is recorded for transaction i of block b once it is validated.
IDOf(b, i) == IF Code[b][i] = "VALID" THEN TxID[b][i] ELSE NoID

\* txResults between two merges.
Duplicate(i) == txIDs[i] # NoID /\ \E j \in Txs : j < i /\ txIDs[j] = txIDs[i]

Partial ==
  \A i \in Txs :
    \/ flags[i] = NotValidated /\ txIDs[i] = NoID
    \/ /\ txIDs[i] = IDOf(block, i)
       /\ flags[i] = IF Duplicate(i) THEN "DUPLICATE_TXID" ELSE Code[block][i]

Ind == /\ TypeOK
       /\ AllHonest
       /\ phase # "idle" => block \in Blocks /\ Partial
       /\ SameAsSinglePeer

-----------------------------------------------------------------------------
\* The initial state has no results and no validated block.
LEMMA InitInd == Init => Ind
  BY ValidatorAssumption DEF Init, Ind, TypeOK, AllHonest, SameAsSinglePeer, Blocks, Txs,
     NoFlags, NoIDs, AllFlags, NotValidated, Codes

\* Validate and validateRemaining move what is in the cache to the channel.
LEMMA RepostHonest ==
  ASSUME TypeOK, AllHonest, block \in Blocks, Repost
  PROVE  AllHonest' /\ resultsChan' \subseteq Results /\ resultsCache' \in [Blocks -> Seq(Results)]
<1>1. \A r \in InCache(block) : Honest(r) /\ r \in Results
  BY DEF TypeOK, AllHonest, InCache
<1>2. resultsChan' = resultsChan \cup InCache(block)
  BY DEF Repost
<1>3. resultsCache' = [resultsCache EXCEPT ![block] = <<>>]
  BY DEF Repost
<1>4. \A r \in resultsChan' : Honest(r) /\ r \in Results
  BY <1>1, <1>2 DEF AllHonest, TypeOK
<1>5. resultsCache' \in [Blocks -> Seq(Results)]
  BY <1>3 DEF TypeOK
<1>6. \A b \in Blocks : \A k \in 1..Len(resultsCache'[b]) :
        resultsCache'[b][k].block = b /\ Honest(resultsCache'[b][k])
  BY <1>3 DEF TypeOK, AllHonest
<1> QED BY <1>4, <1>5, <1>6 DEF AllHonest, Honest

\* A result that is received is added to the cache under its block.
LEMMA AddHonest ==
  ASSUME TypeOK, AllHonest, NEW r \in resultsChan, CacheAdd(r), resultsChan' = resultsChan \ {r}
  PROVE  AllHonest' /\ resultsChan' \subseteq Results /\ resultsCache' \in [Blocks -> Seq(Results)]
<1>0. r \in Results /\ Honest(r)
  BY DEF TypeOK, AllHonest
<1>1. r \in Results /\ r.block \in Blocks /\ Honest(r)
  BY <1>0 DEF Results
<1>2. resultsCache' = [resultsCache EXCEPT ![r.block] = Append(resultsCache[r.block], r)]
  BY DEF CacheAdd
<1>3. resultsCache' \in [Blocks -> Seq(Results)]
  BY <1>1, <1>2 DEF TypeOK
<1>4. ASSUME NEW b \in Blocks, NEW k \in 1..Len(resultsCache'[b])
      PROVE  resultsCache'[b][k].block = b /\ Honest(resultsCache'[b][k])
  <2>0. resultsCache[b] \in Seq(Results)
    BY DEF TypeOK
  <2>1. CASE b = r.block
    <3>1. resultsCache'[b] = Append(resultsCache[b], r)
      BY <1>2, <2>1 DEF TypeOK
    <3>2. CASE k = Len(resultsCache[b]) + 1
      BY <1>1, <2>0, <2>1, <3>1, <3>2
    <3>3. CASE k \in 1..Len(resultsCache[b])
      BY <2>0, <3>1, <3>3 DEF AllHonest
    <3> QED BY <2>0, <3>1, <3>2, <3>3
  <2>2. CASE b # r.block
    BY <1>2, <2>2 DEF TypeOK, AllHonest
  <2> QED BY <2>1, <2>2
<1> QED BY <1>3, <1>4 DEF AllHonest, TypeOK, Honest

\* What passes ValidateResults has the codes of ValidateTx, whoever sent it: the segment
\* holds a result of this organisation with the same flags.
LEMMA AcceptedHonest ==
  ASSUME TypeOK, AllHonest, block \in Blocks, NEW r \in resultsChan, r.block = block,
         ValidateResults(Append(resultsCache[block], r), r.flags)
  PROVE  \A i \in Txs : r.flags[i] \in {NotValidated, Code[block][i]}
<1> DEFINE s == Append(resultsCache[block], r)
<1>1. resultsCache[block] \in Seq(Results) /\ r \in Results
  BY DEF TypeOK
<1>2. PICK k \in 1..Len(s) : Counts(s[k], r.flags)
  BY DEF ValidateResults
<1>3. s[k] = r \/ (k \in 1..Len(resultsCache[block]) /\ s[k] = resultsCache[block][k])
  BY <1>1
<1>4. Honest(s[k]) /\ s[k].block = block
  BY <1>3 DEF AllHonest
<1> QED BY <1>2, <1>4 DEF Counts, Honest

\* Merging codes of ValidateTx keeps the meaning of txResults, in whatever order they come.
LEMMA MergePartial ==
  ASSUME TypeOK, block \in Blocks, Partial, NEW f \in Flags, Merge(f), block' = block,
         \A i \in Txs : f[i] \in {NotValidated, Code[block][i]}
  PROVE  /\ Partial' /\ flags' \in AllFlags
         /\ txIDs' \in [Txs -> {TxID[b][i] : b \in Blocks, i \in Txs} \cup {NoID}]
<1>1. \A i \in Txs : txIDs'[i] = MergedID(i, f)
  BY DEF Merge
<1>2. \A i \in Txs : flags'[i] = IF IsDuplicate(i, f) THEN "DUPLICATE_TXID" ELSE MergedFlag(i, f)
  BY DEF Merge
<1>3. \A i \in Txs : IsDuplicate(i, f) <=> Duplicate(i)'
  BY <1>1 DEF IsDuplicate, Duplicate
<1>4. \A i \in Txs : Code[block][i] \in Codes /\ TxID[block][i] # NoID
  BY ValidatorAssumption
<1>5. ASSUME NEW i \in Txs, f[i] # NotValidated, flags[i] = NotValidated
      PROVE  txIDs'[i] = IDOf(block, i) /\ MergedFlag(i, f) = Code[block][i]
  BY <1>1, <1>4, <1>5 DEF MergedID, MergedFlag, IDOf, Codes, NotValidated
<1>6. ASSUME NEW i \in Txs, f[i] = NotValidated, flags[i] = NotValidated
      PROVE  txIDs'[i] = NoID /\ flags'[i] = NotValidated
  BY <1>1, <1>2, <1>4, <1>6 DEF Partial, MergedID, MergedFlag, IsDuplicate, IDOf, Codes, NotValidated
<1>7. ASSUME NEW i \in Txs, flags[i] # NotValidated
      PROVE  /\ txIDs'[i] = IDOf(block, i)
             /\ flags'[i] = IF Duplicate(i)' THEN "DUPLICATE_TXID" ELSE Code[block][i]
  <2>1. txIDs[i] = IDOf(block, i) /\ txIDs'[i] = txIDs[i] /\ MergedFlag(i, f) = flags[i]
    BY <1>1, <1>7 DEF Partial, MergedID, MergedFlag
  <2>2. flags[i] = IF Duplicate(i) THEN "DUPLICATE_TXID" ELSE Code[block][i]
    BY <1>7 DEF Partial
  <2>3. Duplicate(i) => Duplicate(i)'
    <3>1. ASSUME NEW j \in Txs, j < i, txIDs[j] = txIDs[i], txIDs[i] # NoID
          PROVE  txIDs'[j] = txIDs[j]
      BY <1>1, <1>4, <3>1 DEF Partial, MergedID, Codes, NotValidated
    <3> QED BY <2>1, <3>1 DEF Duplicate
  <2> QED BY <1>2, <1>3, <2>1, <2>2, <2>3
<1>8. Partial'
  BY <1>2, <1>3, <1>5, <1>6, <1>7 DEF Partial, IDOf
<1>9. flags' \in AllFlags
  <2>1. \A i \in Txs : MergedFlag(i, f) \in Codes \cup {NotValidated, "DUPLICATE_TXID"}
    BY DEF MergedFlag, TypeOK, AllFlags, Flags
  <2> QED BY <2>1 DEF Merge, AllFlags
<1>10. txIDs' \in [Txs -> {TxID[b][i] : b \in Blocks, i \in Txs} \cup {NoID}]
  <2>1. \A i \in Txs : MergedID(i, f) \in {TxID[b][j] : b \in Blocks, j \in Txs} \cup {NoID}
    BY DEF MergedID, TypeOK
  <2> QED BY <2>1 DEF Merge
<1> QED BY <1>8, <1>9, <1>10

-----------------------------------------------------------------------------
\* The blocks that are validated stay as they are when the block and the metadata do.
LEMMA SameBlocks ==
  ASSUME SameAsSinglePeer, block' = block, metadata' = metadata
  PROVE  SameAsSinglePeer'
  BY DEF SameAsSinglePeer, Expected

\* txResults means the same while it and the block are unchanged.
LEMMA SamePartial ==
  ASSUME Partial, block' = block, UNCHANGED txResults
  PROVE  Partial'
  BY DEF Partial, Duplicate, IDOf, txResults

\* The results mean the same while they stay where they are.
LEMMA SameHonest ==
  ASSUME AllHonest, UNCHANGED <<resultsChan, resultsCache>>
  PROVE  AllHonest'
  BY DEF AllHonest, Honest

\* The number of faults stays within its bound.
LEMMA FaultBound ==
  ASSUME TypeOK, faults' = faults \/ (faults < MaxFaults /\ faults' = faults + 1)
  PROVE  faults' \in 0..MaxFaults
<1>1. faults \in 0..MaxFaults /\ MaxFaults \in Nat
  BY ValidatorAssumption DEF TypeOK
<1> QED BY <1>1

LEMMA ValidateInd ==
  ASSUME Ind, NEW S \in SUBSET Txs, Validate(S)
  PROVE  Ind'
<1>1. TypeOK /\ AllHonest /\ SameAsSinglePeer /\ block \in Blocks /\ Repost
  BY DEF Ind, Validate
<1>2. AllHonest' /\ resultsChan' \subseteq Results /\ resultsCache' \in [Blocks -> Seq(Results)]
  BY <1>1, RepostHonest
<1>3. jobs' \subseteq [block : Blocks, txs : SUBSET Txs, ctx : {"none", "open", "canceled"}]
  BY <1>1 DEF Validate, TypeOK
<1>4. flags' \in AllFlags /\ txIDs' \in [Txs -> {TxID[b][i] : b \in Blocks, i \in Txs} \cup {NoID}]
  BY DEF Validate, NoFlags, NoIDs, AllFlags
<1>5. TypeOK'
  BY <1>1, <1>2, <1>3, <1>4 DEF TypeOK, Validate
<1>6. Partial'
  BY DEF Validate, Partial, NoFlags, NoIDs
<1>7. SameAsSinglePeer'
  BY <1>1, SameBlocks DEF Validate
<1> QED BY <1>1, <1>2, <1>5, <1>6, <1>7 DEF Ind, Validate

LEMMA ValidateRemainingInd ==
  ASSUME Ind, ValidateRemaining
  PROVE  Ind'
<1>1. TypeOK /\ AllHonest /\ SameAsSinglePeer /\ block \in Blocks /\ Partial
  BY DEF Ind, ValidateRemaining
<1>2. Partial' /\ SameAsSinglePeer' /\ block' = block /\ UNCHANGED <<flags, txIDs, metadata, faults, remote>>
  BY <1>1, SamePartial, SameBlocks DEF ValidateRemaining, txResults
<1>3. CASE UnvalidatedMap = {}
  <2>1. UNCHANGED <<jobs, resultsChan, resultsCache>> /\ phase' = "check"
    BY <1>3 DEF ValidateRemaining
  <2>2. TypeOK'
    BY <1>1, <1>2, <2>1 DEF TypeOK
  <2>3. AllHonest'
    BY <1>1, <2>1, SameHonest
  <2> QED BY <1>1, <1>2, <2>2, <2>3 DEF Ind
<1>4. CASE UnvalidatedMap # {}
  <2>1. Repost /\ phase' = "waitRemaining"
        /\ jobs' = jobs \cup {[block |-> block, txs |-> UnvalidatedMap, ctx |-> "open"]}
    BY <1>4 DEF ValidateRemaining
  <2>2. AllHonest' /\ resultsChan' \subseteq Results /\ resultsCache' \in [Blocks -> Seq(Results)]
    BY <1>1, <2>1, RepostHonest
  <2>3. jobs' \subseteq [block : Blocks, txs : SUBSET Txs, ctx : {"none", "open", "canceled"}]
    BY <1>1, <2>1 DEF TypeOK, UnvalidatedMap
  <2>4. TypeOK'
    BY <1>1, <1>2, <2>1, <2>2, <2>3 DEF TypeOK
  <2> QED BY <1>1, <1>2, <2>2, <2>4 DEF Ind
<1> QED BY <1>3, <1>4

\* A fully validated txResults has the flags of a single peer.
LEMMA CompleteIsExpected ==
  ASSUME TypeOK, block \in Blocks, Partial, UnvalidatedMap = {}, NEW i \in Txs
  PROVE  flags[i] = Expected(block, i)
<1>1. \A j \in Txs : txIDs[j] = IDOf(block, j)
  BY DEF Partial, UnvalidatedMap
<1>2. flags[i] = IF Duplicate(i) THEN "DUPLICATE_TXID" ELSE Code[block][i]
  BY DEF Partial, UnvalidatedMap
<1>3. \A j \in Txs : TxID[block][j] # NoID
  BY ValidatorAssumption
<1> DEFINE Twin(j) == j < i /\ Code[block][j] = "VALID" /\ TxID[block][j] = TxID[block][i]
<1>4. Duplicate(i) <=> Code[block][i] = "VALID" /\ \E j \in Txs : Twin(j)
  <2>1. txIDs[i] # NoID <=> Code[block][i] = "VALID"
    BY <1>1, <1>3 DEF IDOf
  <2>2. ASSUME Code[block][i] = "VALID", NEW j \in Txs
        PROVE  j < i /\ txIDs[j] = txIDs[i] <=> Twin(j)
    BY <1>1, <1>3, <2>2 DEF IDOf
  <2> QED BY <2>1, <2>2 DEF Duplicate
<1> QED BY <1>2, <1>4 DEF Expected

LEMMA ValidateEndInd ==
  ASSUME Ind, ValidateEnd
  PROVE  Ind'
<1>1. TypeOK /\ AllHonest /\ SameAsSinglePeer /\ block \in Blocks /\ Partial
  BY DEF Ind, ValidateEnd
<1>2. UNCHANGED <<flags, txIDs, resultsChan, resultsCache, jobs, faults, remote>>
  BY DEF ValidateEnd, txResults
<1>3. AllHonest'
  BY <1>1, <1>2, SameHonest
<1>4. CASE UnvalidatedMap = {}
  <2>1. /\ metadata' = [metadata EXCEPT ![block] = flags]
        /\ phase' = "idle" /\ block' = block + 1
    BY <1>4 DEF ValidateEnd
  <2>2. TypeOK'
    <3>1. block' \in 1..MaxBlock + 1
      BY <1>1, <2>1, ValidatorAssumption DEF Blocks
    <3>2. metadata' \in [Blocks -> AllFlags]
      BY <1>1, <2>1 DEF TypeOK
    <3> QED BY <1>1, <1>2, <2>1, <3>1, <3>2 DEF TypeOK
  <2>3. SameAsSinglePeer'
    <3>1. ASSUME NEW b \in Blocks, b < block', NEW i \in Txs
          PROVE  metadata'[b][i] = Expected(b, i)
      <4>1. CASE b = block
        BY <1>1, <1>4, <2>1, <4>1, CompleteIsExpected DEF TypeOK
      <4>2. CASE b < block
        BY <1>1, <2>1, <4>2 DEF TypeOK, SameAsSinglePeer, Blocks
      <4> QED BY <1>1, <2>1, <3>1, <4>1, <4>2 DEF TypeOK, Blocks
    <3> QED BY <3>1 DEF SameAsSinglePeer, Expected
  <2> QED BY <1>3, <2>1, <2>2, <2>3 DEF Ind
<1>5. CASE UnvalidatedMap # {}
  <2>1. phase' = "failed" /\ UNCHANGED <<block, metadata>>
    BY <1>5 DEF ValidateEnd
  <2>2. TypeOK'
    BY <1>1, <1>2, <2>1 DEF TypeOK
  <2> QED BY <1>1, <1>2, <1>3, <2>1, <2>2, SamePartial, SameBlocks DEF Ind, txResults
<1> QED BY <1>4, <1>5

\* handleResults of a result that is not merged.
LEMMA HandleInd ==
  ASSUME Ind, NEW r \in resultsChan,
         \/ handleResultsDiscard(r) \/ handleResultsLater(r) \/ handleResultsError(r)
         \/ handleResultsRejected(r)
  PROVE  Ind'
<1>1. TypeOK /\ AllHonest /\ SameAsSinglePeer /\ block \in Blocks /\ Partial
  BY DEF Ind, handleResultsDiscard, handleResultsLater, handleResultsError,
         handleResultsRejected, Waiting
<1>2. /\ UNCHANGED <<block, flags, txIDs, jobs, metadata, faults, remote>>
      /\ resultsChan' = resultsChan \ {r}
      /\ phase' \in {"wait", "waitRemaining", "remaining", "failed"}
      /\ CacheAdd(r) \/ UNCHANGED resultsCache
  BY DEF handleResultsDiscard, handleResultsLater, handleResultsError,
         handleResultsRejected, Waiting, txResults
<1>3. AllHonest' /\ resultsChan' \subseteq Results /\ resultsCache' \in [Blocks -> Seq(Results)]
  <2>1. CASE CacheAdd(r)
    BY <1>1, <1>2, <2>1, AddHonest
  <2>2. CASE UNCHANGED resultsCache
    BY <1>1, <1>2, <2>2 DEF AllHonest, Honest, TypeOK
  <2> QED BY <1>2, <2>1, <2>2
<1>4. TypeOK'
  BY <1>1, <1>2, <1>3 DEF TypeOK
<1> QED BY <1>1, <1>2, <1>3, <1>4, SamePartial, SameBlocks DEF Ind, txResults

LEMMA HandleMergeInd ==
  ASSUME Ind, NEW r \in resultsChan, handleResultsMerge(r)
  PROVE  Ind'
<1>1. TypeOK /\ AllHonest /\ SameAsSinglePeer /\ block \in Blocks /\ Partial
  BY DEF Ind, handleResultsMerge, Waiting
<1>2. /\ UNCHANGED <<block, metadata, faults, remote>>
      /\ resultsChan' = resultsChan \ {r} /\ CacheAdd(r) /\ Merge(r.flags) /\ r.block = block
      /\ ValidateResults(Append(resultsCache[block], r), r.flags)
  BY DEF handleResultsMerge
<1>3. AllHonest' /\ resultsChan' \subseteq Results /\ resultsCache' \in [Blocks -> Seq(Results)]
  BY <1>1, <1>2, AddHonest
<1>4. r.flags \in Flags /\ \A i \in Txs : r.flags[i] \in {NotValidated, Code[block][i]}
  <2>1. r \in Results
    BY <1>1 DEF TypeOK
  <2>2. r.flags \in Flags
    BY <2>1 DEF Results
  <2> QED BY <1>1, <1>2, <2>2, AcceptedHonest
<1>5. /\ Partial' /\ flags' \in AllFlags
      /\ txIDs' \in [Txs -> {TxID[b][i] : b \in Blocks, i \in Txs} \cup {NoID}]
  BY <1>1, <1>2, <1>4, MergePartial
<1>6. phase' \in {"wait", "waitRemaining", "remaining", "check"}
  BY DEF handleResultsMerge, Waiting
<1>7. jobs' \subseteq [block : Blocks, txs : SUBSET Txs, ctx : {"none", "open", "canceled"}]
  <2>1. Canceled \subseteq [block : Blocks, txs : SUBSET Txs, ctx : {"none", "open", "canceled"}]
    <3>1. ASSUME NEW j \in jobs
          PROVE  /\ j \in [block : Blocks, txs : SUBSET Txs, ctx : {"none", "open", "canceled"}]
                 /\ [j EXCEPT !.ctx = "canceled"]
                      \in [block : Blocks, txs : SUBSET Txs, ctx : {"none", "open", "canceled"}]
      <4>1. j \in [block : Blocks, txs : SUBSET Txs, ctx : {"none", "open", "canceled"}]
        BY <1>1 DEF TypeOK
      <4> QED BY <4>1
    <3> QED BY <3>1 DEF Canceled
  <2>2. jobs' = jobs \/ jobs' = Canceled
    BY DEF handleResultsMerge
  <2> QED BY <1>1, <2>1, <2>2 DEF TypeOK
<1>8. TypeOK'
  BY <1>1, <1>2, <1>3, <1>5, <1>6, <1>7 DEF TypeOK
<1> QED BY <1>1, <1>2, <1>3, <1>5, <1>8, SameBlocks DEF Ind

LEMMA TimeoutInd ==
  ASSUME Ind, Timeout
  PROVE  Ind'
<1>1. TypeOK /\ AllHonest /\ SameAsSinglePeer /\ block \in Blocks /\ Partial
  BY DEF Ind, Timeout, Hour
<1>2. /\ UNCHANGED <<block, flags, txIDs, resultsChan, resultsCache, jobs, metadata, remote>>
      /\ phase' \in {"remaining", "check"}
  BY DEF Timeout, Hour, txResults
<1>3. faults' \in 0..MaxFaults
  <2>1. faults' = faults \/ (faults < MaxFaults /\ faults' = faults + 1)
    BY DEF Timeout, Hour, Fault
  <2> QED BY <1>1, <2>1, FaultBound
<1>4. TypeOK'
  BY <1>1, <1>2, <1>3 DEF TypeOK
<1>5. AllHonest'
  BY <1>1, <1>2, SameHonest
<1> QED BY <1>1, <1>2, <1>4, <1>5, SamePartial, SameBlocks DEF Ind, txResults

\* A result of this organisation enters the channel, or one of another.
LEMMA PostInd ==
  ASSUME Ind, NEW r \in Results, Honest(r),
         resultsChan' \in {resultsChan, resultsChan \cup {r}},
         UNCHANGED <<block, phase, txResults, resultsCache, metadata>>,
         jobs' \subseteq jobs, faults' \in 0..MaxFaults, remote' \in 0..MaxRemote
  PROVE  Ind'
<1>1. TypeOK /\ AllHonest /\ SameAsSinglePeer
  BY DEF Ind
<1>2. TypeOK'
  BY <1>1 DEF TypeOK, txResults
<1>3. AllHonest'
  BY <1>1 DEF AllHonest, Honest
<1> QED BY <1>1, <1>2, <1>3, SamePartial, SameBlocks DEF Ind

LEMMA FlagsForHonest ==
  ASSUME NEW b \in Blocks, NEW S \in SUBSET Txs
  PROVE  /\ FlagsFor(b, S) \in Flags /\ NoFlags \in Flags
         /\ \A i \in Txs : FlagsFor(b, S)[i] \in {NotValidated, Code[b][i]}
         /\ \A i \in Txs : NoFlags[i] = NotValidated
  BY ValidatorAssumption DEF FlagsFor, NoFlags, Flags

\* A result with the codes of ValidateTx, or of another organisation.
LEMMA ResultHonest ==
  ASSUME NEW b \in Blocks, NEW f \in Flags, NEW e \in {"", "canceled", "error"},
         NEW from \in {"local", "org", "other"}, NEW signed \in {"yes", "no"},
         from # "other" => \A i \in Txs : f[i] \in {NotValidated, Code[b][i]}
  PROVE  Result(b, f, e, from, signed) \in Results /\ Honest(Result(b, f, e, from, signed))
<1>1. Result(b, f, e, from, signed) \in Results
  BY DEF Result, Results
<1>2. /\ Result(b, f, e, from, signed).from = from /\ Result(b, f, e, from, signed).block = b
      /\ Result(b, f, e, from, signed).flags = f
  BY DEF Result
<1> QED BY <1>1, <1>2 DEF Honest

LEMMA JobDoneInd ==
  ASSUME Ind, NEW j \in jobs, JobDone(j)
  PROVE  Ind'
<1> DEFINE good == Result(j.block, FlagsFor(j.block, j.txs), "", "local", "no")
<1> DEFINE bad == Result(j.block, NoFlags, "error", "local", "no")
<1>1. TypeOK
  BY DEF Ind
<1>2. j \in [block : Blocks, txs : SUBSET Txs, ctx : {"none", "open", "canceled"}]
  BY <1>1 DEF TypeOK
<1>3. j.block \in Blocks /\ j.txs \in SUBSET Txs
  BY <1>2
<1>4. good \in Results /\ Honest(good) /\ bad \in Results /\ Honest(bad)
  <2>1. /\ FlagsFor(j.block, j.txs) \in Flags /\ NoFlags \in Flags
        /\ \A i \in Txs : FlagsFor(j.block, j.txs)[i] \in {NotValidated, Code[j.block][i]}
        /\ \A i \in Txs : NoFlags[i] \in {NotValidated, Code[j.block][i]}
    BY <1>3, FlagsForHonest
  <2>2. good \in Results /\ Honest(good)
    BY <1>3, <2>1, ResultHonest
  <2>3. bad \in Results /\ Honest(bad)
    BY <1>3, <2>1, ResultHonest
  <2> QED BY <2>2, <2>3
<1>5. faults' \in 0..MaxFaults /\ remote' \in 0..MaxRemote
  <2>1. faults' = faults \/ (faults < MaxFaults /\ faults' = faults + 1)
    BY DEF JobDone, Fault
  <2>2. remote' \in 0..MaxRemote
    <3>1. remote' = remote
      BY DEF JobDone
    <3>2. remote \in 0..MaxRemote
      BY <1>1 DEF TypeOK
    <3> QED BY <3>1, <3>2
  <2> QED BY <1>1, <2>1, <2>2, FaultBound
<1>6. jobs' \subseteq jobs /\ UNCHANGED <<block, phase, txResults, resultsCache, metadata>>
  BY DEF JobDone
<1>7. \/ resultsChan' \in {resultsChan, resultsChan \cup {good}}
      \/ resultsChan' \in {resultsChan, resultsChan \cup {bad}}
  BY DEF JobDone
<1>8. CASE resultsChan' \in {resultsChan, resultsChan \cup {good}}
  <2> HIDE DEF good
  <2> QED BY <1>4, <1>5, <1>6, <1>8, PostInd
<1>9. CASE resultsChan' \in {resultsChan, resultsChan \cup {bad}}
  <2> HIDE DEF bad
  <2> QED BY <1>4, <1>5, <1>6, <1>9, PostInd
<1> QED BY <1>7, <1>8, <1>9

\* A result that other peers send.
LEMMA SubmitInd ==
  ASSUME Ind, NEW r \in Results, Honest(r), SubmitValidationResults(r),
         faults' \in 0..MaxFaults
  PROVE  Ind'
<1>1. remote' \in 0..MaxRemote
  BY ValidatorAssumption DEF Ind, TypeOK, SubmitValidationResults
<1>2. /\ UNCHANGED <<block, phase, txResults, resultsCache, metadata>>
      /\ jobs' \subseteq jobs /\ resultsChan' \in {resultsChan, resultsChan \cup {r}}
  BY DEF SubmitValidationResults
<1> QED BY <1>1, <1>2, PostInd

LEMMA RemoteInd ==
  ASSUME Ind, NEW b \in Blocks, NEW S \in SUBSET Txs, RemoteResults(b, S)
  PROVE  Ind'
<1> DEFINE r1 == Result(b, FlagsFor(b, S), "", "org", "yes")
<1> DEFINE r2 == Result(b, NoFlags, "canceled", "org", "no")
<1> DEFINE r3 == Result(b, FlagsFor(b, S), "", "org", "no")
<1> DEFINE r4 == Result(b, NoFlags, "error", "org", "no")
<1>1. \A r \in {r1, r2, r3, r4} : r \in Results /\ Honest(r)
  BY FlagsForHonest, ResultHonest
<1>2. faults' \in 0..MaxFaults
  <2>1. faults' = faults \/ (faults < MaxFaults /\ faults' = faults + 1)
    BY DEF RemoteResults, Fault
  <2> QED BY <2>1, FaultBound DEF Ind
<1>3. \E r \in {r1, r2, r3, r4} : SubmitValidationResults(r)
  BY DEF RemoteResults
<1> QED BY <1>1, <1>2, <1>3, SubmitInd

LEMMA OtherOrgInd ==
  ASSUME Ind, NEW b \in Blocks, NEW f \in Flags, OtherOrgResults(b, f)
  PROVE  Ind'
<1>1. /\ Result(b, f, "", "other", "yes") \in Results
      /\ Honest(Result(b, f, "", "other", "yes"))
  BY ResultHonest
<1>2. faults' \in 0..MaxFaults /\ SubmitValidationResults(Result(b, f, "", "other", "yes"))
  BY FaultBound DEF Ind, OtherOrgResults
<1> QED BY <1>1, <1>2, SubmitInd

LEMMA StutterInd == Ind /\ UNCHANGED vars => Ind'
<1> SUFFICES ASSUME Ind, UNCHANGED vars PROVE Ind'
  OBVIOUS
<1>0. AllHonest'
  BY SameHonest DEF Ind, vars
<1>1. TypeOK'
  BY DEF Ind, vars, txResults, TypeOK
<1>2. SameAsSinglePeer'
  BY SameBlocks DEF Ind, vars
<1>3. phase' # "idle" => block' \in Blocks /\ Partial'
  BY SamePartial DEF Ind, vars
<1> QED BY <1>0, <1>1, <1>2, <1>3 DEF Ind

-----------------------------------------------------------------------------
\* Every step of the committer, of its goroutines and of the other peers keeps Ind.
LEMMA NextInd == Ind /\ [Next]_vars => Ind'
<1> SUFFICES ASSUME Ind, [Next]_vars PROVE Ind'
  OBVIOUS
<1>1. ASSUME NEW S \in SUBSET Txs, Validate(S) PROVE Ind'
  BY <1>1, ValidateInd
<1>2. CASE ValidateRemaining
  BY <1>2, ValidateRemainingInd
<1>3. CASE ValidateEnd
  BY <1>3, ValidateEndInd
<1>4. CASE Timeout
  BY <1>4, TimeoutInd
<1>5. ASSUME NEW r \in resultsChan, handleResults(r) PROVE Ind'
  BY <1>5, HandleInd, HandleMergeInd DEF handleResults
<1>6. ASSUME NEW j \in jobs, JobDone(j) PROVE Ind'
  BY <1>6, JobDoneInd
<1>7. ASSUME NEW b \in Blocks, NEW S \in SUBSET Txs, RemoteResults(b, S) PROVE Ind'
  BY <1>7, RemoteInd
<1>8. ASSUME NEW b \in Blocks, NEW f \in Flags, OtherOrgResults(b, f) PROVE Ind'
  BY <1>8, OtherOrgInd
<1>9. CASE UNCHANGED vars
  BY <1>9, StutterInd
<1> QED BY <1>1, <1>2, <1>3, <1>4, <1>5, <1>6, <1>7, <1>8, <1>9 DEF Next

\* The invariant holds in every reachable state.
THEOREM Invariance == Spec => []Ind
  BY InitInd, NextInd, PTL DEF Spec

\* Types are kept, for any number of blocks, transactions, results and faults.
THEOREM TypeCorrect == Spec => []TypeOK
<1>1. Ind => TypeOK
  BY DEF Ind
<1> QED BY <1>1, Invariance, PTL

\* Distributed validation decides as one peer would: the flags that Validate sets in a
\* block do not depend on how the block was shared out, on the order, the number or the
\* sender of the results, or on what peers of other organisations answer.
THEOREM ValidatesAsSinglePeer == Spec => []SameAsSinglePeer
<1>1. Ind => SameAsSinglePeer
  BY DEF Ind
<1> QED BY <1>1, Invariance, PTL

-----------------------------------------------------------------------------
(***************************************************************************)
(* Nothing good is turned down.  As long as nothing has failed, no error   *)
(* and no unsigned answer is under way, and during the second wait every   *)
(* transaction without a flag is being validated here, or the result of    *)
(* this peer that has it is still to be received (Covered).                *)
(***************************************************************************)
Clean(r) == r.err # "error" /\ (r.from = "org" /\ r.signed # "yes" => r.flags = NoFlags)

Covers(r, i) == r.block = block /\ r.err = "" /\ r.from = "local" /\ r.flags[i] # NotValidated
Validates(j, i) == j.block = block /\ j.ctx # "canceled" /\ i \in j.txs
Covered(i) == (\E j \in jobs : Validates(j, i)) \/ (\E r \in resultsChan : Covers(r, i))

AllClean ==
  /\ \A r \in resultsChan : Clean(r)
  /\ \A b \in Blocks : \A k \in 1..Len(resultsCache[b]) : Clean(resultsCache[b][k])

NothingLost ==
  /\ phase # "failed" /\ AllClean
  /\ phase = "check" => UnvalidatedMap = {}
  /\ phase = "waitRemaining" => \A i \in UnvalidatedMap : Covered(i)

NoFaultYet == faults = 0 => NothingLost

\* The least number of a set.
LEMMA Least == ASSUME NEW T, T \subseteq Nat, T # {} PROVE \E x \in T : \A y \in T : x <= y
<1> DEFINE R == OpToRel(<, Nat)
<1>1. IsWellFoundedOn(R, Nat)
  BY NatLessThanWellFounded
<1>2. \A x, y \in Nat : y < x => <<y, x>> \in R
  BY DEF OpToRel
<1> HIDE DEF R
<1>3. PICK x \in T : \A y \in T : ~ (<<y, x>> \in R)
  BY <1>1, WFMin
<1>4. ASSUME NEW y \in T PROVE x <= y
  <2>1. x \in Nat /\ y \in Nat
    OBVIOUS
  <2>2. ~(y < x)
    BY <1>2, <1>3, <2>1
  <2> QED BY <2>1, <2>2
<1> QED BY <1>4

\* A result of this peer passes ValidateResults when no result of the organisation with the
\* same flags and without a signature is in the cache.
LEMMA OwnAccepted ==
  ASSUME TypeOK, block \in Blocks, NEW r \in Results, r.from = "local",
         \A k \in 1..Len(resultsCache[block]) :
           LET s == resultsCache[block][k]
           IN  s.flags = r.flags /\ s.from = "org" => s.signed = "yes"
  PROVE  ValidateResults(Append(resultsCache[block], r), r.flags)
<1> DEFINE c == resultsCache[block]
           s == Append(c, r)
           T == {k \in 1..Len(s) : Counts(s[k], r.flags)}
<1>1. c \in Seq(Results) /\ Len(c) \in Nat
  BY DEF TypeOK
<1>2. Len(s) = Len(c) + 1 /\ s[Len(s)] = r /\ \A k \in 1..Len(c) : s[k] = c[k]
  BY <1>1
<1>3. Len(s) \in T
  BY <1>1, <1>2 DEF Counts
<1>4. T \subseteq Nat
  BY <1>1, <1>2
<1>5. PICK k \in T : \A m \in T : k <= m
  BY <1>3, <1>4, Least
<1>6. \A m \in 1..k - 1 : ~Counts(s[m], r.flags)
  BY <1>1, <1>2, <1>4, <1>5
<1>7. s[k].from = "local" \/ s[k].signed = "yes"
  <2>1. CASE k = Len(s)
    BY <1>2, <2>1
  <2>2. CASE k \in 1..Len(c)
    <3>1. s[k] = c[k] /\ c[k] \in Results /\ Counts(c[k], r.flags)
      BY <1>1, <1>2, <1>5, <2>2
    <3>2. c[k].from \in {"local", "org", "other"}
      BY <3>1 DEF Results
    <3>3. c[k].from = "org" => c[k].signed = "yes"
      BY <2>2, <3>1 DEF Counts
    <3> QED BY <3>1, <3>2, <3>3 DEF Counts
  <2> QED BY <1>1, <1>2, <1>5, <2>1, <2>2
<1>8. Counts(s[k], r.flags) /\ k \in 1..Len(s)
  BY <1>5
<1> QED BY <1>6, <1>7, <1>8 DEF ValidateResults

\* What is merged has its flags set, and no flag is unset.
LEMMA MergeSets ==
  ASSUME TypeOK, NEW f \in Flags, Merge(f), NEW i \in Txs
  PROVE  /\ f[i] # NotValidated => flags'[i] # NotValidated
         /\ flags[i] # NotValidated => flags'[i] # NotValidated
<1>1. flags'[i] = "DUPLICATE_TXID" \/ flags'[i] = MergedFlag(i, f)
  BY DEF Merge
<1> QED BY <1>1 DEF MergedFlag, NotValidated

LEMMA NeitherSide == \A x, y : x \in Nat /\ y = x => ~(y < x) /\ ~(y > x)
  OBVIOUS

\* A step without a fault from a state without one.
LEMMA NoFaultBefore ==
  ASSUME TypeOK, faults' = 0, faults' = faults \/ (faults < MaxFaults /\ faults' = faults + 1)
  PROVE  faults = 0 /\ faults' = faults
<1>1. faults \in Nat
  BY DEF TypeOK
<1> QED BY <1>1

\* What Validate and validateRemaining take from the cache is clean.
LEMMA RepostClean ==
  ASSUME TypeOK, AllClean, block \in Blocks, Repost
  PROVE  AllClean'
<1>1. \A r \in InCache(block) : Clean(r)
  BY DEF TypeOK, AllClean, InCache
<1>2. \A r \in resultsChan' : Clean(r)
  BY <1>1 DEF AllClean, Repost
<1>3. \A b \in Blocks : \A k \in 1..Len(resultsCache'[b]) : Clean(resultsCache'[b][k])
  BY DEF TypeOK, AllClean, Repost
<1> QED BY <1>2, <1>3 DEF AllClean, Clean

\* A clean result that is received goes to the cache, or nowhere.
LEMMA ReceiveClean ==
  ASSUME TypeOK, AllClean, NEW r \in resultsChan, CacheAdd(r) \/ UNCHANGED resultsCache,
         resultsChan' = resultsChan \ {r}
  PROVE  AllClean'
<1>1. r \in Results /\ Clean(r)
  BY DEF TypeOK, AllClean
<1>2. r.block \in Blocks
  BY <1>1 DEF Results
<1>3. ASSUME NEW b \in Blocks, NEW k \in 1..Len(resultsCache'[b])
      PROVE  Clean(resultsCache'[b][k])
  <2>0. resultsCache[b] \in Seq(Results)
    BY DEF TypeOK
  <2>1. CASE resultsCache'[b] = resultsCache[b]
    BY <2>1 DEF AllClean
  <2>2. CASE resultsCache'[b] = Append(resultsCache[b], r)
    <3>1. CASE k = Len(resultsCache[b]) + 1
      BY <1>1, <2>0, <2>2, <3>1
    <3>2. CASE k \in 1..Len(resultsCache[b])
      BY <2>0, <2>2, <3>2 DEF AllClean
    <3> QED BY <2>0, <2>2, <3>1, <3>2
  <2> QED BY <2>1, <2>2 DEF CacheAdd, TypeOK
<1> QED BY <1>3 DEF AllClean, Clean

\* A result of this peer with a flag passes, as everything in the cache is clean.
LEMMA CoveringAccepted ==
  ASSUME TypeOK, AllClean, block \in Blocks, NEW r \in resultsChan, NEW i \in Txs, Covers(r, i)
  PROVE  ValidateResults(Append(resultsCache[block], r), r.flags)
<1>0. r.from = "local" /\ r.flags[i] # NotValidated
  BY DEF Covers
<1>1. r \in Results /\ r.from = "local" /\ r.flags[i] # NotValidated
  BY <1>0 DEF TypeOK
<1>2. NoFlags[i] = NotValidated
  BY DEF NoFlags
<1>3. ASSUME NEW k \in 1..Len(resultsCache[block])
      PROVE  LET s == resultsCache[block][k]
             IN  s.flags = r.flags /\ s.from = "org" => s.signed = "yes"
  BY <1>1, <1>2 DEF AllClean, Clean
<1> QED BY <1>1, <1>3, OwnAccepted

-----------------------------------------------------------------------------
LEMMA ValidateLost ==
  ASSUME Ind, NothingLost, NEW S \in SUBSET Txs, Validate(S)
  PROVE  NothingLost'
<1>1. TypeOK /\ AllClean /\ block \in Blocks /\ Repost /\ phase' = "wait"
  BY DEF Ind, NothingLost, Validate
<1>2. AllClean'
  BY <1>1, RepostClean
<1> QED BY <1>1, <1>2 DEF NothingLost

\* The rest of the block is covered by the goroutine that validateRemaining starts.
LEMMA ValidateRemainingLost ==
  ASSUME Ind, NothingLost, ValidateRemaining
  PROVE  NothingLost'
<1>1. TypeOK /\ AllClean /\ block \in Blocks
  BY DEF Ind, NothingLost, ValidateRemaining
<1>2. UnvalidatedMap' = UnvalidatedMap /\ block' = block
  BY DEF ValidateRemaining, UnvalidatedMap, txResults
<1>3. CASE UnvalidatedMap = {}
  <2>1. phase' = "check" /\ UNCHANGED <<resultsChan, resultsCache>>
    BY <1>3 DEF ValidateRemaining
  <2>2. AllClean'
    BY <1>1, <2>1 DEF AllClean, Clean
  <2> QED BY <1>2, <1>3, <2>1, <2>2 DEF NothingLost
<1>4. CASE UnvalidatedMap # {}
  <2> DEFINE j == [block |-> block, txs |-> UnvalidatedMap, ctx |-> "open"]
  <2>1. phase' = "waitRemaining" /\ Repost /\ jobs' = jobs \cup {j}
    BY <1>4 DEF ValidateRemaining
  <2>2. AllClean'
    BY <1>1, <2>1, RepostClean
  <2>3. j \in jobs' /\ j.block = block' /\ j.ctx # "canceled" /\ j.txs = UnvalidatedMap'
    BY <1>2, <2>1
  <2> HIDE DEF j
  <2>4. \A i \in UnvalidatedMap' : Covered(i)'
    BY <2>3 DEF Covered, Validates
  <2> QED BY <2>1, <2>2, <2>4 DEF NothingLost
<1> QED BY <1>3, <1>4

\* The block is complete when it is checked.
LEMMA ValidateEndLost ==
  ASSUME Ind, NothingLost, ValidateEnd
  PROVE  NothingLost'
<1>1. UnvalidatedMap = {} /\ AllClean
  BY DEF NothingLost, ValidateEnd
<1>2. phase' = "idle" /\ UNCHANGED <<resultsChan, resultsCache>>
  BY <1>1 DEF ValidateEnd
<1>3. AllClean'
  BY <1>1, <1>2 DEF AllClean, Clean
<1> QED BY <1>2, <1>3 DEF NothingLost

\* The hour ends before everything has been validated only by a fault.
LEMMA TimeoutLost ==
  ASSUME Ind, NothingLost, Timeout, faults' = faults
  PROVE  NothingLost'
<1>1. /\ AllClean /\ UNCHANGED <<block, flags, resultsChan, resultsCache, jobs>>
      /\ phase' \in {"remaining", "check"}
  BY DEF NothingLost, Timeout, Hour, txResults
<1>2. AllClean' /\ UnvalidatedMap' = UnvalidatedMap
  BY <1>1 DEF AllClean, Clean, UnvalidatedMap
<1>3. phase' = "check" => UnvalidatedMap = {}
  <2>1. SUFFICES ASSUME phase' = "check" PROVE UnvalidatedMap = {}
    OBVIOUS
  <2>2. faults \in Nat
    BY DEF Ind, TypeOK
  <2>3. phase = "waitRemaining" /\ jobs = {} /\ resultsChan = {}
    BY <2>1, <2>2 DEF Timeout, Hour, Fault
  <2> QED BY <2>3 DEF NothingLost, Covered
<1> QED BY <1>1, <1>2, <1>3 DEF NothingLost

\* What is received and not merged covers nothing: there are no errors, and a result of this
\* peer for the block is not rejected.
LEMMA HandleLost ==
  ASSUME Ind, NothingLost, NEW r \in resultsChan,
         handleResultsDiscard(r) \/ handleResultsLater(r) \/ handleResultsRejected(r)
  PROVE  NothingLost'
<1>1. TypeOK /\ AllClean /\ block \in Blocks
  BY DEF Ind, NothingLost, handleResultsDiscard, handleResultsLater, handleResultsRejected, Waiting
<1>2. /\ UNCHANGED <<block, phase, flags, jobs>> /\ resultsChan' = resultsChan \ {r}
      /\ CacheAdd(r) \/ UNCHANGED resultsCache
      /\ Waiting
  BY DEF handleResultsDiscard, handleResultsLater, handleResultsRejected, txResults
<1>3. AllClean'
  BY <1>1, <1>2, ReceiveClean
<1>4. UnvalidatedMap' = UnvalidatedMap /\ UnvalidatedMap \subseteq Txs
  BY <1>2 DEF UnvalidatedMap
<1>5. ASSUME NEW i \in Txs PROVE ~Covers(r, i)
  <2>1. r \in Results /\ block \in Nat
    BY <1>1 DEF TypeOK, Blocks
  <2>2. r.block \in Blocks
    BY <2>1 DEF Results
  <2>5. r.block \in Nat
    BY <2>2 DEF Blocks
  <2>3. SUFFICES ASSUME Covers(r, i) PROVE FALSE
    OBVIOUS
  <2>4. ValidateResults(Append(resultsCache[block], r), r.flags)
    BY <1>1, <2>3, CoveringAccepted
  <2>6. r.block = block /\ r.err = ""
    BY <2>3 DEF Covers
  <2>7. ~(r.block < block) /\ ~(r.block > block)
    BY <2>1, <2>6, NeitherSide, Zenon
  <2> QED BY <2>4, <2>6, <2>7
          DEF handleResultsDiscard, handleResultsLater, handleResultsRejected
<1>6. ASSUME NEW i \in Txs, Covered(i) PROVE Covered(i)'
  BY <1>2, <1>5, <1>6 DEF Covered, Covers, Validates
<1> QED BY <1>2, <1>3, <1>4, <1>6 DEF NothingLost, Waiting

\* What is merged has its flags set; the rest stays covered.
LEMMA HandleMergeLost ==
  ASSUME Ind, NothingLost, NEW r \in resultsChan, handleResultsMerge(r)
  PROVE  NothingLost'
<1>1. TypeOK /\ AllClean /\ block \in Blocks
  BY DEF Ind, NothingLost, handleResultsMerge, Waiting
<1>2. /\ block' = block /\ resultsChan' = resultsChan \ {r} /\ CacheAdd(r) /\ Merge(r.flags)
      /\ Waiting
  BY DEF handleResultsMerge
<1>3. AllClean'
  BY <1>1, <1>2, ReceiveClean
<1>4. r.flags \in Flags
  <2>1. r \in Results
    BY <1>1 DEF TypeOK
  <2> QED BY <2>1 DEF Results
<1>5. \A i \in Txs : /\ r.flags[i] # NotValidated => flags'[i] # NotValidated
                     /\ flags[i] # NotValidated => flags'[i] # NotValidated
  BY <1>1, <1>2, <1>4, MergeSets
<1>6. CASE \E i \in Txs : flags'[i] = NotValidated
  <2>1. UNCHANGED <<phase, jobs>>
    BY <1>6 DEF handleResultsMerge
  <2>2. ASSUME NEW i \in UnvalidatedMap', Covered(i) PROVE Covered(i)'
    <3>1. ~Covers(r, i)
      BY <1>5 DEF UnvalidatedMap, Covers
    <3> QED BY <1>2, <2>1, <2>2, <3>1 DEF Covered, Covers, Validates
  <2>3. UnvalidatedMap' \subseteq UnvalidatedMap
    BY <1>5 DEF UnvalidatedMap
  <2> QED BY <1>2, <1>3, <2>1, <2>2, <2>3 DEF NothingLost, Waiting
<1>7. CASE \A i \in Txs : flags'[i] # NotValidated
  <2>1. phase' \in {"remaining", "check"}
    BY <1>7 DEF handleResultsMerge
  <2>2. UnvalidatedMap' = {}
    BY <1>7 DEF UnvalidatedMap
  <2> QED BY <1>3, <2>1, <2>2 DEF NothingLost
<1> QED BY <1>6, <1>7

\* A goroutine of this peer ends: what it covered, its result covers.
LEMMA JobDoneLost ==
  ASSUME Ind, NothingLost, NEW j \in jobs, JobDone(j), faults' = faults
  PROVE  NothingLost'
<1> DEFINE good == Result(j.block, FlagsFor(j.block, j.txs), "", "local", "no")
<1>1. TypeOK /\ AllClean /\ faults \in Nat
  BY DEF Ind, NothingLost, TypeOK
<1>0. ~(faults' = faults + 1)
  BY <1>1
<1>2. /\ jobs' = jobs \ {j} /\ UNCHANGED <<block, phase, flags, resultsCache>>
      /\ \/ resultsChan' = resultsChan \cup {good}
         \/ j.ctx = "canceled" /\ UNCHANGED resultsChan
  BY <1>0, Zenon DEF JobDone, Fault, txResults
<1>3. /\ good.block = j.block /\ good.flags = FlagsFor(j.block, j.txs) /\ good.err = ""
      /\ good.from = "local"
  BY DEF Result
<1> HIDE DEF good
<1>4. AllClean'
  <2>1. Clean(good)
    BY <1>3 DEF Clean
  <2> QED BY <1>1, <1>2, <2>1 DEF AllClean, Clean
<1>5. UnvalidatedMap' = UnvalidatedMap /\ UnvalidatedMap \subseteq Txs
  BY <1>2 DEF UnvalidatedMap
<1>6. ASSUME NEW i \in Txs, Covered(i) PROVE Covered(i)'
  <2>1. CASE \E r \in resultsChan : Covers(r, i)
    BY <1>2, <2>1 DEF Covered, Covers
  <2>2. CASE \E k \in jobs : k # j /\ Validates(k, i)
    BY <1>2, <2>2 DEF Covered, Validates
  <2>3. CASE Validates(j, i)
    <3>1. /\ resultsChan' = resultsChan \cup {good}
          /\ j.block = block /\ i \in j.txs
      BY <1>2, <2>3 DEF Validates
    <3>2. block \in Blocks
      <4>1. j \in [block : Blocks, txs : SUBSET Txs, ctx : {"none", "open", "canceled"}]
        BY <1>1 DEF TypeOK
      <4> QED BY <3>1, <4>1
    <3>3. good.flags[i] = Code[block][i]
      BY <1>3, <3>1 DEF FlagsFor
    <3>4. Code[block][i] # NotValidated
      BY <3>2, ValidatorAssumption DEF Codes, NotValidated
    <3>5. good.block = block' /\ good.err = "" /\ good.from = "local"
          /\ good.flags[i] # NotValidated
      BY <1>2, <1>3, <3>1, <3>3, <3>4
    <3> QED BY <3>1, <3>5 DEF Covered, Covers
  <2> QED BY <1>6, <2>1, <2>2, <2>3 DEF Covered
<1> QED BY <1>1, <1>2, <1>4, <1>5, <1>6 DEF NothingLost

\* Without a fault other peers send nothing but clean results.
LEMMA SubmitLost ==
  ASSUME NothingLost, NEW r, Clean(r), SubmitValidationResults(r)
  PROVE  NothingLost'
<1>1. /\ UNCHANGED <<block, phase, flags, resultsCache, jobs>>
      /\ resultsChan' = resultsChan \cup {r} /\ AllClean
  BY DEF NothingLost, SubmitValidationResults, txResults
<1>2. AllClean'
  BY <1>1 DEF AllClean, Clean
<1>3. UnvalidatedMap' = UnvalidatedMap
  BY <1>1 DEF UnvalidatedMap
<1>4. ASSUME NEW i, Covered(i) PROVE Covered(i)'
  BY <1>1, <1>4 DEF Covered, Covers, Validates
<1> QED BY <1>1, <1>2, <1>3, <1>4 DEF NothingLost

LEMMA RemoteLost ==
  ASSUME Ind, NothingLost, NEW b \in Blocks, faults' = faults,
         (\E S \in SUBSET Txs : RemoteResults(b, S)) \/ (\E f \in Flags : OtherOrgResults(b, f))
  PROVE  NothingLost'
<1>1. faults \in Nat
  BY DEF Ind, TypeOK
<1>2. ~(faults' = faults + 1)
  BY <1>1
<1>3. ASSUME NEW f PROVE /\ Clean(Result(b, f, "", "org", "yes"))
                         /\ Clean(Result(b, NoFlags, "canceled", "org", "no"))
                         /\ Clean(Result(b, f, "", "other", "yes"))
  BY DEF Clean, Result
<1>4. \/ \E S \in SUBSET Txs :
           \/ SubmitValidationResults(Result(b, FlagsFor(b, S), "", "org", "yes"))
           \/ SubmitValidationResults(Result(b, NoFlags, "canceled", "org", "no"))
      \/ \E f \in Flags : SubmitValidationResults(Result(b, f, "", "other", "yes"))
  BY <1>2 DEF RemoteResults, OtherOrgResults, Fault
<1> QED BY <1>3, <1>4, SubmitLost

-----------------------------------------------------------------------------
LEMMA InitNoFault == Init => NoFaultYet
<1> SUFFICES ASSUME Init PROVE NothingLost
  BY DEF NoFaultYet
<1>1. phase = "idle" /\ resultsChan = {} /\ \A b \in Blocks : Len(resultsCache[b]) = 0
  BY DEF Init
<1>2. AllClean
  BY <1>1 DEF AllClean
<1> QED BY <1>1, <1>2 DEF NothingLost

LEMMA NextNoFault == Ind /\ NoFaultYet /\ [Next]_vars => NoFaultYet'
<1> SUFFICES ASSUME Ind, NoFaultYet, [Next]_vars, faults' = 0 PROVE NothingLost'
  BY DEF NoFaultYet
<1>0. faults' = faults \/ (faults < MaxFaults /\ faults' = faults + 1)
  BY DEF Next, vars, Validate, ValidateRemaining, ValidateEnd, Timeout, Hour, Fault, handleResults,
         handleResultsDiscard, handleResultsLater, handleResultsError, handleResultsRejected,
         handleResultsMerge, JobDone, RemoteResults, OtherOrgResults
<1>1. faults' = faults /\ NothingLost
  BY <1>0, NoFaultBefore DEF Ind, NoFaultYet
<1>2. ASSUME NEW S \in SUBSET Txs, Validate(S) PROVE NothingLost'
  BY <1>1, <1>2, ValidateLost
<1>3. CASE ValidateRemaining
  BY <1>1, <1>3, ValidateRemainingLost
<1>4. CASE ValidateEnd
  BY <1>1, <1>4, ValidateEndLost
<1>5. CASE Timeout
  BY <1>1, <1>5, TimeoutLost
<1>6. ASSUME NEW r \in resultsChan, handleResults(r) PROVE NothingLost'
  <2>1. ~handleResultsError(r)
    BY <1>1 DEF NothingLost, AllClean, Clean, handleResultsError
  <2> QED BY <1>1, <1>6, <2>1, HandleLost, HandleMergeLost DEF handleResults
<1>7. ASSUME NEW j \in jobs, JobDone(j) PROVE NothingLost'
  BY <1>1, <1>7, JobDoneLost
<1>8. ASSUME NEW b \in Blocks,
             (\E S \in SUBSET Txs : RemoteResults(b, S)) \/ (\E f \in Flags : OtherOrgResults(b, f))
      PROVE  NothingLost'
  BY <1>1, <1>8, RemoteLost
<1>9. CASE UNCHANGED vars
  BY <1>1, <1>9 DEF vars, txResults, NothingLost, AllClean, Clean, UnvalidatedMap, Covered, Covers, Validates
<1> QED BY <1>2, <1>3, <1>4, <1>5, <1>6, <1>7, <1>8, <1>9 DEF Next

\* What this peer has validated itself is merged when it is received.
LEMMA OwnMerged == ASSUME Ind, NEW r \in resultsChan PROVE OwnResultAccepted(r)
<1>1. TypeOK /\ r \in Results
  BY DEF Ind, TypeOK
<1>0. r.block \in Blocks /\ r.flags \in Flags
  BY <1>1 DEF Results
<1>2. r.block \in Blocks /\ r.block \in Nat /\ r.flags \in Flags
  BY <1>0 DEF Blocks
<1> SUFFICES ASSUME r.from = "local", r.block = block, r.err = "", handleResults(r),
                    \A s \in InCache(block) : s.flags = r.flags /\ s.from = "org" => s.signed = "yes",
                    NEW i \in Txs, r.flags[i] # NotValidated
             PROVE  flags'[i] # NotValidated
  BY DEF OwnResultAccepted
<1>3. block \in Blocks /\ block \in Nat
  BY <1>2, Zenon
<1>4. ValidateResults(Append(resultsCache[block], r), r.flags)
  BY <1>1, <1>3, OwnAccepted DEF InCache
<1>5. handleResultsMerge(r)
  <2>1. ~(r.block < block) /\ ~(r.block > block)
    BY <1>3, NeitherSide, Zenon
  <2> QED BY <1>4, <2>1 DEF handleResults, handleResultsDiscard, handleResultsLater,
             handleResultsError, handleResultsRejected
<1> QED BY <1>1, <1>2, <1>5, MergeSets DEF handleResultsMerge

\* For any number of blocks, transactions, results and faults: Validate fails only after a
\* fault, in whatever order results come, and what this peer has validated itself is accepted
\* unless an unsigned result with the same flags came before it (Validate, ValidateResults).
THEOREM FailsOnlyOnFault == Spec => RejectsOnlyOnFault
<1>1. Ind /\ NoFaultYet /\ Ind' /\ NoFaultYet'
        => /\ phase' = "failed" => faults' > 0
           /\ \A r \in resultsChan : OwnResultAccepted(r)
  <2> SUFFICES ASSUME Ind, NoFaultYet', Ind' PROVE phase' = "failed" => faults' > 0
    BY OwnMerged
  <2>1. faults' \in Nat
    BY DEF Ind, TypeOK
  <2> QED BY <2>1 DEF NoFaultYet, NothingLost
<1> QED BY <1>1, InitInd, NextInd, InitNoFault, NextNoFault, PTL DEF Spec, RejectsOnlyOnFault
=============================================================================
