----------------------------- MODULE LedgerReset -----------------------------
(***************************************************************************)
(* The offline commands "peer node rollback" and "peer node reset" of a    *)
(* committer on one ledger: cdbblkstorage/rollback.go and reset.go, called *)
(* by mod/peer/ledger/kvledger.  A command excludes the peer and the other *)
(* command by a file lock, and may die between any two of its accesses to  *)
(* CouchDB (an error of CouchDB ends it in the same way).                  *)
(*                                                                         *)
(* A block is its number.  A block document's id is the number in decimal  *)
(* (blockKeyPrefix is empty), and CouchDB orders ids as strings.           *)
(***************************************************************************)
EXTENDS Naturals, Sequences

CONSTANTS MaxBlock,   \* number of the last block that the orderer has
          Ops,        \* the commands that are run, among "rollback" and "reset"
          MaxOps, MaxCrashes

ASSUME ResetAssumption == /\ MaxBlock \in Nat /\ MaxOps \in Nat /\ MaxCrashes \in Nat
                          /\ Ops \subseteq {"rollback", "reset"}

None == MaxBlock + 1      \* no document, or an empty chain
Nums == 0..MaxBlock

VARIABLES
  db,          \* whether the blocks database exists
  docs,        \* the block documents
  txns,        \* the blocks whose transaction documents exist
  checkpoint,  \* last block number of the checkpoint document
  preReset,    \* height in the __preResetHeight document; 0 when there is none
  pc,          \* what runs, and how far it got
  target, victims, height, \* locals of the running command
  reached,     \* history: the greatest height that the ledger ever had
  ops,
  interrupted  \* history: the commands that were interrupted

couch == <<db, docs, txns, checkpoint, preReset>>
locals == <<target, victims, height>>
vars == <<couch, pc, locals, reached, ops, interrupted>>

-----------------------------------------------------------------------------
\* FormatUint to base 10, which blockNumberToKey calls, and the order CouchDB gives the ids.
\* (FormatUint, too, treats a number of one digit apart.)
FormatUint[n \in Nat] == IF n < 10 THEN <<n>> ELSE Append(FormatUint[n \div 10], n % 10)

blockNumberToKey(n) == IF n < 10 THEN <<n>> ELSE FormatUint[n]

KeyLess(a, b) ==
  LET j == blockNumberToKey(a)
      k == blockNumberToKey(b)
  IN \E n \in 0..Len(k) - 1 :
       /\ n <= Len(j) /\ \A m \in 1..n : j[m] = k[m]
       /\ n = Len(j) \/ j[n + 1] < k[n + 1]

\* readDocRange: the first key is included and the last is not.  CouchDB refuses a range
\* whose first key is greater than its last.
RangeRefused(first, last) == KeyLess(last, first)

readDocRange(first, last) == {n \in docs : ~KeyLess(n, first) /\ KeyLess(n, last)}

\* newCDBBlockStore panics when the block that the checkpoint names is missing.
CanOpen == checkpoint = None \/ checkpoint \in docs
LastBlockNumber == IF checkpoint = None THEN 0 ELSE checkpoint

-----------------------------------------------------------------------------
\* The peer is down and its ledger holds some blocks.
Init == /\ db = "present" /\ checkpoint \in Nums
        /\ docs = 0..checkpoint /\ txns = 0..checkpoint
        /\ preReset = 0 /\ pc = "down"
        /\ target = 0 /\ victims = {} /\ height = 0
        /\ reached = checkpoint + 1
        /\ ops = 0 /\ interrupted = <<>>

\* ValidateRollbackParams, which opens the store to learn its last block.
ValidateRollbackParams(t) ==
  /\ pc = "down" /\ "rollback" \in Ops /\ ops < MaxOps
  /\ db = "present"
  /\ ops' = ops + 1
  /\ \/ ~CanOpen /\ pc' = "panicked" /\ UNCHANGED target
     \/ CanOpen /\ LastBlockNumber > t /\ pc' = "rollback:record" /\ target' = t
  /\ UNCHANGED <<couch, victims, height, reached, interrupted>>

\* recordHeightIfGreaterThanPreviousRecording, the first step of both commands.
RecordedHeight == IF LastBlockNumber + 1 > preReset THEN LastBlockNumber + 1 ELSE preReset

recordHeightIfGreaterThanPreviousRecording ==
  /\ pc \in {"rollback:record", "reset:record"}
  /\ \/ ~CanOpen /\ pc' = "panicked" /\ UNCHANGED preReset
     \/ /\ CanOpen
        /\ preReset' = RecordedHeight
        /\ pc' = IF pc = "rollback:record" THEN "rollback:read" ELSE "reset:read"
  /\ UNCHANGED <<db, docs, txns, checkpoint, locals, reached, ops, interrupted>>

\* The blocks to delete; an error when CouchDB refuses the range.
RollbackRead ==
  /\ pc = "rollback:read"
  /\ \/ /\ RangeRefused(target + 1, LastBlockNumber + 1)
        /\ pc' = "down" /\ UNCHANGED victims
     \/ /\ ~RangeRefused(target + 1, LastBlockNumber + 1)
        /\ victims' = readDocRange(target + 1, LastBlockNumber + 1)
        /\ pc' = "rollback:delete"
  /\ UNCHANGED <<couch, target, height, reached, ops, interrupted>>

\* BatchUpdateDocuments: the documents of a batch are deleted one after the other.
RollbackDelete(n) ==
  /\ pc = "rollback:delete"
  /\ n \in victims
  /\ docs' = docs \ {n}
  /\ victims' = victims \ {n}
  /\ UNCHANGED <<db, txns, checkpoint, preReset, pc, target, height, reached, ops, interrupted>>

\* CheckpointBlock saves the target block as the last one.
RollbackCheckpoint ==
  /\ pc = "rollback:delete"
  /\ victims = {}
  /\ target \in docs
  /\ checkpoint' = target
  /\ pc' = "rolledback"
  /\ UNCHANGED <<db, docs, txns, preReset, locals, reached, ops, interrupted>>

Rolledback == /\ pc = "rolledback" /\ pc' = "down"
              /\ UNCHANGED <<couch, locals, reached, ops, interrupted>>

-----------------------------------------------------------------------------
\* ResetBlockStore finds the ledgers by the names of their databases.
ResetBlockStore ==
  /\ pc = "down" /\ "reset" \in Ops /\ ops < MaxOps
  /\ db = "present"
  /\ pc' = "reset:record"
  /\ ops' = ops + 1
  /\ UNCHANGED <<couch, locals, reached, interrupted>>

\* The genesis block and LoadPreResetHeight; without a genesis block the command fails.
ResetRead ==
  /\ pc = "reset:read"
  /\ height' = preReset
  /\ pc' = IF 0 \in docs THEN "reset:drop" ELSE "down"
  /\ UNCHANGED <<couch, target, victims, reached, ops, interrupted>>

ResetDropBlocks ==
  /\ pc = "reset:drop"
  /\ db' = "absent" /\ docs' = {} /\ checkpoint' = None /\ preReset' = 0
  /\ pc' = "reset:dropTxns"
  /\ UNCHANGED <<txns, locals, reached, ops, interrupted>>

ResetDropTxns ==
  /\ pc = "reset:dropTxns"
  /\ txns' = {}
  /\ pc' = "reset:create"
  /\ UNCHANGED <<db, docs, checkpoint, preReset, locals, reached, ops, interrupted>>

\* createCommitterBlockStore, then AddBlock of the genesis block.
ResetCreate ==
  /\ pc = "reset:create"
  /\ db' = "present"
  /\ pc' = "reset:genesis"
  /\ UNCHANGED <<docs, txns, checkpoint, preReset, locals, reached, ops, interrupted>>

\* Mutant: the genesis block is stored without its transactions.
ResetAddGenesis_NoTxns ==
  /\ pc = "reset:genesis"
  /\ docs' = {0} /\ checkpoint' = 0
  /\ pc' = "reset:height"
  /\ UNCHANGED <<db, txns, preReset, locals, reached, ops, interrupted>>

ResetAddGenesis ==
  /\ pc = "reset:genesis"
  /\ docs' = {0} /\ txns' = {0} /\ checkpoint' = 0
  /\ pc' = "reset:height"
  /\ UNCHANGED <<db, preReset, locals, reached, ops, interrupted>>

ResetSaveHeight ==
  /\ pc = "reset:height"
  /\ preReset' = height
  /\ pc' = "down"
  /\ UNCHANGED <<db, docs, txns, checkpoint, locals, reached, ops, interrupted>>

\* The command dies, or CouchDB answers it with an error.
Crash ==
  /\ pc \notin {"down", "peer", "panicked"}
  /\ Len(interrupted) < MaxCrashes
  /\ interrupted' = Append(interrupted, pc)
  /\ pc' = "down"
  /\ UNCHANGED <<couch, locals, reached, ops>>

-----------------------------------------------------------------------------
\* The peer starts: it opens the ledger's store, creating what does not exist.
PeerStart ==
  /\ pc = "down"
  /\ pc' = IF CanOpen THEN "peer" ELSE "panicked"
  /\ db' = "present"
  /\ UNCHANGED <<docs, txns, checkpoint, preReset, locals, reached, ops, interrupted>>

Height == IF checkpoint = None THEN 0 ELSE checkpoint + 1

\* AddBlock of the next block that the orderer has (BlockStore has its steps).
PeerAddBlock ==
  /\ pc = "peer"
  /\ Height \in Nums
  /\ docs' = docs \cup {Height} /\ txns' = txns \cup {Height} /\ checkpoint' = Height
  /\ reached' = IF Height + 1 > reached THEN Height + 1 ELSE reached
  /\ UNCHANGED <<db, preReset, pc, locals, ops, interrupted>>

\* The peer's startup code clears the recorded height once the ledger is back at it.
ClearPreResetHeight ==
  /\ pc = "peer"
  /\ preReset # 0 /\ Height >= preReset
  /\ preReset' = 0
  /\ UNCHANGED <<db, docs, txns, checkpoint, pc, locals, reached, ops, interrupted>>

PeerStop == /\ pc = "peer" /\ pc' = "down"
            /\ UNCHANGED <<couch, locals, reached, ops, interrupted>>

-----------------------------------------------------------------------------
Rollback == \/ \E t \in Nums : ValidateRollbackParams(t)
            \/ RollbackRead \/ (\E n \in Nums : RollbackDelete(n)) \/ RollbackCheckpoint
            \/ Rolledback
Reset == \/ ResetBlockStore \/ ResetRead \/ ResetDropBlocks \/ ResetDropTxns
         \/ ResetCreate \/ ResetAddGenesis \/ ResetSaveHeight

Next == \/ Rollback \/ Reset \/ recordHeightIfGreaterThanPreviousRecording \/ Crash
        \/ PeerStart \/ PeerAddBlock \/ ClearPreResetHeight \/ PeerStop

Spec == Init /\ [][Next]_vars

-----------------------------------------------------------------------------
Places == {"down", "panicked", "peer", "rolledback", "rollback:record", "rollback:read",
           "rollback:delete", "reset:record", "reset:read", "reset:drop", "reset:dropTxns",
           "reset:create", "reset:genesis", "reset:height"}

\* Every variable holds a value of its kind.
TypeOK ==
  /\ db \in {"absent", "present"} /\ docs \subseteq Nums /\ txns \subseteq Nums
  /\ checkpoint \in Nums \cup {None} /\ preReset \in 0..MaxBlock + 1
  /\ pc \in Places /\ target \in Nums /\ victims \subseteq Nums
  /\ height \in 0..MaxBlock + 1 /\ reached \in 0..MaxBlock + 1
  /\ ops \in 0..MaxOps /\ interrupted \in Seq(Places) /\ Len(interrupted) <= MaxCrashes

\* Whether a command died in one of these places.
DiedIn(places) == \E i \in 1..Len(interrupted) : interrupted[i] \in places

\* A peer that runs below a height it had before knows that height: the recorded height
\* survives until the ledger is back at it, over repeated and interrupted commands
\* (recordHeightIfGreaterThanPreviousRecording, ClearPreResetHeight).  The one exception is
\* a reset that dies between dropping the database and saving the height in the new one.
HeightRemembered ==
  DiedIn({"reset:dropTxns", "reset:create", "reset:genesis", "reset:height"})
    \/ (pc = "peer" /\ Height < reached => preReset = reached)

\* The peer never serves a chain with a hole, or with blocks whose transactions cannot be
\* found, whatever was run before and wherever it was interrupted, unless a rollback died
\* while it was deleting blocks, or the ledger has, or had before a rollback, more than ten
\* blocks: a range of keys then may hold numbers below its first (2 is between 11 and 21).
ChainComplete ==
  DiedIn({"rollback:delete"})
    \/ (pc = "peer" /\ Height <= 10 /\ preReset <= 10 => \A n \in Nums : n < Height => n \in docs \cap txns)

\* No start of the peer and no command finds a ledger that newCDBBlockStore cannot open,
\* with the same exception: the checkpoint then names a block that is gone, and neither the
\* peer nor a repeated command gets past it.
OpensUnlessDeleting == DiedIn({"rollback:delete"}) \/ pc # "panicked"

\* Up to nine blocks (from ten on the numbers, compared as strings, are not in order and
\* blocks beyond the target may stay), a rollback that succeeds leaves exactly the blocks up to its target,
\* also when it repeats one that was interrupted.
RollbackExact ==
  pc = "rolledback" /\ preReset < 10 /\ ~DiedIn({"rollback:delete"}) => docs = 0..target

\* Whatever commands were run, and wherever one of them died, the peer finds a ledger that it
\* can open and that is complete, and knows the height it had (Rollback, Reset), with the
\* exceptions above.
LedgerIntact == TypeOK /\ HeightRemembered /\ ChainComplete /\ OpensUnlessDeleting /\ RollbackExact

=============================================================================
