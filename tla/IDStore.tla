------------------------------- MODULE IDStore -------------------------------
(***************************************************************************)
(* The inventory of the ledgers of a peer (pkg/idstore/store_impl.go): a   *)
(* CouchDB database with a metadata document, which names the ledger that  *)
(* is under construction and the format, and one document for each ledger. *)
(*                                                                         *)
(* Creating a ledger sets the flag, commits the genesis block, saves the   *)
(* ledger's document and clears the flag; the peer may die between any two *)
(* of these and looks at the flag when it starts.  Only the peer and the   *)
(* upgrade command, which exclude each other, write the metadata.  The     *)
(* pause and resume commands take no lock and run at any time.  SaveDoc    *)
(* writes whatever revision it is given: on a conflict it is retried with  *)
(* the current one.                                                        *)
(***************************************************************************)
EXTENDS Naturals, FiniteSets

CONSTANTS Ledgers,
          NoLedger,   \* the empty ledger ID
          Commands,   \* the pause and resume commands that may run side by side
          MaxDeaths   \* of the peer and of the upgrade command

None == "none"
ACTIVE == "ACTIVE"
INACTIVE == "INACTIVE"
Statuses == {ACTIVE, INACTIVE}
PreviousFormat == ""
CurrentFormat == "2.0"

VARIABLES
    db,       \* whether the database exists
    metadata, \* the metadata document, or NoMetadata
    doc,      \* ledger -> the status in its document, "" if it has no status, or None
    other,    \* ledger -> the same for a document whose key is the bare ledger ID
    genesis,  \* the ledgers whose genesis block is in the block store
    pc, ledger, \* where the peer or the upgrade command is, and the ledger it creates
    results,  \* the ledgers that the upgrade is still to activate
    command,  \* the document that a pause or resume command has read, and its new status
    old,      \* the ledgers that were there in the previous format (history)
    asked,    \* ledger -> what the last command for it, or its creation, asked for (history)
    died      \* where the peer or the upgrade died (history)

vars == <<db, metadata, doc, other, genesis, pc, ledger, results, command, old, asked, died>>
documents == <<metadata, doc, other>>
history == <<old, asked>>

NoMetadata == [under_construction |-> NoLedger, format |-> None]
NoCommand == [ledger |-> NoLedger, status |-> None]

\* A new peer, or the ledgers of a peer of the previous format, which had no status.
Init ==
    /\ old \in SUBSET Ledgers /\ genesis = old
    /\ db = (old # {})
    /\ metadata = IF db THEN [under_construction |-> NoLedger, format |-> PreviousFormat] ELSE NoMetadata
    /\ doc = [l \in Ledgers |-> IF l \in old THEN "" ELSE None] /\ other = [l \in Ledgers |-> None]
    /\ pc = "down" /\ ledger = NoLedger /\ results = {} /\ command = [c \in Commands |-> NoCommand]
    /\ asked = doc /\ died = {}

Goto(label) == pc' = label

---------------------------------------------------------------------------
(* OpenIDStore of a committer. *)

\* isEmpty looks for any database of the peer.
isEmpty == ~db

newCommitterStore ==
    /\ pc = "down" /\ Goto(IF isEmpty THEN "create" ELSE "recover")
    /\ UNCHANGED <<db, documents, genesis, ledger, results, command, history, died>>

createCouchDatabase ==
    /\ pc = "create" /\ Goto("metadata")
    /\ db' = TRUE
    /\ UNCHANGED <<documents, genesis, ledger, results, command, history, died>>

createMetadataDoc(l, format) == [under_construction |-> l, format |-> format]

saveNewMetadata ==
    /\ pc = "metadata" /\ Goto("recover")
    /\ metadata' = createMetadataDoc(NoLedger, CurrentFormat)
    /\ UNCHANGED <<db, doc, other, genesis, ledger, results, command, history, died>>

---------------------------------------------------------------------------
(* The operations, and the ledger provider that calls them. *)

GetFormat == IF metadata.format = None THEN PreviousFormat ELSE metadata.format

GetUnderConstructionFlag == metadata.under_construction

SetUnderConstructionFlag(l) == metadata' = createMetadataDoc(l, GetFormat)

\* Mutant: the flag stays.
UnsetUnderConstructionFlag_Kept == UNCHANGED metadata

UnsetUnderConstructionFlag == metadata' = createMetadataDoc(NoLedger, GetFormat)

LedgerIDExists(l) == doc[l] # None

\* CreateLedgerID up to the clearing of the flag; its caller stops the peer on an error.
CreateLedgerID(l) ==
    IF LedgerIDExists(l) THEN Goto("panicked") /\ UNCHANGED <<doc, asked>>
    ELSE /\ doc' = [doc EXCEPT ![l] = ACTIVE] /\ asked' = [asked EXCEPT ![l] = ACTIVE]
         /\ Goto("unset")

\* What the provider does about an unfinished ledger when it starts.
Recover ==
    LET l == GetUnderConstructionFlag
    IN  /\ pc = "recover"
        /\ IF l = NoLedger THEN Goto("up") /\ UNCHANGED <<documents, asked>>
           ELSE IF l \notin genesis
                THEN UnsetUnderConstructionFlag /\ Goto("up") /\ UNCHANGED <<doc, other, asked>>
                ELSE CreateLedgerID(l) /\ UNCHANGED <<metadata, other>>
        /\ UNCHANGED <<db, genesis, ledger, results, command, old, died>>

Create(l) ==
    /\ pc = "up" /\ ~LedgerIDExists(l) /\ Goto("genesis")
    /\ SetUnderConstructionFlag(l)
    /\ ledger' = l
    /\ UNCHANGED <<db, doc, other, genesis, results, command, history, died>>

CommitGenesis ==
    /\ pc = "genesis" /\ Goto("id")
    /\ genesis' = genesis \cup {ledger}
    /\ UNCHANGED <<db, documents, ledger, results, command, history, died>>

SaveLedgerID ==
    /\ pc = "id" /\ CreateLedgerID(ledger)
    /\ UNCHANGED <<db, metadata, other, genesis, ledger, results, command, old, died>>

ClearFlag ==
    /\ pc = "unset" /\ Goto("up")
    /\ UnsetUnderConstructionFlag
    /\ UNCHANGED <<db, doc, other, genesis, ledger, results, command, history, died>>

Stop ==
    /\ pc = "up" /\ Goto("down")
    /\ UNCHANGED <<db, documents, genesis, ledger, results, command, history, died>>

Die ==
    /\ pc \notin {"down", "up", "panicked"} /\ Cardinality(died) < MaxDeaths /\ Goto("down")
    /\ died' = died \cup {pc}
    /\ results' = {}
    /\ UNCHANGED <<db, documents, genesis, ledger, command, history>>

---------------------------------------------------------------------------
(* Pause and resume.  A command for a ledger without a document fails. *)

\* The command reads the document, and has nothing to do if it has the status.
UpdateLedgerStatus(c, l, status) ==
    /\ command[c] = NoCommand /\ LedgerIDExists(l)
    /\ IF doc[l] = status
       THEN asked' = [asked EXCEPT ![l] = status] /\ UNCHANGED command
       ELSE command' = [command EXCEPT ![c] = [ledger |-> l, status |-> status]] /\ UNCHANGED asked
    /\ UNCHANGED <<db, documents, genesis, pc, ledger, results, old, died>>

\* Mutant: the document is saved with the ledger ID as its key.
saveStatus_BareKey(c) ==
    /\ command[c] # NoCommand /\ command' = [command EXCEPT ![c] = NoCommand]
    /\ other' = [other EXCEPT ![command[c].ledger] = command[c].status]
    /\ asked' = [asked EXCEPT ![command[c].ledger] = command[c].status]
    /\ UNCHANGED <<db, metadata, doc, genesis, pc, ledger, results, old, died>>

saveStatus(c) ==
    /\ command[c] # NoCommand /\ command' = [command EXCEPT ![c] = NoCommand]
    /\ doc' = [doc EXCEPT ![command[c].ledger] = command[c].status]
    /\ asked' = [asked EXCEPT ![command[c].ledger] = command[c].status]
    /\ UNCHANGED <<db, metadata, other, genesis, pc, ledger, results, old, died>>

---------------------------------------------------------------------------
(* UpgradeFormat: the metadata first, then the ledgers that a query finds. *)

checkUpgradeEligibility == db /\ GetFormat = PreviousFormat

UpgradeFormat ==
    /\ pc = "down" /\ checkUpgradeEligibility /\ Goto("upgrade")
    /\ metadata' = createMetadataDoc(GetUnderConstructionFlag, CurrentFormat)
    /\ results' = {l \in Ledgers : doc[l] # None}
    /\ UNCHANGED <<db, doc, other, genesis, ledger, command, history, died>>

\* The document is saved with the ledger ID as its key.
activateLedger(l) ==
    /\ l \in results /\ results' = results \ {l}
    /\ other' = [other EXCEPT ![l] = ACTIVE]

Upgrade ==
    /\ pc = "upgrade"
    /\ \/ \E l \in results : activateLedger(l) /\ Goto("upgrade")
       \/ results = {} /\ Goto("down") /\ UNCHANGED <<other, results>>
    /\ UNCHANGED <<db, metadata, doc, genesis, ledger, command, history, died>>

---------------------------------------------------------------------------
Next ==
    \/ newCommitterStore \/ createCouchDatabase \/ saveNewMetadata \/ Recover
    \/ \E l \in Ledgers : Create(l)
    \/ \E c \in Commands : saveStatus(c) \/ \E l \in Ledgers, s \in Statuses : UpdateLedgerStatus(c, l, s)
    \/ CommitGenesis \/ SaveLedgerID \/ ClearFlag \/ Stop \/ Die
    \/ UpgradeFormat \/ Upgrade

Spec == Init /\ [][Next]_vars

GetActiveLedgerIDs == {l \in Ledgers : doc[l] = ACTIVE \/ other[l] = ACTIVE}

\* Every variable holds a value of its kind.
TypeOK ==
    /\ db \in BOOLEAN /\ metadata.under_construction \in Ledgers \cup {NoLedger}
    /\ doc \in [Ledgers -> Statuses \cup {"", None}] /\ other \in [Ledgers -> Statuses \cup {None}]
    /\ genesis \subseteq Ledgers /\ results \subseteq Ledgers
    /\ command \in [Commands -> [ledger : Ledgers, status : Statuses] \cup {NoCommand}]

\* A peer that runs has in its inventory exactly the ledgers whose genesis block it holds,
\* wherever an earlier creation died (CreateLedgerID, GetUnderConstructionFlag).
InventoryExact == pc = "up" => \A l \in Ledgers : LedgerIDExists(l) <=> l \in genesis

\* A creation that died can be recovered from, unless it was between the document of the
\* ledger and the flag: CreateLedgerID then refuses the ledger at every start.
StartsAgain == pc = "panicked" => "unset" \in died

\* An inventory that was created in the current format is in that format, whatever flags were
\* set and cleared since; the exception is one whose creator died before it saved the format.
FormatKept == db /\ old = {} /\ pc \notin {"create", "metadata"} => GetFormat = CurrentFormat \/ "metadata" \in died

\* A peer that starts opens exactly the ledgers that are meant to be active: of the commands
\* for a ledger, side by side or not, the one that finished last decides.  The exception are
\* ledgers that an upgrade has activated: it saves a second document for them, which pausing
\* does not touch and which keeps them in the list (activateLedger, GetActiveLedgerIDs).
StatusKept ==
    \A l \in Ledgers : l \in GetActiveLedgerIDs <=> asked[l] = ACTIVE \/ other[l] = ACTIVE

\* Once the format is the current one the ledgers of the previous format are active, unless
\* an upgrade died before it had activated them all: the next one finds nothing to do.
UpgradeActivates ==
    metadata.format = CurrentFormat /\ pc # "upgrade" /\ "upgrade" \notin died => old \subseteq GetActiveLedgerIDs

\* Wherever the creation of a ledger died, the peer starts again and its inventory is exact
\* (CreateLedgerID, GetUnderConstructionFlag), with the exception of StartsAgain.
CreationRecovers == TypeOK /\ InventoryExact /\ StartsAgain

\* Pause, resume and upgrade have the effect they are to have (UpdateLedgerStatus,
\* UpgradeFormat), with the exceptions above.
CommandsObeyed == FormatKept /\ StatusKept /\ UpgradeActivates

=============================================================================
