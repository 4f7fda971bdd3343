--------------------------- MODULE LedgerAdminProofs ---------------------------
(***************************************************************************)
(* What administers the ledgers of a committer: the inventory, for any     *)
(* number of ledgers, commands and deaths of the processes, and the        *)
(* rollback and reset commands, for any number of blocks, commands and     *)
(* interruptions.                                                          *)
(***************************************************************************)
EXTENDS MCLedgerAdmin, TLAPS

Flag == metadata.under_construction

CommandType == [ledger : Ledgers \cup {NoLedger}, status : IDs!Statuses \cup {IDs!None}]

IPlaces == {"down", "create", "metadata", "recover", "up", "genesis", "id", "unset",
            "panicked", "upgrade"}

IDType == /\ inventory \in BOOLEAN /\ place \in IPlaces /\ genesis \subseteq Ledgers
          /\ Flag \in Ledgers \cup {NoLedger}
          /\ doc \in [Ledgers -> IDs!Statuses \cup {"", IDs!None}]
          /\ command \in [Commands -> CommandType]

\* Where the flag, the documents and the genesis blocks may differ: only for the ledger that
\* the flag names, and only as far as the creation of that ledger has come.
IFlag == /\ ~inventory => place \in {"down", "create"}
         /\ ~inventory \/ place \in {"create", "metadata", "up"} => Flag = NoLedger
         /\ place \in {"genesis", "id"} => ledger = Flag /\ Flag \in Ledgers /\ doc[Flag] = IDs!None
         /\ place = "id" => Flag \in genesis
         /\ place = "unset" => Flag \in Ledgers /\ doc[Flag] # IDs!None

IDocs == \A l \in Ledgers : /\ doc[l] # IDs!None => l \in genesis
                            /\ l \in genesis /\ l # Flag => doc[l] # IDs!None

\* A ledger with a document is flagged only on the way to clearing the flag, or after a death there.
IDied == /\ Flag \in Ledgers /\ doc[Flag] # IDs!None => place = "unset" \/ "unset" \in died
         /\ IDs!StartsAgain

ICommand == \A c \in Commands : command[c] # IDs!NoCommand =>
              /\ command[c].ledger \in Ledgers /\ command[c].status \in IDs!Statuses
              /\ doc[command[c].ledger] # IDs!None

IInventory == IDType /\ IFlag /\ IDocs /\ IDied /\ ICommand

-----------------------------------------------------------------------------
USE LedgersAssumption DEF CommandType

\* The inventory of a new peer, and that of one of the previous format, satisfy the invariant.
LEMMA InitInventory == ASSUME IDs!Init PROVE IInventory
<1>1. /\ inventory \in BOOLEAN /\ genesis = old /\ old \subseteq Ledgers /\ place = "down"
  BY DEF IDs!Init
<1>2. Flag = NoLedger
  <2>1. CASE inventory BY <2>1 DEF IDs!Init, Flag
  <2>2. CASE ~inventory BY <2>2 DEF IDs!Init, Flag, IDs!NoMetadata
  <2>. QED BY <1>1, <2>1, <2>2
<1>3. /\ doc \in [Ledgers -> IDs!Statuses \cup {"", IDs!None}]
      /\ \A l \in Ledgers : doc[l] # IDs!None <=> l \in old
  BY DEF IDs!Init, IDs!None
<1>4. /\ \A c \in Commands : command[c] = IDs!NoCommand
      /\ command \in [Commands -> CommandType]
  BY DEF IDs!Init, IDs!NoCommand
<1>5. IDType BY <1>1, <1>2, <1>3, <1>4 DEF IDType, IPlaces
<1>6. IFlag BY <1>1, <1>2 DEF IFlag
<1>7. IDocs BY <1>1, <1>3 DEF IDocs
<1>8. IDied BY <1>1, <1>2 DEF IDied, IDs!StartsAgain
<1>9. ICommand BY <1>4 DEF ICommand
<1>. QED BY <1>5, <1>6, <1>7, <1>8, <1>9 DEF IInventory

\* IDs!CreateLedgerID for the flagged ledger, after its genesis block or at a start, preserves it.
LEMMA SavedInventory ==
    ASSUME IInventory, place \in {"id", "recover"}, Flag \in genesis,
           IDs!CreateLedgerID(Flag), UNCHANGED <<inventory, metadata, genesis, ledger, command, died>>
    PROVE  IInventory'
<1>1. Flag \in Ledgers /\ Flag' = Flag /\ inventory BY DEF IInventory, IDType, IFlag, Flag
<1>2. CASE doc[Flag] # IDs!None
  <2>1. UNCHANGED doc /\ place' = "panicked" BY <1>2 DEF IDs!CreateLedgerID, IDs!LedgerIDExists, IDs!Goto
  <2>. QED BY <1>1, <1>2, <2>1
       DEF IInventory, IDType, IFlag, IDocs, IDied, ICommand, IDs!StartsAgain, IPlaces
<1>3. CASE doc[Flag] = IDs!None
  <2>1. doc' = [doc EXCEPT ![Flag] = IDs!ACTIVE] /\ place' = "unset"
    BY <1>3 DEF IDs!CreateLedgerID, IDs!LedgerIDExists, IDs!Goto
  <2>2. /\ doc' \in [Ledgers -> IDs!Statuses \cup {"", IDs!None}] /\ doc'[Flag] # IDs!None
        /\ \A l \in Ledgers : l # Flag => doc'[l] = doc[l]
    BY <1>1, <2>1 DEF IInventory, IDType, IDs!Statuses, IDs!ACTIVE, IDs!None
  <2>. QED BY <1>1, <2>1, <2>2
       DEF IInventory, IDType, IFlag, IDocs, IDied, ICommand, IDs!StartsAgain, IPlaces
<1>. QED BY <1>2, <1>3

\* Every step of the peer, of a command and of an upgrade preserves the invariant.
LEMMA NextInventory == ASSUME IInventory, [IDs!Next]_(IDs!vars) PROVE IInventory'
<1>. USE DEF IInventory, IDType, IFlag, IDocs, IDied, ICommand, IDs!StartsAgain, Flag, IDs!Goto,
         IDs!documents, IDs!history
<1>1. CASE IDs!newCommitterStore
  BY <1>1 DEF IDs!newCommitterStore, IDs!isEmpty, IPlaces
<1>2. CASE IDs!createCouchDatabase
  BY <1>2 DEF IDs!createCouchDatabase, IPlaces
<1>3. CASE IDs!saveNewMetadata
  BY <1>3 DEF IDs!saveNewMetadata, IDs!createMetadataDoc, IPlaces
<1>4. CASE IDs!Recover
  <2>1. CASE IDs!GetUnderConstructionFlag = NoLedger
    BY <1>4, <2>1 DEF IDs!Recover, IDs!GetUnderConstructionFlag, IPlaces
  <2>2. CASE IDs!GetUnderConstructionFlag # NoLedger /\ IDs!GetUnderConstructionFlag \notin genesis
    <3>1. /\ metadata' = IDs!createMetadataDoc(NoLedger, IDs!GetFormat) /\ place = "recover" /\ place' = "up"
          /\ Flag \notin genesis /\ UNCHANGED <<inventory, doc, genesis, ledger, command, died>>
      BY <1>4, <2>2 DEF IDs!Recover, IDs!GetUnderConstructionFlag, IDs!UnsetUnderConstructionFlag
    <3>2. Flag' = NoLedger BY <3>1 DEF IDs!createMetadataDoc
    <3>. QED BY <3>1, <3>2 DEF IPlaces
  <2>3. CASE IDs!GetUnderConstructionFlag # NoLedger /\ IDs!GetUnderConstructionFlag \in genesis
    <3>1. /\ place = "recover" /\ Flag \in genesis /\ IDs!CreateLedgerID(Flag)
          /\ UNCHANGED <<inventory, metadata, genesis, ledger, command, died>>
      BY <1>4, <2>3 DEF IDs!Recover, IDs!GetUnderConstructionFlag
    <3>. QED BY <3>1, SavedInventory
  <2>. QED BY <2>1, <2>2, <2>3
<1>5. ASSUME NEW l \in Ledgers, IDs!Create(l) PROVE IInventory'
  BY <1>5 DEF IDs!Create, IDs!SetUnderConstructionFlag, IDs!createMetadataDoc, IDs!LedgerIDExists, IPlaces
<1>6. CASE IDs!CommitGenesis
  BY <1>6 DEF IDs!CommitGenesis, IPlaces
<1>7. CASE IDs!SaveLedgerID
  <2>1. /\ place = "id" /\ Flag \in genesis /\ IDs!CreateLedgerID(Flag)
        /\ UNCHANGED <<inventory, metadata, genesis, ledger, command, died>>
    BY <1>7 DEF IDs!SaveLedgerID
  <2>. QED BY <2>1, SavedInventory
<1>8. CASE IDs!ClearFlag
  BY <1>8 DEF IDs!ClearFlag, IDs!UnsetUnderConstructionFlag, IDs!createMetadataDoc, IPlaces
<1>9. CASE IDs!Stop
  BY <1>9 DEF IDs!Stop, IPlaces
<1>10. CASE IDs!Die
  BY <1>10 DEF IDs!Die, IPlaces
<1>11. ASSUME NEW c \in Commands, NEW l \in Ledgers, NEW s \in IDs!Statuses, IDs!UpdateLedgerStatus(c, l, s)
       PROVE  IInventory'
  <2>. DEFINE r == [ledger |-> l, status |-> s]
  <2>1. /\ UNCHANGED <<inventory, metadata, doc, genesis, place, ledger, died>> /\ doc[l] # IDs!None
        /\ command' = command \/ command' = [command EXCEPT ![c] = r]
    BY <1>11 DEF IDs!UpdateLedgerStatus, IDs!LedgerIDExists
  <2>2. /\ r \in CommandType
        /\ r.ledger = l /\ r.status = s
    OBVIOUS
  <2>. HIDE DEF r
  <2>3. IDType'
    <3>1. command' \in [Commands -> CommandType]
      <4>1. CASE command' = command BY <4>1
      <4>2. CASE command' = [command EXCEPT ![c] = r] BY <2>2, <4>2
      <4>. QED BY <2>1, <4>1, <4>2
    <3>. QED BY <2>1, <3>1
  <2>4. ICommand'
    <3>. SUFFICES ASSUME NEW d \in Commands, command'[d] # IDs!NoCommand
                  PROVE  /\ command'[d].ledger \in Ledgers /\ command'[d].status \in IDs!Statuses
                         /\ doc[command'[d].ledger] # IDs!None
      BY <2>1
    <3>1. command'[d] = command[d] \/ command'[d] = r
      BY <2>1
    <3>. QED BY <2>1, <2>2, <3>1
  <2>. QED BY <2>1, <2>3, <2>4
<1>12. ASSUME NEW c \in Commands, IDs!saveStatus(c) PROVE IInventory'
  <2>. DEFINE m == command[c].ledger
  <2>1. /\ UNCHANGED <<inventory, metadata, genesis, place, ledger, died>>
        /\ command[c] # IDs!NoCommand /\ command' = [command EXCEPT ![c] = IDs!NoCommand]
        /\ doc' = [doc EXCEPT ![m] = command[c].status]
    BY <1>12 DEF IDs!saveStatus
  <2>2. m \in Ledgers /\ command[c].status \in IDs!Statuses /\ doc[m] # IDs!None
    BY <2>1
  <2>3. /\ doc' \in [Ledgers -> IDs!Statuses \cup {"", IDs!None}]
        /\ \A l \in Ledgers : doc'[l] # IDs!None <=> doc[l] # IDs!None
    BY <2>1, <2>2 DEF IDs!Statuses, IDs!ACTIVE, IDs!INACTIVE, IDs!None
  <2>4. /\ \A d \in Commands : command'[d] = command[d] \/ command'[d] = IDs!NoCommand
        /\ command' \in [Commands -> CommandType]
    BY <2>1 DEF IDs!NoCommand
  <2>5. ICommand' BY <2>3, <2>4
  <2>. HIDE DEF m
  <2>. QED BY <2>1, <2>3, <2>4, <2>5
<1>13. CASE IDs!UpgradeFormat
  BY <1>13 DEF IDs!UpgradeFormat, IDs!checkUpgradeEligibility, IDs!createMetadataDoc,
               IDs!GetUnderConstructionFlag, IPlaces
<1>14. CASE IDs!Upgrade
  BY <1>14 DEF IDs!Upgrade, IDs!activateLedger, IPlaces
<1>15. CASE UNCHANGED IDs!vars
  BY <1>15 DEF IDs!vars
<1>. QED
  BY <1>1, <1>2, <1>3, <1>4, <1>5, <1>6, <1>7, <1>8, <1>9, <1>10, <1>11, <1>12, <1>13, <1>14, <1>15
  DEF IDs!Next

-----------------------------------------------------------------------------
\* An inventory of the previous format exists from the start, and its ledgers stay in it; the
\* format is written before a new inventory is used.
IFormat == /\ IDs!FormatKept
           /\ place = "create" => ~inventory
           /\ old \subseteq Ledgers /\ \A l \in old : doc[l] # IDs!None
           /\ old # {} => inventory /\ place \notin {"create", "metadata"}

\* Nothing but a creation or the end of a command changes the status of a ledger.
IStatus == asked = doc

\* An upgrade has activated a ledger of the previous format, or is still to do it.
IUpgrade == /\ results \subseteq Ledgers /\ other \in [Ledgers -> IDs!Statuses \cup {IDs!None}]
            /\ place = "upgrade" => \A l \in old : l \in results \/ other[l] = IDs!ACTIVE
            /\ metadata.format = IDs!CurrentFormat /\ place # "upgrade" /\ "upgrade" \notin died
                 => \A l \in old : other[l] = IDs!ACTIVE

ICommands == IFormat /\ IStatus /\ IUpgrade

\* A new peer and one of the previous format satisfy it,
LEMMA InitCommands == ASSUME IDs!Init PROVE ICommands
<1>1. /\ inventory = (old # {}) /\ old \subseteq Ledgers /\ place = "down" /\ asked = doc
      /\ results = {} /\ other = [l \in Ledgers |-> IDs!None]
      /\ \A l \in Ledgers : l \in old => doc[l] = ""
  BY DEF IDs!Init
<1>2. inventory => metadata.format = IDs!PreviousFormat
  BY DEF IDs!Init
<1>3. \A l \in old : doc[l] # IDs!None BY <1>1 DEF IDs!None
<1>4. IFormat BY <1>1, <1>3 DEF IFormat, IDs!FormatKept
<1>5. IUpgrade
  <2>1. results \subseteq Ledgers /\ other \in [Ledgers -> IDs!Statuses \cup {IDs!None}]
    BY <1>1
  <2>2. metadata.format = IDs!CurrentFormat => old = {}
    BY <1>1, <1>2 DEF IDs!CurrentFormat, IDs!PreviousFormat
  <2>. QED BY <1>1, <2>1, <2>2 DEF IUpgrade
<1>. QED BY <1>1, <1>4, <1>5 DEF ICommands, IStatus

\* a rewritten flag leaves the format as it is,
LEMMA FlagKeepsFormat ==
    ASSUME NEW l, metadata' = IDs!createMetadataDoc(l, IDs!GetFormat)
    PROVE  /\ IDs!GetFormat' = IDs!GetFormat
           /\ metadata'.format = IDs!CurrentFormat => metadata.format = IDs!CurrentFormat
BY DEF IDs!createMetadataDoc, IDs!GetFormat, IDs!CurrentFormat, IDs!PreviousFormat, IDs!None

\* the document of the flagged ledger is its first one,
LEMMA SavedCommands ==
    ASSUME NEW l \in Ledgers, IInventory, ICommands, IDs!CreateLedgerID(l), place \in {"id", "recover"},
           UNCHANGED <<inventory, metadata, other, results, old, died>>
    PROVE  ICommands'
<1>. USE DEF ICommands, IFormat, IStatus, IUpgrade
<1>1. \/ doc' = doc /\ asked' = asked
      \/ doc' = [doc EXCEPT ![l] = IDs!ACTIVE] /\ asked' = [asked EXCEPT ![l] = IDs!ACTIVE]
  BY DEF IDs!CreateLedgerID
<1>2. place' \in {"panicked", "unset"} BY DEF IDs!CreateLedgerID, IDs!Goto
<1>3. asked' = doc' /\ \A k \in old : doc'[k] # IDs!None
  BY <1>1 DEF IInventory, IDType, IDs!ACTIVE, IDs!None
<1>. QED BY <1>2, <1>3 DEF IDs!FormatKept, IDs!GetFormat

\* and every step preserves it.
LEMMA NextCommands ==
    ASSUME IInventory, ICommands, [IDs!Next]_(IDs!vars) PROVE ICommands'
<1>. USE DEF ICommands, IFormat, IStatus, IUpgrade, IDs!FormatKept, IDs!Goto, IDs!documents, IDs!history
<1>1. CASE IDs!newCommitterStore
  <2>1. /\ place = "down" /\ UNCHANGED <<inventory, metadata, doc, other, results, old, asked, died>>
        /\ place' = IF inventory THEN "recover" ELSE "create"
    BY <1>1 DEF IDs!newCommitterStore, IDs!isEmpty
  <2>. QED BY <2>1 DEF IDs!GetFormat
<1>2. CASE IDs!createCouchDatabase
  BY <1>2 DEF IDs!createCouchDatabase, IDs!GetFormat
<1>3. CASE IDs!saveNewMetadata
  <2>1. /\ place = "metadata" /\ place' = "recover" /\ metadata'.format = IDs!CurrentFormat
        /\ UNCHANGED <<inventory, doc, other, results, old, asked, died>>
    BY <1>3 DEF IDs!saveNewMetadata, IDs!createMetadataDoc
  <2>2. IDs!GetFormat' = IDs!CurrentFormat
    BY <2>1 DEF IDs!GetFormat, IDs!CurrentFormat, IDs!None
  <2>. QED BY <2>1, <2>2
<1>4. CASE IDs!Recover
  <2>1. CASE IDs!GetUnderConstructionFlag = NoLedger
    BY <1>4, <2>1 DEF IDs!Recover, IDs!GetFormat
  <2>2. CASE IDs!GetUnderConstructionFlag # NoLedger /\ IDs!GetUnderConstructionFlag \notin genesis
    <3>1. /\ metadata' = IDs!createMetadataDoc(NoLedger, IDs!GetFormat) /\ place = "recover" /\ place' = "up"
          /\ UNCHANGED <<inventory, doc, other, results, old, asked, died>>
      BY <1>4, <2>2 DEF IDs!Recover, IDs!UnsetUnderConstructionFlag
    <3>. QED BY <3>1, FlagKeepsFormat
  <2>3. CASE IDs!GetUnderConstructionFlag # NoLedger /\ IDs!GetUnderConstructionFlag \in genesis
    <3>1. /\ place = "recover" /\ Flag \in Ledgers /\ IDs!CreateLedgerID(Flag)
          /\ UNCHANGED <<inventory, metadata, other, results, old, died>>
      BY <1>4, <2>3 DEF IDs!Recover, IDs!GetUnderConstructionFlag, Flag, IInventory, IDType
    <3>. QED BY <3>1, SavedCommands
  <2>. QED BY <2>1, <2>2, <2>3
<1>5. ASSUME NEW l \in Ledgers, IDs!Create(l) PROVE ICommands'
  <2>1. /\ metadata' = IDs!createMetadataDoc(l, IDs!GetFormat) /\ place = "up" /\ place' = "genesis"
        /\ UNCHANGED <<inventory, doc, other, results, old, asked, died>>
    BY <1>5 DEF IDs!Create, IDs!SetUnderConstructionFlag
  <2>. QED BY <2>1, FlagKeepsFormat
<1>6. CASE IDs!CommitGenesis
  BY <1>6 DEF IDs!CommitGenesis, IDs!GetFormat
<1>7. CASE IDs!SaveLedgerID
  <2>1. /\ place = "id" /\ ledger \in Ledgers /\ IDs!CreateLedgerID(ledger)
        /\ UNCHANGED <<inventory, metadata, other, results, old, died>>
    BY <1>7 DEF IDs!SaveLedgerID, IInventory, IFlag
  <2>. QED BY <2>1, SavedCommands
<1>8. CASE IDs!ClearFlag
  <2>1. /\ metadata' = IDs!createMetadataDoc(NoLedger, IDs!GetFormat) /\ place = "unset" /\ place' = "up"
        /\ UNCHANGED <<inventory, doc, other, results, old, asked, died>>
    BY <1>8 DEF IDs!ClearFlag, IDs!UnsetUnderConstructionFlag
  <2>. QED BY <2>1, FlagKeepsFormat
<1>9. CASE IDs!Stop
  BY <1>9 DEF IDs!Stop, IDs!GetFormat
<1>10. CASE IDs!Die
  BY <1>10 DEF IDs!Die, IDs!GetFormat
<1>11. ASSUME NEW c \in Commands, NEW l \in Ledgers, NEW s \in IDs!Statuses, IDs!UpdateLedgerStatus(c, l, s)
       PROVE  ICommands'
  <2>1. asked' = asked
    <3>1. CASE doc[l] = s
      <4>1. asked' = [asked EXCEPT ![l] = asked[l]] BY <1>11, <3>1 DEF IDs!UpdateLedgerStatus
      <4>. QED BY <4>1 DEF IInventory, IDType
    <3>. QED BY <1>11, <3>1 DEF IDs!UpdateLedgerStatus
  <2>. QED BY <1>11, <2>1 DEF IDs!UpdateLedgerStatus, IDs!GetFormat
<1>12. ASSUME NEW c \in Commands, IDs!saveStatus(c) PROVE ICommands'
  <2>1. /\ doc' = [doc EXCEPT ![command[c].ledger] = command[c].status] /\ asked' = doc'
        /\ command[c].status # IDs!None
        /\ UNCHANGED <<inventory, metadata, other, results, old, place, died>>
    BY <1>12 DEF IDs!saveStatus, IInventory, ICommand, IDs!Statuses, IDs!ACTIVE, IDs!INACTIVE, IDs!None
  <2>2. \A k \in old : doc'[k] # IDs!None BY <2>1 DEF IInventory, IDType
  <2>. QED BY <2>1, <2>2 DEF IDs!GetFormat
<1>13. CASE IDs!UpgradeFormat
  <2>1. /\ metadata'.format = IDs!CurrentFormat /\ place' = "upgrade"
        /\ results' = {l \in Ledgers : doc[l] # IDs!None}
        /\ UNCHANGED <<inventory, doc, other, old, asked, died>>
    BY <1>13 DEF IDs!UpgradeFormat, IDs!createMetadataDoc
  <2>2. IDs!GetFormat' = IDs!CurrentFormat
    BY <2>1 DEF IDs!GetFormat, IDs!CurrentFormat, IDs!None
  <2>. QED BY <2>1, <2>2
<1>14. CASE IDs!Upgrade
  <2>1. ASSUME NEW l \in results, IDs!activateLedger(l), place' = "upgrade",
               UNCHANGED <<inventory, metadata, doc, old, asked, died>>, place = "upgrade"
        PROVE  ICommands'
    BY <2>1 DEF IDs!activateLedger, IDs!GetFormat, IDs!Statuses
  <2>. QED BY <1>14, <2>1 DEF IDs!Upgrade, IDs!GetFormat
<1>15. CASE UNCHANGED IDs!vars
  BY <1>15 DEF IDs!vars, IDs!GetFormat
<1>. QED
  BY <1>1, <1>2, <1>3, <1>4, <1>5, <1>6, <1>7, <1>8, <1>9, <1>10, <1>11, <1>12, <1>13, <1>14, <1>15
  DEF IDs!Next

\* Both parts of the invariant hold in every state.
LEMMA InventoryInvariant == IDs!Spec => [](IInventory /\ ICommands)
BY InitInventory, NextInventory, InitCommands, NextCommands, PTL DEF IDs!Spec

\* A peer that runs has in its inventory exactly the ledgers whose genesis block it holds, and
\* one that does not start died between the document of a ledger and the flag (CreateLedgerID),
\* for any number of ledgers, and wherever and however often creations died.
THEOREM InventoryRecovers == IDs!Spec => []CreationRecovers
<1>1. ASSUME IInventory, ICommands PROVE CreationRecovers
  <2>1. IDs!TypeOK
    <3>1. command \in [Commands -> [ledger : Ledgers, status : IDs!Statuses] \cup {IDs!NoCommand}]
      <4>. SUFFICES ASSUME NEW c \in Commands, command[c] # IDs!NoCommand
                    PROVE  command[c] \in [ledger : Ledgers, status : IDs!Statuses]
        BY <1>1 DEF IInventory, IDType
      <4>. QED BY <1>1 DEF IInventory, IDType, ICommand
    <3>. QED BY <1>1, <3>1 DEF IInventory, IDType, Flag, ICommands, IUpgrade, IDs!TypeOK
  <2>2. IDs!InventoryExact
    BY <1>1 DEF IInventory, IFlag, IDocs, IDType, IDs!InventoryExact, IDs!LedgerIDExists
  <2>. QED BY <1>1, <2>1, <2>2 DEF IInventory, IDied, CreationRecovers, IDs!CreationRecovers
<1>. QED BY <1>1, InventoryInvariant, PTL

\* The commands have their effect, for any number of them side by side: a new inventory keeps its
\* format, the ledgers that a peer opens are those last asked to be active, and an upgrade that did
\* not die has activated the old ledgers, with the exceptions that the properties name.
THEOREM CommandsTakeEffect == IDs!Spec => []CommandsObeyed
<1>1. ASSUME IInventory, ICommands PROVE CommandsObeyed
  <2>1. IDs!StatusKept
    BY <1>1 DEF ICommands, IStatus, IDs!StatusKept, IDs!GetActiveLedgerIDs
  <2>2. IDs!UpgradeActivates
    BY <1>1 DEF ICommands, IUpgrade, IFormat, IDs!UpgradeActivates, IDs!GetActiveLedgerIDs
  <2>. QED BY <1>1, <2>1, <2>2 DEF ICommands, IFormat, CommandsObeyed, IDs!CommandsObeyed
<1>. QED BY <1>1, InventoryInvariant, PTL

-----------------------------------------------------------------------------
(* Rollback and reset. *)

HIDE LedgersAssumption DEF CommandType

\* Where a command died that is an exception to what follows.
Deleting == DiedIn({"rollback:delete"})
Forgotten == DiedIn({"reset:dropTxns", "reset:create", "reset:genesis", "reset:height"})

\* The databases of the ledger are dropped and not yet complete.
Dropped == {"reset:dropTxns", "reset:create", "reset:genesis", "reset:height"}

Complete(h) == \A n \in Nums : n < h => n \in docs /\ n \in txns

\* What a running command has read, and what is left while it runs.
ILocals ==
  /\ pc \in {"rollback:record", "rollback:read", "rollback:delete"}
       => checkpoint \in Nums /\ target < checkpoint
  /\ pc \in {"rollback:read", "rollback:delete", "rolledback"} => Height <= preReset
  /\ pc \in {"reset:dropTxns", "reset:create", "reset:genesis"}
       => docs = {} /\ checkpoint = None /\ preReset = 0
  /\ pc = "reset:height" => docs = {0} /\ txns = {0} /\ checkpoint = 0 /\ preReset = 0
  /\ pc = "rolledback" => checkpoint = target

\* Only while a rollback deletes blocks may the checkpoint name a block that is gone.
IOpen == Deleting \/ (pc # "panicked" /\ (pc # "rollback:delete" => CanOpen))

\* Up to ten blocks nothing below the height is missing, and a rollback keeps what is not beyond its target.
IChain ==
  Deleting \/
    /\ pc # "rollback:delete" /\ Height <= 10 /\ preReset <= 10 => Complete(Height)
    /\ pc = "rollback:delete" /\ preReset <= 10 => Complete(target + 1) /\ \A n \in victims : target < n

\* Blocks at or beyond the height are left from a rollback of a ledger with ten blocks or more, whose
\* height is recorded.
Left(n) == n < preReset /\ 10 <= preReset
IExact ==
  Deleting \/
    /\ pc # "rollback:delete" => \A n \in docs : n < Height \/ Left(n)
    /\ pc = "rollback:delete" => \A n \in docs : n <= target \/ n \in victims \/ Left(n)

\* The greatest height is recorded, in the database or, while a reset has dropped it, in memory.
IHeight ==
  Forgotten \/
    /\ 0 < reached /\ Height <= reached /\ preReset <= reached
    /\ pc \notin Dropped /\ Height < reached => preReset = reached
    /\ pc \in {"rollback:read", "rollback:delete", "rolledback", "reset:read", "reset:drop"}
         => preReset = reached
    /\ pc \in Dropped \cup {"reset:drop"} => height = reached

IReset == TypeOK /\ ILocals /\ IOpen /\ IChain /\ IExact /\ IHeight

\* Below ten the order of the keys is the order of the numbers.
LEMMA KeysInOrder == ASSUME NEW a \in 0..9, NEW b \in 0..9 PROVE KeyLess(a, b) <=> a < b
<1>. DEFINE j == <<a>>  k == <<b>>
<1>1. blockNumberToKey(a) = j /\ blockNumberToKey(b) = k BY DEF blockNumberToKey
<1>2. Len(j) = 1 /\ Len(k) = 1 /\ j[1] = a /\ k[1] = b OBVIOUS
<1>. HIDE DEF j, k
<1>3. KeyLess(a, b) <=> \E n \in 0..Len(k) - 1 :
                           /\ n <= Len(j) /\ \A m \in 1..n : j[m] = k[m]
                           /\ n = Len(j) \/ j[n + 1] < k[n + 1]
  BY <1>1 DEF KeyLess
<1>. QED BY <1>2, <1>3

\* What a death leaves in the history.
LEMMA Remembered ==
    ASSUME interrupted \in Seq(Places), NEW p \in Places, interrupted' = Append(interrupted, p)
    PROVE  /\ Deleting' <=> Deleting \/ p = "rollback:delete"
           /\ Forgotten' <=> Forgotten \/ p \in Dropped
<1>1. /\ Len(interrupted') = Len(interrupted) + 1 /\ Len(interrupted) \in Nat
      /\ interrupted'[Len(interrupted) + 1] = p
      /\ \A i \in 1..Len(interrupted) : interrupted'[i] = interrupted[i]
  OBVIOUS
<1>2. 1..Len(interrupted') = 1..Len(interrupted) \cup {Len(interrupted) + 1}
  BY <1>1
<1>. QED BY <1>1, <1>2 DEF Deleting, Forgotten, Dropped, DiedIn

\* Without a death it stays as it is.
LEMMA NothingDied ==
    ASSUME interrupted' = interrupted
    PROVE  (Deleting' <=> Deleting) /\ (Forgotten' <=> Forgotten)
BY DEF Deleting, Forgotten, DiedIn

\* A complete ledger satisfies the invariant,
LEMMA InitReset == ASSUME Init PROVE IReset
<1>1. TypeOK
  <2>1. interrupted \in Seq(Places) /\ Len(interrupted) = 0 BY DEF Init
  <2>. QED BY <2>1, ResetAssumption DEF Init, TypeOK, Places, Nums
<1>2. Height = checkpoint + 1 /\ CanOpen BY ResetAssumption DEF Init, Height, None, Nums, CanOpen
<1>. QED BY <1>1, <1>2, ResetAssumption
     DEF IReset, ILocals, IOpen, IChain, IExact, IHeight, Complete, Dropped, Init, Nums

\* and every access of a command, every death, and every step of the peer preserves it.
LEMMA NextReset == ASSUME IReset, [Next]_vars PROVE IReset'
<1>. USE ResetAssumption DEF IReset, TypeOK, ILocals, IOpen, IChain, IExact, IHeight, Complete, Dropped,
         Left, Height, None, Nums, CanOpen, couch, locals
<1>a. interrupted' = interrupted => (Deleting' <=> Deleting) /\ (Forgotten' <=> Forgotten)
  BY NothingDied
<1>1. ASSUME NEW t \in Nums, ValidateRollbackParams(t) PROVE IReset'
  BY <1>1, <1>a DEF ValidateRollbackParams, LastBlockNumber, Places
<1>2. CASE recordHeightIfGreaterThanPreviousRecording
  BY <1>2, <1>a DEF recordHeightIfGreaterThanPreviousRecording, RecordedHeight, LastBlockNumber, Places
<1>3. CASE RollbackRead
  <2>1. CASE UNCHANGED victims /\ pc' = "down"
    BY <1>3, <1>a, <2>1 DEF RollbackRead, Places
  <2>2. CASE victims' = readDocRange(target + 1, LastBlockNumber + 1) /\ pc' = "rollback:delete"
    <3>1. /\ pc = "rollback:read" /\ LastBlockNumber = checkpoint /\ Height = checkpoint + 1
          /\ UNCHANGED <<couch, target, height, reached, ops, interrupted>>
      BY <1>3 DEF RollbackRead, LastBlockNumber
    <3>2. ASSUME ~Deleting, preReset <= 10, NEW n \in victims' PROVE target < n
      <4>1. n \in docs /\ ~KeyLess(n, target + 1) BY <2>2 DEF readDocRange
      <4>2. n \in 0..9 /\ target + 1 \in 0..9 BY <3>1, <3>2, <4>1
      <4>. QED BY <4>1, <4>2, KeysInOrder
    <3>3. ASSUME ~Deleting, NEW n \in docs PROVE n <= target \/ n \in victims' \/ Left(n)
      <4>1. CASE 10 <= preReset BY <3>1, <3>3, <4>1
      <4>2. CASE preReset < 10
        <5>1. n \in 0..9 /\ target + 1 \in 0..9 /\ checkpoint + 1 \in 0..9 /\ n < checkpoint + 1
          BY <3>1, <3>3, <4>2
        <5>2. (KeyLess(n, target + 1) <=> n < target + 1) /\ KeyLess(n, checkpoint + 1)
          BY <5>1, KeysInOrder
        <5>. QED BY <2>2, <3>1, <5>1, <5>2 DEF readDocRange
      <4>. QED BY <4>1, <4>2
    <3>4. victims' \subseteq docs BY <2>2 DEF readDocRange
    <3>5. TypeOK' /\ ILocals' /\ IOpen' /\ IHeight' BY <1>a, <2>2, <3>1, <3>4 DEF Places
    <3>6. IChain' BY <1>a, <2>2, <3>1, <3>2
    <3>7. IExact' BY <1>a, <2>2, <3>1, <3>3
    <3>. QED BY <3>5, <3>6, <3>7
  <2>. QED BY <1>3, <2>1, <2>2 DEF RollbackRead
<1>4. ASSUME NEW n \in Nums, RollbackDelete(n) PROVE IReset'
  BY <1>4, <1>a DEF RollbackDelete, Places
<1>5. CASE RollbackCheckpoint
  BY <1>5, <1>a DEF RollbackCheckpoint, Places
<1>6. CASE Rolledback
  BY <1>6, <1>a DEF Rolledback, Places
<1>7. CASE ResetBlockStore
  BY <1>7, <1>a DEF ResetBlockStore, Places
<1>8. CASE ResetRead
  BY <1>8, <1>a DEF ResetRead, Places
<1>9. CASE ResetDropBlocks
  BY <1>9, <1>a DEF ResetDropBlocks, Places
<1>10. CASE ResetDropTxns
  BY <1>10, <1>a DEF ResetDropTxns, Places
<1>11. CASE ResetCreate
  BY <1>11, <1>a DEF ResetCreate, Places
<1>12. CASE ResetAddGenesis
  BY <1>12, <1>a DEF ResetAddGenesis, Places
<1>13. CASE ResetSaveHeight
  BY <1>13, <1>a DEF ResetSaveHeight, Places
<1>14. CASE Crash
  <2>1. /\ interrupted' = Append(interrupted, pc) /\ pc' = "down" /\ Len(interrupted) < MaxCrashes
        /\ pc # "panicked" /\ UNCHANGED <<couch, locals, reached, ops>>
    BY <1>14 DEF Crash
  <2>2. /\ Deleting' <=> Deleting \/ pc = "rollback:delete"
        /\ Forgotten' <=> Forgotten \/ pc \in Dropped
    BY <2>1, Remembered
  <2>3. interrupted' \in Seq(Places) /\ Len(interrupted') <= MaxCrashes BY <2>1
  <2>. QED BY <2>1, <2>2, <2>3 DEF Places
<1>15. CASE PeerStart
  BY <1>15, <1>a DEF PeerStart, Places
<1>16. CASE PeerAddBlock
  BY <1>16, <1>a DEF PeerAddBlock
<1>17. CASE ClearPreResetHeight
  BY <1>17, <1>a DEF ClearPreResetHeight
<1>18. CASE PeerStop
  BY <1>18, <1>a DEF PeerStop, Places
<1>19. CASE UNCHANGED vars
  BY <1>19, <1>a DEF vars
<1>. QED
  BY <1>1, <1>2, <1>3, <1>4, <1>5, <1>6, <1>7, <1>8, <1>9, <1>10, <1>11, <1>12, <1>13, <1>14, <1>15,
     <1>16, <1>17, <1>18, <1>19
  DEF Next, Rollback, Reset

\* Whatever commands were run, for any number of blocks, and wherever and however often they died,
\* the peer knows the height it had, serves no chain with a hole and opens its ledger, and a
\* rollback is exact, with the exceptions that the properties name (Rollback, Reset).
THEOREM LedgerStaysIntact == Spec => []LedgerIntact
<1>1. ASSUME IReset PROVE LedgerIntact
  <2>1. HeightRemembered BY <1>1 DEF IReset, IHeight, Forgotten, Dropped, HeightRemembered
  <2>2. ChainComplete BY <1>1 DEF IReset, IChain, Complete, Deleting, ChainComplete
  <2>3. OpensUnlessDeleting BY <1>1 DEF IReset, IOpen, Deleting, OpensUnlessDeleting
  <2>4. RollbackExact
    <3>. SUFFICES ASSUME pc = "rolledback", preReset < 10, ~Deleting PROVE docs = 0..target
      BY DEF RollbackExact, Deleting
    <3>1. /\ target \in Nums /\ Height = target + 1 /\ Height <= preReset /\ preReset \in Nat
          /\ docs \subseteq Nums
      BY <1>1, ResetAssumption DEF IReset, TypeOK, ILocals, Height, None, Nums
    <3>2. \A n \in Nums : n < target + 1 => n \in docs
      BY <1>1, <3>1, ResetAssumption DEF IReset, IChain, Complete, Nums
    <3>3. \A n \in docs : n < target + 1
      BY <1>1, <3>1, ResetAssumption DEF IReset, IExact, Left, Nums
    <3>4. docs \subseteq 0..target BY <3>1, <3>3, ResetAssumption DEF Nums
    <3>5. 0..target \subseteq docs BY <3>1, <3>2, ResetAssumption DEF Nums
    <3>. QED BY <3>4, <3>5
  <2>. QED BY <1>1, <2>1, <2>2, <2>3, <2>4 DEF IReset, LedgerIntact
<1>. QED BY <1>1, InitReset, NextReset, PTL DEF Spec
=============================================================================
