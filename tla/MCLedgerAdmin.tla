---------------------------- MODULE MCLedgerAdmin ----------------------------
(***************************************************************************)
(* What administers the ledgers of a committer, one part at a time: the    *)
(* rollback and reset commands, and the inventory of the ledgers.          *)
(***************************************************************************)
EXTENDS LedgerReset

CONSTANTS Ledgers, NoLedger, Commands, MaxDeaths

ASSUME LedgersAssumption == NoLedger \notin Ledgers  \* the empty ID

VARIABLES part,
          inventory, metadata, doc, other, genesis, place, ledger, results, command,
          old, asked, died

IDs == INSTANCE IDStore WITH db <- inventory, pc <- place

idVars == <<inventory, metadata, doc, other, genesis, place, ledger, results, command, old, asked, died>>
MCvars == <<vars, idVars, part>>

\* The inventory stands still in the part about the commands, and the other way round.
MCInit ==
  /\ Init /\ IDs!Init
  /\ \/ part = "reset" /\ old = {}
     \/ part = "inventory" /\ checkpoint = 0

MCNext ==
  /\ UNCHANGED part
  /\ \/ part = "reset" /\ Next /\ UNCHANGED idVars
     \/ part = "inventory" /\ IDs!Next /\ UNCHANGED vars

MCSpec == MCInit /\ [][MCNext]_MCvars

-----------------------------------------------------------------------------
\* The inventory survives creations that died (CreateLedgerID),
CreationRecovers == IDs!CreationRecovers

\* and pauses, resumes and upgrades take effect (UpdateLedgerStatus, UpgradeFormat).
CommandsObeyed == IDs!CommandsObeyed
=============================================================================
