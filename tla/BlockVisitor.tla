--------------------------- MODULE BlockVisitor ---------------------------
(***************************************************************************)
(* What the block visitor hands to its handlers, and in which order        *)
(* (common/blockvisitor): the traversal of a block, down to the reads,     *)
(* writes and events of its valid transactions.                            *)
(*                                                                         *)
(* A block is [num, txs].  A transaction is [env, type, code, ok, actions, *)
(* pvt]: whether its envelope and its payload can be unmarshalled, its     *)
(* header type, its validation code, its actions and its private data.  An *)
(* action is [ok, resultsOK, results, events]; a namespace's read-write    *)
(* set is [ns, reads, writes, colls]; a collection's is [coll, ok, reads,  *)
(* writes].  Keys are plain values; CollConfigKeys are the ones with the   *)
(* separator "~", and Malformed the ones whose value cannot be             *)
(* unmarshalled.                                                           *)
(*                                                                         *)
(* A visit operator gives the sequence of the calls made: events, of kind  *)
(* "block", "read", "write", "collHashRead", "collHashWrite", "lscc",      *)
(* "ccEvent" or "config", and "error" for a call of HandleError.           *)
(***************************************************************************)
EXTENDS Naturals, Sequences, SequencesExt

CONSTANTS LsccID, CollConfigKeys, Malformed

\* The calls of Op for every element, one after the other.
ForEach(s, Op(_)) == FlattenSeq([i \in DOMAIN s |-> Op(s[i])])

\* t is the place of the transaction: [block, tx].
Event(kind, t, ns, key) == [kind |-> kind, block |-> t.block, tx |-> t.tx, ns |-> ns, key |-> key]

UnmarshalErr(t) == <<Event("error", t, "", "")>>

publishReads(t, ns, reads) == [i \in DOMAIN reads |-> Event("read", t, ns, reads[i])]

publishWrites(t, ns, writes) == [i \in DOMAIN writes |-> Event("write", t, ns, writes[i])]

publishCollHashReads(t, ns, reads) == [i \in DOMAIN reads |-> Event("collHashRead", t, ns, reads[i])]

publishCollHashWrites(t, ns, writes) == [i \in DOMAIN writes |-> Event("collHashWrite", t, ns, writes[i])]

visitCollHashRWSets(t, ns, colls) ==
    ForEach(colls, LAMBDA c : publishCollHashReads(t, ns, c.reads) \o publishCollHashWrites(t, ns, c.writes))

\* The chaincode written last: its name, or none when only collections are written.
getCCInfo(writes) ==
    LET ccs == SelectSeq(writes, LAMBDA k : k \notin CollConfigKeys)
    IN  IF ccs = <<>> THEN "" ELSE Last(ccs)

publishLSCCWrite(t, writes) ==
    IF writes = <<>> THEN <<>>
    ELSE IF Range(writes) \cap Malformed # {} THEN UnmarshalErr(t)
    ELSE <<Event("lscc", t, LsccID, getCCInfo(writes))>>

visitNsReadWriteSet(t, rw) ==
    publishReads(t, rw.ns, rw.reads)
        \o (IF rw.ns = LsccID THEN publishLSCCWrite(t, rw.writes)
            ELSE publishWrites(t, rw.ns, rw.writes) \o visitCollHashRWSets(t, rw.ns, rw.colls))

visitTxReadWriteSet(t, rws) == ForEach(rws, LAMBDA rw : visitNsReadWriteSet(t, rw))

visitChaincodeActionResults(t, a) == IF a.resultsOK THEN visitTxReadWriteSet(t, a.results) ELSE UnmarshalErr(t)

visitChaincodeActionEvents(t, a) ==
    ForEach(a.events, LAMBDA e : IF e \in Malformed THEN UnmarshalErr(t) ELSE <<Event("ccEvent", t, "", e)>>)

visitChaincodeAction(t, a) == visitChaincodeActionResults(t, a) \o visitChaincodeActionEvents(t, a)

visitTXAction(t, a) == IF a.ok THEN visitChaincodeAction(t, a) ELSE UnmarshalErr(t)

\* The namespace of a collection is the chaincode's, "$$p" and the collection's name.
visitPvtCollWriteSet(t, ns, c) ==
    IF c.ok THEN publishReads(t, ns \o "$$p" \o c.coll, c.reads) \o publishWrites(t, ns \o "$$p" \o c.coll, c.writes)
    ELSE UnmarshalErr(t)

visitPvtNsWriteSet(t, rw) == ForEach(rw.colls, LAMBDA c : visitPvtCollWriteSet(t, rw.ns, c))

visitPvtDataWriteSet(t, pvt) == ForEach(pvt, LAMBDA rw : visitPvtNsWriteSet(t, rw))

visitTransaction(t, tx) == ForEach(tx.actions, LAMBDA a : visitTXAction(t, a)) \o visitPvtDataWriteSet(t, tx.pvt)

\* Mutant: a transaction that the validation refused is visited.
visitTx_AnyCode(t, tx) == IF tx.ok THEN visitTransaction(t, tx) ELSE UnmarshalErr(t)

visitTx(t, tx) ==
    IF tx.code # "VALID" THEN <<>>
    ELSE IF tx.ok THEN visitTransaction(t, tx) ELSE UnmarshalErr(t)

\* An update that cannot be unmarshalled is only logged.
visitConfigUpdate(t, tx) == IF tx.ok THEN <<Event("config", t, "", "")>> ELSE <<>>

visitEnvelope(t, tx) ==
    CASE ~tx.env -> UnmarshalErr(t)
      [] tx.env /\ tx.type = "ENDORSER_TRANSACTION" -> visitTx(t, tx)
      [] tx.env /\ tx.type = "CONFIG_UPDATE" -> visitConfigUpdate(t, tx)
      [] OTHER -> <<>>

\* A call after which the error handler asked to halt is the last one; halts are the calls
\* for which it does.
haltOnError(calls, halts) ==
    LET stops == {i \in DOMAIN calls : calls[i] \in halts}
    IN  IF stops = {} THEN calls ELSE SubSeq(calls, 1, CHOOSE i \in stops : \A j \in stops : i <= j)

visit(b, halts) ==
    haltOnError(<<Event("block", [block |-> b.num, tx |-> 0], "", "")>>
                    \o FlattenSeq([i \in DOMAIN b.txs |-> visitEnvelope([block |-> b.num, tx |-> i], b.txs[i])]),
                halts)

\* The handler of a visitor made without one logs the error and goes on.
defaultHandleError == {}
=============================================================================
