------------------------- MODULE MCBlockPublisher -------------------------
(* The block publisher with two blocks, a registry of two chaincodes, two   *)
(* orders of registration, and small graphs of creators that only start.    *)
EXTENDS BlockPublisher

C(name, args) == [name |-> name, args |-> args, ok |-> TRUE]

Started ==
    <<C("updateHandler", {"publisher", "handlerRegistry"}), C("ucc", {}), C("publisher", {"ledger"}),
      C("notifier", {"publisher"}), C("handlerRegistry", {})>>

Restarted ==
    <<C("publisher", {"ledger"}), C("ucc", {"handlerRegistry"}), C("handlerRegistry", {}),
      C("notifier", {"publisher", "updateHandler"}), C("updateHandler", {"publisher"})>>

Graphs ==
    LET args == {{}} \cup {{x} : x \in {"a", "b", "c", "ledger"}} \cup {{"a", "b"}, {"unsupported"}}
    IN  {<<[name |-> "a", args |-> f[1], ok |-> o], C("b", f[2]), C("c", f[3])>> : f \in [1..3 -> args], o \in BOOLEAN}

MCRegistered == {Started, Restarted} \cup Graphs
MCProviders == <<"ledger">>
MCChaincodes == <<C("cc1", {"handlerRegistry"}), C("cc2", {})>>

RW(ns, reads, writes) == [ns |-> ns, reads |-> reads, writes |-> writes, colls |-> <<>>]
Action(results, events) == [ok |-> TRUE, resultsOK |-> TRUE, results |-> results, events |-> events]
Tx(actions) == [env |-> TRUE, type |-> "ENDORSER_TRANSACTION", code |-> "VALID", ok |-> TRUE, actions |-> actions, pvt |-> <<>>]
Coll(reads, writes) == [coll |-> "c", ok |-> TRUE, reads |-> reads, writes |-> writes]

MCChain ==
    1 :> <<[Tx(<<Action(<<RW("lscc", <<"r">>, <<"cc", "cc~collection">>),
                          [RW("_lifecycle", <<>>, <<"w1">>) EXCEPT !.colls = <<Coll(<<>>, <<"h1">>)>>]>>, <<"bad">>),
                 [Action(<<RW("cc", <<>>, <<"w2">>)>>, <<>>) EXCEPT !.resultsOK = FALSE]>>)
               EXCEPT !.pvt = <<[RW("cc", <<>>, <<>>) EXCEPT
                                    !.colls = <<Coll(<<>>, <<"p">>), [Coll(<<>>, <<"q">>) EXCEPT !.ok = FALSE]>>]>>],
           [Tx(<<Action(<<RW("cc", <<>>, <<"w3">>)>>, <<>>)>>) EXCEPT !.code = "MVCC_READ_CONFLICT"]>>
    @@ 2 :> <<[Tx(<<>>) EXCEPT !.env = FALSE], [Tx(<<>>) EXCEPT !.type = "CONFIG_UPDATE", !.ok = FALSE],
              [Tx(<<>>) EXCEPT !.type = "CONFIG"], [Tx(<<>>) EXCEPT !.ok = FALSE],
              Tx(<<[Action(<<>>, <<>>) EXCEPT !.ok = FALSE],
                   Action(<<RW("lscc", <<>>, <<"bad">>), RW("cc", <<>>, <<"w4">>)>>, <<"lscc.upgrade">>)>>)>>

MCEarly == <<"config">>

MCKindOf == "state" :> "lscc" @@ "ccWrite" :> "write" @@ "ccHash" :> "collHashWrite" @@ "config" :> "write" @@ "upgrade" :> "ccEvent"

\* A peer that starts publishes two blocks and joins one channel, and is closed after that; a
\* restarted one publishes one, joins both channels and may be closed at any time; the small graphs of creators are
\* only initialised.
MCInit == Init /\ height = IF creators = Restarted THEN 2 ELSE 1

Bound ==
    /\ creators = Started => /\ joined' = joined \/ (joined' = {Channel} /\ registry = "ready")
                             /\ stage' = "closing" => height = 3 /\ notifying.ch = NoChannel
                             /\ "upgrade" \notin Range(handlers')
    /\ creators = Restarted /\ "upgrade" \in Range(handlers') \ Range(handlers) => joined = {}
    /\ creators \in Graphs => stage = "start"

MCSpec == MCInit /\ [][Next /\ Bound]_vars /\ Fairness
=============================================================================
