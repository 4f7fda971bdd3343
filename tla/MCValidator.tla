----------------------------- MODULE MCValidator -----------------------------
(***************************************************************************)
(* Instances of Validator: in block 1 transactions 1 and 2 have the same   *)
(* id and are both valid; in block 2 the first transaction with the id is  *)
(* invalid.                                                                *)
(***************************************************************************)
EXTENDS Validator

MCCode == [b \in 1..MaxBlock |->
             [i \in 1..MaxTx |-> IF b = 2 /\ i = 1 THEN "INVALID" ELSE "VALID"]]
MCTxID == [b \in 1..MaxBlock |-> [i \in 1..MaxTx |-> IF i \in {1, 2} THEN "t1" ELSE "t2"]]
=============================================================================
