---------------------------- MODULE MCBlockStore ----------------------------
(***************************************************************************)
(* BlockStore on a chain of three blocks and one block that does not fit:  *)
(* g <- b1 <- b2, and x with number 2 which names g as its predecessor.    *)
(* Transaction t1 is used in b1 and again in b2.                           *)
(***************************************************************************)
EXTENDS BlockStore, TLC

CONSTANTS g, b1, b2, x, t0, t1, t2

MCBlocks == {g, b1, b2, x}
MCTxIDs == {t0, t1, t2}
MCNum == (g :> 0) @@ (b1 :> 1) @@ (b2 :> 2) @@ (x :> 2)
MCPrev == (g :> NoBlock) @@ (b1 :> g) @@ (b2 :> b1) @@ (x :> g)
MCTxs == (g :> {t0}) @@ (b1 :> {t1}) @@ (b2 :> {t1, t2}) @@ (x :> {t2})
=============================================================================
