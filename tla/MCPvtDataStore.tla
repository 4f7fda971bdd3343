---------------------------- MODULE MCPvtDataStore ----------------------------
(* The private data store with three collections that live one block, two   *)
(* blocks and for ever.                                                     *)
EXTENDS PvtDataStore

MCColls == {"c1", "c2", "c3"}
MCBTL == [c \in MCColls |-> CASE c = "c1" -> 1 [] c = "c2" -> 2 [] OTHER -> 0]
MCItems == {<<"c1", 0>>, <<"c2", 0>>, <<"c2", 1>>, <<"c3", 0>>}

(* The genesis block has no private data.  Block 1 either outlives its data  *)
(* in c1 with two items of c2 missing, or has data in c1 and is not eligible *)
(* for c3; block 2 misses an item that never expires.                        *)
MCContents ==
    [b \in Blocks |->
        CASE b = 1 -> {[present |-> {<<"c1", 0>>}, elg |-> {<<"c2", 0>>, <<"c2", 1>>}, inelg |-> {}],
                       [present |-> {<<"c1", 0>>}, elg |-> {}, inelg |-> {<<"c2", 0>>}]}
          [] b = 2 -> {[present |-> {}, elg |-> {<<"c3", 0>>}, inelg |-> {}]}
          [] OTHER -> {NoContent}]
=============================================================================
