------------------------------- MODULE Ledger -------------------------------
(***************************************************************************)
(* What the peers of an organisation promise together about one channel's  *)
(* ledger: there is a single hash-linked chain which only grows, and every *)
(* peer serves a prefix of it.  A peer that is up moves its height one     *)
(* block at a time and never beyond the chain; a peer that restarts may    *)
(* come back at any height the chain covers.  BlockStore implements this.  *)
(***************************************************************************)
EXTENDS Naturals, Sequences

CONSTANTS Peers,      \* the peers that share the ledger
          Blocks,     \* the blocks
          Prev        \* Prev[b]: the block whose hash b's header carries

VARIABLES chain,      \* the stored blocks, block number n at position n + 1
          height      \* height[p]: the height peer p reports; 0 when it is down

vars == <<chain, height>>

LinksTo(b, c) == Len(c) > 0 => Prev[b] = c[Len(c)]

Init == /\ chain = << >>
        /\ height = [p \in Peers |-> 0]

Append1(b) == /\ LinksTo(b, chain)
              /\ chain' = Append(chain, b)
              /\ UNCHANGED height

Open(p) == /\ height[p] = 0
           /\ \E h \in 1..Len(chain) : height' = [height EXCEPT ![p] = h]
           /\ UNCHANGED chain

Advance(p) == /\ height[p] < Len(chain)
              /\ height' = [height EXCEPT ![p] = @ + 1]
              /\ UNCHANGED chain

Close(p) == /\ height' = [height EXCEPT ![p] = 0]
            /\ UNCHANGED chain

Next == \/ \E b \in Blocks : Append1(b)
        \/ \E p \in Peers : Open(p) \/ Advance(p) \/ Close(p)

Spec == Init /\ [][Next]_vars
=============================================================================
