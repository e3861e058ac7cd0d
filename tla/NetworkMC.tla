----------------------------- MODULE NetworkMC -----------------------------
(***************************************************************************)
(* Two nodes and the blocks they find.  A hash is the position of the      *)
(* block's name in the string order of the hashes.                         *)
(***************************************************************************)
EXTENDS NetworkProperties

CONSTANTS n1, n2

MCBlk(h, i, p, n, t) ==
    [hash |-> h, index |-> i, prev |-> p, ln |-> n, txs |-> t, content |-> TRUE, cert |-> TRUE]

G  == MCBlk(1, 1, 9, 1, {"cG"})
A2 == MCBlk(3, 2, 1, 1, {"cA2", "t1"})
A3 == MCBlk(4, 3, 3, 2, {"cA3"})

\* As lucky as A2 and A3 together.
C2 == MCBlk(6, 2, 1, 3, {"cC2"})

\* B2 and B3 are as lucky as A2 and A3.
B2 == MCBlk(5, 2, 1, 2, {"cB2"})
B3 == MCBlk(2, 3, 5, 1, {"cB3", "t1"})

MinersOf(blocks) == [b \in blocks |-> IF b \in {B2, B3, C2} THEN n2 ELSE n1]

\* A Block() whose index reads as 0, and one whose index reads as the last.
UnsetAt(i) ==
    [hash |-> NoHash, index |-> i, prev |-> NoHash, ln |-> 0, txs |-> {},
     content |-> FALSE, cert |-> FALSE]
MCUnset == {UnsetAt(0), UnsetAt(MaxIndex)}

MCTx == UNION {b.txs : b \in {G, A2, A3, B2, B3, C2}}

MCBlocks == {G, A2, A3, C2}
MCMinerOf == MinersOf(MCBlocks)

MCRivals == {G, A2, A3, B2, B3}
MCRivalMinerOf == MinersOf(MCRivals)
=============================================================================
