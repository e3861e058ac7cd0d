------------------------------- MODULE NodeMC -------------------------------
EXTENDS NodeProperties

MCBlk(h, i, p, n, t) ==
    [hash |-> h, index |-> i, prev |-> p, ln |-> n, txs |-> t, content |-> TRUE, cert |-> TRUE]

G  == MCBlk(1, 1, 9, 1, {"cG"})
A2 == MCBlk(3, 2, 1, 1, {"cA2", "t1"})
A3 == MCBlk(4, 3, 3, 2, {"cA3", "t2"})
B2 == MCBlk(5, 2, 1, 3, {"cB2", "t2"})
B3 == MCBlk(2, 3, 5, 1, {"cB3", "t1"})
C3 == MCBlk(6, 3, 3, 3, {"cC3", "t1"})
D3 == [MCBlk(7, 3, 5, 3, {"cD3"}) EXCEPT !.cert = FALSE]
E2 == [MCBlk(8, 2, 1, 2, {"cE2"}) EXCEPT !.content = FALSE]
F3 == [MCBlk(9, 3, 3, 2, {"cF3"}) EXCEPT !.cert = FALSE]

\* A Block() with nothing set, for each index its memory may happen to hold.
UnsetAt(i) ==
    [hash |-> NoHash, index |-> i, prev |-> NoHash, ln |-> 0, txs |-> {},
     content |-> FALSE, cert |-> FALSE]
MCUnset == {UnsetAt(i) : i \in Index}
MCUnsetTop == {UnsetAt(MaxIndex)}

MCBlocks == {G, A2, A3, B2, B3, C3, D3, E2}
MCPair == {G, A2, B2, B3, F3}
MCTx == UNION {b.txs : b \in MCBlocks \cup MCPair}
=============================================================================
