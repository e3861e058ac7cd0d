------------------------- MODULE NetworkProperties -------------------------
(***************************************************************************)
(* What the nodes together keep.                                           *)
(***************************************************************************)
EXTENDS Network

Quiet == \A n, m \in Nodes : chan[n][m] = <<>> /\ outbox[n] = <<>>

Agree == \A n, m \in Nodes : main[n] = main[m]

\* A fork table that waits for a block waits for an answer: when everything
\* is answered (handleReceivedBlock), no fork table is left, whatever became
\* of the connections, of the peers' chains and of the fork itself.  Two kinds
\* stay: one that reached down to index 1, where handleBlock's b.index - 1 is
\* the 0 of a block that is stored, and one whose own request or answer went
\* with a connection or a process, or was never sent, by the miner.
NoForkLeft ==
    Quiet => \A n \in Nodes, f \in ForkIds :
        fork[n][f] # {} => FirstIndex(fork[n][f]) = 1 \/ <<n, f>> \in lost

\* Nodes that exchange blocks change their chains as LuckyChain says, each
\* for itself: whatever answers and broadcasts get mixed up in a fork table,
\* applyFork only writes a valid and luckier segment.
Chain(n) == INSTANCE LuckyChain WITH chain <- main[n]
ImplementsLuckyChain ==
    /\ \A n \in Nodes : Chain(n)!ChainInit
    /\ [][\A n \in Nodes : main'[n] # main[n] => Chain(n)!ChainNext]_main

\* No block in flight is one that getBlock did not find.
NoUnset ==
    \A n, m \in Nodes : \A j \in DOMAIN chan[n][m] :
        chan[n][m][j].kind = "block" => chan[n][m][j].block \in Blocks

\* Every exchange of blocks, requests and checks ends, unless nodes keep
\* asking for a block that the peer does not have.
Quiesces == <>[]NoUnset => <>[]Quiet

\* Nodes whose chains have only changed as their peers heard of agree in the
\* end: the luckiest chain wins on both sides, ties included.
Converges == <>[](apart \/ Agree)

-----------------------------------------------------------------------------
(* What the code's comments say and the code does not keep.                *)

\* "invalid Block received, the sending peer should check his database"
\* (client.cpp:269): where all blocks are valid and no chain was ever broken,
\* nobody is told so, and a check would keep every row.
HonestChainKept == [][\A n \in Nodes : apart \/ Held(main[n]) \subseteq Held(main'[n])]_vars

\* getBlock: "@return block at index" (blockchain.cpp).
NodesAnswer == []NoUnset
=============================================================================
