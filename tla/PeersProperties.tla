---------------------------- MODULE PeersProperties ----------------------------
(***************************************************************************)
(* What the tables of connections and keys must be like: Peers.            *)
(***************************************************************************)
EXTENDS Peers

LinkType ==
    [by : SUBSET Nodes, ends : SUBSET Nodes, greeted : BOOLEAN, knows : SUBSET Nodes,
     state : [Nodes -> {"open", "ready", "closed"}],
     mail : [Nodes -> Seq({"PUBLICKEY_ADD", "PUBLICKEY_REMOVE"})]]

\* No table holds a connection that removeConnection has deleted: every one
\* that a broadcast of blocks would use is open and ready.
NoDeletedConnection == \A n \in Nodes : \A l \in peers[n] : link[l].state[n] = "ready"

\* Once faults end, every node has every other one in its table for good, so
\* that blocks and transactions, which nobody relays, reach it.
Meshed == \A n, m \in Nodes : n # m => <>[](Connections(n, m) # {})

-----------------------------------------------------------------------------
(* What the comments of the code say, and the code does not do.            *)

\* removeConnection "removes the connection from the peers array", "@param
\* connection to be removed" (client.cpp:478): another connection that is
\* ready stays in the table.
ReadyIsInTable == \A n \in Nodes : \A l \in Links : link[l].state[n] = "ready" => l \in peers[n]

\* removeConnection: "remove public key for this address" (client.cpp:488): a
\* node with no connection to m any more does not list m's key.
GoneKeyRemoved ==
    \A n, m \in Nodes :
        (n # m /\ \A l \in Links : {n, m} = link[l].ends => ~ Open(l, n))
            => \A i \in 1 .. Len(testKeys[n]) : testKeys[n][i] # m
=============================================================================
