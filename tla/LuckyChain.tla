----------------------------- MODULE LuckyChain -----------------------------
(***************************************************************************)
(* What a node's chain promises, without threads, fork tables or partial   *)
(* writes: it starts with the genesis block, takes over a segment of valid *)
(* blocks in one step, and only a luckier one, may drop its end, and, when *)
(* nothing is left, begin anew.                                            *)
(*                                                                         *)
(* The promise is the code's, not the ideal: the rows above the segment's  *)
(* end stay (applyFork never deletes them).                                *)
(***************************************************************************)
EXTENDS ChainTables

VARIABLE chain   \* the block at each index

ChainInit == chain = [EmptyTable EXCEPT ![1] = Genesis]

\* The blocks of s lie one after the other, the first one on c.
Extends(c, s) ==
    \A b \in s :
        \/ b.index = 1
        \/ b.prev = HashAt(c, b.index - 1) /\ \A a \in s : a.index >= b.index
        \/ \E a \in s : a.index = b.index - 1 /\ a.hash = b.prev

Adopt(s) ==
    /\ s # {}
    /\ \A a, b \in s : a.index = b.index => a = b
    /\ \A b \in s : b.content /\ ProofCertificate(b)
    /\ Extends(chain, s)
    /\ IsLuckierChain(chain, s, Overlay(EmptyTable, s))
    /\ chain' = Overlay(chain, s)

Cut(i) == chain' = [j \in Index |-> IF j >= i THEN NoRow ELSE chain[j]]

\* A process that starts and finds no block begins anew.
StartAnew == chain = EmptyTable /\ chain' = [EmptyTable EXCEPT ![1] = Genesis]

ChainNext ==
    \/ \E s \in SUBSET Blocks : Adopt(s)
    \/ \E i \in Index : Cut(i)
    \/ StartAnew

ChainSpec == ChainInit /\ [][ChainNext]_chain
=============================================================================
