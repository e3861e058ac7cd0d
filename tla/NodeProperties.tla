--------------------------- MODULE NodeProperties ---------------------------
(***************************************************************************)
(* What must be true of the threads of one node: NodeThreads.              *)
(***************************************************************************)
EXTENDS NodeThreads

\* A thread writes its fork over the main chain, block by block.
Replacing(t) == pc[t] \in {"replace", "clear", "save"}

\* The main chain as it will be when the threads that write have finished.
Committed == Overlay(main, UNION {todo[t] : t \in {u \in Threads : Replacing(u)}})

\* Two kinds of steps throw rows away: a restart in the middle of applyFork,
\* and a checkDatabase that finds a bad row.
Torn == \E t \in Threads : Replacing(t) /\ pc'[t] = "idle"
Cleaned == \E i \in Held(main) : main'[i] = NoRow

\* BLOCKCHAIN has a row for each index from 1 up to the last: every forward
\* read by index (verifyBlock, block responses) finds its block.
NoGaps == \A i \in Held(main) : i > 1 => i - 1 \in Held(main)

\* checkTempChain never runs on a fork table that is gone or empty, where it
\* would abort the process.
NoAbort == \A t \in Threads : pc[t] # "aborted"

\* A fork never has two requests out (handleReceivedBlock), and the block that
\* is asked for belongs right below a row of a table that is there to take the
\* answer, whatever Block() answers did to it.  Without one of those among its
\* rows, a fork table has no gap.
RequestsFitForks ==
    /\ \A r, s \in requests : r[2] = s[2] => r = s
    /\ \A r \in requests : r[2] \in live /\ r[1] + 1 \in Held(forkTab[r[2]])
    /\ \A f \in ForkIds : RowsOf(forkTab[f]) \subseteq Blocks =>
        \A i, j \in Held(forkTab[f]) : i .. j \subseteq Held(forkTab[f])

\* applyFork drops its fork only when every block of it, with just that block's
\* transactions, is in the main chain; and handleBlock returns 0 only when a
\* whole block is there at the index of the one it was called with, the index
\* 1 excepted.
SuccessMeansStored ==
    \A t \in Threads : retVal[t] = 0 =>
        /\ pc[t] = "drop" => \A b \in RowsOf(ForkOf(t)) :
                main[b.index] = b /\ rows[b.index] = b.txs
        /\ pc[t] = "returned" /\ blk[t].index > 1 =>
                /\ blk[t].index \in Held(main)
                /\ rows[blk[t].index] = main[blk[t].index].txs

\* A linked chain comes apart only when a luckier but shorter fork leaves the
\* old chain's end above it, or a crash leaves applyFork half done.
LinkLostOnlyToShorterFork ==
    [][Linked(Committed) /\ ~ Linked(Committed)' =>
        \/ Torn
        \/ \E t \in Threads : /\ pc[t] = "apply" /\ pc'[t] = "replace"
                              /\ \A b \in todo'[t] : b.index < LastIndex(main)]_vars

\* The luck of the chain that peers would accept from this node never falls,
\* whatever forks come in, unless a crash or a check cuts the chain.
LinkedLuckNeverFalls ==
    [][~ Torn /\ ~ Cleaned =>
        LuckOf(LinkedPart(Committed)) <= LuckOf(LinkedPart(Committed))']_vars

\* The transactions the node has, in the mempool, in the main chain or in the
\* fork that mempoolUpdate has already counted as part of it.
TxsOf(s) == UNION {b.txs : b \in s}

KnownTxs ==
    mempool \cup (UNION {rows[i] : i \in Index})
            \cup TxsOf(UNION {todo[t] : t \in {u \in Threads : Replacing(u)}})
            \cup TxsOf(UNION {RowsOf(ForkOf(t)) : t \in {u \in Threads : pc[u] = "apply"}})

\* Taking over a fork loses no transaction: one that leaves the chain is back
\* in the mempool before its row is deleted.
TxsKept ==
    [][(\E t \in Threads : HandleBlockStep(t)) => KnownTxs \subseteq KnownTxs']_vars

\* After checkDatabase, the chain is linked, each index holds a valid, proven
\* block and exactly its transactions, and none is stored twice: whatever a
\* crash, a shorter fork or the other thread had left behind.
CheckRepairs ==
    [][(\E low \in BOOLEAN : CheckDatabase(low)) =>
        /\ Linked(main)'
        /\ \A i \in Held(main') : rows'[i] = main'[i].txs
        /\ \A i \in Held(main') : main'[i].content /\ ProofCertificate(main'[i])
        /\ \A i, j \in Held(main') : i # j => rows'[i] \cap rows'[j] = {}]_vars

\* Every call of handleBlock comes to an end, however the threads interleave.
Returns == \A t \in Threads : pc[t] # "idle" ~> pc[t] \in {"idle", "aborted"}

\* A valid block on top of the main chain whose luck beats what it displaces
\* gets into the main chain: no check on the way turns it down.
LuckierBlockIsAdopted ==
    \A b \in Blocks :
        /\ pc["net"] = "create" /\ blk["net"] = b
        /\ appends["net"]
        /\ b.content /\ b.cert
        /\ b.txs \cap TxsBefore(rows, b.index) = {}
        /\ IsLuckierBlock(main, b)
        ~> main[b.index] = b

\* The threads implement the atomic chain: a fork is taken over in one step,
\* when applyFork has read it.
Chain == INSTANCE LuckyChain WITH chain <- Committed
ImplementsLuckyChain == Chain!ChainSpec

-----------------------------------------------------------------------------
(* What the comments of the code say, and the code does not do.            *)

\* mempoolUpdate: "the fork, that replaces the main chain" (blockchain.cpp:656):
\* after a fork has replaced it, the main chain is one chain.
ForkReplacesChain == Linked(Committed)

\* checkTempChain: "checks if every block is valid" (blockchain.cpp:283)
\* before a fork is applied: the chain holds no other blocks.
StoredIsVerified == \A i \in Held(main) : main[i].content /\ main[i].cert

\* verifyBlock: "true if it is valid, false else" (blockchain.cpp:115): a check
\* of a chain without a bad block leaves it as it is.
ValidChainSurvivesCheck ==
    [][(\E low \in BOOLEAN : CheckDatabase(low)) /\ BadRows(main, rows, TRUE) = {}
        => main' = main]_vars

\* createFork: "creates a table for a new fork" (database.cpp:146): no two
\* calls of handleBlock work on the same fork.
ForkIsNew ==
    \A t, u \in Threads : t # u /\ fork[t] = fork[u] => fork[t] = 0

\* handleBlock: "0 if successful" (blockchain.cpp:332): a call that returns 0
\* has stored its block.  Not so for a block of index 1, nor for a second
\* answer to a request that a Block() has made the node repeat.
ZeroMeansStored ==
    \A t \in Threads :
        pc[t] = "returned" /\ retVal[t] = 0 => main[blk[t].index] = blk[t]

\* checkTempChain: "checks if the given fork is valid ... and if the chain is
\* luckier then then main chain" (blockchain.cpp:282-284): a fork that is
\* written over the main chain beats the rows it displaces.
AppliedForkIsLuckier ==
    [][\A t \in Threads : pc[t] = "apply" /\ pc'[t] = "replace" /\ todo'[t] # {} =>
        IsLuckierChain(main, todo'[t], ForkOf(t))]_vars
=============================================================================
