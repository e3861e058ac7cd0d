---------------------------- MODULE NodeThreads ----------------------------
(***************************************************************************)
(* The threads of one node (src/Network/client.cpp) around handleBlock:    *)
(* the Qt thread, which receives blocks and transactions from the peers,   *)
(* and the miner thread.  networkMutex is taken by the Qt thread only; the *)
(* miner calls handleBlock without it, so the two calls interleave.        *)
(*                                                                         *)
(* The peers are the environment: they send any block of the network, and  *)
(* answer a request with any block of the requested index, with a Block()  *)
(* whose fields nobody has set, when they have none, or not at all.        *)
(***************************************************************************)
EXTENDS HandleBlock

CONSTANTS
    Payments,        \* the transactions users send, a subset of Tx
    RunsBeforeCheck, \* miner rounds on one index before a check: 5 in the code
    Crashes,         \* whether the process may be killed and started again
    Checks           \* whether a user or a peer may ask for checkDatabase

ASSUME ThreadsAssumption ==
    /\ Threads \subseteq {"net", "miner"}
    /\ Payments \subseteq Tx
    /\ RunsBeforeCheck \in Nat \ {0}
    /\ Crashes \in BOOLEAN
    /\ Checks \in BOOLEAN

VARIABLES
    requests,  \* block requests without an answer: <<index, fork id>>
    miner,     \* where the miner's loop is
    prevBlock, \* miner: the block the new block is built on
    runs       \* miner: rounds with the same block index

minerVars == <<miner, prevBlock, runs>>
vars == <<hbVars, requests, minerVars>>

MinerSteps == {"off", "loop", "check", "prove", "first", "second"}

TypeOK ==
    /\ HBTypeOK
    /\ requests \subseteq Index \X ForkIds
    /\ miner \in MinerSteps
    /\ prevBlock \in Received \cup {NoRow}
    /\ runs \in 0 .. RunsBeforeCheck

Init ==
    /\ HBInit
    /\ requests = {}
    /\ miner = "off"
    /\ prevBlock = NoRow
    /\ runs = 0

\* Bound: a new fork table is opened only while one more id is left.
RoomForFork ==
    Cardinality({t \in Threads : pc[t] = "create"}) + forks < MaxForks

Running == \A t \in Threads : pc[t] # "aborted"

-----------------------------------------------------------------------------
(* The Qt thread.                                                          *)

\* handleReceivedBlock for a broadcast block or the answer to a request for
\* the latest block, which a peer with an empty table has not: no fork yet.
ReceiveBlock(b) ==
    /\ "net" \in Threads
    /\ RoomForFork
    /\ pc["net"] = "idle"
    /\ Begin("net", b, 0)
    /\ UNCHANGED <<requests, minerVars>>

\* handleReceivedBlock for a block response, which carries the fork's id: the
\* peer's row of the index, or Block() when it has none.
ReceiveResponse(i, f, b) ==
    /\ "net" \in Threads
    /\ <<i, f>> \in requests
    /\ b.index = i \/ b \in Unset
    /\ pc["net"] = "idle"
    /\ Begin("net", b, f)
    /\ requests' = requests \ {<<i, f>>}
    /\ UNCHANGED minerVars

\* Mutant of HandleResult: 0 asks for a block as well.
HandleResultAsksAtZero ==
    /\ "net" \in Threads
    /\ Return("net")
    /\ requests' = IF retVal["net"] >= 0
                   THEN requests \cup {<<retVal["net"], fork["net"]>>}
                   ELSE requests
    /\ UNCHANGED minerVars

\* The rest of handleReceivedBlock: a result above 0 asks the sender for the
\* block before; -2 asks it to check its database; 0 and -1 ask for nothing.
HandleResult ==
    /\ "net" \in Threads
    /\ Return("net")
    /\ requests' = IF retVal["net"] > 0
                   THEN requests \cup {<<retVal["net"], fork["net"]>>}
                   ELSE requests
    /\ UNCHANGED minerVars

\* The peer disconnects, before or after its answer.
LoseRequest ==
    /\ Running
    /\ \E r \in requests : requests' = requests \ {r}
    /\ UNCHANGED <<hbVars, minerVars>>

\* addReceivedTransaction, and the user's own transactions.
ReceiveTransaction(tx) ==
    /\ Running
    /\ NewTransaction(tx)
    /\ UNCHANGED <<requests, minerVars>>

\* The message CHECK_BLOCKCHAIN, or the user's command.
CheckRequested ==
    /\ Checks
    /\ "net" \in Threads
    /\ pc["net"] = "idle"
    /\ \E low \in BOOLEAN : CheckDatabase(low)
    /\ UNCHANGED <<requests, minerVars>>

-----------------------------------------------------------------------------
(* The miner: handleBlockCommand.                                          *)

\* Without a block in the table, the block built next has no defined index:
\* the model has no miner then.
LatestBlock == main[LastIndex(main)]

\* putTxInBlock leaves out of the mempool what cannot go into a block: what
\* is stored in the chain already, coinbase transactions, payments without
\* cover.  It skips the entry after one it erases, so it may leave some.
Unusable == {tx \in mempool : tx \notin Payments \/ \E i \in Index : tx \in rows[i]}

PutTxInBlock ==
    \E gone \in SUBSET mempool :
        /\ Unusable # {} => gone \cap Unusable # {}
        /\ mempool' = mempool \ gone

\* buildNewBlock on the latest block.
BuildNewBlock ==
    /\ Held(main) # {}
    /\ prevBlock' = LatestBlock
    /\ PutTxInBlock
    /\ UNCHANGED <<tables, pc, locals>>

MinerStart ==
    /\ "miner" \in Threads
    /\ miner = "off"
    /\ Running
    /\ BuildNewBlock
    /\ miner' = "loop"
    /\ runs' = 0
    /\ UNCHANGED requests

\* The start of a round: when the round's time is up, the new block is built
\* anew; the rounds in which the block's index stays the same are counted.
MinerRound ==
    /\ miner = "loop"
    /\ Running
    /\ \/ BuildNewBlock
       \/ UNCHANGED <<hbVars, prevBlock>>
    /\ runs' = IF prevBlock'.index = prevBlock.index THEN runs + 1 ELSE 0
    /\ miner' = IF runs' >= RunsBeforeCheck THEN "check" ELSE "prove"
    /\ UNCHANGED requests

\* "avoid getting stuck with wrong chain": executeverifyBlockchain.
MinerCheck ==
    /\ miner = "check"
    /\ Running
    /\ \E low \in BOOLEAN : CheckDatabase(low)
    /\ miner' = "prove"
    /\ runs' = 0
    /\ UNCHANGED <<requests, prevBlock>>

\* The second half, when the enclave's number makes the block lucky enough.
\* addProof's result is not looked at: the block may come without a proof,
\* and with any number.  A block on an unset one has no predecessor's hash
\* and is not one of Blocks.
MinerLucky(b) ==
    /\ miner = "prove"
    /\ b.prev = prevBlock.hash
    /\ b.index = prevBlock.index + 1
    /\ IsLuckierBlock(main, b)
    /\ RoomForFork
    /\ pc["miner"] = "idle"
    /\ Begin("miner", b, 0)
    /\ miner' = "first"
    /\ UNCHANGED <<requests, prevBlock, runs>>

MinerUnlucky ==
    /\ miner = "prove"
    /\ Running
    /\ miner' = "loop"
    /\ UNCHANGED <<hbVars, requests, prevBlock, runs>>

\* A result above 0: the block's predecessor is not in the main chain any
\* more, and the miner handles the one it knows, in the same fork.
MinerRetry ==
    /\ miner = "first"
    /\ pc["miner"] = "returned"
    /\ retVal["miner"] > 0
    /\ miner' = "second"
    /\ Begin("miner", prevBlock, fork["miner"])
    /\ UNCHANGED <<requests, prevBlock, runs>>

\* Any other result, and any result of the second call, ends the round; a
\* first result of 0 broadcasts the block (the peers are the environment).
MinerDone ==
    /\ miner \in {"first", "second"}
    /\ miner = "first" => retVal["miner"] <= 0
    /\ Return("miner")
    /\ miner' = "loop"
    /\ UNCHANGED <<requests, prevBlock, runs>>

-----------------------------------------------------------------------------

\* The process is killed, or aborted, and started again; its connections
\* and so its requests are gone.
CrashRestart ==
    /\ Crashes
    /\ Restart
    /\ requests' = {}
    /\ miner' = "off"
    /\ prevBlock' = NoRow
    /\ runs' = 0

InHandleBlock(t) == HandleBlockStep(t) /\ UNCHANGED <<requests, minerVars>>

NetEvent ==
    \/ \E b \in Received : ReceiveBlock(b)
    \/ \E i \in Index, f \in ForkIds, b \in Received : ReceiveResponse(i, f, b)
    \/ LoseRequest
    \/ \E tx \in Payments : ReceiveTransaction(tx)
    \/ CheckRequested

Miner ==
    \/ MinerStart \/ MinerRound \/ MinerCheck
    \/ \E b \in Blocks : MinerLucky(b)
    \/ MinerUnlucky \/ MinerRetry \/ MinerDone

Next ==
    \/ NetEvent
    \/ HandleResult
    \/ Miner
    \/ \E t \in Threads : InHandleBlock(t)
    \/ CrashRestart

\* A thread inside handleBlock is scheduled again and again: no statement of
\* it waits for anything but a mutex that is held for one action.
Fairness ==
    /\ \A t \in Threads : WF_vars(InHandleBlock(t))
    /\ WF_vars(HandleResult)
    /\ WF_vars(MinerRetry \/ MinerDone)

Spec == Init /\ [][Next]_vars
FairSpec == Spec /\ Fairness
=============================================================================
