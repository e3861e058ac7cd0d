---------------------------- MODULE HandleBlock ----------------------------
(***************************************************************************)
(* Blockchain::handleBlock (src/Chain/blockchain.cpp) on the database      *)
(* (src/Database/database.cpp), one action per stretch of code that other  *)
(* threads see as a whole: a statement under dbMutex, or a loop that keeps *)
(* dbMutex.  Every statement commits by itself, so what an action leaves   *)
(* in main, rows and forkTab is also what a crash leaves on disk.          *)
(*                                                                         *)
(* The module has no Init and Next of its own: NodeThreads calls Begin and *)
(* Return from the code of the threads.                                    *)
(***************************************************************************)
EXTENDS ChainTables

CONSTANTS
    Threads,   \* threads that call handleBlock
    MaxForks   \* bound: fork tables ever created

ASSUME ForksAssumption == MaxForks \in Nat \ {0}

ForkIds == 1 .. MaxForks

VARIABLES
    main,      \* table BLOCKCHAIN
    rows,      \* table TRANSACTIONS: the transactions stored for each index
    forkTab,   \* tables FORK<id>, with FORK<id>_TRANSACTIONS
    live,      \* ids whose FORK<id> table exists
    forks,     \* number of rows of table FORKS, which is also its last id
    rowid,     \* what sqlite3_last_insert_rowid returns
    mempool,   \* the transactions in the mempool
    pc,        \* per thread: the next stretch of handleBlock
    blk,       \* per thread: the block handled
    fork,      \* per thread: *forkID, 0 for none
    appends,   \* per thread: the "appending block" branch was taken
    retVal,    \* per thread: the result of handleBlock
    todo,      \* per thread: the fork rows a loop goes over
    left       \* per thread: the transactions saveTransaction still has to store

tables  == <<main, rows, forkTab, live, forks, rowid>>
locals  == <<blk, fork, appends, retVal, todo, left>>
hbVars  == <<tables, mempool, pc, locals>>

Steps == {"idle", "create", "rowid", "add", "verify", "luck", "mempool", "apply",
          "replace", "clear", "save", "drop", "returned", "aborted"}

HBTypeOK ==
    /\ main \in SentTables
    /\ rows \in [Index -> SUBSET Tx]
    /\ forkTab \in [ForkIds -> SentTables]
    /\ live \subseteq ForkIds
    /\ forks \in 0 .. MaxForks
    /\ rowid \in 0 .. MaxForks
    /\ mempool \subseteq Tx
    /\ pc \in [Threads -> Steps]
    /\ blk \in [Threads -> Received \cup {NoRow}]
    /\ fork \in [Threads -> 0 .. MaxForks]
    /\ appends \in [Threads -> BOOLEAN]
    /\ retVal \in [Threads -> -2 .. MaxIndex]
    /\ todo \in [Threads -> SUBSET Received]
    /\ left \in [Threads -> SUBSET Tx]

HBInit ==
    /\ main = [EmptyTable EXCEPT ![1] = Genesis]
    /\ rows = [i \in Index |-> IF i = 1 THEN Genesis.txs ELSE {}]
    /\ forkTab = [id \in ForkIds |-> EmptyTable]
    /\ live = {}
    /\ forks = 0
    /\ rowid = 0
    /\ mempool = {}
    /\ pc = [t \in Threads |-> "idle"]
    /\ blk = [t \in Threads |-> NoRow]
    /\ fork = [t \in Threads |-> 0]
    /\ appends = [t \in Threads |-> FALSE]
    /\ retVal = [t \in Threads |-> -1]
    /\ todo = [t \in Threads |-> {}]
    /\ left = [t \in Threads |-> {}]

Goto(t, step) == pc' = [pc EXCEPT ![t] = step]

\* The rows of t's fork table; none when the table does not exist.
ForkOf(t) == IF fork[t] \in live THEN forkTab[fork[t]] ELSE EmptyTable

\* An INSERT into another table: its id, a small number as well, replaces
\* what sqlite3_last_insert_rowid is about to return to another thread.
InsertElsewhere(t) ==
    IF \E u \in Threads \ {t} : pc[u] = "rowid"
    THEN rowid' \in ForkIds
    ELSE UNCHANGED rowid

-----------------------------------------------------------------------------

\* The test of handleBlock: b directly follows a block of the main chain.
Follows(b) ==
    /\ b.index - 1 <= LastIndex(main)
    /\ b.prev = HashAt(main, b.index - 1)

\* The call handleBlock(b, &f), up to its first write.
Begin(t, b, f) ==
    /\ blk' = [blk EXCEPT ![t] = b]
    /\ fork' = [fork EXCEPT ![t] = f]
    /\ appends' = [appends EXCEPT ![t] = Follows(b)]
    /\ \/ /\ Follows(b) \/ ProofCertificate(b)
          /\ retVal' = [retVal EXCEPT ![t] = -1]
          /\ Goto(t, IF f = 0 THEN "create" ELSE "add")
       \/ /\ ~ Follows(b) /\ ~ ProofCertificate(b)
          /\ retVal' = [retVal EXCEPT ![t] = -2]
          /\ Goto(t, IF f = 0 THEN "returned" ELSE "drop")
    /\ UNCHANGED <<tables, mempool, todo, left>>

\* createFork, first half: INSERT INTO FORKS.
CreateForkRow(t) ==
    /\ pc[t] = "create"
    /\ forks < MaxForks
    /\ forks' = forks + 1
    /\ rowid' = forks + 1
    /\ Goto(t, "rowid")
    /\ UNCHANGED <<main, rows, forkTab, live, mempool, locals>>

\* createFork, second half: sqlite3_last_insert_rowid, read without dbMutex,
\* and CREATE TABLE IF NOT EXISTS.
CreateForkTable(t) ==
    /\ pc[t] = "rowid"
    /\ fork' = [fork EXCEPT ![t] = rowid]
    /\ live' = live \cup {rowid}
    /\ Goto(t, "add")
    /\ UNCHANGED <<main, rows, forkTab, forks, rowid, mempool, blk, appends, retVal, todo, left>>

\* Mutant of AddToFork: asks for the block it was just given.
AddToForkAsksAgain(t) ==
    LET f == fork[t]
        i == blk[t].index
    IN  /\ pc[t] = "add"
        /\ forkTab' = IF f \in live /\ forkTab[f][i] = NoRow
                      THEN [forkTab EXCEPT ![f][i] = blk[t]] ELSE forkTab
        /\ Goto(t, IF appends[t] THEN "verify" ELSE "returned")
        /\ retVal' = [retVal EXCEPT ![t] = IF appends[t] THEN @ ELSE i]
        /\ UNCHANGED <<main, rows, live, forks, rowid, mempool, blk, fork, appends, todo, left>>

\* Mutant of AddToFork: a block with missing ancestors drops its fork.
AddToForkDropsMissing(t) ==
    LET f == fork[t]
        i == blk[t].index
    IN  /\ pc[t] = "add"
        /\ forkTab' = IF f \in live /\ forkTab[f][i] = NoRow /\ appends[t]
                      THEN [forkTab EXCEPT ![f][i] = blk[t]] ELSE forkTab
        /\ live' = IF appends[t] THEN live ELSE live \ {f}
        /\ Goto(t, IF appends[t] THEN "verify" ELSE "returned")
        /\ retVal' = [retVal EXCEPT ![t] = IF appends[t] THEN @ ELSE i - 1]
        /\ UNCHANGED <<main, rows, forks, rowid, mempool, blk, fork, appends, todo, left>>

\* addToFork, whose failure (no table, or a row with that index) is ignored.
\* When blocks are missing, handleBlock is done.
AddToFork(t) ==
    LET f == fork[t]
        i == blk[t].index
    IN  /\ pc[t] = "add"
        /\ IF f \in live /\ forkTab[f][i] = NoRow
           THEN /\ forkTab' = [forkTab EXCEPT ![f][i] = blk[t]]
                /\ InsertElsewhere(t)
           ELSE UNCHANGED <<forkTab, rowid>>
        /\ \/ /\ appends[t]
              /\ Goto(t, "verify")
              /\ UNCHANGED retVal
           \/ /\ ~ appends[t]
              /\ Goto(t, "returned")
              /\ retVal' = [retVal EXCEPT ![t] = i - 1]
        /\ UNCHANGED <<main, rows, live, forks, mempool, blk, fork, appends, todo, left>>

\* The loop of checkTempChain, which keeps dbMutex.  It builds a block from
\* the first row before it asks whether there is one: without a row, the
\* process aborts.
VerifyTempChain(t) ==
    /\ pc[t] = "verify"
    /\ \/ /\ Held(ForkOf(t)) = {}
          /\ pc' = [u \in Threads |-> "aborted"]
          /\ UNCHANGED <<retVal, todo>>
       \/ /\ Held(ForkOf(t)) # {}
          /\ \E low \in BOOLEAN :
                \/ /\ VerifyFork(main, rows, ForkOf(t), low)
                   /\ todo' = [todo EXCEPT ![t] = RowsOf(ForkOf(t))]
                   /\ Goto(t, "luck")
                   /\ UNCHANGED retVal
                \/ /\ ~ VerifyFork(main, rows, ForkOf(t), low)
                   /\ retVal' = [retVal EXCEPT ![t] = -2]
                   /\ Goto(t, "drop")
                   /\ UNCHANGED todo
    /\ UNCHANGED <<tables, mempool, blk, fork, appends, left>>

\* The last line of checkTempChain, after dbMutex was released.
CompareLuck(t) ==
    /\ pc[t] = "luck"
    /\ Goto(t, IF IsLuckierChain(main, todo[t], ForkOf(t)) THEN "mempool" ELSE "drop")
    /\ todo' = [todo EXCEPT ![t] = {}]
    /\ UNCHANGED <<tables, mempool, blk, fork, appends, retVal, left>>

\* Mutant of MempoolUpdate: the displaced block at the fork's first index is
\* forgotten.
MempoolUpdateOffByOne(t) ==
    LET f       == ForkOf(t)
        toAdd   == UNION {rows[i] : i \in {j \in Index : \E k \in Held(f) : k < j}}
        toDelete == UNION {b.txs : b \in RowsOf(f)}
    IN  /\ pc[t] = "mempool"
        /\ mempool' = (mempool \cup toAdd) \ toDelete
        /\ Goto(t, "apply")
        /\ UNCHANGED <<tables, locals>>

\* mempoolUpdate: what the fork displaces, coinbase transactions included,
\* goes back to the mempool, then what the fork contains leaves it.
MempoolUpdate(t) ==
    LET f       == ForkOf(t)
        toAdd   == UNION {rows[i] : i \in {j \in Index : \E k \in Held(f) : k <= j}}
        toDelete == UNION {b.txs : b \in RowsOf(f)}
    IN  /\ pc[t] = "mempool"
        /\ mempool' = (mempool \cup toAdd) \ toDelete
        /\ Goto(t, "apply")
        /\ UNCHANGED <<tables, locals>>

\* applyFork up to its loop.  Its failure is ignored by handleBlock.
ApplyFork(t) ==
    /\ pc[t] = "apply"
    /\ \/ /\ fork[t] \in live
          /\ todo' = [todo EXCEPT ![t] = RowsOf(ForkOf(t))]
          /\ Goto(t, "replace")
          /\ UNCHANGED retVal
       \/ /\ fork[t] \notin live
          /\ retVal' = [retVal EXCEPT ![t] = 0]
          /\ Goto(t, "returned")
          /\ UNCHANGED todo
    /\ UNCHANGED <<tables, mempool, blk, fork, appends, left>>

\* The block replaceBlock works on: the rows are taken in index order.
IsNext(t, b) == b \in todo[t] /\ \A c \in todo[t] : b.index <= c.index

\* replaceBlock: INSERT OR REPLACE INTO BLOCKCHAIN.
ReplaceHeader(t) ==
    /\ pc[t] = "replace"
    /\ \E b \in todo[t] :
        /\ IsNext(t, b)
        /\ main' = [main EXCEPT ![b.index] = b]
    /\ InsertElsewhere(t)
    /\ Goto(t, "clear")
    /\ UNCHANGED <<rows, forkTab, live, forks, mempool, locals>>

\* replaceBlock: removeTransactions and removeInput.  An unset block, which
\* the other thread may have put into the fork, has nothing to save.
RemoveTransactions(t) ==
    /\ pc[t] = "clear"
    /\ \E b \in todo[t] :
        /\ IsNext(t, b)
        /\ rows' = [rows EXCEPT ![b.index] = {}]
        /\ left' = [left EXCEPT ![t] = b.txs]
        /\ \/ /\ b.txs # {}
              /\ Goto(t, "save")
              /\ UNCHANGED todo
           \/ /\ b.txs = {}
              /\ Goto(t, "replace")
              /\ todo' = [todo EXCEPT ![t] = @ \ {b}]
    /\ UNCHANGED <<main, forkTab, live, forks, rowid, mempool, blk, fork, appends, retVal>>

\* Mutant of SaveTransaction: the loop ends after its first transaction.
SaveOneTransaction(t) ==
    /\ pc[t] = "save"
    /\ \E b \in todo[t], tx \in left[t] :
        /\ IsNext(t, b)
        /\ rows' = [rows EXCEPT ![b.index] = @ \cup {tx}]
        /\ todo' = [todo EXCEPT ![t] = @ \ {b}]
    /\ left' = [left EXCEPT ![t] = {}]
    /\ Goto(t, "replace")
    /\ InsertElsewhere(t)
    /\ UNCHANGED <<main, forkTab, live, forks, mempool, blk, fork, appends, retVal>>

\* replaceBlock: saveTransaction for each transaction, with its inputs.
SaveTransaction(t) ==
    /\ pc[t] = "save"
    /\ \E b \in todo[t], tx \in left[t] :
        /\ IsNext(t, b)
        /\ rows' = [rows EXCEPT ![b.index] = @ \cup {tx}]
        /\ left' = [left EXCEPT ![t] = @ \ {tx}]
        /\ \/ /\ left[t] = {tx}
              /\ todo' = [todo EXCEPT ![t] = @ \ {b}]
              /\ Goto(t, "replace")
           \/ /\ left[t] # {tx}
              /\ UNCHANGED <<todo, pc>>
    /\ InsertElsewhere(t)
    /\ UNCHANGED <<main, forkTab, live, forks, mempool, blk, fork, appends, retVal>>

\* The end of applyFork's loop: handleBlock will return 0.
FinishApply(t) ==
    /\ pc[t] = "replace"
    /\ todo[t] = {}
    /\ retVal' = [retVal EXCEPT ![t] = 0]
    /\ Goto(t, "drop")
    /\ UNCHANGED <<tables, mempool, blk, fork, appends, todo, left>>

\* Mutant of DeleteFork: tried again until the tables could be dropped.
DeleteForkUntilDone(t) ==
    /\ pc[t] = "drop"
    /\ fork[t] \in live
    /\ forkTab' = [forkTab EXCEPT ![fork[t]] = EmptyTable]
    /\ live' = live \ {fork[t]}
    /\ Goto(t, "returned")
    /\ UNCHANGED <<main, rows, forks, rowid, mempool, locals>>

\* deleteFork, at the end of applyFork or of a failed handleBlock.
DeleteFork(t) ==
    /\ pc[t] = "drop"
    /\ forkTab' = [forkTab EXCEPT ![fork[t]] = EmptyTable]
    /\ live' = live \ {fork[t]}
    /\ Goto(t, "returned")
    /\ UNCHANGED <<main, rows, forks, rowid, mempool, locals>>

\* The caller has used the result: t's locals go out of scope.
Return(t) ==
    /\ pc[t] = "returned"
    /\ Goto(t, "idle")
    /\ blk' = [blk EXCEPT ![t] = NoRow]
    /\ fork' = [fork EXCEPT ![t] = 0]
    /\ appends' = [appends EXCEPT ![t] = FALSE]
    /\ retVal' = [retVal EXCEPT ![t] = -1]
    /\ UNCHANGED <<tables, mempool, todo, left>>

HandleBlockStep(t) ==
    \/ CreateForkRow(t) \/ CreateForkTable(t) \/ AddToFork(t)
    \/ VerifyTempChain(t) \/ CompareLuck(t)
    \/ MempoolUpdate(t) \/ ApplyFork(t)
    \/ ReplaceHeader(t) \/ RemoveTransactions(t) \/ SaveTransaction(t)
    \/ FinishApply(t) \/ DeleteFork(t)

-----------------------------------------------------------------------------

\* Mutant of CheckDatabase: deletes the bad rows, and not those above them.
CheckDatabaseKeepsEnd(low) ==
    LET bad == BadRows(main, rows, low)
    IN  /\ main' = [i \in Index |-> IF i \in bad THEN NoRow ELSE main[i]]
        /\ rows' = [i \in Index |-> IF i \in bad THEN {} ELSE rows[i]]
        /\ UNCHANGED <<forkTab, live, forks, rowid, mempool, pc, locals>>

\* checkDatabase: under dbMutex from its first statement to its last.
CheckDatabase(low) ==
    LET bad    == BadRows(main, rows, low)
        cut(i) == \E j \in bad : j <= i
    IN  /\ main' = [i \in Index |-> IF cut(i) THEN NoRow ELSE main[i]]
        /\ rows' = [i \in Index |-> IF cut(i) THEN {} ELSE rows[i]]
        /\ UNCHANGED <<forkTab, live, forks, rowid, mempool, pc, locals>>

\* newTransaction: a transaction the mempool does not have yet.
NewTransaction(tx) ==
    /\ tx \notin mempool
    /\ mempool' = mempool \cup {tx}
    /\ UNCHANGED <<tables, pc, locals>>

\* The process ends and is started again: the database stays, and a
\* blockchain table without a row gets the genesis block.
Restart ==
    /\ main' = IF Held(main) = {} THEN [main EXCEPT ![1] = Genesis] ELSE main
    /\ rows' = IF Held(main) = {} THEN [rows EXCEPT ![1] = rows[1] \cup Genesis.txs] ELSE rows
    /\ rowid' = 0
    /\ mempool' = {}
    /\ pc' = [t \in Threads |-> "idle"]
    /\ blk' = [t \in Threads |-> NoRow]
    /\ fork' = [t \in Threads |-> 0]
    /\ appends' = [t \in Threads |-> FALSE]
    /\ retVal' = [t \in Threads |-> -1]
    /\ todo' = [t \in Threads |-> {}]
    /\ left' = [t \in Threads |-> {}]
    /\ UNCHANGED <<forkTab, live, forks>>
=============================================================================
