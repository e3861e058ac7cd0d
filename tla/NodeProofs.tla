----------------------------- MODULE NodeProofs -----------------------------
(***************************************************************************)
(* Proofs about the threads of one node, for every set of blocks and every *)
(* bound: types; checkDatabase repairs the stored chain, whatever threads  *)
(* there are; and what one thread that calls handleBlock alone keeps: no   *)
(* gap, requests that fit, transactions that stay with their blocks, luck  *)
(* that does not fall, and the chain that LuckyChain allows.               *)
(***************************************************************************)
EXTENDS NodeProperties, TableProofs

\* What the types of the locals rest on: a running call has a block, and a
\* fork id once it asks for more; a running miner knows a block.
CallsOK ==
    \A t \in Threads :
        /\ pc[t] \notin {"idle", "aborted"} => blk[t] \in Received
        /\ pc[t] = "rowid" => rowid \in ForkIds
        /\ pc[t] \notin {"idle", "create", "rowid", "returned", "aborted"} => fork[t] \in ForkIds
        /\ retVal[t] > 0 => fork[t] \in ForkIds

MinerOK ==
    /\ miner # "off" => "miner" \in Threads /\ prevBlock \in Received
    /\ miner \notin {"off", "check"} => runs < RunsBeforeCheck

CallInv == HBTypeOK /\ CallsOK
TypeInv == TypeOK /\ CallsOK /\ MinerOK

-----------------------------------------------------------------------------
(* Types.                                                                  *)

\* The latest row of a table with rows is a block that was received.
LEMMA LatestIsBlock ==
    ASSUME main \in SentTables, Held(main) # {}
    PROVE  LatestBlock \in Received
<1>1. Max(Held(main)) \in Held(main)
    BY MaxIndexOf DEF Held
<1>2. QED
    BY <1>1 DEF LatestBlock, LastIndex, Held, SentTables

LEMMA ForkOfType ==
    ASSUME HBTypeOK, NEW t \in Threads
    PROVE  ForkOf(t) \in SentTables /\ RowsOf(ForkOf(t)) \subseteq Received
<1>1. ForkOf(t) \in SentTables
    BY DEF ForkOf, HBTypeOK, SentTables, EmptyTable
<1>2. QED
    BY <1>1 DEF RowsOf, Held, SentTables

LEMMA InitType == Init => TypeInv
<1> SUFFICES ASSUME Init PROVE TypeInv
    OBVIOUS
<1> USE BlocksAssumption, ForksAssumption, ThreadsAssumption DEF Init, HBInit
<1>1. main \in SentTables /\ rows \in [Index -> SUBSET Tx]
    <2>1. 1 \in Index
        BY DEF Index
    <2>2. Genesis.txs \subseteq Tx
        BY BlockFields
    <2>3. QED
        BY <2>1, <2>2, BlocksReceived DEF SentTables, EmptyTable
<1>2. forkTab \in [ForkIds -> SentTables]
    BY DEF SentTables, EmptyTable
<1>3. HBTypeOK
    BY <1>1, <1>2 DEF HBTypeOK, Steps
<1>4. QED
    BY <1>3 DEF TypeInv, TypeOK, CallsOK, MinerOK, MinerSteps

\* A call of handleBlock with a block and a fork id, from a thread that has
\* no request to make, keeps the types.
LEMMA BeginType ==
    ASSUME CallInv, NEW t \in Threads, NEW b \in Received, NEW f \in 0 .. MaxForks,
           Begin(t, b, f)
    PROVE  CallInv'
<1> USE BlocksAssumption, ForksAssumption DEF Begin, Goto, tables, CallInv
<1>1. PICK s \in {"create", "returned", "add", "drop"}, r \in {-1, -2} :
        /\ pc' = [pc EXCEPT ![t] = s]
        /\ s \in {"add", "drop"} => f \in ForkIds
        /\ retVal' = [retVal EXCEPT ![t] = r]
    BY DEF ForkIds
<1>2. Follows(b) \in BOOLEAN
    BY DEF Follows
<1>3. HBTypeOK'
    BY <1>1, <1>2 DEF HBTypeOK, Steps
<1>4. CallsOK'
    BY <1>1 DEF HBTypeOK, CallsOK
<1>5. QED
    BY <1>3, <1>4

\* The end of a call keeps the types.
LEMMA ReturnType ==
    ASSUME CallInv, NEW t \in Threads, Return(t)
    PROVE  CallInv'
<1> USE BlocksAssumption, ForksAssumption DEF Return, Goto, tables, CallInv
<1>1. HBTypeOK'
    BY DEF HBTypeOK, Steps
<1>2. CallsOK'
    BY DEF HBTypeOK, CallsOK
<1>3. QED
    BY <1>1, <1>2

\* The rowid after an INSERT by t: an id, for a thread about to read one.
LEMMA InsertType ==
    ASSUME CallInv, NEW t \in Threads, InsertElsewhere(t)
    PROVE  /\ rowid' \in 0 .. MaxForks
           /\ \A u \in Threads \ {t} : pc[u] = "rowid" => rowid' \in ForkIds
BY ForksAssumption DEF InsertElsewhere, CallInv, CallsOK, HBTypeOK, ForkIds

\* Every stretch of handleBlock keeps the types.
LEMMA StepType ==
    ASSUME CallInv, NEW t \in Threads, HandleBlockStep(t)
    PROVE  CallInv'
<1> USE BlocksAssumption, ForksAssumption DEF CallInv, Goto, tables, locals
<1>1. CASE CreateForkRow(t)
    <2>1. HBTypeOK'
        BY <1>1 DEF CreateForkRow, HBTypeOK, Steps
    <2>2. CallsOK'
        BY <1>1 DEF CreateForkRow, HBTypeOK, CallsOK, ForkIds
    <2>3. QED
        BY <2>1, <2>2
<1>2. CASE CreateForkTable(t)
    <2>1. rowid \in ForkIds
        BY <1>2 DEF CreateForkTable, CallsOK
    <2>2. HBTypeOK'
        BY <1>2, <2>1 DEF CreateForkTable, HBTypeOK, Steps, ForkIds
    <2>3. CallsOK'
        BY <1>2, <2>1 DEF CreateForkTable, HBTypeOK, CallsOK
    <2>4. QED
        BY <2>2, <2>3
<1>3. CASE AddToFork(t)
    <2>1. blk[t] \in Received /\ blk[t].index \in Index /\ fork[t] \in ForkIds
        BY <1>3, ReceivedFields DEF AddToFork, CallsOK
    <2>2. /\ rowid' \in 0 .. MaxForks
          /\ \A u \in Threads \ {t} : pc[u] = "rowid" => rowid' \in ForkIds
        BY <1>3, InsertType DEF AddToFork, HBTypeOK, CallsOK
    <2>3. forkTab' \in [ForkIds -> SentTables]
        <3>1. [forkTab[fork[t]] EXCEPT ![blk[t].index] = blk[t]] \in SentTables
            BY <2>1 DEF HBTypeOK, SentTables
        <3>2. \/ forkTab' = forkTab
              \/ forkTab' = [forkTab EXCEPT ![fork[t]] =
                                [forkTab[fork[t]] EXCEPT ![blk[t].index] = blk[t]]]
            BY <1>3 DEF AddToFork
        <3>3. QED
            BY <2>1, <3>1, <3>2 DEF HBTypeOK
    <2>4. PICK s \in {"verify", "returned"} : pc' = [pc EXCEPT ![t] = s]
        BY <1>3 DEF AddToFork
    <2>5. \/ retVal' = retVal
          \/ retVal' = [retVal EXCEPT ![t] = blk[t].index - 1]
        BY <1>3 DEF AddToFork
    <2>6. retVal' \in [Threads -> -2 .. MaxIndex]
        <3>1. blk[t].index - 1 \in -2 .. MaxIndex
            BY <2>1 DEF Index
        <3>2. QED
            BY <2>5, <3>1 DEF HBTypeOK
    <2>7. UNCHANGED <<main, rows, live, forks, mempool, blk, fork, appends, todo, left>>
        BY <1>3 DEF AddToFork
    <2>8. HBTypeOK'
        BY <2>2, <2>3, <2>4, <2>6, <2>7 DEF HBTypeOK, Steps
    <2>9. CallsOK'
        BY <2>1, <2>2, <2>4, <2>5, <2>7 DEF HBTypeOK, CallsOK
    <2>10. QED
        BY <2>8, <2>9
<1>4. CASE VerifyTempChain(t)
    <2>1. RowsOf(ForkOf(t)) \subseteq Received
        BY ForkOfType
    <2>2. /\ UNCHANGED <<tables, mempool, blk, fork, appends, left>>
          /\ \/ pc' = [u \in Threads |-> "aborted"] /\ UNCHANGED <<retVal, todo>>
             \/ /\ pc' = [pc EXCEPT ![t] = "luck"]
                /\ todo' = [todo EXCEPT ![t] = RowsOf(ForkOf(t))]
                /\ UNCHANGED retVal
             \/ /\ pc' = [pc EXCEPT ![t] = "drop"]
                /\ retVal' = [retVal EXCEPT ![t] = -2]
                /\ UNCHANGED todo
        BY <1>4 DEF VerifyTempChain
    <2>3. HBTypeOK'
        BY <2>1, <2>2 DEF HBTypeOK, Steps
    <2>4. fork[t] \in ForkIds
        BY <1>4 DEF VerifyTempChain, CallsOK
    <2>5. CallsOK'
        BY <1>4, <2>2, <2>4 DEF HBTypeOK, CallsOK, VerifyTempChain
    <2>6. QED
        BY <2>3, <2>5
<1>5. CASE CompareLuck(t)
    <2>1. PICK s \in {"mempool", "drop"} : pc' = [pc EXCEPT ![t] = s]
        BY <1>5 DEF CompareLuck
    <2>2. HBTypeOK'
        BY <1>5, <2>1 DEF CompareLuck, HBTypeOK, Steps
    <2>3. CallsOK'
        BY <1>5, <2>1 DEF CompareLuck, HBTypeOK, CallsOK
    <2>4. QED
        BY <2>2, <2>3
<1>6. CASE MempoolUpdate(t)
    <2>1. mempool' \subseteq Tx
        BY <1>6 DEF MempoolUpdate, HBTypeOK
    <2>2. HBTypeOK'
        BY <1>6, <2>1 DEF MempoolUpdate, HBTypeOK, Steps
    <2>3. CallsOK'
        BY <1>6 DEF MempoolUpdate, HBTypeOK, CallsOK
    <2>4. QED
        BY <2>2, <2>3
<1>7. CASE ApplyFork(t)
    <2>1. RowsOf(ForkOf(t)) \subseteq Received
        BY ForkOfType
    <2>2. HBTypeOK'
        BY <1>7, <2>1 DEF ApplyFork, HBTypeOK, Steps
    <2>3. CallsOK'
        BY <1>7 DEF ApplyFork, HBTypeOK, CallsOK
    <2>4. QED
        BY <2>2, <2>3
<1>8. CASE ReplaceHeader(t)
    <2>1. /\ rowid' \in 0 .. MaxForks
          /\ \A u \in Threads \ {t} : pc[u] = "rowid" => rowid' \in ForkIds
        BY <1>8, InsertType DEF ReplaceHeader
    <2>2. PICK b \in todo[t] : main' = [main EXCEPT ![b.index] = b]
        BY <1>8 DEF ReplaceHeader
    <2>3. main' \in SentTables
        BY <2>2, ReceivedFields DEF HBTypeOK, SentTables
    <2>4. HBTypeOK'
        BY <1>8, <2>1, <2>3 DEF ReplaceHeader, HBTypeOK, Steps
    <2>5. CallsOK'
        BY <1>8, <2>1 DEF ReplaceHeader, HBTypeOK, CallsOK
    <2>6. QED
        BY <2>4, <2>5
<1>9. CASE RemoveTransactions(t)
    <2>1. PICK b \in todo[t] :
            /\ rows' = [rows EXCEPT ![b.index] = {}]
            /\ left' = [left EXCEPT ![t] = b.txs]
            /\ \/ pc' = [pc EXCEPT ![t] = "save"] /\ UNCHANGED todo
               \/ /\ pc' = [pc EXCEPT ![t] = "replace"]
                  /\ todo' = [todo EXCEPT ![t] = @ \ {b}]
        BY <1>9 DEF RemoveTransactions
    <2>2. b.txs \subseteq Tx
        BY <2>1, ReceivedFields DEF HBTypeOK
    <2>3. HBTypeOK'
        <3>1. /\ rows' \in [Index -> SUBSET Tx] /\ left' \in [Threads -> SUBSET Tx]
              /\ todo' \in [Threads -> SUBSET Received] /\ pc' \in [Threads -> Steps]
            BY <2>1, <2>2 DEF HBTypeOK, Steps
        <3>2. UNCHANGED <<main, forkTab, live, forks, rowid, mempool, blk, fork, appends, retVal>>
            BY <1>9 DEF RemoveTransactions
        <3>3. QED
            BY <3>1, <3>2 DEF HBTypeOK
    <2>4. CallsOK'
        BY <1>9, <2>1 DEF RemoveTransactions, HBTypeOK, CallsOK
    <2>5. QED
        BY <2>3, <2>4
<1>10. CASE SaveTransaction(t)
    <2>1. /\ rowid' \in 0 .. MaxForks
          /\ \A u \in Threads \ {t} : pc[u] = "rowid" => rowid' \in ForkIds
        BY <1>10, InsertType DEF SaveTransaction
    <2>2. PICK b \in todo[t], tx \in left[t] :
            /\ rows' = [rows EXCEPT ![b.index] = @ \cup {tx}]
            /\ left' = [left EXCEPT ![t] = @ \ {tx}]
            /\ \/ todo' = [todo EXCEPT ![t] = @ \ {b}] /\ pc' = [pc EXCEPT ![t] = "replace"]
               \/ UNCHANGED <<todo, pc>>
        BY <1>10 DEF SaveTransaction
    <2>3. tx \in Tx
        BY <2>2 DEF HBTypeOK
    <2>4. rows' \in [Index -> SUBSET Tx]
        BY <2>2, <2>3 DEF HBTypeOK
    <2>5. HBTypeOK'
        BY <1>10, <2>1, <2>2, <2>4 DEF SaveTransaction, HBTypeOK, Steps
    <2>6. CallsOK'
        BY <1>10, <2>1, <2>2 DEF SaveTransaction, HBTypeOK, CallsOK
    <2>7. QED
        BY <2>5, <2>6
<1>11. CASE FinishApply(t)
    <2>1. HBTypeOK'
        BY <1>11 DEF FinishApply, HBTypeOK, Steps
    <2>2. CallsOK'
        BY <1>11 DEF FinishApply, HBTypeOK, CallsOK
    <2>3. QED
        BY <2>1, <2>2
<1>12. CASE DeleteFork(t)
    <2>1. EmptyTable \in SentTables
        BY DEF EmptyTable, SentTables
    <2>2. HBTypeOK'
        BY <1>12, <2>1 DEF DeleteFork, HBTypeOK, Steps
    <2>3. CallsOK'
        BY <1>12 DEF DeleteFork, HBTypeOK, CallsOK
    <2>4. QED
        BY <2>2, <2>3
<1>13. QED
    BY <1>1, <1>2, <1>3, <1>4, <1>5, <1>6, <1>7, <1>8, <1>9, <1>10, <1>11, <1>12
       DEF HandleBlockStep

\* A check, too, keeps the types.
LEMMA CheckType ==
    ASSUME CallInv, NEW low \in BOOLEAN, CheckDatabase(low)
    PROVE  CallInv'
<1> USE DEF CallInv, CheckDatabase, tables, locals
<1>1. main' \in SentTables /\ rows' \in [Index -> SUBSET Tx]
    BY DEF HBTypeOK, SentTables
<1>2. HBTypeOK'
    BY <1>1 DEF HBTypeOK, Steps
<1>3. CallsOK'
    BY DEF HBTypeOK, CallsOK
<1>4. QED
    BY <1>2, <1>3

LEMMA RestartType ==
    ASSUME CallInv, Restart
    PROVE  CallInv'
<1> USE BlocksAssumption, ForksAssumption DEF CallInv, Restart
<1>1. Genesis.txs \subseteq Tx /\ 1 \in Index
    BY BlockFields DEF Index
<1>2. main' \in SentTables /\ rows' \in [Index -> SUBSET Tx]
    BY <1>1, BlocksReceived DEF HBTypeOK, SentTables
<1>3. HBTypeOK'
    BY <1>2 DEF HBTypeOK, Steps
<1>4. CallsOK'
    BY DEF HBTypeOK, CallsOK
<1>5. QED
    BY <1>3, <1>4

\* Events of the Qt thread.
LEMMA NetType ==
    ASSUME TypeInv, NetEvent \/ HandleResult
    PROVE  TypeInv'
<1> USE BlocksAssumption, ForksAssumption DEF TypeInv, TypeOK, minerVars
<1>0. CallInv
    BY DEF CallInv
<1>1. CASE \E b \in Received : ReceiveBlock(b)
    <2>1. CallInv'
        BY <1>0, <1>1, BeginType DEF ReceiveBlock
    <2>2. QED
        BY <1>1, <2>1 DEF ReceiveBlock, CallInv, MinerOK
<1>2. CASE \E i \in Index, f \in ForkIds, b \in Received : ReceiveResponse(i, f, b)
    <2>1. CallInv'
        BY <1>0, <1>2, BeginType DEF ReceiveResponse, ForkIds
    <2>2. QED
        BY <1>2, <2>1 DEF ReceiveResponse, CallInv, MinerOK
<1>3. CASE LoseRequest
    BY <1>3 DEF LoseRequest, hbVars, tables, locals, HBTypeOK, CallsOK, MinerOK
<1>4. CASE \E tx \in Payments : ReceiveTransaction(tx)
    BY <1>4, ThreadsAssumption
       DEF ReceiveTransaction, NewTransaction, tables, locals, HBTypeOK, CallsOK, MinerOK
<1>5. CASE CheckRequested
    <2>1. CallInv'
        BY <1>0, <1>5, CheckType DEF CheckRequested
    <2>2. QED
        BY <1>5, <2>1 DEF CheckRequested, CallInv, MinerOK
<1>6. CASE HandleResult
    <2>1. CallInv'
        BY <1>0, <1>6, ReturnType DEF HandleResult
    <2>2. retVal["net"] > 0 => fork["net"] \in ForkIds /\ retVal["net"] \in Index
        BY <1>6 DEF HandleResult, HBTypeOK, CallsOK, Index
    <2>3. QED
        BY <1>6, <2>1, <2>2 DEF HandleResult, CallInv, MinerOK
<1>7. QED
    BY <1>1, <1>2, <1>3, <1>4, <1>5, <1>6 DEF NetEvent

\* A block is built from the latest block and part of the mempool.
LEMMA BuildType ==
    ASSUME TypeInv, BuildNewBlock
    PROVE  CallInv' /\ prevBlock' \in Received
<1>1. prevBlock' \in Received
    BY LatestIsBlock DEF BuildNewBlock, TypeInv, TypeOK, HBTypeOK
<1>2. mempool' \subseteq mempool
    BY DEF BuildNewBlock, PutTxInBlock
<1>3. QED
    BY <1>1, <1>2 DEF BuildNewBlock, tables, locals, TypeInv, TypeOK, CallInv, HBTypeOK, CallsOK

\* Steps of the miner's own code.
LEMMA MinerType ==
    ASSUME TypeInv, Miner
    PROVE  TypeInv'
<1> USE BlocksAssumption, ForksAssumption, ThreadsAssumption
    DEF TypeInv, TypeOK, MinerOK, MinerSteps
<1>0. CallInv
    BY DEF CallInv
<1>1. CASE MinerStart
    BY <1>1, BuildType DEF MinerStart, CallInv
<1>2. CASE MinerRound
    <2>1. CallInv' /\ prevBlock' \in Received
        <3>1. CASE BuildNewBlock
            BY <3>1, BuildType
        <3>2. CASE UNCHANGED <<hbVars, prevBlock>>
            BY <1>0, <1>2, <3>2
               DEF MinerRound, hbVars, tables, locals, CallInv, HBTypeOK, CallsOK
        <3>3. QED
            BY <1>2, <3>1, <3>2 DEF MinerRound
    <2>2. QED
        BY <1>2, <2>1 DEF MinerRound, CallInv
<1>3. CASE MinerCheck
    <2>1. CallInv'
        BY <1>0, <1>3, CheckType DEF MinerCheck
    <2>2. QED
        BY <1>3, <2>1 DEF MinerCheck, CallInv
<1>4. CASE \E b \in Blocks : MinerLucky(b)
    <2>1. CallInv'
        <3>1. PICK b \in Received : MinerLucky(b)
            BY <1>4, BlocksReceived
        <3>2. QED
            BY <1>0, <3>1, BeginType DEF MinerLucky
    <2>2. QED
        BY <1>4, <2>1 DEF MinerLucky, CallInv
<1>5. CASE MinerUnlucky
    BY <1>0, <1>5 DEF MinerUnlucky, hbVars, tables, locals, CallInv, HBTypeOK, CallsOK
<1>6. CASE MinerRetry
    <2>1. fork["miner"] \in 0 .. MaxForks
        BY <1>6 DEF MinerRetry, HBTypeOK
    <2>2. CallInv'
        BY <1>0, <1>6, <2>1, BeginType DEF MinerRetry
    <2>3. QED
        BY <1>6, <2>2 DEF MinerRetry, CallInv
<1>7. CASE MinerDone
    <2>1. CallInv'
        BY <1>0, <1>7, ReturnType DEF MinerDone
    <2>2. QED
        BY <1>7, <2>1 DEF MinerDone, CallInv
<1>8. QED
    BY <1>1, <1>2, <1>3, <1>4, <1>5, <1>6, <1>7 DEF Miner

\* TypeInv is inductive.
LEMMA NextType ==
    ASSUME TypeInv, [Next]_vars
    PROVE  TypeInv'
<1>0. CallInv
    BY DEF TypeInv, TypeOK, CallInv
<1>1. CASE NetEvent \/ HandleResult
    BY <1>1, NetType
<1>2. CASE Miner
    BY <1>2, MinerType
<1>3. CASE \E t \in Threads : InHandleBlock(t)
    <2>1. CallInv'
        BY <1>0, <1>3, StepType DEF InHandleBlock
    <2>2. QED
        BY <1>3, <2>1 DEF InHandleBlock, minerVars, CallInv, TypeInv, TypeOK, MinerOK
<1>4. CASE CrashRestart
    <2>1. CallInv'
        BY <1>0, <1>4, RestartType DEF CrashRestart
    <2>2. QED
        BY <1>4, <2>1, ThreadsAssumption
           DEF CrashRestart, CallInv, TypeInv, TypeOK, MinerOK, MinerSteps
<1>5. CASE UNCHANGED vars
    BY <1>5 DEF vars, hbVars, tables, locals, minerVars, TypeInv, TypeOK, HBTypeOK, CallsOK, MinerOK
<1>6. QED
    BY <1>1, <1>2, <1>3, <1>4, <1>5 DEF Next

\* Every variable keeps its type, whatever the threads, the peers and
\* restarts do, for every set of blocks and every bound.
THEOREM TypeCorrect == Spec => []TypeOK
<1>1. TypeInv => TypeOK
    BY DEF TypeInv
<1>2. QED
    BY <1>1, InitType, NextType, PTL DEF Spec

-----------------------------------------------------------------------------
(* The stored chain.                                                       *)

\* Every row has the index it is stored under.
MainKeyed == Keyed(main)
ForksKeyed == \A f \in ForkIds : Keyed(forkTab[f])

KeyedInv == TypeInv /\ MainKeyed

\* The steps that change the stored chain, and no other step does.
ChainStep ==
    \/ \E t \in Threads : ReplaceHeader(t)
    \/ \E low \in BOOLEAN : CheckDatabase(low)
    \/ CrashRestart
    \/ main' = main

\* Each block of s comes right after a row of the chain or a block of s.
Fits(s) ==
    \A b \in s : \/ b.index = 1
                \/ b.index - 1 \in Held(main)
                \/ \E a \in s : a.index = b.index - 1

\* A verified fork fits on the chain until it is written, and what is left of
\* it fits while it is written; the header goes in before the transactions.
ForkFits ==
    \A t \in Threads :
        /\ pc[t] \in {"luck", "mempool", "apply"} => Fits(RowsOf(ForkOf(t)))
        /\ Replacing(t) => Fits(todo[t])
        /\ pc[t] \in {"clear", "save"} =>
            \A b \in todo[t] : IsNext(t, b) => b.index \in Held(main)

\* The miner checks the database only between its calls of handleBlock.
MinerIdle ==
    "miner" \in Threads /\ miner \notin {"first", "second"} => pc["miner"] = "idle"

\* One thread calls handleBlock, as in a node that does not mine.
OneThread == \A t, u \in Threads : t = u

GapInv == TypeInv /\ NoGaps /\ ForksKeyed /\ MinerIdle /\ ForkFits

\* Fork tables are numbered as they are made; a table that does not exist has
\* no rows, and a call that is about to make one has the highest number.
ForkTables ==
    /\ \A f \in ForkIds : f > forks => f \notin live
    /\ \A f \in ForkIds : f \notin live => forkTab[f] = EmptyTable
    /\ \A t \in Threads : pc[t] = "rowid" => rowid = forks /\ rowid \notin live

\* From addToFork to deleteFork, and after it when a block is missing, a call
\* works on a table that exists and has a row at the index of the call's block;
\* a block that somebody made goes right below another row, if there is one.
\* No answer is out for the table.
Working(t) == pc[t] \in {"verify", "luck", "mempool", "apply", "replace", "clear", "save"}
Missing(t) == pc[t] = "returned" /\ retVal[t] > 0
AtHand(t) ==
    /\ Working(t) \/ Missing(t) \/ pc[t] \in {"add", "drop"} => fork[t] \in live
    /\ pc[t] = "add" /\ blk[t] \in Blocks =>
        Held(forkTab[fork[t]]) = {} \/ blk[t].index + 1 \in Held(forkTab[fork[t]])
    /\ Working(t) \/ Missing(t) \/ (pc[t] = "drop" /\ retVal[t] = 0) =>
        blk[t].index \in Held(forkTab[fork[t]])
    /\ Missing(t) => retVal[t] = blk[t].index - 1
    /\ pc[t] # "returned" => retVal[t] <= 0
    /\ pc[t] \notin {"drop", "returned"} => retVal[t] < 0
    /\ pc[t] # "idle" => \A r \in requests : r[2] # fork[t]
ForkAtHand == \A t \in Threads : AtHand(t)

\* The miner's second call is for the block right below that of the first.
RetryFits == miner = "first" => blk["miner"].index = prevBlock.index + 1

\* Only blocks that somebody made get into the chain, because checkTempChain
\* lets no other fork pass.
Passed(t) == pc[t] \in {"luck", "mempool", "apply", "replace", "clear", "save"}
MadeOnly ==
    /\ main \in Tables
    /\ \A t \in Threads : Passed(t) => ForkOf(t) \in Tables

\* What a thread has written of its fork is in the chain, transactions
\* included; at the end, that is all of the fork.
InChain(b) == main[b.index] = b /\ rows[b.index] = b.txs
WrittenBy(t) ==
    /\ Replacing(t) => /\ todo[t] \subseteq RowsOf(ForkOf(t))
                       /\ \A b \in RowsOf(ForkOf(t)) \ todo[t] : InChain(b)
    /\ \A b \in todo[t] : IsNext(t, b) =>
        /\ pc[t] \in {"clear", "save"} => main[b.index] = b
        /\ pc[t] = "save" => left[t] \subseteq b.txs /\ rows[b.index] = b.txs \ left[t]
    /\ pc[t] = "drop" /\ retVal[t] = 0 => \A b \in RowsOf(ForkOf(t)) : InChain(b)
    /\ pc[t] = "returned" /\ retVal[t] = 0 /\ blk[t].index > 1 =>
        blk[t].index \in Held(main) /\ rows[blk[t].index] = main[blk[t].index].txs
Written == \A t \in Threads : WrittenBy(t)

\* A fork that was verified stays so until it is written: nobody else writes.
ChosenBy(t) ==
    /\ pc[t] \in {"luck", "mempool", "apply"} =>
        \E low \in BOOLEAN : VerifyFork(main, rows, ForkOf(t), low)
    /\ pc[t] = "luck" => todo[t] = RowsOf(ForkOf(t))
    /\ pc[t] \in {"mempool", "apply"} => IsLuckierChain(main, RowsOf(ForkOf(t)), ForkOf(t))
Chosen == \A t \in Threads : ChosenBy(t)

\* What the fork displaces is in the mempool, or in the fork.
ForkTxs(t) == TxsOf(RowsOf(ForkOf(t)))
DisplacedBy(t) ==
    pc[t] = "apply" \/ Replacing(t) =>
        \A b \in RowsOf(ForkOf(t)) : rows[b.index] \subseteq mempool \cup ForkTxs(t)
Displaced == \A t \in Threads : DisplacedBy(t)

HandleInv ==
    /\ GapInv /\ NoAbort /\ RequestsFitForks
    /\ ForkTables /\ ForkAtHand /\ RetryFits /\ MadeOnly /\ Written /\ Chosen /\ Displaced

-----------------------------------------------------------------------------

\* Only replaceBlock, checkDatabase and a restart write the stored chain.
LEMMA MainWriters ==
    ASSUME [Next]_vars
    PROVE  ChainStep
<1> USE DEF tables, locals, hbVars, ChainStep
<1>1. CASE NetEvent
    BY <1>1 DEF NetEvent, ReceiveBlock, ReceiveResponse, LoseRequest, ReceiveTransaction,
                CheckRequested, NewTransaction, Begin
<1>2. CASE HandleResult
    BY <1>2 DEF HandleResult, Return
<1>3. CASE Miner
    BY <1>3 DEF Miner, MinerStart, MinerRound, MinerCheck, MinerLucky, MinerUnlucky,
                MinerRetry, MinerDone, BuildNewBlock, Begin, Return
<1>4. ASSUME NEW t \in Threads, HandleBlockStep(t) PROVE ChainStep
    BY <1>4 DEF HandleBlockStep, CreateForkRow, CreateForkTable, AddToFork, VerifyTempChain,
                CompareLuck, MempoolUpdate, ApplyFork, RemoveTransactions, SaveTransaction,
                FinishApply, DeleteFork
<1>5. CASE UNCHANGED vars
    BY <1>5 DEF vars
<1>6. QED
    BY <1>1, <1>2, <1>3, <1>4, <1>5 DEF Next, InHandleBlock

LEMMA KeyedInit == Init => MainKeyed
BY BlocksAssumption DEF Init, HBInit, EmptyTable, MainKeyed, Keyed, Held

\* Whatever is written is written under its own index.
LEMMA KeyedNext ==
    ASSUME KeyedInv, [Next]_vars
    PROVE  KeyedInv'
<1>1. TypeInv'
    BY NextType DEF KeyedInv
<1> USE DEF KeyedInv, MainKeyed, Keyed, Held
<1>2. main \in SentTables
    BY DEF TypeInv, TypeOK, HBTypeOK
<1>3. CASE \E t \in Threads : ReplaceHeader(t)
    <2>1. PICK t \in Threads : \E b \in todo[t] : main' = [main EXCEPT ![b.index] = b]
        BY <1>3 DEF ReplaceHeader
    <2>2. PICK b \in todo[t] : main' = [main EXCEPT ![b.index] = b]
        BY <2>1
    <2>3. MainKeyed'
        BY <1>2, <2>2 DEF SentTables
    <2>4. QED
        BY <1>1, <2>3
<1>4. CASE \E low \in BOOLEAN : CheckDatabase(low)
    BY <1>1, <1>4 DEF CheckDatabase
<1>5. CASE CrashRestart
    BY <1>1, <1>2, <1>5, BlocksAssumption DEF CrashRestart, Restart, SentTables
<1>6. CASE main' = main
    BY <1>1, <1>6
<1>7. QED
    BY <1>3, <1>4, <1>5, <1>6, MainWriters DEF ChainStep

LEMMA KeyedCorrect == Spec => []KeyedInv
<1>1. Init => KeyedInv
    BY InitType, KeyedInit DEF KeyedInv
<1>2. QED
    BY <1>1, KeyedNext, PTL DEF Spec

\* What checkDatabase leaves, from any chain whose rows have their indexes:
\* the rows below the first bad one, each verified against the one before.
LEMMA CheckLeavesGood ==
    ASSUME KeyedInv, NEW low \in BOOLEAN, CheckDatabase(low)
    PROVE  /\ Linked(main)'
           /\ \A i \in Held(main') : rows'[i] = main'[i].txs
           /\ \A i \in Held(main') : main'[i].content /\ ProofCertificate(main'[i])
           /\ \A i, j \in Held(main') : i # j => rows'[i] \cap rows'[j] = {}
<1> DEFINE bad    == BadRows(main, rows, low)
           cut(i) == \E j \in bad : j <= i
<1>1. /\ main' = [i \in Index |-> IF cut(i) THEN NoRow ELSE main[i]]
      /\ rows' = [i \in Index |-> IF cut(i) THEN {} ELSE rows[i]]
    BY DEF CheckDatabase
<1>2. bad \subseteq Index
    BY DEF BadRows, Held
<1>3. Index \subseteq Nat
    BY BlocksAssumption DEF Index
<1>4. \A i \in Held(main') : /\ i \in Index /\ ~ cut(i)
                             /\ main'[i] = main[i] /\ rows'[i] = rows[i]
                             /\ i \in Held(main) /\ i \notin bad
    <2>1. SUFFICES ASSUME NEW i \in Held(main')
                   PROVE  /\ i \in Index /\ ~ cut(i)
                          /\ main'[i] = main[i] /\ rows'[i] = rows[i]
                          /\ i \in Held(main) /\ i \notin bad
        OBVIOUS
    <2>2. i \in Index /\ main'[i] # NoRow
        BY <2>1 DEF Held
    <2>3. ~ cut(i)
        BY <1>1, <2>2
    <2>4. main'[i] = main[i] /\ rows'[i] = rows[i]
        BY <1>1, <2>2, <2>3
    <2>5. i \in Held(main)
        BY <2>2, <2>4 DEF Held
    <2>6. i \notin bad
        BY <1>3, <2>2, <2>3
    <2>7. QED
        BY <2>2, <2>3, <2>4, <2>5, <2>6
<1>5. \A i \in Held(main') : /\ rows[i] = main[i].txs
                             /\ VerifyBlock(main[i], HashAt(main, i - 1), TxsBefore(rows, i), low)
    BY <1>4 DEF BadRows
<1>6. \A i \in Held(main') : i > 1 => i - 1 \in Index /\ main'[i - 1] = main[i - 1]
    <2>1. SUFFICES ASSUME NEW i \in Held(main'), i > 1
                   PROVE  i - 1 \in Index /\ main'[i - 1] = main[i - 1]
        OBVIOUS
    <2>2. i - 1 \in Index
        BY <1>3, <1>4, <2>1, BlocksAssumption DEF Index
    <2>3. ~ cut(i - 1)
        <3>1. SUFFICES ASSUME NEW j \in bad, j <= i - 1 PROVE FALSE
            OBVIOUS
        <3>2. i \in Nat /\ j \in Nat /\ ~ (j <= i)
            BY <1>2, <1>3, <1>4
        <3>3. QED
            BY <3>1, <3>2
    <2>4. QED
        BY <1>1, <2>2, <2>3
<1> HIDE DEF bad, cut
<1>7. Linked(main)'
    <2>1. SUFFICES ASSUME NEW i \in Held(main'), i > 1
                   PROVE  main'[i].prev = HashAt(main', i - 1)
        BY DEF Linked
    <2>2. main[i].index = i
        BY <1>4, <2>1 DEF KeyedInv, MainKeyed, Keyed
    <2>3. main[i].prev = HashAt(main, i - 1)
        BY <1>5, <2>1, <2>2 DEF VerifyBlock
    <2>4. HashAt(main', i - 1) = HashAt(main, i - 1)
        BY <1>6, <2>1 DEF HashAt, Held
    <2>5. QED
        BY <1>4, <2>1, <2>3, <2>4
<1>8. \A i \in Held(main') : rows'[i] = main'[i].txs
    BY <1>4, <1>5
<1>9. \A i \in Held(main') : main'[i].content /\ ProofCertificate(main'[i])
    BY <1>4, <1>5 DEF VerifyBlock
<1>10. ASSUME NEW i \in Held(main'), NEW j \in Held(main'), i < j
      PROVE  rows'[i] \cap rows'[j] = {}
    <2>1. rows[i] \subseteq TxsBefore(rows, j)
        BY <1>4, <1>10 DEF TxsBefore
    <2>2. rows[j] \cap TxsBefore(rows, j) = {}
        BY <1>5, <1>10 DEF VerifyBlock
    <2>3. QED
        BY <1>4, <2>1, <2>2
<1>11. \A i \in Held(main') : i \in Nat
    BY <1>3, <1>4
<1>12. QED
    BY <1>7, <1>8, <1>9, <1>10, <1>11

\* After checkDatabase the chain is linked, every block in it is valid and
\* proven, and it holds each block's own transactions once, whatever forks,
\* the other thread, crashes and earlier checks left in the tables.
THEOREM CheckRepairsAlways == Spec => CheckRepairs
<1>1. KeyedInv /\ [Next]_vars =>
        [(\E low \in BOOLEAN : CheckDatabase(low)) =>
            /\ Linked(main)'
            /\ \A i \in Held(main') : rows'[i] = main'[i].txs
            /\ \A i \in Held(main') : main'[i].content /\ ProofCertificate(main'[i])
            /\ \A i, j \in Held(main') : i # j => rows'[i] \cap rows'[j] = {}]_vars
    BY CheckLeavesGood
<1>2. QED
    BY <1>1, KeyedCorrect, PTL DEF Spec, CheckRepairs

-----------------------------------------------------------------------------
(* One thread in handleBlock.                                              *)

\* A fork that passed checkTempChain's loop fits on the chain.
LEMMA VerifiedFits ==
    ASSUME NEW f \in SentTables, NEW low \in BOOLEAN, Keyed(f),
           VerifyFork(main, rows, f, low)
    PROVE  Fits(RowsOf(f))
<1>0. f \in Tables
    BY VerifiedMade
<1>1. SUFFICES ASSUME NEW b \in RowsOf(f), b.index # 1
               PROVE  \/ b.index - 1 \in Held(main)
                      \/ \E a \in RowsOf(f) : a.index = b.index - 1
    BY DEF Fits
<1>2. \/ b.prev = HashAt(main, b.index - 1)
      \/ \E a \in RowsOf(f) : a.index = b.index - 1
    BY <1>0, <1>1, VerifiedFork
<1>3. b \in Blocks
    BY <1>0, KeyedRows
<1>4. QED
    BY <1>2, <1>3, HashHeld

LEMMA GapInit == Init => GapInv
<1> SUFFICES ASSUME Init PROVE GapInv
    OBVIOUS
<1>1. TypeInv
    BY InitType
<1>2. NoGaps
    BY DEF Init, HBInit, EmptyTable, NoGaps, Held
<1>3. ForksKeyed
    BY DEF Init, HBInit, EmptyTable, ForksKeyed, Keyed, Held
<1>4. MinerIdle /\ ForkFits
    BY DEF Init, HBInit, MinerIdle, ForkFits, Replacing
<1>5. QED
    BY <1>1, <1>2, <1>3, <1>4 DEF GapInv

\* The fork tables change in addToFork, which keeps a row's index, and in
\* deleteFork.
LEMMA ForksKeyedNext ==
    ASSUME TypeInv, ForksKeyed, [Next]_vars
    PROVE  ForksKeyed'
<1> USE DEF tables, locals, hbVars
<1>1. forkTab \in [ForkIds -> SentTables]
    BY DEF TypeInv, TypeOK, HBTypeOK
<1>2. ASSUME NEW t \in Threads, AddToFork(t) PROVE ForksKeyed'
    <2>1. blk[t] \in Received /\ blk[t].index \in Index /\ fork[t] \in ForkIds
        BY <1>2, ReceivedFields DEF AddToFork, TypeInv, CallsOK
    <2>2. \/ forkTab' = forkTab
          \/ forkTab' = [forkTab EXCEPT ![fork[t]] =
                            [forkTab[fork[t]] EXCEPT ![blk[t].index] = blk[t]]]
        BY <1>2 DEF AddToFork
    <2>3. QED
        BY <1>1, <2>1, <2>2 DEF ForksKeyed, Keyed, Held, SentTables
<1>3. ASSUME NEW t \in Threads, DeleteFork(t) PROVE ForksKeyed'
    BY <1>1, <1>3 DEF DeleteFork, ForksKeyed, Keyed, Held, EmptyTable
<1>4. ASSUME NEW t \in Threads, HandleBlockStep(t), ~ AddToFork(t), ~ DeleteFork(t)
      PROVE  forkTab' = forkTab
    BY <1>4 DEF HandleBlockStep, CreateForkRow, CreateForkTable, VerifyTempChain,
                CompareLuck, MempoolUpdate, ApplyFork, ReplaceHeader, RemoveTransactions,
                SaveTransaction, FinishApply
<1>5. CASE NetEvent
    BY <1>5 DEF NetEvent, ReceiveBlock, ReceiveResponse, LoseRequest, ReceiveTransaction,
                CheckRequested, NewTransaction, CheckDatabase, Begin, ForksKeyed, Keyed
<1>6. CASE HandleResult \/ CrashRestart
    BY <1>6 DEF HandleResult, Return, CrashRestart, Restart, ForksKeyed, Keyed
<1>7. CASE Miner
    BY <1>7 DEF Miner, MinerStart, MinerRound, MinerCheck, MinerLucky, MinerUnlucky,
                MinerRetry, MinerDone, BuildNewBlock, CheckDatabase, Begin, Return, ForksKeyed, Keyed
<1>8. CASE \E t \in Threads : InHandleBlock(t)
    <2>1. PICK t \in Threads : HandleBlockStep(t)
        BY <1>8 DEF InHandleBlock
    <2>2. CASE forkTab' = forkTab
        BY <2>2 DEF ForksKeyed, Keyed
    <2>3. QED
        BY <1>2, <1>3, <1>4, <2>1, <2>2
<1>9. CASE UNCHANGED vars
    BY <1>9 DEF vars, ForksKeyed, Keyed
<1>10. QED
    BY <1>5, <1>6, <1>7, <1>8, <1>9 DEF Next

\* The rows a writing thread has still to put into the chain, after its
\* lowest one was: the chain has no gap and the rest still fits.
LEMMA ReplaceKeepsNoGaps ==
    ASSUME GapInv, NEW t \in Threads, ReplaceHeader(t)
    PROVE  NoGaps' /\ Held(main) \subseteq Held(main')
                   /\ \A c \in todo[t] : IsNext(t, c) => c.index \in Held(main')
<1>1. PICK b \in todo[t] : IsNext(t, b) /\ main' = [main EXCEPT ![b.index] = b]
    BY DEF ReplaceHeader
<1>2. main \in SentTables /\ todo[t] \subseteq Received
    BY DEF GapInv, TypeInv, TypeOK, HBTypeOK
<1>3. \A c \in todo[t] : c.index \in Index /\ c # NoRow
    BY <1>2, ReceivedFields
<1>4. Held(main') = Held(main) \cup {b.index}
    BY <1>1, <1>2, <1>3 DEF Held, SentTables
<1>5. b.index > 1 => b.index - 1 \in Held(main)
    <2>1. Fits(todo[t]) /\ pc[t] = "replace"
        BY DEF ReplaceHeader, GapInv, ForkFits, Replacing
    <2>2. \A a \in todo[t] : a.index # b.index - 1
        BY <1>1, <1>3 DEF IsNext, Index
    <2>3. QED
        BY <1>1, <2>1, <2>2 DEF Fits
<1>6. \A c \in todo[t] : IsNext(t, c) => c.index = b.index
    BY <1>1, <1>3 DEF IsNext, Index
<1>7. NoGaps'
    BY <1>4, <1>5 DEF GapInv, NoGaps
<1>8. QED
    BY <1>4, <1>6, <1>7

\* From the strengthened invariant no step makes a gap: a fork is written from
\* its lowest block up, and a check deletes everything above a bad row.
LEMMA NoGapsNext ==
    ASSUME GapInv, [Next]_vars
    PROVE  NoGaps'
<1>1. main \in SentTables
    BY DEF GapInv, TypeInv, TypeOK, HBTypeOK
<1>2. CASE \E t \in Threads : ReplaceHeader(t)
    BY <1>2, ReplaceKeepsNoGaps
<1>3. CASE \E low \in BOOLEAN : CheckDatabase(low)
    <2>1. PICK bad \in SUBSET Index :
            main' = [i \in Index |-> IF \E j \in bad : j <= i THEN NoRow ELSE main[i]]
        BY <1>3 DEF CheckDatabase, BadRows, Held
    <2>2. SUFFICES ASSUME NEW i \in Held(main'), i > 1 PROVE i - 1 \in Held(main')
        BY DEF NoGaps
    <2>3. i \in Index /\ i \in Held(main) /\ \A j \in bad : ~ (j <= i)
        BY <2>1, <2>2 DEF Held
    <2>4. i - 1 \in Held(main) /\ i - 1 \in Index
        BY <2>2, <2>3 DEF GapInv, NoGaps, Held
    <2>5. \A j \in bad : ~ (j <= i - 1)
        BY <2>3, <2>4 DEF Index
    <2>6. QED
        BY <2>1, <2>4, <2>5 DEF Held
<1>4. CASE CrashRestart
    BY <1>1, <1>4 DEF CrashRestart, Restart, GapInv, NoGaps, Held, SentTables
<1>5. CASE main' = main
    BY <1>5 DEF GapInv, NoGaps
<1>6. QED
    BY <1>2, <1>3, <1>4, <1>5, MainWriters DEF ChainStep

LEMMA MinerIdleNext ==
    ASSUME OneThread, GapInv, [Next]_vars
    PROVE  MinerIdle'
<1> SUFFICES ASSUME "miner" \in Threads PROVE MinerIdle'
    BY DEF MinerIdle
<1>1. Threads = {"miner"} /\ pc \in [Threads -> Steps]
    BY DEF OneThread, GapInv, TypeInv, TypeOK, HBTypeOK
<1> USE DEF tables, locals, hbVars, minerVars, GapInv, MinerIdle, Goto
<1>2. CASE NetEvent
    BY <1>1, <1>2 DEF NetEvent, ReceiveBlock, ReceiveResponse, LoseRequest,
                      ReceiveTransaction, CheckRequested, NewTransaction
<1>3. CASE HandleResult
    BY <1>1, <1>3 DEF HandleResult
<1>4. CASE Miner
    BY <1>1, <1>4 DEF Miner, MinerStart, MinerRound, MinerCheck, MinerLucky, MinerUnlucky,
                      MinerRetry, MinerDone, BuildNewBlock, CheckDatabase, Return
<1>5. CASE \E t \in Threads : InHandleBlock(t)
    <2>1. HandleBlockStep("miner") /\ UNCHANGED minerVars
        BY <1>1, <1>5 DEF InHandleBlock
    <2>2. pc["miner"] # "idle"
        BY <2>1 DEF HandleBlockStep, CreateForkRow, CreateForkTable, AddToFork,
                    VerifyTempChain, CompareLuck, MempoolUpdate, ApplyFork, ReplaceHeader,
                    RemoveTransactions, SaveTransaction, FinishApply, DeleteFork
    <2>3. QED
        BY <2>1, <2>2
<1>6. CASE CrashRestart
    BY <1>6 DEF CrashRestart, Restart
<1>7. CASE UNCHANGED vars
    BY <1>7 DEF vars
<1>8. QED
    BY <1>2, <1>3, <1>4, <1>5, <1>6, <1>7 DEF Next

\* With one thread, what fits still fits after each stretch of handleBlock.
LEMMA StepFits ==
    ASSUME OneThread, GapInv, NEW t \in Threads, HandleBlockStep(t)
    PROVE  ForkFits'
<1> SUFFICES /\ pc'[t] \in {"luck", "mempool", "apply"} => Fits(RowsOf(ForkOf(t)))'
             /\ Replacing(t)' => Fits(todo[t])'
             /\ pc'[t] \in {"clear", "save"} =>
                    \A b \in todo'[t] : IsNext(t, b)' => b.index \in Held(main')
    BY DEF OneThread, ForkFits
<1>0. HBTypeOK
    BY DEF GapInv, TypeInv, TypeOK
<1> USE DEF tables, locals, Goto, Replacing
<1>1. CASE CreateForkRow(t) \/ CreateForkTable(t) \/ AddToFork(t) \/ FinishApply(t)
           \/ DeleteFork(t)
    BY <1>0, <1>1 DEF CreateForkRow, CreateForkTable, AddToFork, FinishApply, DeleteFork,
                      HBTypeOK
<1>2. CASE VerifyTempChain(t)
    <2>1. \/ pc'[t] \in {"aborted", "drop"}
          \/ /\ pc'[t] = "luck"
             /\ \E low \in BOOLEAN : VerifyFork(main, rows, ForkOf(t), low)
        BY <1>0, <1>2 DEF VerifyTempChain, HBTypeOK
    <2>2. Keyed(ForkOf(t))
        BY <1>0 DEF GapInv, ForksKeyed, Keyed, ForkOf, Held, EmptyTable, HBTypeOK
    <2>3. ForkOf(t) \in SentTables
        BY <1>0, ForkOfType
    <2>4. pc'[t] = "luck" => Fits(RowsOf(ForkOf(t)))
        BY <2>1, <2>2, <2>3, VerifiedFits
    <2>5. Fits(RowsOf(ForkOf(t)))' = Fits(RowsOf(ForkOf(t)))
        BY <1>2 DEF VerifyTempChain, Fits, RowsOf, ForkOf, Held
    <2>6. QED
        BY <2>1, <2>4, <2>5
<1>3. CASE CompareLuck(t) \/ MempoolUpdate(t)
    <2>1. Fits(RowsOf(ForkOf(t))) /\ UNCHANGED <<main, forkTab, live, fork>>
        BY <1>3 DEF CompareLuck, MempoolUpdate, GapInv, ForkFits
    <2>2. Fits(RowsOf(ForkOf(t)))'
        BY <2>1 DEF Fits, RowsOf, ForkOf, Held
    <2>3. pc'[t] \in {"drop", "mempool", "apply"}
        BY <1>0, <1>3 DEF CompareLuck, MempoolUpdate, HBTypeOK
    <2>4. QED
        BY <2>2, <2>3
<1>4. CASE ApplyFork(t)
    <2>1. Fits(RowsOf(ForkOf(t))) /\ main' = main
        BY <1>4 DEF ApplyFork, GapInv, ForkFits
    <2>2. \/ pc'[t] = "returned"
          \/ pc'[t] = "replace" /\ todo'[t] = RowsOf(ForkOf(t))
        BY <1>0, <1>4 DEF ApplyFork, HBTypeOK
    <2>3. QED
        BY <2>1, <2>2 DEF Fits
<1>5. CASE ReplaceHeader(t)
    <2>1. /\ Held(main) \subseteq Held(main')
          /\ \A c \in todo[t] : IsNext(t, c) => c.index \in Held(main')
        BY <1>5, ReplaceKeepsNoGaps
    <2>2. Fits(todo[t]) /\ todo' = todo /\ pc'[t] = "clear"
        BY <1>0, <1>5 DEF ReplaceHeader, GapInv, ForkFits, HBTypeOK
    <2>3. Fits(todo[t])'
        BY <2>1, <2>2 DEF Fits
    <2>4. QED
        BY <2>1, <2>2, <2>3 DEF IsNext
<1>6. CASE RemoveTransactions(t)
    <2>1. /\ Fits(todo[t]) /\ main' = main
          /\ \A c \in todo[t] : IsNext(t, c) => c.index \in Held(main)
        BY <1>6 DEF RemoveTransactions, GapInv, ForkFits
    <2>2. PICK b \in todo[t] :
            /\ IsNext(t, b)
            /\ \/ pc'[t] = "replace" /\ todo'[t] = todo[t] \ {b}
               \/ pc'[t] = "save" /\ todo' = todo
        BY <1>0, <1>6 DEF RemoveTransactions, HBTypeOK
    <2>3. CASE pc'[t] = "replace" /\ todo'[t] = todo[t] \ {b}
        <3>1. Fits(todo[t] \ {b})
            BY <2>1, <2>2 DEF Fits
        <3>2. QED
            BY <2>1, <2>3, <3>1 DEF Fits
    <2>4. CASE pc'[t] = "save" /\ todo' = todo
        BY <2>1, <2>4 DEF Fits, IsNext
    <2>5. QED
        BY <2>2, <2>3, <2>4
<1>7. CASE SaveTransaction(t)
    <2>1. /\ Fits(todo[t]) /\ main' = main
          /\ \A c \in todo[t] : IsNext(t, c) => c.index \in Held(main)
        BY <1>7 DEF SaveTransaction, GapInv, ForkFits
    <2>2. PICK b \in todo[t] :
            /\ IsNext(t, b)
            /\ \/ pc'[t] = "replace" /\ todo'[t] = todo[t] \ {b}
               \/ pc'[t] = "save" /\ todo' = todo
        BY <1>0, <1>7 DEF SaveTransaction, HBTypeOK
    <2>3. CASE pc'[t] = "replace" /\ todo'[t] = todo[t] \ {b}
        <3>1. Fits(todo[t] \ {b})
            BY <2>1, <2>2 DEF Fits
        <3>2. QED
            BY <2>1, <2>3, <3>1 DEF Fits
    <2>4. CASE pc'[t] = "save" /\ todo' = todo
        BY <2>1, <2>4 DEF Fits, IsNext
    <2>5. QED
        BY <2>2, <2>3, <2>4
<1>8. QED
    BY <1>1, <1>2, <1>3, <1>4, <1>5, <1>6, <1>7 DEF HandleBlockStep

LEMMA ForkFitsNext ==
    ASSUME OneThread, GapInv, [Next]_vars
    PROVE  ForkFits'
<1>0. pc \in [Threads -> Steps]
    BY DEF GapInv, TypeInv, TypeOK, HBTypeOK
<1>1. ASSUME UNCHANGED <<main, pc, forkTab, live, fork, todo>> PROVE ForkFits'
    BY <1>1 DEF GapInv, ForkFits, Fits, Replacing, RowsOf, ForkOf, IsNext, Held
<1>2. ASSUME NEW t \in Threads,
             pc'[t] \in {"idle", "create", "add", "returned", "drop"}
      PROVE  ForkFits'
    BY <1>2 DEF OneThread, ForkFits, Replacing
<1>3. ASSUME NEW t \in Threads, NEW b, NEW f, Begin(t, b, f) PROVE ForkFits'
    <2>1. pc'[t] \in {"create", "add", "returned", "drop"}
        BY <1>0, <1>3 DEF Begin, Goto
    <2>2. QED
        BY <1>2, <2>1
<1>4. ASSUME NEW t \in Threads, Return(t) PROVE ForkFits'
    BY <1>0, <1>2, <1>4 DEF Return, Goto
<1>5. ASSUME NEW t \in Threads, pc[t] = "idle", NEW low \in BOOLEAN, CheckDatabase(low)
      PROVE  ForkFits'
    BY <1>2, <1>5 DEF CheckDatabase
<1> USE DEF tables, locals, hbVars
<1>6. CASE NetEvent
    <2>1. CASE \E b \in Received : ReceiveBlock(b)
        BY <1>3, <2>1 DEF ReceiveBlock
    <2>2. CASE \E i \in Index, f \in ForkIds, b \in Received : ReceiveResponse(i, f, b)
        BY <1>3, <2>2 DEF ReceiveResponse
    <2>3. CASE LoseRequest
        BY <1>1, <2>3 DEF LoseRequest
    <2>4. CASE \E tx \in Payments : ReceiveTransaction(tx)
        BY <1>1, <2>4 DEF ReceiveTransaction, NewTransaction
    <2>5. CASE CheckRequested
        BY <1>5, <2>5 DEF CheckRequested
    <2>6. QED
        BY <1>6, <2>1, <2>2, <2>3, <2>4, <2>5 DEF NetEvent
<1>7. CASE HandleResult
    BY <1>4, <1>7 DEF HandleResult
<1>8. CASE Miner
    <2>1. CASE MinerStart \/ MinerRound \/ MinerUnlucky
        BY <1>1, <2>1 DEF MinerStart, MinerRound, MinerUnlucky, BuildNewBlock
    <2>2. CASE MinerCheck
        <3>1. "miner" \in Threads /\ pc["miner"] = "idle"
            BY <2>2 DEF MinerCheck, GapInv, TypeInv, MinerOK, MinerIdle
        <3>2. QED
            BY <1>5, <2>2, <3>1 DEF MinerCheck
    <2>3. CASE \E b \in Blocks : MinerLucky(b)
        <3>1. "miner" \in Threads
            BY <2>3 DEF MinerLucky, GapInv, TypeInv, MinerOK
        <3>2. QED
            BY <1>3, <2>3, <3>1 DEF MinerLucky
    <2>4. CASE MinerRetry
        <3>1. "miner" \in Threads /\ prevBlock \in Received
            BY <2>4 DEF MinerRetry, GapInv, TypeInv, MinerOK
        <3>2. QED
            BY <1>3, <2>4, <3>1 DEF MinerRetry
    <2>5. CASE MinerDone
        <3>1. "miner" \in Threads
            BY <2>5 DEF MinerDone, GapInv, TypeInv, MinerOK
        <3>2. QED
            BY <1>4, <2>5, <3>1 DEF MinerDone
    <2>6. QED
        BY <1>8, <2>1, <2>2, <2>3, <2>4, <2>5 DEF Miner
<1>9. CASE \E t \in Threads : InHandleBlock(t)
    BY <1>9, StepFits DEF InHandleBlock
<1>10. CASE CrashRestart
    BY <1>10 DEF CrashRestart, Restart, ForkFits, Replacing
<1>11. CASE UNCHANGED vars
    BY <1>1, <1>11 DEF vars
<1>12. QED
    BY <1>6, <1>7, <1>8, <1>9, <1>10, <1>11 DEF Next

\* With one thread in handleBlock, the stored chain has a row for each index
\* up to its last, through any forks, checks, crashes and restarts.
THEOREM NoGapsOneThread ==
    ASSUME OneThread
    PROVE  Spec => []NoGaps
<1>1. GapInv /\ [Next]_vars => GapInv'
    BY NextType, NoGapsNext, ForksKeyedNext, MinerIdleNext, ForkFitsNext DEF GapInv
<1>2. GapInv => NoGaps
    BY DEF GapInv
<1>3. QED
    BY <1>1, <1>2, GapInit, PTL DEF Spec

-----------------------------------------------------------------------------
(* What a call of handleBlock holds, with one thread.                      *)

\* The kinds of steps, with one thread.
Calls(t, b) ==
    \/ pc[t] = "idle" /\ Begin(t, b, 0) /\ requests' = requests
    \/ \E i \in Index, f \in ForkIds :
        /\ pc[t] = "idle" /\ Begin(t, b, f)
        /\ b.index = i \/ b \in Unset
        /\ <<i, f>> \in requests /\ requests' = requests \ {<<i, f>>}
    \/ /\ Missing(t) /\ b.index + 1 = blk[t].index
       /\ Begin(t, b, fork[t]) /\ requests' = requests

Ends(t) ==
    /\ Return(t)
    /\ \/ requests' = requests
       \/ Missing(t) /\ requests' = requests \cup {<<retVal[t], fork[t]>>}

Elsewhere ==
    /\ UNCHANGED <<tables, pc, locals>> /\ requests' \subseteq requests
    /\ mempool \subseteq mempool' \/ \A t \in Threads : pc[t] = "idle"

AllIdle == \A t \in Threads : pc[t] = "idle"

LEMMA StepKinds ==
    ASSUME OneThread, HandleInv, [Next]_vars
    PROVE  \/ \E t \in Threads : HandleBlockStep(t) /\ requests' = requests
           \/ \E t \in Threads, b \in Received : Calls(t, b)
           \/ \E t \in Threads : Ends(t)
           \/ AllIdle /\ (\E low \in BOOLEAN : CheckDatabase(low)) /\ requests' = requests
           \/ Crashes /\ Restart /\ requests' = {}
           \/ Elsewhere
<1>0. TypeInv /\ MinerIdle
    BY DEF HandleInv, GapInv
<1>1. CASE NetEvent
    <2>1. CASE \E b \in Received : ReceiveBlock(b)
        BY <2>1 DEF ReceiveBlock, Calls
    <2>2. CASE \E i \in Index, f \in ForkIds, b \in Received : ReceiveResponse(i, f, b)
        BY <2>2 DEF ReceiveResponse, Calls
    <2>3. CASE LoseRequest
        BY <2>3 DEF LoseRequest, Elsewhere, hbVars
    <2>4. CASE \E tx \in Payments : ReceiveTransaction(tx)
        BY <2>4 DEF ReceiveTransaction, NewTransaction, Elsewhere
    <2>5. CASE CheckRequested
        <3>1. AllIdle
            BY <2>5 DEF CheckRequested, OneThread, AllIdle
        <3>2. QED
            BY <2>5, <3>1 DEF CheckRequested
    <2>6. QED
        BY <1>1, <2>1, <2>2, <2>3, <2>4, <2>5 DEF NetEvent
<1>2. CASE HandleResult
    BY <1>2 DEF HandleResult, Ends, Missing, Return
<1>3. CASE Miner
    <2>1. CASE MinerStart \/ MinerRound
        <3>1. requests' = requests /\ "miner" \in Threads
            BY <1>0, <2>1 DEF MinerStart, MinerRound, TypeInv, MinerOK
        <3>2. AllIdle
            BY <1>0, <2>1, <3>1 DEF MinerStart, MinerRound, MinerIdle, OneThread, AllIdle
        <3>3. UNCHANGED <<tables, pc, locals>>
            BY <2>1 DEF MinerStart, MinerRound, BuildNewBlock, hbVars
        <3>4. QED
            BY <3>1, <3>2, <3>3 DEF Elsewhere, AllIdle
    <2>2. CASE MinerCheck
        <3>1. "miner" \in Threads
            BY <1>0, <2>2 DEF MinerCheck, TypeInv, MinerOK
        <3>2. AllIdle
            BY <1>0, <2>2, <3>1 DEF MinerCheck, MinerIdle, OneThread, AllIdle
        <3>3. QED
            BY <2>2, <3>2 DEF MinerCheck
    <2>3. CASE \E b \in Blocks : MinerLucky(b)
        BY <1>0, <2>3, BlocksReceived DEF MinerLucky, TypeInv, MinerOK, Calls
    <2>4. CASE MinerUnlucky
        BY <2>4 DEF MinerUnlucky, Elsewhere, hbVars
    <2>5. CASE MinerRetry
        <3>1. "miner" \in Threads /\ prevBlock \in Received
            BY <1>0, <2>5 DEF MinerRetry, TypeInv, MinerOK
        <3>2. Missing("miner") /\ prevBlock.index + 1 = blk["miner"].index
            BY <2>5 DEF MinerRetry, Missing, HandleInv, RetryFits
        <3>3. QED
            BY <2>5, <3>1, <3>2 DEF MinerRetry, Calls
    <2>6. CASE MinerDone
        BY <1>0, <2>6 DEF MinerDone, TypeInv, MinerOK, Ends
    <2>7. QED
        BY <1>3, <2>1, <2>2, <2>3, <2>4, <2>5, <2>6 DEF Miner
<1>4. CASE \E t \in Threads : InHandleBlock(t)
    BY <1>4 DEF InHandleBlock
<1>5. CASE CrashRestart
    BY <1>5 DEF CrashRestart
<1>6. CASE UNCHANGED vars
    BY <1>6 DEF vars, hbVars, Elsewhere
<1>7. QED
    BY <1>1, <1>2, <1>3, <1>4, <1>5, <1>6 DEF Next

LEMMA ForkTablesStep ==
    ASSUME OneThread, HandleInv, NEW t \in Threads, HandleBlockStep(t)
    PROVE  ForkTables'
<1>0. HBTypeOK /\ ForkTables /\ forks \in Nat /\ MaxForks \in Nat
    BY ForksAssumption DEF HandleInv, GapInv, TypeInv, TypeOK, HBTypeOK
<1> USE DEF ForkTables, tables, locals, Goto
<1>1. CASE CreateForkRow(t)
    <2>1. forks' = forks + 1 /\ rowid' = forks + 1 /\ forks + 1 \in ForkIds
        BY <1>0, <1>1 DEF CreateForkRow, ForkIds
    <2>2. live' = live /\ forkTab' = forkTab
        BY <1>1 DEF CreateForkRow
    <2>3. \A f \in ForkIds : f > forks' => f > forks
        BY <1>0, <2>1 DEF ForkIds
    <2>4. rowid' \notin live
        BY <1>0, <2>1
    <2>5. QED
        BY <1>0, <2>1, <2>2, <2>3, <2>4
<1>2. CASE CreateForkTable(t)
    <2>1. rowid = forks
        BY <1>0, <1>2 DEF CreateForkTable
    <2>2. /\ forks' = forks /\ forkTab' = forkTab /\ live' = live \cup {forks}
        BY <1>2, <2>1 DEF CreateForkTable
    <2>3. \A u \in Threads : pc'[u] # "rowid"
        BY <1>0, <1>2 DEF CreateForkTable, OneThread, HBTypeOK
    <2>4. \A f \in ForkIds : f > forks => f # forks
        BY <1>0 DEF ForkIds
    <2>5. QED
        BY <1>0, <2>2, <2>3, <2>4
<1>3. CASE AddToFork(t)
    <2>1. /\ forks' = forks /\ live' = live
          /\ \A f \in ForkIds : f \notin live => forkTab'[f] = forkTab[f]
        BY <1>0, <1>3 DEF AddToFork, HBTypeOK
    <2>2. \A u \in Threads : pc'[u] # "rowid"
        BY <1>0, <1>3 DEF AddToFork, OneThread, HBTypeOK
    <2>3. QED
        BY <1>0, <2>1, <2>2
<1>4. CASE DeleteFork(t)
    <2>1. /\ forks' = forks /\ live' = live \ {fork[t]}
          /\ \A f \in ForkIds : forkTab'[f] = IF f = fork[t] THEN EmptyTable ELSE forkTab[f]
        BY <1>0, <1>4 DEF DeleteFork, HBTypeOK
    <2>2. \A u \in Threads : pc'[u] # "rowid"
        BY <1>0, <1>4 DEF DeleteFork, OneThread, HBTypeOK
    <2>3. QED
        BY <1>0, <2>1, <2>2
<1>5. CASE VerifyTempChain(t) \/ CompareLuck(t) \/ MempoolUpdate(t) \/ ApplyFork(t)
           \/ ReplaceHeader(t) \/ RemoveTransactions(t) \/ SaveTransaction(t) \/ FinishApply(t)
    <2>1. forks' = forks /\ live' = live /\ forkTab' = forkTab
        BY <1>5 DEF VerifyTempChain, CompareLuck, MempoolUpdate, ApplyFork, ReplaceHeader,
                    RemoveTransactions, SaveTransaction, FinishApply
    <2>2. pc'[t] # "rowid"
        BY <1>0, <1>5 DEF VerifyTempChain, CompareLuck, MempoolUpdate, ApplyFork,
                    ReplaceHeader, RemoveTransactions, SaveTransaction, FinishApply, HBTypeOK
    <2>3. QED
        BY <1>0, <2>1, <2>2 DEF OneThread
<1>6. QED
    BY <1>1, <1>2, <1>3, <1>4, <1>5 DEF HandleBlockStep

LEMMA ForkTablesNext ==
    ASSUME OneThread, HandleInv, [Next]_vars
    PROVE  ForkTables'
<1>0. HBTypeOK /\ ForkTables
    BY DEF HandleInv, GapInv, TypeInv, TypeOK
<1>1. ASSUME forks' = forks, live' = live, forkTab' = forkTab,
             \A t \in Threads : pc'[t] # "rowid" \/ (pc' = pc /\ rowid' = rowid)
      PROVE  ForkTables'
    BY <1>0, <1>1 DEF ForkTables
<1>2. ASSUME NEW t \in Threads, NEW b \in Received, Calls(t, b) PROVE ForkTables'
    BY <1>0, <1>1, <1>2 DEF Calls, Begin, tables, Goto, OneThread, HBTypeOK
<1>3. ASSUME NEW t \in Threads, Ends(t) PROVE ForkTables'
    BY <1>0, <1>1, <1>3 DEF Ends, Return, tables, Goto, OneThread, HBTypeOK
<1>4. ASSUME AllIdle, NEW low \in BOOLEAN, CheckDatabase(low) PROVE ForkTables'
    BY <1>1, <1>4 DEF CheckDatabase
<1>5. CASE Restart
    BY <1>1, <1>5 DEF Restart
<1>6. CASE Elsewhere
    BY <1>1, <1>6 DEF Elsewhere, tables
<1>7. QED
    BY <1>2, <1>3, <1>4, <1>5, <1>6, StepKinds, ForkTablesStep

-----------------------------------------------------------------------------

\* A call's block, its table and the thread itself.
LEMMA CallAtHand ==
    ASSUME HandleInv, NEW t \in Threads
    PROVE  /\ HBTypeOK /\ AtHand(t) /\ WrittenBy(t) /\ ChosenBy(t) /\ DisplacedBy(t)
           /\ pc[t] \in Steps /\ pc[t] # "aborted"
           /\ pc[t] # "idle" => blk[t] \in Received /\ blk[t].index \in Index /\ blk[t] # NoRow
           /\ Working(t) \/ Missing(t) \/ pc[t] \in {"add", "drop"} => fork[t] \in ForkIds
           /\ \A f \in ForkIds : Keyed(forkTab[f])
           /\ main \in Tables
<1>1. HBTypeOK /\ CallsOK /\ main \in Tables
    BY DEF HandleInv, GapInv, TypeInv, TypeOK, MadeOnly
<1>2. pc[t] # "aborted"
    BY DEF HandleInv, NoAbort
<1>3. pc[t] # "idle" => blk[t] \in Received /\ blk[t].index \in Index /\ blk[t] # NoRow
    BY <1>1, <1>2, ReceivedFields DEF CallsOK
<1>4. Working(t) \/ Missing(t) \/ pc[t] \in {"add", "drop"} => fork[t] \in ForkIds
    BY <1>1, <1>2 DEF CallsOK, Working, Missing
<1>5. AtHand(t) /\ WrittenBy(t) /\ ChosenBy(t) /\ DisplacedBy(t)
    BY DEF HandleInv, ForkAtHand, Written, Chosen, Displaced
<1>6. \A f \in ForkIds : Keyed(forkTab[f])
    BY DEF HandleInv, GapInv, ForksKeyed
<1>7. QED
    BY <1>1, <1>2, <1>3, <1>4, <1>5, <1>6 DEF HBTypeOK

\* The fork table of a working call has a row.
LEMMA ForkHasRow ==
    ASSUME HandleInv, NEW t \in Threads, Working(t)
    PROVE  /\ ForkOf(t) = forkTab[fork[t]] /\ fork[t] \in live
           /\ blk[t].index \in Held(ForkOf(t)) /\ Held(ForkOf(t)) # {}
BY CallAtHand DEF AtHand, ForkOf

\* Without a row the process would abort; there is one.
LEMMA NoAbortStep ==
    ASSUME HandleInv, NEW t \in Threads, HandleBlockStep(t)
    PROVE  pc'[t] # "aborted"
<1>0. pc \in [Threads -> Steps]
    BY CallAtHand DEF HBTypeOK
<1>1. CASE VerifyTempChain(t)
    <2>1. Held(ForkOf(t)) # {}
        BY <1>1, ForkHasRow DEF VerifyTempChain, Working
    <2>2. QED
        BY <1>0, <1>1, <2>1 DEF VerifyTempChain, Goto
<1>2. CASE SaveTransaction(t)
    BY <1>0, <1>2 DEF SaveTransaction, Goto
<1>3. QED
    BY <1>0, <1>1, <1>2
       DEF HandleBlockStep, CreateForkRow, CreateForkTable, AddToFork, CompareLuck,
           MempoolUpdate, ApplyFork, ReplaceHeader, RemoveTransactions, FinishApply,
           DeleteFork, Goto

\* What a call holds, it still holds after its next stretch.
LEMMA AtHandStep ==
    ASSUME OneThread, HandleInv, NEW t \in Threads, HandleBlockStep(t), requests' = requests
    PROVE  AtHand(t)'
<1>0. /\ HBTypeOK /\ AtHand(t) /\ requests \subseteq Index \X ForkIds
      /\ RequestsFitForks /\ ForkTables /\ retVal[t] \in Int
    BY CallAtHand DEF HandleInv, GapInv, TypeInv, TypeOK, HBTypeOK
<1> USE DEF tables, locals, Goto, Working, Missing
<1>1. CASE CreateForkRow(t)
    <2>1. pc'[t] = "rowid" /\ fork' = fork /\ pc[t] = "create" /\ retVal' = retVal
        BY <1>0, <1>1 DEF CreateForkRow, HBTypeOK
    <2>2. QED
        BY <1>0, <2>1 DEF AtHand
<1>2. CASE CreateForkTable(t)
    <2>1. /\ pc'[t] = "add" /\ fork'[t] = rowid /\ live' = live \cup {rowid}
          /\ forkTab' = forkTab /\ retVal' = retVal /\ pc[t] = "rowid"
        BY <1>0, <1>2 DEF CreateForkTable, HBTypeOK
    <2>2. rowid \in ForkIds /\ rowid \notin live /\ forkTab[rowid] = EmptyTable
        BY <1>0, <1>2 DEF CreateForkTable, ForkTables, HandleInv, GapInv, TypeInv, CallsOK
    <2>3. Held(forkTab[rowid]) = {}
        BY <2>2 DEF Held, EmptyTable
    <2>4. \A r \in requests : r[2] # rowid
        BY <1>0, <2>2 DEF RequestsFitForks
    <2>5. QED
        BY <1>0, <2>1, <2>3, <2>4 DEF AtHand, Held
<1>3. CASE AddToFork(t)
    <2>0. /\ fork[t] \in ForkIds /\ fork[t] \in live /\ blk[t].index \in Index
          /\ \A r \in requests : r[2] # fork[t]
          /\ blk[t] # NoRow /\ forkTab[fork[t]] \in SentTables /\ pc[t] = "add"
        BY <1>0, <1>3, CallAtHand DEF AddToFork, AtHand, HBTypeOK
    <2>1. live' = live /\ fork' = fork /\ blk' = blk
        BY <1>3 DEF AddToFork
    <2>2. blk[t].index \in Held(forkTab'[fork[t]])
        BY <1>0, <1>3, <2>0 DEF AddToFork, HBTypeOK, Held, SentTables
    <2>3. \/ pc'[t] = "verify" /\ retVal' = retVal
          \/ pc'[t] = "returned" /\ retVal'[t] = blk[t].index - 1
        BY <1>0, <1>3 DEF AddToFork, HBTypeOK
    <2>4. QED
        BY <1>0, <2>0, <2>1, <2>2, <2>3 DEF AtHand
<1>4. CASE DeleteFork(t)
    <2>1. pc'[t] = "returned" /\ retVal' = retVal /\ fork' = fork /\ pc[t] = "drop"
        BY <1>0, <1>4 DEF DeleteFork, HBTypeOK
    <2>2. retVal[t] <= 0
        BY <1>0, <2>1 DEF AtHand
    <2>3. QED
        BY <1>0, <2>1, <2>2 DEF AtHand
<1>5. CASE VerifyTempChain(t) \/ CompareLuck(t) \/ MempoolUpdate(t) \/ ApplyFork(t)
           \/ ReplaceHeader(t) \/ RemoveTransactions(t) \/ SaveTransaction(t) \/ FinishApply(t)
    <2>1. UNCHANGED <<forkTab, live, fork, blk>> /\ Working(t)
        BY <1>5 DEF VerifyTempChain, CompareLuck, MempoolUpdate, ApplyFork, ReplaceHeader,
                    RemoveTransactions, SaveTransaction, FinishApply
    <2>2. fork[t] \in live /\ Held(ForkOf(t)) # {}
        BY <1>0, <2>1, ForkHasRow DEF AtHand
    <2>3. Working(t)' \/ pc'[t] = "drop"
        BY <1>0, <1>5, <2>1, <2>2
           DEF VerifyTempChain, CompareLuck, MempoolUpdate, ApplyFork, ReplaceHeader,
               RemoveTransactions, SaveTransaction, FinishApply, HBTypeOK
    <2>4. retVal[t] < 0
        BY <1>0, <2>1 DEF AtHand
    <2>5. retVal'[t] \in {retVal[t], -2} \/ (retVal'[t] = 0 /\ pc'[t] = "drop")
        BY <1>0, <1>5, <2>2 DEF VerifyTempChain, CompareLuck, MempoolUpdate, ApplyFork,
               ReplaceHeader, RemoveTransactions, SaveTransaction, FinishApply, HBTypeOK
    <2>6. pc'[t] # "returned"
        BY <2>3
    <2>7. retVal'[t] <= 0 /\ (pc'[t] # "drop" => retVal'[t] < 0)
        BY <1>0, <2>4, <2>5
    <2>8. pc[t] # "idle" /\ AtHand(t)
        BY <1>0, <2>1
    <2>9. blk[t].index \in Held(forkTab[fork[t]])
        BY <2>1, <2>8 DEF AtHand
    <2>10. QED
        BY <1>0, <2>1, <2>2, <2>3, <2>6, <2>7, <2>8, <2>9 DEF AtHand
<1>6. QED
    BY <1>1, <1>2, <1>3, <1>4, <1>5 DEF HandleBlockStep

\* A fork table without unset blocks grows downwards, one row at a time.
LEMMA UnbrokenStep ==
    ASSUME HandleInv, NEW t \in Threads, HandleBlockStep(t),
           NEW f \in ForkIds, RowsOf(forkTab'[f]) \subseteq Blocks
    PROVE  \A i, j \in Held(forkTab'[f]) : i .. j \subseteq Held(forkTab'[f])
<1>0. HBTypeOK /\ AtHand(t) /\ RequestsFitForks
    BY CallAtHand DEF HandleInv
<1>1. CASE forkTab'[f] = forkTab[f]
    BY <1>0, <1>1 DEF RequestsFitForks
<1>2. CASE forkTab'[f] = EmptyTable
    BY <1>2 DEF Held, EmptyTable
<1>3. CASE AddToFork(t) /\ forkTab'[f] # forkTab[f]
    <2> DEFINE k == blk[t].index
    <2>1. /\ f = fork[t] /\ pc[t] = "add" /\ forkTab[f][k] = NoRow
          /\ forkTab'[f] = [forkTab[f] EXCEPT ![k] = blk[t]]
        BY <1>0, <1>3 DEF AddToFork, HBTypeOK
    <2>2. k \in Index /\ blk[t] # NoRow /\ forkTab[f] \in SentTables
        BY <1>0, <2>1, CallAtHand DEF HBTypeOK
    <2>3. Held(forkTab'[f]) = Held(forkTab[f]) \cup {k}
        BY <2>1, <2>2 DEF Held, SentTables
    <2>4. \A i \in Held(forkTab[f]) : forkTab'[f][i] = forkTab[f][i]
        BY <2>1, <2>2 DEF Held, SentTables
    <2>5. RowsOf(forkTab[f]) \subseteq Blocks
        BY <1>2, <2>3, <2>4 DEF RowsOf
    <2>6. blk[t] \in Blocks
        BY <2>1, <2>2, <2>3 DEF RowsOf, SentTables
    <2>7. Held(forkTab[f]) = {} \/ k + 1 \in Held(forkTab[f])
        BY <1>0, <2>1, <2>6 DEF AtHand
    <2>8. \A i, j \in Held(forkTab[f]) : i .. j \subseteq Held(forkTab[f])
        BY <1>0, <2>5 DEF RequestsFitForks
    <2>9. Held(forkTab[f]) \subseteq Nat /\ k \in Nat
        BY <2>2 DEF Held, Index
    <2> HIDE DEF k
    <2>10. ASSUME NEW i \in Held(forkTab[f]) \cup {k}, NEW j \in Held(forkTab[f]) \cup {k},
                  NEW n \in i .. j
           PROVE  n \in Held(forkTab[f]) \cup {k}
        <3>1. i \in Nat /\ j \in Nat /\ n \in Nat /\ i <= n /\ n <= j
            BY <2>9
        <3>2. CASE i = k /\ j = k
            BY <2>9, <3>1, <3>2
        <3>3. CASE i = k /\ j # k /\ n # k
            <4>1. k + 1 \in Held(forkTab[f]) /\ j \in Held(forkTab[f])
                BY <2>7, <3>3
            <4>2. n \in k + 1 .. j
                BY <2>9, <3>1, <3>3
            <4>3. QED
                BY <2>8, <4>1, <4>2
        <3>4. CASE i # k /\ j = k
            <4>1. k + 1 \in Held(forkTab[f]) /\ i \in Held(forkTab[f])
                BY <2>7, <3>4
            <4>2. n \in i .. k + 1
                BY <2>9, <3>1, <3>4
            <4>3. QED
                BY <2>8, <4>1, <4>2
        <3>5. CASE i # k /\ j # k
            BY <2>8, <3>5
        <3>6. QED
            BY <3>2, <3>3, <3>4, <3>5
    <2>11. QED
        BY <2>3, <2>10
<1>4. CASE ~ AddToFork(t)
    BY <1>0, <1>1, <1>2, <1>4
       DEF HandleBlockStep, CreateForkRow, CreateForkTable, VerifyTempChain, CompareLuck,
           MempoolUpdate, ApplyFork, ReplaceHeader, RemoveTransactions, SaveTransaction,
           FinishApply, DeleteFork, HBTypeOK, tables
<1>5. QED
    BY <1>1, <1>3, <1>4

\* A request fits its fork while calls work on other forks.
LEMMA RequestsFitStep ==
    ASSUME OneThread, HandleInv, NEW t \in Threads, HandleBlockStep(t), requests' = requests
    PROVE  RequestsFitForks'
<1>0. /\ HBTypeOK /\ AtHand(t) /\ requests \subseteq Index \X ForkIds /\ RequestsFitForks
    BY CallAtHand DEF HandleInv, GapInv, TypeInv, TypeOK
<1>1. ASSUME NEW r \in requests
      PROVE  r[2] \in live' /\ forkTab'[r[2]] = forkTab[r[2]]
    <2>0. r[2] \in ForkIds /\ r[2] \in live
        BY <1>0 DEF RequestsFitForks
    <2>1. pc[t] # "idle"
        BY DEF HandleBlockStep, CreateForkRow, CreateForkTable, AddToFork, VerifyTempChain,
               CompareLuck, MempoolUpdate, ApplyFork, ReplaceHeader, RemoveTransactions,
               SaveTransaction, FinishApply, DeleteFork
    <2>2. r[2] # fork[t]
        BY <1>0, <2>1 DEF AtHand
    <2>3. CASE AddToFork(t)
        BY <1>0, <2>0, <2>2, <2>3 DEF AddToFork, HBTypeOK
    <2>4. CASE DeleteFork(t)
        BY <1>0, <2>0, <2>2, <2>4 DEF DeleteFork, HBTypeOK
    <2>5. CASE ~ AddToFork(t) /\ ~ DeleteFork(t)
        BY <2>0, <2>5
           DEF HandleBlockStep, CreateForkRow, CreateForkTable, VerifyTempChain, CompareLuck,
               MempoolUpdate, ApplyFork, ReplaceHeader, RemoveTransactions, SaveTransaction,
               FinishApply, tables
    <2>6. QED
        BY <2>3, <2>4, <2>5
<1>2. ASSUME NEW f \in ForkIds, RowsOf(forkTab'[f]) \subseteq Blocks
      PROVE  \A i, j \in Held(forkTab'[f]) : i .. j \subseteq Held(forkTab'[f])
    BY <1>2, UnbrokenStep
<1>3. QED
    BY <1>0, <1>1, <1>2 DEF RequestsFitForks

\* A call begins with a table that fits its block, and takes the request for
\* it back.
LEMMA AtHandCalls ==
    ASSUME OneThread, HandleInv, NEW t \in Threads, NEW b \in Received, Calls(t, b)
    PROVE  AtHand(t)' /\ RequestsFitForks' /\ pc'[t] # "aborted"
<1>0. /\ HBTypeOK /\ AtHand(t) /\ requests \subseteq Index \X ForkIds /\ RequestsFitForks
    BY CallAtHand DEF HandleInv, GapInv, TypeInv, TypeOK
<1> USE DEF Working, Missing
<1>1. RequestsFitForks'
    BY <1>0 DEF RequestsFitForks, Calls, Begin, tables
<1>2. ASSUME NEW f, Begin(t, b, f)
      PROVE  /\ fork'[t] = f /\ blk'[t] = b /\ retVal'[t] \in {-1, -2}
             /\ f = 0 => pc'[t] \in {"create", "returned"}
             /\ f # 0 => pc'[t] \in {"add", "drop"}
             /\ forkTab' = forkTab /\ live' = live
    BY <1>0, <1>2 DEF Begin, Goto, tables, HBTypeOK
<1>3. ASSUME Begin(t, b, 0), requests' = requests
      PROVE  AtHand(t)' /\ pc'[t] # "aborted"
    <2>1. \A r \in requests : r[2] # 0
        BY <1>0 DEF ForkIds
    <2>2. QED
        BY <1>2, <1>3, <2>1 DEF AtHand
<1>4. ASSUME NEW i \in Index, NEW f \in ForkIds, Begin(t, b, f), b.index = i \/ b \in Unset,
             <<i, f>> \in requests, requests' = requests \ {<<i, f>>}
      PROVE  AtHand(t)' /\ pc'[t] # "aborted"
    <2>1. f \in live /\ i + 1 \in Held(forkTab[f])
        BY <1>0, <1>4 DEF RequestsFitForks
    <2>2. \A r \in requests' : r[2] # f
        BY <1>0, <1>4 DEF RequestsFitForks
    <2>3. b \in Blocks => b.index = i
        BY <1>4, BlocksAssumption DEF Made, IsUnset
    <2>4. QED
        BY <1>2, <1>4, <2>1, <2>2, <2>3 DEF AtHand, ForkIds
<1>5. ASSUME Missing(t), b.index + 1 = blk[t].index,
             Begin(t, b, fork[t]), requests' = requests
      PROVE  AtHand(t)' /\ pc'[t] # "aborted"
    <2>1. /\ fork[t] \in live /\ fork[t] \in ForkIds
          /\ b.index + 1 \in Held(forkTab[fork[t]])
          /\ \A r \in requests : r[2] # fork[t]
        BY <1>0, <1>5, CallAtHand DEF AtHand
    <2>2. QED
        BY <1>2, <1>5, <2>1 DEF AtHand, ForkIds
<1>6. QED
    BY <1>1, <1>3, <1>4, <1>5 DEF Calls

\* A call that ends asks for the block right below a row of its fork.
LEMMA AtHandEnds ==
    ASSUME OneThread, HandleInv, NEW t \in Threads, Ends(t)
    PROVE  AtHand(t)' /\ RequestsFitForks' /\ pc'[t] # "aborted"
<1>0. /\ HBTypeOK /\ AtHand(t) /\ requests \subseteq Index \X ForkIds /\ RequestsFitForks
    BY CallAtHand DEF HandleInv, GapInv, TypeInv, TypeOK
<1>1. /\ pc'[t] = "idle" /\ retVal'[t] = -1 /\ forkTab' = forkTab /\ live' = live
    BY <1>0 DEF Ends, Return, Goto, tables, HBTypeOK
<1>2. AtHand(t)'
    BY <1>1 DEF AtHand, Working, Missing
<1>3. ASSUME requests' = requests PROVE RequestsFitForks'
    BY <1>0, <1>1, <1>3 DEF RequestsFitForks
<1>4. ASSUME Missing(t), requests' = requests \cup {<<retVal[t], fork[t]>>}
      PROVE  RequestsFitForks'
    <2>1. /\ fork[t] \in live /\ retVal[t] = blk[t].index - 1 /\ blk[t].index \in Index
          /\ blk[t].index \in Held(forkTab[fork[t]])
          /\ \A r \in requests : r[2] # fork[t]
        BY <1>0, <1>4, CallAtHand DEF AtHand, Missing
    <2>2. retVal[t] + 1 \in Held(forkTab[fork[t]])
        BY <2>1 DEF Index
    <2>3. QED
        BY <1>0, <1>1, <1>4, <2>1, <2>2 DEF RequestsFitForks
<1>5. QED
    BY <1>1, <1>2, <1>3, <1>4 DEF Ends

\* What calls hold and requests ask for, after any step.
LEMMA AtHandNext ==
    ASSUME OneThread, HandleInv, [Next]_vars
    PROVE  ForkAtHand' /\ RequestsFitForks' /\ NoAbort'
<1>0. HBTypeOK /\ ForkAtHand /\ RequestsFitForks /\ NoAbort
    BY DEF HandleInv, GapInv, TypeInv, TypeOK
<1>1. ASSUME NEW t \in Threads, AtHand(t)', RequestsFitForks', pc'[t] # "aborted"
      PROVE  ForkAtHand' /\ RequestsFitForks' /\ NoAbort'
    BY <1>1 DEF OneThread, ForkAtHand, NoAbort
<1>2. CASE \E t \in Threads : HandleBlockStep(t) /\ requests' = requests
    BY <1>1, <1>2, AtHandStep, RequestsFitStep, NoAbortStep
<1>3. CASE \E t \in Threads, b \in Received : Calls(t, b)
    BY <1>1, <1>3, AtHandCalls
<1>4. CASE \E t \in Threads : Ends(t)
    BY <1>1, <1>4, AtHandEnds
<1>5. CASE /\ UNCHANGED <<forkTab, live, forks, pc, locals>> /\ requests' \subseteq requests
    BY <1>0, <1>5 DEF ForkAtHand, AtHand, Working, Missing, RequestsFitForks, NoAbort, Held,
                      locals
<1>6. CASE Restart /\ requests' = {}
    BY <1>0, <1>6 DEF Restart, ForkAtHand, AtHand, Working, Missing, RequestsFitForks, NoAbort
<1>7. QED
    BY <1>2, <1>3, <1>4, <1>5, <1>6, StepKinds DEF CheckDatabase, Elsewhere, tables

-----------------------------------------------------------------------------
(* What is written.                                                        *)

LEMMA RetryFitsNext ==
    ASSUME OneThread, HandleInv, [Next]_vars
    PROVE  RetryFits'
<1>0. HBTypeOK /\ RetryFits /\ MinerOK
    BY DEF HandleInv, GapInv, TypeInv, TypeOK
<1>1. ASSUME \/ miner' # "first"
             \/ UNCHANGED <<miner, prevBlock>> /\ blk'["miner"] = blk["miner"]
      PROVE  RetryFits'
    BY <1>0, <1>1 DEF RetryFits
<1>2. CASE NetEvent \/ HandleResult
    <2>1. CASE LoseRequest \/ (\E tx \in Payments : ReceiveTransaction(tx))
        BY <1>1, <2>1 DEF LoseRequest, ReceiveTransaction, NewTransaction, hbVars, locals,
                          minerVars
    <2>2. CASE ~ LoseRequest /\ ~ (\E tx \in Payments : ReceiveTransaction(tx))
        <3>1. "net" \in Threads /\ miner' = miner
            BY <1>2, <2>2 DEF NetEvent, ReceiveBlock, ReceiveResponse, CheckRequested,
                              HandleResult, minerVars
        <3>2. miner = "off"
            BY <1>0, <3>1 DEF MinerOK, OneThread
        <3>3. QED
            BY <1>1, <3>1, <3>2
    <2>3. QED
        BY <2>1, <2>2
<1>3. CASE Miner
    <2>1. CASE \E b \in Blocks : MinerLucky(b)
        <3>1. PICK b \in Blocks : MinerLucky(b)
            BY <2>1
        <3>2. blk'["miner"] = b /\ b.index = prevBlock.index + 1 /\ prevBlock' = prevBlock
            BY <1>0, <3>1 DEF MinerLucky, Begin, MinerOK, HBTypeOK
        <3>3. QED
            BY <3>2 DEF RetryFits
    <2>2. CASE MinerStart \/ MinerRound \/ MinerCheck \/ MinerUnlucky \/ MinerRetry \/ MinerDone
        <3>1. miner' # "first"
            BY <2>2 DEF MinerStart, MinerRound, MinerCheck, MinerUnlucky, MinerRetry, MinerDone
        <3>2. QED
            BY <1>1, <3>1
    <2>3. QED
        BY <1>3, <2>1, <2>2 DEF Miner
<1>4. CASE \E t \in Threads : InHandleBlock(t)
    <2>1. blk' = blk /\ UNCHANGED <<miner, prevBlock>>
        BY <1>4 DEF InHandleBlock, minerVars, HandleBlockStep, CreateForkRow, CreateForkTable,
                    AddToFork, VerifyTempChain, CompareLuck, MempoolUpdate, ApplyFork,
                    ReplaceHeader, RemoveTransactions, SaveTransaction, FinishApply,
                    DeleteFork, locals
    <2>2. QED
        BY <1>1, <2>1
<1>5. CASE CrashRestart
    BY <1>1, <1>5 DEF CrashRestart
<1>6. CASE UNCHANGED vars
    BY <1>1, <1>6 DEF vars, hbVars, locals, minerVars
<1>7. QED
    BY <1>2, <1>3, <1>4, <1>5, <1>6 DEF Next

\* Two rows of a fork table have different indexes, and a verified fork has
\* only blocks that somebody made.
LEMMA RowsKeyed ==
    ASSUME HandleInv, NEW t \in Threads
    PROVE  /\ ForkOf(t) \in SentTables /\ Keyed(ForkOf(t)) /\ RowsOf(ForkOf(t)) \subseteq Received
           /\ Passed(t) => ForkOf(t) \in Tables /\ RowsOf(ForkOf(t)) \subseteq Blocks
           /\ \A b \in RowsOf(ForkOf(t)) :
                b.index \in Index /\ b.index \in Held(ForkOf(t)) /\ ForkOf(t)[b.index] = b
           /\ \A b, c \in RowsOf(ForkOf(t)) : b.index = c.index => b = c
<1>1. ForkOf(t) \in SentTables /\ Keyed(ForkOf(t))
    BY ForkOfType, CallAtHand DEF ForkOf, HBTypeOK, Keyed, Held, EmptyTable
<1>2. Passed(t) => ForkOf(t) \in Tables
    BY DEF HandleInv, MadeOnly
<1>3. QED
    BY <1>1, <1>2, ReceivedRows, RowsAreBlocks

\* A call that has just begun has written nothing, and one that ends is gone.
LEMMA CallBegins ==
    ASSUME HandleInv, NEW t \in Threads, NEW b \in Received, Calls(t, b)
    PROVE  /\ pc'[t] \in {"create", "returned", "add", "drop"} /\ retVal'[t] \in {-1, -2}
           /\ UNCHANGED <<tables, mempool, todo, left>>
BY CallAtHand DEF Calls, Begin, Goto, HBTypeOK

LEMMA CallEnds ==
    ASSUME HandleInv, NEW t \in Threads, Ends(t)
    PROVE  pc'[t] = "idle" /\ retVal'[t] = -1 /\ UNCHANGED <<tables, mempool, todo, left>>
BY CallAtHand DEF Ends, Return, Goto, HBTypeOK

\* A fork that has passed checkTempChain, and what is still to write of it.
LEMMA PassedRows ==
    ASSUME HandleInv, NEW t \in Threads, Passed(t)
    PROVE  /\ ForkOf(t) \in Tables /\ RowsOf(ForkOf(t)) \subseteq Blocks
           /\ Replacing(t) => todo[t] \subseteq RowsOf(ForkOf(t)) /\ todo[t] \subseteq Blocks
BY RowsKeyed, CallAtHand DEF WrittenBy

\* No other block than one that somebody made gets into the chain.
LEMMA MadeStep ==
    ASSUME OneThread, HandleInv, NEW t \in Threads, HandleBlockStep(t)
    PROVE  MadeOnly'
<1>0. HBTypeOK /\ main \in Tables
    BY CallAtHand
<1> USE DEF tables, locals, Goto, Passed
<1>1. ASSUME main' \in Tables, Passed(t)' => ForkOf(t)' \in Tables PROVE MadeOnly'
    BY <1>1 DEF OneThread, MadeOnly
<1>2. CASE CreateForkRow(t) \/ CreateForkTable(t) \/ AddToFork(t) \/ FinishApply(t)
           \/ DeleteFork(t)
    <2>1. main' = main /\ ~ Passed(t)'
        BY <1>0, <1>2 DEF CreateForkRow, CreateForkTable, AddToFork, FinishApply, DeleteFork,
                          HBTypeOK
    <2>2. QED
        BY <1>0, <1>1, <2>1
<1>3. CASE VerifyTempChain(t)
    <2>1. /\ main' = main /\ ForkOf(t)' = ForkOf(t)
          /\ \/ ~ Passed(t)'
             \/ \E low \in BOOLEAN : VerifyFork(main, rows, ForkOf(t), low)
        BY <1>0, <1>3 DEF VerifyTempChain, ForkOf, HBTypeOK
    <2>2. Passed(t)' => ForkOf(t) \in Tables
        BY <1>0, <2>1, ForkOfType, VerifiedMade
    <2>3. QED
        BY <1>0, <1>1, <2>1, <2>2
<1>4. CASE ReplaceHeader(t)
    <2>1. PICK b \in todo[t] : main' = [main EXCEPT ![b.index] = b]
        BY <1>4 DEF ReplaceHeader
    <2>2. Passed(t) /\ Replacing(t) /\ ForkOf(t)' = ForkOf(t)
        BY <1>4 DEF ReplaceHeader, Replacing, ForkOf
    <2>3. ForkOf(t) \in Tables /\ b \in Blocks
        BY <2>1, <2>2, PassedRows
    <2>4. main' \in Tables
        BY <1>0, <2>1, <2>3, BlockFields DEF Tables
    <2>5. QED
        BY <1>1, <2>2, <2>3, <2>4
<1>5. CASE CompareLuck(t) \/ MempoolUpdate(t) \/ ApplyFork(t) \/ RemoveTransactions(t)
           \/ SaveTransaction(t)
    <2>1. main' = main /\ ForkOf(t)' = ForkOf(t) /\ Passed(t)
        BY <1>5 DEF CompareLuck, MempoolUpdate, ApplyFork, RemoveTransactions,
                    SaveTransaction, ForkOf
    <2>2. ForkOf(t) \in Tables
        BY <2>1, PassedRows
    <2>3. QED
        BY <1>0, <1>1, <2>1, <2>2
<1>6. QED
    BY <1>2, <1>3, <1>4, <1>5 DEF HandleBlockStep

LEMMA MadeNext ==
    ASSUME OneThread, HandleInv, [Next]_vars
    PROVE  MadeOnly'
<1>0. MadeOnly /\ main \in Tables
    BY DEF HandleInv, MadeOnly
<1>1. ASSUME main' \in Tables, NEW t \in Threads, ~ Passed(t)' PROVE MadeOnly'
    BY <1>1 DEF OneThread, MadeOnly
<1>2. CASE \E t \in Threads : HandleBlockStep(t) /\ requests' = requests
    BY <1>2, MadeStep
<1>3. ASSUME NEW t \in Threads, NEW b \in Received, Calls(t, b) PROVE MadeOnly'
    BY <1>0, <1>1, <1>3, CallBegins DEF tables, Passed
<1>4. ASSUME NEW t \in Threads, Ends(t) PROVE MadeOnly'
    BY <1>0, <1>1, <1>4, CallEnds DEF tables, Passed
<1>5. CASE AllIdle /\ \E low \in BOOLEAN : CheckDatabase(low)
    <2>1. main' \in Tables
        BY <1>0, <1>5 DEF CheckDatabase, Tables
    <2>2. \A t \in Threads : ~ Passed(t)'
        BY <1>5 DEF AllIdle, CheckDatabase, Passed
    <2>3. QED
        BY <2>1, <2>2 DEF MadeOnly
<1>6. CASE Restart
    <2>1. main' \in Tables
        BY <1>0, <1>6, BlocksAssumption DEF Restart, Tables
    <2>2. \A t \in Threads : ~ Passed(t)'
        BY <1>6 DEF Restart, Passed
    <2>3. QED
        BY <2>1, <2>2 DEF MadeOnly
<1>7. CASE Elsewhere
    BY <1>0, <1>7 DEF Elsewhere, tables, locals, MadeOnly, Passed, ForkOf
<1>8. QED
    BY <1>2, <1>3, <1>4, <1>5, <1>6, <1>7, StepKinds

\* The lowest of the blocks that are left to write is one.
LEMMA NextIsOne ==
    ASSUME HandleInv, NEW t \in Threads, Replacing(t), NEW b \in todo[t], IsNext(t, b),
           NEW c \in todo[t], IsNext(t, c)
    PROVE  b = c
<1>1. todo[t] \subseteq RowsOf(ForkOf(t))
    BY CallAtHand DEF WrittenBy
<1>2. b.index = c.index
    BY <1>1, RowsKeyed DEF IsNext, Index
<1>3. QED
    BY <1>1, <1>2, RowsKeyed

\* Each block is written whole, one after the other, and stays.
LEMMA WrittenStep ==
    ASSUME OneThread, HandleInv, NEW t \in Threads, HandleBlockStep(t)
    PROVE  WrittenBy(t)'
<1>0. HBTypeOK /\ AtHand(t) /\ WrittenBy(t) /\ retVal[t] \in Int
    BY CallAtHand DEF HBTypeOK
<1> USE DEF tables, locals, Goto, Replacing
<1>1. CASE CreateForkRow(t) \/ CreateForkTable(t)
    BY <1>0, <1>1 DEF CreateForkRow, CreateForkTable, HBTypeOK, WrittenBy
<1>2. CASE AddToFork(t)
    <2>1. /\ pc[t] = "add" /\ UNCHANGED <<main, blk, todo, left>>
          /\ \/ pc'[t] = "verify"
             \/ pc'[t] = "returned" /\ retVal'[t] = blk[t].index - 1
        BY <1>0, <1>2 DEF AddToFork, HBTypeOK
    <2>2. blk[t].index \in Nat
        BY <1>2, CallAtHand DEF AddToFork, Index
    <2>3. QED
        BY <2>1, <2>2 DEF WrittenBy
<1>3. CASE VerifyTempChain(t) \/ CompareLuck(t) \/ MempoolUpdate(t)
    <2>1. retVal[t] < 0
        BY <1>0, <1>3 DEF AtHand, VerifyTempChain, CompareLuck, MempoolUpdate
    <2>2. retVal'[t] \in {retVal[t], -2} /\ pc'[t] \in {"aborted", "luck", "drop", "mempool", "apply"}
        BY <1>0, <1>3 DEF VerifyTempChain, CompareLuck, MempoolUpdate, HBTypeOK
    <2>3. QED
        BY <1>0, <2>1, <2>2 DEF WrittenBy
<1>4. CASE ApplyFork(t)
    <2>1. fork[t] \in live
        BY <1>0, <1>4 DEF ApplyFork, AtHand, Working
    <2>2. /\ pc'[t] = "replace" /\ todo'[t] = RowsOf(ForkOf(t))
          /\ UNCHANGED <<forkTab, live, fork>>
        BY <1>0, <1>4, <2>1 DEF ApplyFork, HBTypeOK
    <2>3. QED
        BY <2>2 DEF WrittenBy, ForkOf
<1>5. CASE ReplaceHeader(t)
    <2>1. PICK b \in todo[t] : IsNext(t, b) /\ main' = [main EXCEPT ![b.index] = b]
        BY <1>5 DEF ReplaceHeader
    <2>2. /\ pc'[t] = "clear" /\ pc[t] = "replace"
          /\ UNCHANGED <<rows, forkTab, live, fork, todo>>
        BY <1>0, <1>5 DEF ReplaceHeader, HBTypeOK
    <2>3. todo[t] \subseteq RowsOf(ForkOf(t))
        BY <1>0, <2>2 DEF WrittenBy
    <2>4. main'[b.index] = b
        BY <1>0, <2>1, <2>3, RowsKeyed DEF HBTypeOK, SentTables
    <2>5. \A c \in RowsOf(ForkOf(t)) \ todo[t] : InChain(c)'
        <3>1. ASSUME NEW c \in RowsOf(ForkOf(t)) \ todo[t] PROVE InChain(c)'
            <4>1. InChain(c) /\ c.index # b.index /\ c.index \in Index
                BY <1>0, <2>1, <2>2, <2>3, RowsKeyed DEF WrittenBy
            <4>2. QED
                BY <1>0, <2>1, <2>2, <4>1 DEF InChain, HBTypeOK, SentTables
        <3>2. QED
            BY <3>1
    <2>6. \A c \in todo[t] : IsNext(t, c) => main'[c.index] = c
        BY <2>1, <2>2, <2>4, NextIsOne
    <2>7. QED
        BY <2>2, <2>3, <2>5, <2>6 DEF WrittenBy, ForkOf, IsNext, InChain
<1>6. CASE RemoveTransactions(t)
    <2>1. PICK b \in todo[t] : /\ IsNext(t, b) /\ rows' = [rows EXCEPT ![b.index] = {}]
                               /\ left' = [left EXCEPT ![t] = b.txs]
        BY <1>6 DEF RemoveTransactions
    <2>2. /\ pc'[t] = "save" /\ pc[t] = "clear"
          /\ UNCHANGED <<main, forkTab, live, fork, todo>>
        <3>1. b.txs # {}
            BY <1>6, PassedRows, BlockFields DEF RemoveTransactions, Passed
        <3>2. QED
            BY <1>0, <1>6, <2>1, <3>1, NextIsOne DEF RemoveTransactions, HBTypeOK
    <2>3. todo[t] \subseteq RowsOf(ForkOf(t)) /\ main[b.index] = b
        BY <1>0, <2>1, <2>2 DEF WrittenBy
    <2>4. rows'[b.index] = b.txs \ left'[t] /\ left'[t] \subseteq b.txs
        BY <1>0, <2>1, <2>3, RowsKeyed DEF HBTypeOK
    <2>5. ASSUME NEW c \in RowsOf(ForkOf(t)) \ todo[t] PROVE InChain(c)'
        <3>1. InChain(c) /\ c.index # b.index /\ c.index \in Index
            BY <1>0, <2>1, <2>2, <2>3, RowsKeyed DEF WrittenBy
        <3>2. QED
            BY <1>0, <2>1, <2>2, <3>1 DEF InChain, HBTypeOK
    <2>6. \A c \in todo[t] : IsNext(t, c) => c = b
        BY <2>1, <2>2, NextIsOne
    <2>7. QED
        BY <2>2, <2>3, <2>4, <2>5, <2>6 DEF WrittenBy, ForkOf, IsNext, InChain
<1>7. CASE SaveTransaction(t)
    <2>1. PICK b \in todo[t], tx \in left[t] :
            /\ IsNext(t, b) /\ rows' = [rows EXCEPT ![b.index] = rows[b.index] \cup {tx}]
            /\ left' = [left EXCEPT ![t] = left[t] \ {tx}]
            /\ \/ /\ left[t] = {tx} /\ todo' = [todo EXCEPT ![t] = todo[t] \ {b}]
                  /\ Goto(t, "replace")
               \/ left[t] # {tx} /\ UNCHANGED <<todo, pc>>
        BY <1>7 DEF SaveTransaction
    <2>2. pc[t] = "save" /\ UNCHANGED <<main, forkTab, live, fork>>
        BY <1>0, <1>7 DEF SaveTransaction, HBTypeOK
    <2>3. /\ todo[t] \subseteq RowsOf(ForkOf(t)) /\ main[b.index] = b
          /\ left[t] \subseteq b.txs /\ rows[b.index] = b.txs \ left[t]
        BY <1>0, <2>1, <2>2 DEF WrittenBy
    <2>4. rows'[b.index] = b.txs \ left'[t] /\ left'[t] = left[t] \ {tx}
        BY <1>0, <2>1, <2>3, RowsKeyed DEF HBTypeOK
    <2>5. ASSUME NEW c \in RowsOf(ForkOf(t)) \ todo[t] PROVE InChain(c)'
        <3>1. InChain(c) /\ c.index # b.index /\ c.index \in Index
            BY <1>0, <2>1, <2>2, <2>3, RowsKeyed DEF WrittenBy
        <3>2. QED
            BY <1>0, <2>1, <2>2, <3>1 DEF InChain, HBTypeOK
    <2>6. CASE left[t] # {tx} /\ UNCHANGED <<todo, pc>>
        <3>1. \A c \in todo[t] : IsNext(t, c) => c = b
            BY <2>1, <2>2, NextIsOne
        <3>2. QED
            BY <2>2, <2>3, <2>4, <2>5, <2>6, <3>1 DEF WrittenBy, ForkOf, IsNext, InChain
    <2>7. CASE /\ left[t] = {tx} /\ todo' = [todo EXCEPT ![t] = todo[t] \ {b}]
               /\ Goto(t, "replace")
        <3>1. InChain(b)'
            BY <2>2, <2>3, <2>4, <2>7 DEF InChain
        <3>2. todo'[t] = todo[t] \ {b} /\ pc'[t] = "replace"
            BY <1>0, <2>7 DEF HBTypeOK
        <3>3. RowsOf(ForkOf(t))' = RowsOf(ForkOf(t))
            BY <2>2 DEF ForkOf, RowsOf, Held
        <3>4. \A c \in RowsOf(ForkOf(t)) \ todo'[t] : InChain(c)'
            BY <2>5, <3>1, <3>2
        <3>5. QED
            BY <2>3, <3>2, <3>3, <3>4 DEF WrittenBy
    <2>8. QED
        BY <2>1, <2>6, <2>7
<1>8. CASE FinishApply(t)
    <2>1. /\ pc[t] = "replace" /\ todo[t] = {} /\ pc'[t] = "drop"
          /\ UNCHANGED <<main, rows, forkTab, live, fork, todo>>
        BY <1>0, <1>8 DEF FinishApply, HBTypeOK
    <2>2. \A b \in RowsOf(ForkOf(t)) : InChain(b)
        BY <1>0, <2>1 DEF WrittenBy
    <2>3. RowsOf(ForkOf(t))' = RowsOf(ForkOf(t))
        BY <2>1 DEF ForkOf
    <2>4. QED
        BY <2>1, <2>2, <2>3 DEF WrittenBy, InChain
<1>9. CASE DeleteFork(t)
    <2>1. pc[t] = "drop" /\ pc'[t] = "returned" /\ UNCHANGED <<main, rows, blk, retVal, todo>>
        BY <1>0, <1>9 DEF DeleteFork, HBTypeOK
    <2>2. ASSUME retVal[t] = 0
          PROVE  blk[t].index \in Held(main) /\ rows[blk[t].index] = main[blk[t].index].txs
        <3> DEFINE i == blk[t].index
                   b == ForkOf(t)[i]
        <3>1. i \in Held(ForkOf(t)) /\ b \in RowsOf(ForkOf(t)) /\ b # NoRow /\ i \in Index
            BY <1>0, <2>1, <2>2, CallAtHand DEF AtHand, ForkOf, RowsOf, Held
        <3>2. b.index = i
            BY <3>1, RowsKeyed DEF Keyed
        <3>3. main[i] = b /\ rows[i] = b.txs
            BY <1>0, <2>1, <2>2, <3>1, <3>2 DEF WrittenBy, InChain
        <3>4. QED
            BY <3>1, <3>3 DEF Held
    <2>3. QED
        BY <1>0, <2>1, <2>2 DEF WrittenBy, InChain
<1>10. QED
    BY <1>1, <1>2, <1>3, <1>4, <1>5, <1>6, <1>7, <1>8, <1>9 DEF HandleBlockStep

LEMMA WrittenNext ==
    ASSUME OneThread, HandleInv, [Next]_vars
    PROVE  Written'
<1>1. CASE \E t \in Threads : HandleBlockStep(t) /\ requests' = requests
    BY <1>1, WrittenStep DEF OneThread, Written
<1>2. ASSUME NEW t \in Threads, WrittenBy(t)' PROVE Written'
    BY <1>2 DEF OneThread, Written
<1>3. ASSUME NEW t \in Threads, NEW b \in Received, Calls(t, b) PROVE WrittenBy(t)'
    <2>1. /\ pc'[t] \in {"create", "returned", "add", "drop"} /\ retVal'[t] # 0
        BY <1>3, CallBegins
    <2>2. QED
        BY <2>1 DEF WrittenBy, Replacing
<1>4. ASSUME NEW t \in Threads, Ends(t) PROVE WrittenBy(t)'
    BY <1>4, CallEnds DEF WrittenBy, Replacing
<1>5. CASE AllIdle /\ \E low \in BOOLEAN : CheckDatabase(low)
    BY <1>5 DEF AllIdle, CheckDatabase, Written, WrittenBy, Replacing
<1>6. CASE Restart
    BY <1>6 DEF Restart, Written, WrittenBy, Replacing
<1>7. CASE Elsewhere
    <2>1. Written /\ UNCHANGED <<tables, pc, locals>>
        BY <1>7 DEF Elsewhere, HandleInv
    <2>2. QED
        BY <2>1 DEF tables, locals, Written, WrittenBy, InChain, Replacing, IsNext,
                    ForkOf, RowsOf, Held
<1>8. QED
    BY <1>1, <1>2, <1>3, <1>4, <1>5, <1>6, <1>7, StepKinds

-----------------------------------------------------------------------------
(* What is taken over.                                                     *)

\* What a call has verified and compared does not change under it.
LEMMA ChosenStep ==
    ASSUME OneThread, HandleInv, NEW t \in Threads, HandleBlockStep(t)
    PROVE  ChosenBy(t)'
<1>0. HBTypeOK /\ ChosenBy(t)
    BY CallAtHand
<1> USE DEF tables, locals, Goto
<1>1. CASE VerifyTempChain(t)
    <2>0. Held(ForkOf(t)) # {}
        BY <1>1, ForkHasRow DEF VerifyTempChain, Working
    <2>1. /\ main' = main /\ rows' = rows /\ ForkOf(t)' = ForkOf(t)
          /\ \/ pc'[t] = "drop"
             \/ /\ pc'[t] = "luck" /\ todo'[t] = RowsOf(ForkOf(t))
                /\ \E low \in BOOLEAN : VerifyFork(main, rows, ForkOf(t), low)
        BY <1>0, <1>1, <2>0 DEF VerifyTempChain, ForkOf, HBTypeOK
    <2>2. QED
        BY <2>1 DEF ChosenBy
<1>2. CASE CompareLuck(t)
    <2>1. /\ main' = main /\ rows' = rows /\ ForkOf(t)' = ForkOf(t) /\ pc[t] = "luck"
          /\ \/ pc'[t] = "drop"
             \/ pc'[t] = "mempool" /\ IsLuckierChain(main, todo[t], ForkOf(t))
        BY <1>0, <1>2 DEF CompareLuck, ForkOf, HBTypeOK
    <2>2. QED
        BY <1>0, <2>1 DEF ChosenBy
<1>3. CASE MempoolUpdate(t)
    <2>1. /\ main' = main /\ rows' = rows /\ ForkOf(t)' = ForkOf(t)
          /\ pc[t] = "mempool" /\ pc'[t] = "apply"
        BY <1>0, <1>3 DEF MempoolUpdate, ForkOf, HBTypeOK
    <2>2. QED
        BY <1>0, <2>1 DEF ChosenBy
<1>4. CASE CreateForkRow(t) \/ CreateForkTable(t) \/ AddToFork(t) \/ ApplyFork(t)
           \/ ReplaceHeader(t) \/ RemoveTransactions(t) \/ SaveTransaction(t)
           \/ FinishApply(t) \/ DeleteFork(t)
    <2>1. pc'[t] \notin {"luck", "mempool", "apply"}
        BY <1>0, <1>4 DEF CreateForkRow, CreateForkTable, AddToFork, ApplyFork, ReplaceHeader,
               RemoveTransactions, SaveTransaction, FinishApply, DeleteFork, HBTypeOK
    <2>2. QED
        BY <2>1 DEF ChosenBy
<1>5. QED
    BY <1>1, <1>2, <1>3, <1>4 DEF HandleBlockStep

LEMMA ChosenNext ==
    ASSUME OneThread, HandleInv, [Next]_vars
    PROVE  Chosen'
<1>1. ASSUME NEW t \in Threads, ChosenBy(t)' PROVE Chosen'
    BY <1>1 DEF OneThread, Chosen
<1>2. CASE \E t \in Threads : HandleBlockStep(t) /\ requests' = requests
    BY <1>1, <1>2, ChosenStep
<1>3. ASSUME NEW t \in Threads, pc'[t] \notin {"luck", "mempool", "apply"}
      PROVE  ChosenBy(t)'
    BY <1>3 DEF ChosenBy
<1>4. CASE \E t \in Threads, b \in Received : Calls(t, b)
    BY <1>1, <1>3, <1>4, CallBegins
<1>5. CASE \E t \in Threads : Ends(t)
    BY <1>1, <1>3, <1>5, CallEnds
<1>6. CASE AllIdle /\ \E low \in BOOLEAN : CheckDatabase(low)
    BY <1>3, <1>6 DEF AllIdle, CheckDatabase, Chosen
<1>7. CASE Restart
    BY <1>3, <1>7 DEF Restart, Chosen
<1>8. CASE Elsewhere
    <2>1. Chosen /\ UNCHANGED <<tables, pc, locals>>
        BY <1>8 DEF Elsewhere, HandleInv
    <2>2. \A t \in Threads : ForkOf(t)' = ForkOf(t)
        BY <2>1 DEF ForkOf, tables, locals
    <2>3. QED
        BY <2>1, <2>2 DEF tables, locals, Chosen, ChosenBy
<1>9. QED
    BY <1>2, <1>4, <1>5, <1>6, <1>7, <1>8, StepKinds

-----------------------------------------------------------------------------
(* What is displaced.                                                      *)

LEMMA DisplacedStep ==
    ASSUME OneThread, HandleInv, NEW t \in Threads, HandleBlockStep(t)
    PROVE  DisplacedBy(t)'
<1>0. HBTypeOK /\ WrittenBy(t) /\ DisplacedBy(t)
    BY CallAtHand
<1> USE DEF tables, locals, Goto
<1>1. CASE MempoolUpdate(t)
    <2>1. ForkOf(t)' = ForkOf(t) /\ rows' = rows
        BY <1>1 DEF MempoolUpdate, ForkOf
    <2>2. mempool' = (mempool \cup UNION {rows[i] : i \in {j \in Index :
                                          \E k \in Held(ForkOf(t)) : k <= j}}) \ ForkTxs(t)
        BY <1>1 DEF MempoolUpdate, ForkTxs, TxsOf
    <2>3. ASSUME NEW b \in RowsOf(ForkOf(t)) PROVE rows[b.index] \subseteq mempool' \cup ForkTxs(t)
        <3>1. b.index \in Held(ForkOf(t)) /\ b.index \in Index /\ b.index <= b.index
            BY RowsKeyed DEF Index
        <3>2. QED
            BY <2>2, <3>1
    <2>4. QED
        BY <2>1, <2>3 DEF DisplacedBy, ForkTxs, TxsOf
<1>2. CASE ApplyFork(t) \/ ReplaceHeader(t)
    <2>1. ForkOf(t)' = ForkOf(t) /\ rows' = rows /\ mempool' = mempool
        BY <1>2 DEF ApplyFork, ReplaceHeader, ForkOf
    <2>2. pc[t] = "apply" \/ Replacing(t)
        BY <1>2 DEF ApplyFork, ReplaceHeader, Replacing
    <2>3. QED
        BY <1>0, <2>1, <2>2 DEF DisplacedBy, ForkTxs, TxsOf
<1>3. CASE RemoveTransactions(t) \/ SaveTransaction(t)
    <2>0. Replacing(t) /\ ForkOf(t)' = ForkOf(t) /\ mempool' = mempool
        BY <1>3 DEF RemoveTransactions, SaveTransaction, ForkOf, Replacing
    <2>1. PICK b \in todo[t] :
            /\ IsNext(t, b) /\ rows'[b.index] \subseteq b.txs
            /\ \A i \in Index \ {b.index} : rows'[i] = rows[i]
        <3>1. CASE RemoveTransactions(t)
            <4>1. PICK b \in todo[t] : IsNext(t, b) /\ rows' = [rows EXCEPT ![b.index] = {}]
                BY <3>1 DEF RemoveTransactions
            <4>2. b \in Received /\ b.index \in Index
                BY <1>0, ReceivedFields DEF HBTypeOK
            <4>3. QED
                BY <1>0, <4>1, <4>2 DEF HBTypeOK
        <3>2. CASE SaveTransaction(t)
            <4>1. PICK b \in todo[t] : /\ IsNext(t, b)
                                       /\ \E tx \in left[t] :
                                            rows' = [rows EXCEPT ![b.index] = @ \cup {tx}]
                BY <3>2 DEF SaveTransaction
            <4>2. left[t] \subseteq b.txs /\ rows[b.index] = b.txs \ left[t]
                BY <1>0, <3>2, <4>1 DEF SaveTransaction, WrittenBy
            <4>3. QED
                BY <1>0, <4>1, <4>2 DEF HBTypeOK
        <3>3. QED
            BY <1>3, <3>1, <3>2
    <2>2. b \in RowsOf(ForkOf(t))
        BY <1>0, <2>0 DEF WrittenBy
    <2>3. ASSUME NEW c \in RowsOf(ForkOf(t)) PROVE rows'[c.index] \subseteq mempool \cup ForkTxs(t)
        <3>1. c.index \in Index /\ rows[c.index] \subseteq mempool \cup ForkTxs(t)
            BY <1>0, <2>0, RowsKeyed DEF DisplacedBy
        <3>2. b.txs \subseteq ForkTxs(t)
            BY <2>2 DEF ForkTxs, TxsOf
        <3>3. QED
            BY <2>1, <3>1, <3>2
    <2>4. QED
        BY <2>0, <2>3 DEF DisplacedBy, ForkTxs, TxsOf
<1>4. CASE CreateForkRow(t) \/ CreateForkTable(t) \/ AddToFork(t) \/ VerifyTempChain(t)
           \/ CompareLuck(t) \/ FinishApply(t) \/ DeleteFork(t)
    <2>1. pc'[t] # "apply" /\ ~ Replacing(t)'
        BY <1>0, <1>4 DEF CreateForkRow, CreateForkTable, AddToFork, VerifyTempChain,
               CompareLuck, FinishApply, DeleteFork, HBTypeOK, Replacing
    <2>2. QED
        BY <2>1 DEF DisplacedBy
<1>5. QED
    BY <1>1, <1>2, <1>3, <1>4 DEF HandleBlockStep

LEMMA DisplacedNext ==
    ASSUME OneThread, HandleInv, [Next]_vars
    PROVE  Displaced'
<1>1. ASSUME NEW t \in Threads, DisplacedBy(t)' PROVE Displaced'
    BY <1>1 DEF OneThread, Displaced
<1>2. CASE \E t \in Threads : HandleBlockStep(t) /\ requests' = requests
    BY <1>1, <1>2, DisplacedStep
<1>3. ASSUME NEW t \in Threads, pc'[t] \notin {"apply", "replace", "clear", "save"}
      PROVE  DisplacedBy(t)'
    BY <1>3 DEF DisplacedBy, Replacing
<1>4. CASE \E t \in Threads, b \in Received : Calls(t, b)
    BY <1>1, <1>3, <1>4, CallBegins
<1>5. CASE \E t \in Threads : Ends(t)
    BY <1>1, <1>3, <1>5, CallEnds
<1>6. CASE AllIdle /\ \E low \in BOOLEAN : CheckDatabase(low)
    BY <1>3, <1>6 DEF AllIdle, CheckDatabase, Displaced
<1>7. CASE Restart
    BY <1>3, <1>7 DEF Restart, Displaced
<1>8. CASE Elsewhere
    <2>1. /\ Displaced /\ UNCHANGED <<tables, pc, locals>>
          /\ mempool \subseteq mempool' \/ \A t \in Threads : pc[t] = "idle"
        BY <1>8 DEF Elsewhere, HandleInv
    <2>2. \A t \in Threads : ForkOf(t)' = ForkOf(t)
        BY <2>1 DEF ForkOf, tables, locals
    <2>3. QED
        BY <2>1, <2>2 DEF tables, Displaced, DisplacedBy, ForkTxs, TxsOf, Replacing
<1>9. QED
    BY <1>2, <1>4, <1>5, <1>6, <1>7, <1>8, StepKinds

-----------------------------------------------------------------------------
(* What follows, with one thread.                                          *)

LEMMA HandleInit == Init => HandleInv
<1> SUFFICES ASSUME Init PROVE HandleInv
    OBVIOUS
<1>1. GapInv
    BY GapInit
<1>2. NoAbort /\ RequestsFitForks
    BY DEF Init, HBInit, NoAbort, RequestsFitForks, Held, EmptyTable
<1>7. MadeOnly
    BY BlocksAssumption DEF Init, HBInit, MadeOnly, Passed, Tables, EmptyTable
<1>3. ForkTables /\ RetryFits
    BY DEF Init, HBInit, ForkTables, RetryFits
<1>4. ForkAtHand
    BY DEF Init, HBInit, ForkAtHand, AtHand, Working, Missing
<1>5. Written /\ Chosen /\ Displaced
    BY DEF Init, HBInit, Written, WrittenBy, Chosen, ChosenBy, Displaced, DisplacedBy, Replacing
<1>6. QED
    BY <1>1, <1>2, <1>3, <1>4, <1>5, <1>7 DEF HandleInv

LEMMA HandleNext ==
    ASSUME OneThread, HandleInv, [Next]_vars
    PROVE  HandleInv'
<1>1. GapInv'
    <2>1. GapInv
        BY DEF HandleInv
    <2>2. QED
        BY <2>1, NextType, NoGapsNext, ForksKeyedNext, MinerIdleNext, ForkFitsNext DEF GapInv
<1>2. QED
    BY <1>1, ForkTablesNext, AtHandNext, RetryFitsNext, MadeNext, WrittenNext, ChosenNext, DisplacedNext
    DEF HandleInv

LEMMA HandleCorrect ==
    ASSUME OneThread
    PROVE  Spec => []HandleInv
<1>1. HandleInv /\ [Next]_vars => HandleInv'
    BY HandleNext
<1>2. QED
    BY <1>1, HandleInit, PTL DEF Spec

\* With one thread in handleBlock, checkTempChain always finds a row in the
\* fork it checks, so that createBlockFromRow never aborts the process there
\* (database.cpp:585), whatever peers answer, unset blocks included.
THEOREM NoAbortOneThread ==
    ASSUME OneThread
    PROVE  Spec => []NoAbort
<1>1. HandleInv => NoAbort
    BY DEF HandleInv
<1>2. QED
    BY <1>1, HandleCorrect, PTL

\* With one thread in handleBlock, a fork has at most one request out, its
\* table is there and holds the row above the block asked for, whatever unset
\* blocks came as answers before; without one in it, the table has no gap.
THEOREM RequestsFitOneThread ==
    ASSUME OneThread
    PROVE  Spec => []RequestsFitForks
<1>1. HandleInv => RequestsFitForks
    BY DEF HandleInv
<1>2. QED
    BY <1>1, HandleCorrect, PTL

\* With one thread in handleBlock, a fork is dropped after applyFork only when
\* all of it is in the chain, and a call that returns 0 leaves a whole block
\* at the index of its own.
THEOREM SuccessMeansStoredOneThread ==
    ASSUME OneThread
    PROVE  Spec => []SuccessMeansStored
<1>1. HandleInv => SuccessMeansStored
    BY DEF HandleInv, Written, WrittenBy, InChain, SuccessMeansStored
<1>2. QED
    BY <1>1, HandleCorrect, PTL

\* The transactions a node knows, seen from its only thread, now and next.
TxsAtHand(t) ==
    mempool \cup (UNION {rows[i] : i \in Index})
            \cup (IF Replacing(t) THEN TxsOf(todo[t]) ELSE {})
            \cup (IF pc[t] = "apply" THEN ForkTxs(t) ELSE {})

LEMMA KnownTo ==
    ASSUME OneThread, NEW t \in Threads
    PROVE  KnownTxs = TxsAtHand(t) /\ KnownTxs' = TxsAtHand(t)'
<1>1. \A S \in SUBSET Threads : S = IF t \in S THEN {t} ELSE {}
    BY DEF OneThread
<1>2. TxsOf({}) = {} /\ UNION {} = {}
    BY DEF TxsOf
<1>3. KnownTxs = TxsAtHand(t)
    <2> DEFINE W == {u \in Threads : Replacing(u)}
               A == {u \in Threads : pc[u] = "apply"}
    <2>1. W = (IF Replacing(t) THEN {t} ELSE {}) /\ A = (IF pc[t] = "apply" THEN {t} ELSE {})
        BY <1>1
    <2>2. UNION {todo[u] : u \in W} = IF Replacing(t) THEN todo[t] ELSE {}
        BY <2>1
    <2>3. UNION {RowsOf(ForkOf(u)) : u \in A} = IF pc[t] = "apply" THEN RowsOf(ForkOf(t)) ELSE {}
        BY <2>1
    <2>4. QED
        BY <1>2, <2>2, <2>3 DEF KnownTxs, TxsAtHand, ForkTxs
<1>4. KnownTxs' = TxsAtHand(t)'
    <2> DEFINE W == {u \in Threads : Replacing(u)'}
               A == {u \in Threads : pc'[u] = "apply"}
    <2>1. W = (IF Replacing(t)' THEN {t} ELSE {}) /\ A = (IF pc'[t] = "apply" THEN {t} ELSE {})
        BY <1>1
    <2>2. UNION {todo'[u] : u \in W} = IF Replacing(t)' THEN todo'[t] ELSE {}
        BY <2>1
    <2>3. UNION {RowsOf(ForkOf(u))' : u \in A}
            = IF pc'[t] = "apply" THEN RowsOf(ForkOf(t))' ELSE {}
        BY <2>1
    <2>4. QED
        BY <1>2, <2>2, <2>3 DEF KnownTxs, TxsAtHand, ForkTxs
<1>5. QED
    BY <1>3, <1>4

LEMMA TxsKeptStep ==
    ASSUME OneThread, HandleInv, NEW t \in Threads, HandleBlockStep(t)
    PROVE  KnownTxs \subseteq KnownTxs'
<1>0. HBTypeOK /\ WrittenBy(t) /\ DisplacedBy(t)
    BY CallAtHand
<1> DEFINE Stored == mempool \cup (UNION {rows[i] : i \in Index})
           Fork   == (IF Replacing(t) THEN TxsOf(todo[t]) ELSE {})
                        \cup (IF pc[t] = "apply" THEN ForkTxs(t) ELSE {})
<1>1. KnownTxs = Stored \cup Fork /\ KnownTxs' = Stored' \cup Fork'
    BY KnownTo DEF TxsAtHand
<1> HIDE DEF Stored, Fork
<1>2. SUFFICES Stored \cup Fork \subseteq Stored' \cup Fork'
    BY <1>1
<1> USE DEF tables, locals, Goto, Replacing, TxsOf
<1>3. CASE CreateForkRow(t) \/ CreateForkTable(t) \/ AddToFork(t) \/ VerifyTempChain(t)
           \/ CompareLuck(t) \/ DeleteFork(t)
    <2>1. mempool' = mempool /\ rows' = rows
        BY <1>3 DEF CreateForkRow, CreateForkTable, AddToFork, VerifyTempChain, CompareLuck,
                    DeleteFork
    <2>2. pc[t] # "apply" /\ ~ Replacing(t)
        BY <1>3 DEF CreateForkRow, CreateForkTable, AddToFork, VerifyTempChain, CompareLuck,
                    DeleteFork
    <2>3. QED
        BY <2>1, <2>2 DEF Stored, Fork
<1>4. CASE MempoolUpdate(t)
    <2>1. /\ pc[t] = "mempool" /\ pc'[t] = "apply" /\ rows' = rows
          /\ mempool \subseteq mempool' \cup ForkTxs(t)
        BY <1>0, <1>4 DEF MempoolUpdate, HBTypeOK, ForkTxs
    <2>2. ForkTxs(t)' = ForkTxs(t)
        BY <1>4 DEF MempoolUpdate, ForkTxs, ForkOf
    <2>3. QED
        BY <2>1, <2>2 DEF Stored, Fork
<1>5. CASE ApplyFork(t)
    <2>1. fork[t] \in live
        BY <1>5, CallAtHand DEF ApplyFork, AtHand, Working
    <2>2. /\ pc[t] = "apply" /\ pc'[t] = "replace" /\ todo'[t] = RowsOf(ForkOf(t))
          /\ rows' = rows /\ mempool' = mempool
        BY <1>0, <1>5, <2>1 DEF ApplyFork, HBTypeOK
    <2>3. Fork = ForkTxs(t) /\ Fork' = ForkTxs(t)
        BY <2>2 DEF Fork, ForkTxs
    <2>4. QED
        BY <2>2, <2>3 DEF Stored
<1>6. CASE ReplaceHeader(t) \/ FinishApply(t)
    <2>1. /\ rows' = rows /\ mempool' = mempool /\ todo' = todo /\ pc[t] = "replace"
          /\ pc'[t] = "clear" \/ todo[t] = {}
        BY <1>0, <1>6 DEF ReplaceHeader, FinishApply, HBTypeOK
    <2>2. Fork \subseteq Fork'
        BY <2>1 DEF Fork
    <2>3. QED
        BY <2>1, <2>2 DEF Stored
<1>7. CASE RemoveTransactions(t)
    <2>1. PICK b \in todo[t] : IsNext(t, b) /\ rows' = [rows EXCEPT ![b.index] = {}]
        BY <1>7 DEF RemoveTransactions
    <2>2. /\ pc[t] = "clear" /\ pc'[t] = "save" /\ mempool' = mempool /\ todo' = todo
        <3>1. \A c \in todo[t] : c.txs # {}
            BY <1>7, PassedRows, BlockFields DEF RemoveTransactions, Passed
        <3>2. QED
            BY <1>0, <1>7, <3>1 DEF RemoveTransactions, HBTypeOK
    <2>3. todo[t] \subseteq RowsOf(ForkOf(t))
        BY <1>0, <2>2 DEF WrittenBy
    <2>4. Fork' = Fork /\ Fork = TxsOf(todo[t])
        BY <2>2 DEF Fork
    <2>5. \A i \in Index \ {b.index} : rows[i] \subseteq Stored'
        BY <1>0, <2>1 DEF Stored, HBTypeOK
    <2>6. rows[b.index] \subseteq mempool \cup ForkTxs(t)
        BY <1>0, <2>2, <2>3 DEF DisplacedBy
    <2>7. ForkTxs(t) \subseteq Stored' \cup Fork'
        <3>1. ASSUME NEW c \in RowsOf(ForkOf(t)) \ todo[t] PROVE c.txs \subseteq Stored'
            <4>1. rows[c.index] = c.txs /\ c.index # b.index /\ c.index \in Index
                BY <1>0, <2>2, <2>3, <3>1, RowsKeyed DEF WrittenBy, InChain
            <4>2. QED
                BY <2>5, <4>1
        <3>2. \A c \in todo[t] : c.txs \subseteq Fork'
            BY <2>4
        <3>3. QED
            BY <3>1, <3>2 DEF ForkTxs
    <2>8. mempool \subseteq Stored'
        BY <2>2 DEF Stored
    <2>9. UNION {rows[i] : i \in Index} \subseteq Stored' \cup Fork'
        BY <2>1, <2>2, <2>5, <2>6, <2>7, <2>8
    <2>10. QED
        BY <2>4, <2>8, <2>9 DEF Stored
<1>8. CASE SaveTransaction(t)
    <2>1. PICK b \in todo[t], tx \in left[t] :
            /\ IsNext(t, b) /\ rows' = [rows EXCEPT ![b.index] = rows[b.index] \cup {tx}]
            /\ \/ /\ left[t] = {tx} /\ todo' = [todo EXCEPT ![t] = todo[t] \ {b}]
                  /\ Goto(t, "replace")
               \/ UNCHANGED <<todo, pc>>
        BY <1>8 DEF SaveTransaction
    <2>2. pc[t] = "save" /\ mempool' = mempool /\ b.index \in Index
        BY <1>0, <1>8, ReceivedFields DEF SaveTransaction, HBTypeOK
    <2>3. \A i \in Index : rows[i] \subseteq rows'[i]
        BY <1>0, <2>1, <2>2 DEF HBTypeOK
    <2>4. Stored \subseteq Stored'
        BY <2>2, <2>3 DEF Stored
    <2>5. CASE UNCHANGED <<todo, pc>>
        <3>1. Fork = TxsOf(todo[t]) /\ Fork' = Fork
            BY <2>2, <2>5 DEF Fork
        <3>2. QED
            BY <2>4, <3>1
    <2>6. CASE /\ left[t] = {tx} /\ todo' = [todo EXCEPT ![t] = todo[t] \ {b}]
               /\ Goto(t, "replace")
        <3>1. rows[b.index] = b.txs \ {tx}
            BY <1>0, <2>1, <2>2, <2>6 DEF WrittenBy
        <3>2. b.txs \subseteq rows'[b.index]
            BY <1>0, <2>1, <2>2, <3>1 DEF HBTypeOK
        <3>3. b.txs \subseteq Stored'
            BY <2>2, <3>2 DEF Stored
        <3>4. pc'[t] = "replace" /\ todo'[t] = todo[t] \ {b}
            BY <1>0, <2>6 DEF HBTypeOK
        <3>5. /\ Fork = TxsOf(todo[t])
              /\ Fork' = TxsOf(todo[t] \ {b})
            BY <2>2, <3>4 DEF Fork
        <3>6. Fork \subseteq Fork' \cup b.txs
            BY <3>5
        <3>7. QED
            BY <2>4, <3>3, <3>6
    <2>7. QED
        BY <2>1, <2>5, <2>6
<1>9. QED
    BY <1>3, <1>4, <1>5, <1>6, <1>7, <1>8 DEF HandleBlockStep

\* With one thread in handleBlock, no step of it loses a transaction: what a
\* fork displaces is in the mempool before its row is deleted.
THEOREM TxsKeptOneThread ==
    ASSUME OneThread
    PROVE  Spec => TxsKept
<1>1. HandleInv /\ [Next]_vars =>
        [(\E t \in Threads : HandleBlockStep(t)) => KnownTxs \subseteq KnownTxs']_vars
    BY TxsKeptStep
<1>2. QED
    BY <1>1, HandleCorrect, PTL DEF Spec, TxsKept

-----------------------------------------------------------------------------
(* The atomic chain, with one thread.                                      *)

\* The chain as it will be, seen from the only thread, now and next.
Pending(t) == IF Replacing(t) THEN todo[t] ELSE {}

LEMMA CommittedTo ==
    ASSUME OneThread, NEW t \in Threads
    PROVE  Committed = Overlay(main, Pending(t)) /\ Committed' = Overlay(main', Pending(t)')
<1>1. \A S \in SUBSET Threads : S = IF t \in S THEN {t} ELSE {}
    BY DEF OneThread
<1>2. UNION {todo[u] : u \in {v \in Threads : Replacing(v)}} = Pending(t)
    <2>1. {v \in Threads : Replacing(v)} = IF Replacing(t) THEN {t} ELSE {}
        BY <1>1
    <2>2. QED
        BY <2>1 DEF Pending
<1>3. UNION {todo'[u] : u \in {v \in Threads : Replacing(v)'}} = Pending(t)'
    <2>1. {v \in Threads : Replacing(v)'} = IF Replacing(t)' THEN {t} ELSE {}
        BY <1>1
    <2>2. QED
        BY <2>1 DEF Pending
<1>4. QED
    BY <1>2, <1>3 DEF Committed

\* What the two copies of the tables' operators are to each other.
LEMMA SameTables ==
    /\ Chain!EmptyTable = EmptyTable /\ Chain!Index = Index
    /\ \A c, s : Chain!Overlay(c, s) = Overlay(c, s)
    /\ \A c, i : Chain!HashAt(c, i) = HashAt(c, i)
    /\ \A c : Chain!Held(c) = Held(c)
    /\ \A b : Chain!ProofCertificate(b) = ProofCertificate(b)
    /\ \A s : Chain!FirstIndex(s) = FirstIndex(s)
<1>1. Chain!Index = Index
    BY DEF Chain!Index, Index
<1>2. \A c : Chain!Held(c) = Held(c)
    BY <1>1 DEF Chain!Held, Held
<1>3. \A c, i : Chain!HashAt(c, i) = HashAt(c, i)
    BY <1>2 DEF Chain!HashAt, HashAt, Chain!NoHash, NoHash
<1>4. \A c, s : Chain!Overlay(c, s) = Overlay(c, s)
    BY <1>1 DEF Chain!Overlay, Overlay
<1>5. \A s : Chain!FirstIndex(s) = FirstIndex(s)
    BY DEF Chain!FirstIndex, FirstIndex, Chain!Min, Min
<1>6. Chain!EmptyTable = EmptyTable
    BY <1>1 DEF Chain!EmptyTable, EmptyTable
<1>7. QED
    BY <1>1, <1>2, <1>3, <1>4, <1>5, <1>6
       DEF Chain!ProofCertificate, ProofCertificate, Chain!NoHash, NoHash

LEMMA SameLuck ==
    \A c, s, f : Chain!IsLuckierChain(c, s, f) = IsLuckierChain(c, s, f)
<1>1. \A s : Chain!LuckOf(s) = LuckOf(s)
    BY DEF Chain!LuckOf, LuckOf, MapThenSumSet, Chain!MapThenSumSet, MapThenFoldSet,
           Chain!MapThenFoldSet
<1>2. \A c, i : Chain!LuckFrom(c, i) = LuckFrom(c, i)
    BY <1>1, SameTables DEF Chain!LuckFrom, LuckFrom
<1>3. QED
    BY <1>1, <1>2, SameTables DEF Chain!IsLuckierChain, IsLuckierChain

\* applyFork, when it has read the fork, is the step of the atomic chain.
LEMMA ApplyAdopts ==
    ASSUME OneThread, HandleInv, NEW t \in Threads, ApplyFork(t)
    PROVE  Chain!ChainNext
<1> DEFINE f == ForkOf(t)
           s == RowsOf(f)
<1>1. /\ HBTypeOK /\ main \in Tables /\ ChosenBy(t) /\ pc[t] = "apply" /\ fork[t] \in live
      /\ Passed(t)
    BY CallAtHand DEF ApplyFork, AtHand, Working, Passed
<1>2. f \in Tables /\ Keyed(f) /\ s \subseteq Blocks /\ \A a, b \in s : a.index = b.index => a = b
    BY <1>1, PassedRows, RowsKeyed
<1>3. s # {}
    BY <1>1, ForkHasRow DEF Working, RowsOf
<1>4. PICK low \in BOOLEAN : VerifyFork(main, rows, f, low)
    BY <1>1 DEF ChosenBy
<1>5. IsLuckierChain(main, s, f)
    BY <1>1 DEF ChosenBy
<1>6. Overlay(EmptyTable, s) = f
    BY <1>2, OverlayOwnRows
<1>7. Committed = main /\ Committed' = Overlay(main, s)
    <2>1. Pending(t) = {}
        BY <1>1 DEF Pending, Replacing
    <2>2. Pending(t)' = s /\ main' = main
        BY <1>1 DEF ApplyFork, Goto, tables, Pending, Replacing, HBTypeOK
    <2>3. QED
        BY <1>1, <2>1, <2>2, CommittedTo, OverlayNothing
<1> HIDE DEF f, s
<1>8. \A b \in s :
        /\ b.content /\ ProofCertificate(b)
        /\ \/ b.index = 1
           \/ b.prev = HashAt(main, b.index - 1) /\ \A a \in s : a.index >= b.index
           \/ \E a \in s : a.index = b.index - 1 /\ a.hash = b.prev
    BY <1>1, <1>2, <1>4, VerifiedFork DEF s
<1>9. Chain!Extends(Committed, s)
    BY <1>7, <1>8, SameTables DEF Chain!Extends
<1>10. Chain!IsLuckierChain(Committed, s, Chain!Overlay(Chain!EmptyTable, s))
    BY <1>5, <1>6, <1>7, SameTables, SameLuck
<1>11. Committed' = Chain!Overlay(Committed, s)
    BY <1>7, SameTables
<1>12. Chain!Adopt(s)
    BY <1>2, <1>3, <1>8, <1>9, <1>10, <1>11, SameTables DEF Chain!Adopt
<1>13. QED
    BY <1>2, <1>12 DEF Chain!ChainNext

\* The statements that write the fork leave the chain as it will be.
LEMMA WritesChangeNothing ==
    ASSUME OneThread, HandleInv, NEW t \in Threads, HandleBlockStep(t), ~ ApplyFork(t)
    PROVE  Committed' = Committed
<1>0. /\ HBTypeOK /\ main \in Tables /\ WrittenBy(t)
      /\ Committed = Overlay(main, Pending(t)) /\ Committed' = Overlay(main', Pending(t)')
    BY CallAtHand, CommittedTo
<1>1. Replacing(t) => \A a, b \in todo[t] : a.index = b.index => a = b
    BY <1>0, RowsKeyed DEF WrittenBy
<1> USE DEF tables, locals, Goto, Pending
<1>2. CASE CreateForkRow(t) \/ CreateForkTable(t) \/ AddToFork(t) \/ VerifyTempChain(t)
           \/ CompareLuck(t) \/ MempoolUpdate(t) \/ DeleteFork(t)
    <2>1. main' = main /\ ~ Replacing(t) /\ ~ Replacing(t)'
        BY <1>0, <1>2 DEF CreateForkRow, CreateForkTable, AddToFork, VerifyTempChain,
               CompareLuck, MempoolUpdate, DeleteFork, HBTypeOK, Replacing
    <2>2. QED
        BY <1>0, <2>1
<1>3. CASE RemoveTransactions(t) \/ FinishApply(t)
    <2>1. RemoveTransactions(t) => \A b \in todo[t] : b.txs # {}
        BY PassedRows, BlockFields DEF RemoveTransactions, Passed, Replacing
    <2>2. main' = main /\ Pending(t)' = Pending(t)
        BY <1>0, <1>3, <2>1 DEF RemoveTransactions, FinishApply, HBTypeOK, Replacing
    <2>3. QED
        BY <1>0, <2>2
<1>4. CASE ReplaceHeader(t)
    <2>1. PICK b \in todo[t] : main' = [main EXCEPT ![b.index] = b]
        BY <1>4 DEF ReplaceHeader
    <2>2. Pending(t) = todo[t] /\ Pending(t)' = todo[t]
        BY <1>0, <1>4 DEF ReplaceHeader, HBTypeOK, Replacing
    <2>3. \A i \in Index : (\E c \in todo[t] : c.index = i) \/ main'[i] = main[i]
        BY <1>0, <2>1 DEF Tables
    <2>4. Overlay(main', todo[t]) = Overlay(main, todo[t])
        BY <2>3 DEF Overlay
    <2>5. QED
        BY <1>0, <2>2, <2>4
<1>5. CASE SaveTransaction(t)
    <2>1. PICK b \in todo[t] :
            /\ IsNext(t, b)
            /\ \/ pc'[t] = "replace" /\ todo'[t] = todo[t] \ {b}
               \/ pc' = pc /\ todo' = todo
        BY <1>0, <1>5 DEF SaveTransaction, HBTypeOK
    <2>2. pc[t] = "save" /\ main' = main /\ main[b.index] = b
        BY <1>0, <1>5, <2>1 DEF SaveTransaction, WrittenBy
    <2>3. CASE pc' = pc /\ todo' = todo
        BY <1>0, <2>2, <2>3 DEF Replacing
    <2>4. CASE pc'[t] = "replace" /\ todo'[t] = todo[t] \ {b}
        <3>1. Pending(t) = todo[t] /\ Pending(t)' = todo[t] \ {b}
            BY <2>2, <2>4 DEF Replacing
        <3>2. \A c, d \in todo[t] : c.index = d.index => c = d
            BY <1>1, <2>2 DEF Replacing
        <3>3. \A c \in todo[t] : c.index \in Index
            BY <1>0, ReceivedFields DEF HBTypeOK
        <3>4. ASSUME NEW i \in Index
              PROVE  Overlay(main, todo[t])[i] = Overlay(main, todo[t] \ {b})[i]
            <4>1. CASE \E c \in todo[t] \ {b} : c.index = i
                BY <3>2, <3>3, <4>1, OverlayRow
            <4>2. CASE i = b.index
                <5>1. \A c \in todo[t] \ {b} : c.index # i
                    BY <3>2, <4>2
                <5>2. QED
                    BY <2>2, <3>2, <3>3, <4>2, <5>1, OverlayRow
            <4>3. CASE \A c \in todo[t] : c.index # i
                BY <3>2, <3>3, <4>3, OverlayRow
            <4>4. QED
                BY <4>1, <4>2, <4>3
        <3>5. Overlay(main, todo[t]) = Overlay(main, todo[t] \ {b})
            BY <3>4 DEF Overlay
        <3>6. QED
            BY <1>0, <2>2, <3>1, <3>5
    <2>5. QED
        BY <2>1, <2>3, <2>4
<1>6. QED
    BY <1>2, <1>3, <1>4, <1>5 DEF HandleBlockStep

\* Before and after a check, nobody writes; it drops the end of the chain.
LEMMA CommittedAllIdle ==
    ASSUME main \in Tables, AllIdle, NEW low \in BOOLEAN, CheckDatabase(low)
    PROVE  Committed = main /\ Committed' = main'
<1>1. {t \in Threads : Replacing(t)} = {} /\ {t \in Threads : Replacing(t)'} = {}
    BY DEF AllIdle, CheckDatabase, Replacing
<1>2. main' \in Tables /\ UNION {} = {}
    BY DEF CheckDatabase, Tables
<1>3. QED
    BY <1>1, <1>2, OverlayNothing DEF Committed

LEMMA CheckCuts ==
    ASSUME main \in Tables, NEW low \in BOOLEAN, CheckDatabase(low)
    PROVE  \/ main' = main
           \/ \E k \in Index : main' = [i \in Index |-> IF i >= k THEN NoRow ELSE main[i]]
<1>1. PICK bad \in SUBSET Index :
        main' = [i \in Index |-> IF \E j \in bad : j <= i THEN NoRow ELSE main[i]]
    BY DEF CheckDatabase, BadRows, Held
<1>2. QED
    BY <1>1, CutFromLowest

\* A call that begins or ends, and all that happens elsewhere, leaves the
\* chain as it will be.
LEMMA OthersChangeNothing ==
    ASSUME OneThread, HandleInv, NEW t \in Threads,
           (\E b \in Received : Calls(t, b)) \/ Ends(t) \/ Elsewhere
    PROVE  Committed' = Committed
<1>1. ASSUME main' = main, ~ Replacing(t), ~ Replacing(t)' PROVE Committed' = Committed
    BY <1>1, CommittedTo DEF Pending
<1>2. ASSUME NEW b \in Received, Calls(t, b) PROVE Committed' = Committed
    BY <1>1, <1>2, CallBegins DEF Replacing, tables, Calls, Missing
<1>3. CASE Ends(t)
    BY <1>1, <1>3, CallEnds DEF Replacing, tables, Ends, Return
<1>4. CASE Elsewhere
    BY <1>4 DEF Elsewhere, tables, locals, Committed, Replacing
<1>5. QED
    BY <1>2, <1>3, <1>4

LEMMA StepRefines ==
    ASSUME OneThread, ~ Crashes, HandleInv, [Next]_vars
    PROVE  Chain!ChainNext \/ Committed' = Committed
<1>0. HBTypeOK /\ main \in Tables
    BY DEF HandleInv, GapInv, TypeInv, TypeOK, MadeOnly
<1>1. CASE \E t \in Threads : HandleBlockStep(t) /\ requests' = requests
    BY <1>1, ApplyAdopts, WritesChangeNothing
<1>3. CASE \E t \in Threads : (\E b \in Received : Calls(t, b)) \/ Ends(t)
    BY <1>3, OthersChangeNothing
<1>5. CASE AllIdle /\ \E low \in BOOLEAN : CheckDatabase(low)
    <2>1. Committed = main /\ Committed' = main'
        BY <1>0, <1>5, CommittedAllIdle
    <2>2. \/ main' = main
          \/ \E k \in Index : main' = [i \in Index |-> IF i >= k THEN NoRow ELSE main[i]]
        BY <1>0, <1>5, CheckCuts
    <2>3. QED
        BY <2>1, <2>2, SameTables DEF Chain!ChainNext, Chain!Cut
<1>6. CASE Elsewhere
    BY <1>6 DEF Elsewhere, tables, locals, Committed, Replacing
<1>7. QED
    BY <1>1, <1>3, <1>5, <1>6, StepKinds

\* With one thread in handleBlock and no crash, its statements together are
\* the atomic chain: a whole valid fork, luckier than what it displaces, is
\* taken over in one step, and a check cuts the chain off.
THEOREM ImplementsLuckyChainOneThread ==
    ASSUME OneThread, ~ Crashes
    PROVE  Spec => ImplementsLuckyChain
<1>1. Init => Chain!ChainInit
    <2>1. SUFFICES ASSUME Init PROVE Committed = [EmptyTable EXCEPT ![1] = Genesis]
        BY SameTables DEF Chain!ChainInit
    <2>2. {t \in Threads : Replacing(t)} = {} /\ UNION {} = {}
        BY <2>1 DEF Init, HBInit, Replacing
    <2>3. main \in Tables /\ main = [EmptyTable EXCEPT ![1] = Genesis]
        BY <2>1, HandleInit DEF Init, HBInit, HandleInv, MadeOnly
    <2>4. QED
        BY <2>2, <2>3, OverlayNothing DEF Committed
<1>2. HandleInv /\ [Next]_vars => [Chain!ChainNext]_Committed
    BY StepRefines
<1>3. QED
    BY <1>1, <1>2, HandleCorrect, PTL DEF Spec, ImplementsLuckyChain, Chain!ChainSpec

\* A fork that reaches the chain's end keeps a linked chain linked.
LEMMA ApplyKeepsLinks ==
    ASSUME OneThread, HandleInv, NEW t \in Threads, ApplyFork(t),
           Linked(Committed), ~ Linked(Committed)'
    PROVE  /\ pc[t] = "apply" /\ pc'[t] = "replace"
           /\ \A b \in todo'[t] : b.index < LastIndex(main)
<1> DEFINE f == ForkOf(t)
           s == RowsOf(f)
<1>1. /\ HBTypeOK /\ main \in Tables /\ ChosenBy(t) /\ pc[t] = "apply" /\ fork[t] \in live
      /\ Passed(t)
    BY CallAtHand DEF ApplyFork, AtHand, Working, Passed
<1>2. f \in Tables /\ Keyed(f) /\ \A b \in s : b.index \in Held(f) /\ b.index \in Index
    BY <1>1, RowsKeyed
<1>3. pc'[t] = "replace" /\ todo'[t] = s /\ main' = main
    BY <1>1 DEF ApplyFork, Goto, tables, HBTypeOK
<1>4. Committed = main /\ Committed' = Overlay(main, s)
    BY <1>1, <1>3, CommittedTo, OverlayNothing DEF Pending, Replacing
<1>5. PICK low \in BOOLEAN : VerifyFork(main, rows, f, low)
    BY <1>1 DEF ChosenBy
<1> HIDE DEF f
<1>6. ASSUME NEW b \in s, ~ (b.index < LastIndex(main)) PROVE FALSE
    <2>1. \A i \in Held(main) : i <= b.index
        <3>1. ASSUME NEW i \in Held(main) PROVE i <= LastIndex(main)
            BY MaxIndexOf DEF LastIndex, Held
        <3>2. Held(main) \subseteq Int /\ b.index \in Int
            BY <1>2 DEF Held, Index
        <3>3. Held(main) # {} => LastIndex(main) \in Int
            BY <3>2, MaxIndexOf DEF LastIndex, Held
        <3>4. QED
            BY <1>6, <3>1, <3>2, <3>3
    <2>2. Linked(main) /\ b.index \in Held(f)
        BY <1>2, <1>4
    <2>3. Linked(Overlay(main, s))
        BY <1>1, <1>2, <1>5, <2>1, <2>2, LongForkStaysLinked
    <2>4. QED
        BY <1>4, <2>3
<1>7. QED
    BY <1>1, <1>3, <1>6

\* With one thread in handleBlock, a linked chain comes apart only by a fork
\* that is luckier but shorter, or by a crash in the middle of applyFork.
THEOREM LinkLostOneThread ==
    ASSUME OneThread
    PROVE  Spec => LinkLostOnlyToShorterFork
<1> DEFINE Reason == \/ Torn
                     \/ \E t \in Threads : /\ pc[t] = "apply" /\ pc'[t] = "replace"
                                           /\ \A b \in todo'[t] : b.index < LastIndex(main)
<1>1. ASSUME HandleInv, [Next]_vars, Linked(Committed), ~ Linked(Committed)'
      PROVE  Reason
    <2>0. main \in Tables /\ main' \in Tables
        BY <1>1, HandleNext DEF HandleInv, MadeOnly
    <2>1. CASE \E t \in Threads : HandleBlockStep(t) /\ requests' = requests
        <3>1. PICK t \in Threads : HandleBlockStep(t)
            BY <2>1
        <3>2. ApplyFork(t)
            BY <1>1, <3>1, WritesChangeNothing
        <3>3. QED
            BY <1>1, <3>2, ApplyKeepsLinks
    <2>2. CASE \E t \in Threads : (\E b \in Received : Calls(t, b)) \/ Ends(t)
        BY <1>1, <2>2, OthersChangeNothing
    <2>3. CASE AllIdle /\ \E low \in BOOLEAN : CheckDatabase(low)
        BY <1>1, <2>0, <2>3, CommittedAllIdle, CheckCuts, CutStaysLinked
    <2>4. CASE Restart
        <3>1. CASE \E t \in Threads : Replacing(t)
            BY <2>4, <3>1 DEF Restart, Torn
        <3>2. CASE ~ \E t \in Threads : Replacing(t)
            <4>1. /\ {t \in Threads : Replacing(t)} = {} /\ {t \in Threads : Replacing(t)'} = {}
                  /\ UNION {} = {}
                BY <2>4, <3>2 DEF Restart, Replacing
            <4>3. Committed = main /\ Committed' = main'
                BY <2>0, <4>1, OverlayNothing DEF Committed
            <4>4. main' = main \/ Held(main') = {1}
                <5>1. Genesis # NoRow /\ 1 \in Index
                    BY BlocksAssumption, BlockFields DEF Index
                <5>2. QED
                    BY <2>0, <2>4, <5>1 DEF Restart, Held, Tables
            <4>5. Held(main') = {1} => Linked(main')
                BY DEF Linked
            <4>6. QED
                BY <1>1, <4>3, <4>4, <4>5
        <3>3. QED
            BY <3>1, <3>2
    <2>5. CASE Elsewhere
        BY <1>1, <2>5 DEF Elsewhere, tables, locals, Committed, Replacing
    <2>6. QED
        BY <1>1, <2>1, <2>2, <2>3, <2>4, <2>5, StepKinds
<1>2. HandleInv /\ [Next]_vars => [Linked(Committed) /\ ~ Linked(Committed)' => Reason]_vars
    BY <1>1
<1>3. QED
    BY <1>2, HandleCorrect, PTL DEF Spec, LinkLostOnlyToShorterFork

-----------------------------------------------------------------------------
(* The luck of the chain that peers accept.                                *)

\* The chain as it will be is a table, now and next.
LEMMA CommittedType ==
    ASSUME OneThread, HandleInv, [Next]_vars
    PROVE  Committed \in Tables /\ Committed' \in Tables
<1>1. HandleInv'
    BY HandleNext
<1>2. ASSUME NEW t \in Threads, Replacing(t) PROVE todo[t] \subseteq Blocks
    BY <1>2, PassedRows DEF Replacing, Passed
<1>3. ASSUME NEW t \in Threads, Replacing(t)' PROVE todo'[t] \subseteq Blocks
    <2>1. todo'[t] \subseteq RowsOf(ForkOf(t))'
        BY <1>1, <1>3 DEF HandleInv, Written, WrittenBy
    <2>2. ForkOf(t)' \in Tables
        BY <1>1, <1>3 DEF HandleInv, MadeOnly, Passed, Replacing
    <2>3. RowsOf(ForkOf(t))' \subseteq Blocks
        BY <2>2 DEF RowsOf, Held, Tables
    <2>4. QED
        BY <2>1, <2>3
<1>4. main \in Tables /\ main' \in Tables
    BY <1>1 DEF HandleInv, MadeOnly
<1>5. /\ UNION {todo[t] : t \in {u \in Threads : Replacing(u)}} \in SUBSET Blocks
      /\ UNION {todo'[t] : t \in {u \in Threads : Replacing(u)'}} \in SUBSET Blocks
    BY <1>2, <1>3
<1>6. QED
    BY <1>4, <1>5, OverlayType DEF Committed

\* applyFork gives the linked part of the chain at least the luck it takes.
LEMMA ApplyKeepsLuck ==
    ASSUME OneThread, HandleInv, KeyedInv, NEW t \in Threads, ApplyFork(t)
    PROVE  LuckOf(LinkedPart(Committed)) <= LuckOf(LinkedPart(Committed'))
<1> DEFINE f == ForkOf(t)
           s == RowsOf(f)
<1>1. /\ HBTypeOK /\ main \in Tables /\ ChosenBy(t) /\ pc[t] = "apply" /\ fork[t] \in live
      /\ Passed(t)
    BY CallAtHand DEF ApplyFork, AtHand, Working, Passed
<1>2. f \in Tables /\ Keyed(f) /\ Keyed(main)
    BY <1>1, RowsKeyed DEF KeyedInv, MainKeyed
<1>3. Held(f) # {}
    BY <1>1, ForkHasRow DEF Working
<1>4. Committed = main /\ Committed' = Overlay(main, s)
    <2>1. Pending(t) = {}
        BY <1>1 DEF Pending, Replacing
    <2>2. Pending(t)' = s /\ main' = main
        BY <1>1 DEF ApplyFork, Goto, tables, Pending, Replacing, HBTypeOK
    <2>3. QED
        BY <1>1, <2>1, <2>2, CommittedTo, OverlayNothing
<1>5. PICK low \in BOOLEAN : VerifyFork(main, rows, f, low)
    BY <1>1 DEF ChosenBy
<1>6. IsLuckierChain(main, s, f)
    BY <1>1 DEF ChosenBy
<1> HIDE DEF f
<1>7. LuckOf(LinkedPart(main)) <= LuckOf(LinkedPart(Overlay(main, s)))
    BY <1>1, <1>2, <1>3, <1>5, <1>6, LuckierForkKeepsLuck
<1>8. QED
    BY <1>4, <1>7

\* With one thread in handleBlock, the luck of the chain that peers would
\* accept never falls, but by a crash in the middle of applyFork or a check
\* that finds a bad row.
THEOREM LinkedLuckOneThread ==
    ASSUME OneThread
    PROVE  Spec => LinkedLuckNeverFalls
<1>1. ASSUME HandleInv, KeyedInv, [Next]_vars, ~ Torn, ~ Cleaned
      PROVE  LuckOf(LinkedPart(Committed)) <= LuckOf(LinkedPart(Committed'))
    <2>0. /\ main \in Tables /\ main' \in Tables
          /\ Committed \in Tables /\ Committed' \in Tables
        BY <1>1, HandleNext, CommittedType DEF HandleInv, MadeOnly
    <2>1. LuckOf(LinkedPart(Committed)) \in Nat /\ LuckOf(LinkedPart(Committed')) \in Nat
        BY <2>0, LinkedLuckType
    <2>2. ASSUME Committed' = Committed
          PROVE  LuckOf(LinkedPart(Committed)) <= LuckOf(LinkedPart(Committed'))
        BY <2>1, <2>2
    <2>3. CASE \E t \in Threads : HandleBlockStep(t) /\ requests' = requests
        <3>1. PICK t \in Threads : HandleBlockStep(t)
            BY <2>3
        <3>2. CASE ApplyFork(t)
            BY <1>1, <3>2, ApplyKeepsLuck
        <3>3. CASE ~ ApplyFork(t)
            BY <1>1, <2>2, <3>1, <3>3, WritesChangeNothing
        <3>4. QED
            BY <3>2, <3>3
    <2>4. CASE \E t \in Threads : (\E b \in Received : Calls(t, b)) \/ Ends(t)
        BY <1>1, <2>2, <2>4, OthersChangeNothing
    <2>5. CASE AllIdle /\ \E low \in BOOLEAN : CheckDatabase(low)
        <3>1. Committed = main /\ Committed' = main'
            BY <2>0, <2>5, CommittedAllIdle
        <3>2. \/ main' = main
              \/ \E k \in Index : main' = [i \in Index |-> IF i >= k THEN NoRow ELSE main[i]]
            BY <2>0, <2>5, CheckCuts
        <3>3. main' = main
            BY <1>1, <2>0, <3>2 DEF Cleaned, Held, Tables
        <3>4. QED
            BY <2>2, <3>1, <3>3
    <2>6. CASE Restart
        <3>1. /\ {t \in Threads : Replacing(t)} = {} /\ {t \in Threads : Replacing(t)'} = {}
              /\ UNION {} = {}
            BY <1>1, <2>6 DEF Restart, Replacing, Torn
        <3>2. Committed = main /\ Committed' = main'
            BY <2>0, <3>1, OverlayNothing DEF Committed
        <3>3. CASE Held(main) = {}
            <4>1. LinkedPart(main) = {}
                BY <3>3 DEF LinkedPart
            <4>2. LuckOf(LinkedPart(Committed)) = 0
                BY <3>2, <4>1, LuckEmpty
            <4>3. QED
                BY <2>1, <4>2
        <3>4. CASE Held(main) # {}
            BY <2>2, <2>6, <3>2, <3>4 DEF Restart
        <3>5. QED
            BY <3>3, <3>4
    <2>7. CASE Elsewhere
        BY <2>2, <2>7 DEF Elsewhere, tables, locals, Committed, Replacing
    <2>8. QED
        BY <1>1, <2>3, <2>4, <2>5, <2>6, <2>7, StepKinds
<1>2. HandleInv /\ KeyedInv /\ [Next]_vars =>
        [~ Torn /\ ~ Cleaned => LuckOf(LinkedPart(Committed)) <= LuckOf(LinkedPart(Committed))']_vars
    BY <1>1
<1>3. QED
    BY <1>2, HandleCorrect, KeyedCorrect, PTL DEF Spec, LinkedLuckNeverFalls
=============================================================================
