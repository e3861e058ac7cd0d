---------------------------- MODULE WindowProofs ----------------------------
(***************************************************************************)
(* The two threads that the window starts and stops: the miner             *)
(* (MinerThread) and the test mode (TestMode).  They share no variable.    *)
(***************************************************************************)
EXTENDS MinerThread, TestMode, TLAPS

-----------------------------------------------------------------------------
(***************************************************************************)
(* One miner at most, for any number of clicks and commands.               *)
(*                                                                         *)
(* OneMiner is not inductive by itself: a thread may be launched only      *)
(* where threadStopped is known to mean that the last one has left its     *)
(* loop (FlagIsTrue), and still means it when join() has returned          *)
(* (JoinAfterStop).                                                        *)
(***************************************************************************)

\* threadStopped is set exactly while no thread is in the loop or has yet to
\* say that it left it.
FlagIsTrue == threadStopped <=> miner \notin {"loop", "left"}

\* The event loop joins only what has stopped.
JoinAfterStop == main # "idle" => threadStopped /\ miner # "none"

MinerInv == TypeOK /\ OneMiner /\ FlagIsTrue /\ JoinAfterStop

\* It holds when the program starts.
LEMMA MinerStart == MinerThreadInit => MinerInv
<1> SUFFICES ASSUME MinerThreadInit
             PROVE  MinerInv
  OBVIOUS
<1>1. TypeOK
  <2>1. threadRun \in BOOLEAN /\ threadStopped \in BOOLEAN
    BY Zenon DEF MinerThreadInit
  <2>2. /\ miner = "none" /\ looping \in Nat /\ main = "idle" /\ signals \in Nat
        /\ commands \in 0 .. MaxCommands
    BY MinerThreadAssumption DEF MinerThreadInit
  <2>3. button \in [text : {Start, Stop, Cleaning}, enabled : BOOLEAN]
    BY DEF MinerThreadInit
  <2>4. QED
    BY <2>1, <2>2, <2>3 DEF TypeOK
<1>2. OneMiner
  BY DEF MinerThreadInit, OneMiner
<1>3. FlagIsTrue /\ JoinAfterStop
  BY Zenon DEF MinerThreadInit, FlagIsTrue, JoinAfterStop
<1>4. QED
  BY <1>1, <1>2, <1>3 DEF MinerInv

\* A new thread is launched while none is in the loop.
LEMMA LaunchKeeps ==
  ASSUME MinerInv, NEW who \in {"click", "console"}, Launch(who), miner \notin {"loop", "left"},
         UNCHANGED signals, commands' \in 0 .. MaxCommands
  PROVE  MinerInv'
<1>1. TypeOK'
  <2>1. threadRun' \in BOOLEAN /\ threadStopped' \in BOOLEAN
    BY Zenon DEF Launch
  <2>2. /\ miner' = "loop" /\ looping' \in Nat /\ main' = "idle" /\ signals' \in Nat
    BY DEF MinerInv, TypeOK, Launch
  <2>3. button' \in [text : {Start, Stop, Cleaning}, enabled : BOOLEAN]
    <3>1. button \in [text : {Start, Stop, Cleaning}, enabled : BOOLEAN] /\ Return(who)
      BY DEF MinerInv, TypeOK, Launch
    <3>2. QED
      BY <3>1 DEF Return
  <2>4. QED
    BY <2>1, <2>2, <2>3 DEF TypeOK
<1>2. OneMiner'
  BY DEF MinerInv, TypeOK, OneMiner, Launch
<1>3. FlagIsTrue' /\ JoinAfterStop'
  BY Zenon DEF Launch, FlagIsTrue, JoinAfterStop
<1>4. QED
  BY <1>1, <1>2, <1>3 DEF MinerInv

\* startMiningThread launches, joins or leaves things alone.
LEMMA StartKeeps ==
  ASSUME MinerInv, NEW who \in {"click", "console"}, StartMiningThread(who),
         UNCHANGED signals, commands' \in 0 .. MaxCommands
  PROVE  MinerInv'
<1>1. CASE threadStopped /\ miner = "none" /\ Launch(who)
  BY <1>1, LaunchKeeps
<1>2. CASE /\ threadStopped /\ miner # "none"
           /\ main' = who
           /\ UNCHANGED <<threadRun, threadStopped, miner, looping, button>>
  BY <1>2 DEF MinerInv, TypeOK, OneMiner, FlagIsTrue, JoinAfterStop
<1>3. CASE /\ ~ threadStopped
           /\ Return(who)
           /\ UNCHANGED <<threadRun, threadStopped, miner, looping, main>>
  BY <1>3 DEF MinerInv, TypeOK, OneMiner, FlagIsTrue, JoinAfterStop, Return, Start, Stop, Cleaning
<1>4. QED
  BY <1>1, <1>2, <1>3 DEF StartMiningThread

\* stopMiningThread only tells the thread.
LEMMA StopKeeps ==
  ASSUME MinerInv, NEW text \in {Start, Stop, Cleaning}, StopMiningThread(text),
         UNCHANGED signals, commands' \in 0 .. MaxCommands
  PROVE  MinerInv'
  BY DEF MinerInv, TypeOK, OneMiner, FlagIsTrue, JoinAfterStop, StopMiningThread

\* Every step keeps the invariant.
LEMMA MinerStep == MinerInv /\ [MinerThreadNext]_minerThreadVars => MinerInv'
<1> SUFFICES ASSUME MinerInv, [MinerThreadNext]_minerThreadVars
             PROVE  MinerInv'
  OBVIOUS
<1>t. commands \in 0 .. MaxCommands /\ button.text \in {Start, Stop, Cleaning}
      /\ main \in {"idle", "click", "console"}
  BY DEF MinerInv, TypeOK
<1>1. CASE Click
  <2>1. commands' \in 0 .. MaxCommands /\ UNCHANGED signals
    BY <1>1, <1>t DEF Click
  <2>2. CASE StartMiningThread("click")
    BY <2>1, <2>2, StartKeeps
  <2>3. CASE StopMiningThread(Cleaning)
    BY <2>1, <2>3, StopKeeps
  <2>4. QED
    BY <1>1, <2>2, <2>3 DEF Click
<1>2. CASE Command
  <2>1. commands' \in 0 .. MaxCommands /\ UNCHANGED signals
    BY <1>2, <1>t, MinerThreadAssumption DEF Command
  <2>2. CASE StartMiningThread("console")
    BY <2>1, <2>2, StartKeeps
  <2>3. CASE StopMiningThread(button.text)
    BY <2>1, <2>3, <1>t, StopKeeps
  <2>4. QED
    BY <1>2, <2>2, <2>3 DEF Command
<1>3. CASE Join
  <2>1. main \in {"click", "console"} /\ miner \notin {"loop", "left"} /\ Launch(main)
    BY <1>3, <1>t DEF Join
  <2>2. commands' \in 0 .. MaxCommands /\ UNCHANGED signals
    BY <1>3, <1>t DEF Join
  <2>3. QED
    BY <2>1, <2>2, LaunchKeeps
<1>4. CASE EnableMineButton
  <2>1. TypeOK' /\ OneMiner'
    BY <1>4 DEF MinerInv, TypeOK, OneMiner, EnableMineButton
  <2>2. FlagIsTrue' /\ JoinAfterStop'
    BY <1>4, Zenon DEF MinerInv, FlagIsTrue, JoinAfterStop, EnableMineButton
  <2>3. QED
    BY <2>1, <2>2 DEF MinerInv
<1>5. CASE LeaveLoop
  <2>1. TypeOK' /\ OneMiner'
    BY <1>5 DEF MinerInv, TypeOK, OneMiner, LeaveLoop
  <2>2. FlagIsTrue' /\ JoinAfterStop'
    BY <1>5 DEF MinerInv, FlagIsTrue, JoinAfterStop, LeaveLoop
  <2>3. QED
    BY <2>1, <2>2 DEF MinerInv
<1>6. CASE SetThreadStopped
  <2>1. TypeOK' /\ OneMiner'
    BY <1>6 DEF MinerInv, TypeOK, OneMiner, SetThreadStopped
  <2>2. FlagIsTrue' /\ JoinAfterStop'
    BY <1>6, Zenon DEF MinerInv, FlagIsTrue, JoinAfterStop, SetThreadStopped
  <2>3. QED
    BY <2>1, <2>2 DEF MinerInv
<1>7. CASE EmitStartMining
  BY <1>7 DEF MinerInv, TypeOK, OneMiner, FlagIsTrue, JoinAfterStop, EmitStartMining
<1>8. CASE UNCHANGED minerThreadVars
  BY <1>8 DEF MinerInv, TypeOK, OneMiner, FlagIsTrue, JoinAfterStop, minerThreadVars
<1>9. QED
  BY <1>1, <1>2, <1>3, <1>4, <1>5, <1>6, <1>7, <1>8 DEF MinerThreadNext, Leaving

\* MinerInv holds in every state.
LEMMA MinerCorrect == MinerThreadSpec => []MinerInv
<1>1. QED
  BY MinerStart, MinerStep, PTL DEF MinerThreadSpec

\* At most one thread mines, however many clicks and commands there are
\* (startMiningThread, stopMiningThread and the end of handleBlockCommand).
THEOREM OneMinerAlways == MinerThreadSpec => []OneMiner
<1>1. MinerInv => OneMiner
  BY DEF MinerInv
<1>2. QED
  BY <1>1, MinerCorrect, PTL

\* Where the window waits in join(), the thread has left its loop: the one
\* that runs is never joined in the middle of a round.
THEOREM JoinIsShortAlways == MinerThreadSpec => []JoinIsShort
<1>1. MinerInv => JoinIsShort
  BY DEF MinerInv, FlagIsTrue, JoinAfterStop, JoinIsShort
<1>2. QED
  BY <1>1, MinerCorrect, PTL

-----------------------------------------------------------------------------
(***************************************************************************)
(* The test mode pays what it has, for any funds, payments and commands.   *)
(*                                                                         *)
(* PaysWhatItHas is about one place of startTest.  Everywhere else but     *)
(* between its two looks the same holds; between them the mempool has yet  *)
(* to be subtracted (Covered).  That a thread is launched only after the   *)
(* last one has left (Over) keeps "begin" from following on "pool".        *)
(***************************************************************************)

CoinsOK ==
    /\ balance \in Int /\ stored \in Int /\ received \in Int
    /\ pool \in Nat /\ moving \in Nat /\ back \in Nat

\* A thread that has said that it stopped has left its loop.
Over == transactionThreadStopped => transaction \in {"none", "stopped", "done"}

\* What the thread thinks it has left is left.
Covered ==
    looked => IF transaction = "pool" THEN moving + stored - back + balance <= received
              ELSE pool + moving + stored - back + balance <= received

TestInv == CoinsOK /\ Over /\ Covered

\* It holds when the program starts: nobody has looked yet.
LEMMA TestInit == Init => TestInv
<1> SUFFICES ASSUME Init
             PROVE  TestInv
  OBVIOUS
<1>1. CoinsOK
  BY TestModeAssumption DEF Init, CoinsOK
<1>2. Over
  BY Zenon DEF Init, Over
<1>3. Covered
  BY Zenon DEF Init, Covered
<1>4. QED
  BY <1>1, <1>2, <1>3 DEF TestInv

\* The event loop touches no coin, and starts no thread at its looks.
LEMMA EventLoopKeeps ==
  ASSUME TestInv, JoinTest \/ Tick \/ TestCommand \/ EnableCheckBox
  PROVE  TestInv'
<1>1. UNCHANGED <<balance, coins, looked>>
  BY Zenon DEF JoinTest, Tick, TestCommand, EnableCheckBox
<1>2. \/ transaction' = "begin" /\ transactionThreadStopped' = FALSE
         /\ (transactionThreadStopped \/ transaction = "done")
      \/ UNCHANGED <<transaction, transactionThreadStopped>>
  BY Zenon DEF JoinTest, Tick, TestCommand, EnableCheckBox, StartTransactionThread,
               StopTransactionThread, LaunchTest, flags
<1>3. CoinsOK'
  BY <1>1 DEF TestInv, CoinsOK, coins
<1>4. Over'
  BY <1>2, Zenon DEF TestInv, Over
<1>5. transaction' = "pool" <=> transaction = "pool"
  BY <1>2 DEF TestInv, Over
<1>6. Covered'
  BY <1>1, <1>5 DEF TestInv, Covered, coins
<1>7. QED
  BY <1>3, <1>4, <1>6 DEF TestInv

\* A look that finds nothing on its way counts everything.
LEMMA LookKeeps ==
  ASSUME TestInv, Begin \/ ReadChain \/ ReadPool
  PROVE  TestInv'
<1>1. CASE Begin
  <2>1. UNCHANGED transactionThreadStopped /\ transaction = "begin" /\ transaction' = "head"
    BY <1>1, Zenon DEF Begin, At, Goto, flags
  <2>2. looked' => pool = 0 /\ moving = 0
    BY <1>1, Zenon DEF Begin
  <2>3. balance' = received - stored /\ UNCHANGED <<received, pool, stored, moving, back>>
    BY <1>1 DEF Begin
  <2>4. CoinsOK'
    BY <2>3 DEF TestInv, CoinsOK
  <2>5. Covered'
    BY <2>1, <2>2, <2>3 DEF TestInv, CoinsOK, Covered
  <2>6. QED
    BY <2>1, <2>4, <2>5 DEF TestInv, Over
<1>2. CASE ReadChain
  <2>1. UNCHANGED <<transactionThreadStopped, coins>> /\ transaction = "head"
    BY <1>2, Zenon DEF ReadChain, At, Goto, flags
  <2>2. CASE newBlock
    <3>1. transaction' = "pool" /\ balance' = received - stored
      BY <1>2, <2>2 DEF ReadChain, Goto
    <3>2. looked' => moving = 0
      BY <1>2, <2>2, Zenon DEF ReadChain
    <3>3. Covered'
      BY <2>1, <3>1, <3>2 DEF TestInv, CoinsOK, Covered, coins
    <3>4. QED
      BY <2>1, <3>1, <3>3 DEF TestInv, CoinsOK, Over, coins
  <2>3. CASE ~ newBlock
    <3>1. transaction' = "pay" /\ UNCHANGED <<balance, looked>>
      BY <1>2, <2>3 DEF ReadChain, Goto
    <3>2. Covered'
      BY <2>1, <3>1 DEF TestInv, CoinsOK, Covered, coins
    <3>3. QED
      BY <2>1, <3>1, <3>2 DEF TestInv, CoinsOK, Over, coins
  <2>4. QED
    BY <2>2, <2>3
<1>3. CASE ReadPool
  <2>1. /\ UNCHANGED <<transactionThreadStopped, coins, looked>>
        /\ transaction = "pool" /\ transaction' = "pay" /\ balance' = balance - pool
    BY <1>3 DEF ReadPool, At, Goto, flags
  <2>2. Covered'
    BY <2>1 DEF TestInv, CoinsOK, Covered, coins
  <2>3. QED
    BY <2>1, <2>2 DEF TestInv, CoinsOK, Over, coins
<1>4. QED
  BY <1>1, <1>2, <1>3

\* A payment takes from the balance what it adds to the mempool.
LEMMA PayKeeps ==
  ASSUME TestInv, Pay
  PROVE  TestInv'
<1>1. /\ UNCHANGED <<transactionThreadStopped, received, stored, moving, back, looked>>
      /\ transaction = "pay" /\ transaction' = "sleep"
  BY DEF Pay, At, Goto, flags
<1>2. PICK v \in Nat : balance' = balance - v /\ pool' = pool + v
  <2>1. CASE UNCHANGED <<balance, pool>>
    <3>1. balance' = balance - 0 /\ pool' = pool + 0
      BY <2>1 DEF TestInv, CoinsOK
    <3>2. QED
      BY <3>1
  <2>2. CASE \E sendVal \in 1 .. balance : balance' = balance - sendVal /\ pool' = pool + sendVal
    BY <2>2 DEF TestInv, CoinsOK
  <2>3. QED
    BY <2>1, <2>2, Zenon DEF Pay
<1>3. CoinsOK'
  BY <1>1, <1>2 DEF TestInv, CoinsOK
<1>4. Covered'
  BY <1>1, <1>2 DEF TestInv, CoinsOK, Covered
<1>5. QED
  BY <1>1, <1>3, <1>4 DEF TestInv, Over

\* The rest of startTest only moves on.
LEMMA LeaveKeeps ==
  ASSUME TestInv, Wake \/ LeaveTest \/ SetTestStopped \/ EmitStartTransaction
  PROVE  TestInv'
<1>1. UNCHANGED <<balance, coins, looked>>
  BY Zenon DEF Wake, LeaveTest, SetTestStopped, EmitStartTransaction
<1>2. /\ transaction # "pool" /\ transaction' # "pool"
      /\ \/ transaction' \in {"stopped", "done"}
         \/ transaction \in {"sleep", "head"} /\ UNCHANGED transactionThreadStopped
  BY DEF Wake, LeaveTest, SetTestStopped, EmitStartTransaction, At, Goto, flags
<1>3. CoinsOK'
  BY <1>1 DEF TestInv, CoinsOK, coins
<1>4. Covered'
  BY <1>1, <1>2 DEF TestInv, Covered, coins
<1>5. Over'
  BY <1>2 DEF TestInv, Over
<1>6. QED
  BY <1>3, <1>4, <1>5 DEF TestInv

\* What the others do to the coins either keeps the sum or spoils the look.
LEMMA OthersKeep ==
  ASSUME TestInv, UserPays \/ HandleBlock
  PROVE  TestInv'
<1>1. UNCHANGED <<transaction, transactionThreadStopped, balance>>
  BY Zenon DEF UserPays, HandleBlock, DeleteFromMempool, StoreBlock, PutBack, Displace, flags
<1>2. CASE UserPays
  <2>1. PICK v \in 1 .. Funds : pool' = pool + v
    BY <1>2 DEF UserPays
  <2>2. UNCHANGED <<received, stored, moving, back>> /\ ~ looked'
    BY <1>2, Zenon DEF UserPays
  <2>3. CoinsOK'
    BY <1>1, <2>1, <2>2, TestModeAssumption DEF TestInv, CoinsOK
  <2>4. QED
    BY <1>1, <2>2, <2>3 DEF TestInv, Over, Covered
<1>3. CASE DeleteFromMempool
  <2>1. PICK v \in 1 .. pool : moving' = v /\ pool' = pool - v
    BY <1>3 DEF DeleteFromMempool
  <2>2. UNCHANGED <<received, stored, back>> /\ moving = 0
    BY <1>3 DEF DeleteFromMempool
  <2>3. looked' => looked /\ transaction # "pool"
    BY <1>3, Zenon DEF DeleteFromMempool, Disturbed, At
  <2>4. CoinsOK'
    BY <1>1, <2>1, <2>2 DEF TestInv, CoinsOK
  <2>5. Covered'
    BY <1>1, <2>1, <2>2, <2>3 DEF TestInv, CoinsOK, Covered
  <2>6. QED
    BY <1>1, <2>4, <2>5 DEF TestInv, Over
<1>4. CASE StoreBlock
  <2>1. /\ UNCHANGED <<pool, back>> /\ stored' = stored + moving /\ moving' = 0
        /\ received' \in received .. Funds
    BY <1>4 DEF StoreBlock
  <2>2. looked' => looked /\ transaction # "pool"
    BY <1>4, Zenon DEF StoreBlock, Disturbed, At
  <2>3. CoinsOK' /\ received' >= received
    BY <1>1, <2>1, TestModeAssumption DEF TestInv, CoinsOK
  <2>4. Covered'
    BY <1>1, <2>1, <2>2, <2>3 DEF TestInv, CoinsOK, Covered
  <2>5. QED
    BY <1>1, <2>3, <2>4 DEF TestInv, Over
<1>5. CASE PutBack
  <2>1. PICK v \in 1 .. stored : back' = v /\ pool' = pool + v
    BY <1>5 DEF PutBack
  <2>2. UNCHANGED <<received, stored, moving, looked>> /\ back = 0
    BY <1>5 DEF PutBack
  <2>3. CoinsOK'
    BY <1>1, <2>1, <2>2 DEF TestInv, CoinsOK
  <2>4. Covered'
    BY <1>1, <2>1, <2>2 DEF TestInv, CoinsOK, Covered
  <2>5. QED
    BY <1>1, <2>3, <2>4 DEF TestInv, Over
<1>6. CASE Displace
  <2>1. /\ UNCHANGED <<pool, moving>> /\ stored' = stored - back /\ back' = 0
        /\ received' \in 0 .. Funds
    BY <1>6 DEF Displace
  <2>2. looked' => looked /\ received' >= received
    BY <1>6, Zenon DEF Displace
  <2>3. CoinsOK'
    BY <1>1, <2>1, TestModeAssumption DEF TestInv, CoinsOK
  <2>4. Covered'
    BY <1>1, <2>1, <2>2, <2>3 DEF TestInv, CoinsOK, Covered
  <2>5. QED
    BY <1>1, <2>3, <2>4 DEF TestInv, Over
<1>7. QED
  BY <1>2, <1>3, <1>4, <1>5, <1>6 DEF HandleBlock

LEMMA TestStep == TestInv /\ [Next]_vars => TestInv'
<1> SUFFICES ASSUME TestInv, [Next]_vars
             PROVE  TestInv'
  OBVIOUS
<1>1. CASE UNCHANGED vars
  <2>1. /\ UNCHANGED <<transaction, transactionThreadStopped, balance, looked>>
        /\ UNCHANGED <<received, pool, stored, moving, back>>
    BY <1>1 DEF vars, flags, coins
  <2>2. CoinsOK'
    BY <2>1 DEF TestInv, CoinsOK
  <2>3. Over'
    BY <2>1 DEF TestInv, Over
  <2>4. Covered'
    BY <2>1 DEF TestInv, Covered
  <2>5. QED
    BY <2>2, <2>3, <2>4 DEF TestInv
<1>2. CASE Next
  BY <1>2, EventLoopKeeps, LookKeeps, PayKeeps, LeaveKeeps, OthersKeep, Zenon DEF Next, StartTest
<1>3. QED
  BY <1>1, <1>2

\* However payments move between the mempool and the chain while the thread
\* looks, and however it is stopped and started, it pays only what is left.
THEOREM PaysWhatItHasAlways == Spec => []PaysWhatItHas
<1>1. TestInv => PaysWhatItHas
  BY DEF TestInv, Covered, PaysWhatItHas, At, Outstanding, CoinsOK
<1>2. QED
  BY TestInit, TestStep, <1>1, PTL DEF Spec
=============================================================================
