------------------------------ MODULE TestMode ------------------------------
(***************************************************************************)
(* The thread of the test mode: it pays random amounts to random nodes     *)
(* (startTest in src/Network/client.cpp), and the event loop starts and    *)
(* stops it by a check box and the console, like the miner (MinerThread).  *)
(* It reads the chain and the mempool one after the other, and keeps what  *)
(* it finds while other threads store its payments in blocks or take them  *)
(* out again.                                                              *)
(***************************************************************************)
EXTENDS Integers

CONSTANTS
    Funds,           \* bound: coins this node receives
    MaxPayments,     \* bound: payments of the user
    MaxSignals,      \* bound: signals that wait while the user clicks
    MaxTestCommands  \* bound: commands for the test mode

ASSUME TestModeAssumption ==
    /\ Funds \in Nat
    /\ MaxPayments \in Nat
    /\ MaxSignals \in Nat
    /\ MaxTestCommands \in Nat

VARIABLES
    transactionThreadRun,     \* told to run
    transactionThreadStopped, \* has said that it stopped
    transaction,  \* where the thread is that "transaction" points to
    joining,      \* the event loop is in its join()
    checkBox,     \* whether it is checked, and enabled
    testSignals,  \* startTransactionSignals that wait for the event loop
    testCommands, \* commands typed so far
    balance,      \* the thread's own idea of it
    newBlock,     \* the chain is longer than when the thread began
    received,     \* coins received in the chain
    pool,         \* coins spent in the mempool
    stored,       \* coins spent in the chain
    moving,       \* taken out of the mempool, not in the chain yet
    back,         \* put back into the mempool, still in the chain
    payments,     \* payments of the user so far
    looked        \* history: nobody disturbed the thread's last look

flags == <<transactionThreadRun, transactionThreadStopped, joining>>
window == <<checkBox, testSignals, testCommands>>
coins == <<newBlock, received, pool, stored, moving, back, payments>>
vars == <<flags, transaction, window, balance, coins, looked>>

Init ==
    /\ transactionThreadRun \in BOOLEAN \* not initialised
    /\ transactionThreadStopped = TRUE
    /\ transaction = "none" /\ joining = FALSE
    /\ checkBox = [checked |-> FALSE, enabled |-> TRUE]
    /\ testSignals = 0 /\ testCommands = 0
    /\ balance = 0 /\ newBlock = FALSE /\ received \in 0 .. Funds
    /\ pool = 0 /\ stored = 0 /\ moving = 0 /\ back = 0 /\ payments = 0
    /\ looked = FALSE

\* What this node's payments in the chain and in the mempool come to.
Outstanding == pool + moving + stored - back

EventLoopFree == ~ joining

-----------------------------------------------------------------------------
(* The event loop.                                                         *)

LaunchTest ==
    /\ transactionThreadRun' = TRUE /\ transactionThreadStopped' = FALSE
    /\ transaction' = "begin"
    /\ joining' = FALSE

\* startTransactionThread joins the last thread before it starts another.
StartTransactionThread(box) ==
    /\ checkBox' = box
    /\ \/ /\ transactionThreadStopped /\ transaction = "none"
          /\ LaunchTest
       \/ /\ transactionThreadStopped /\ transaction # "none"
          /\ joining' = TRUE
          /\ UNCHANGED <<transactionThreadRun, transactionThreadStopped, transaction>>
       \/ /\ ~ transactionThreadStopped
          /\ UNCHANGED <<flags, transaction>>

\* join() returns; the signal enables the box at once.
JoinTest ==
    /\ joining /\ transaction = "done"
    /\ LaunchTest
    /\ checkBox' = [checkBox EXCEPT !.enabled = TRUE]
    /\ UNCHANGED <<testSignals, testCommands, balance, coins, looked>>

\* stopTransactionThread; its signal disables the box at once.
StopTransactionThread(box) ==
    /\ transactionThreadRun' = FALSE
    /\ checkBox' = [box EXCEPT !.enabled = FALSE]
    /\ UNCHANGED <<transactionThreadStopped, joining, transaction>>

\* on_checkBox_stateChanged.
Tick ==
    /\ EventLoopFree /\ checkBox.enabled /\ testSignals <= MaxSignals
    /\ \E box \in {[checkBox EXCEPT !.checked = ~ @]} :
           IF box.checked THEN StartTransactionThread(box) ELSE StopTransactionThread(box)
    /\ UNCHANGED <<testSignals, testCommands, balance, coins, looked>>

\* OnKeyPressed: "start Test" and "stop Test".
TestCommand ==
    /\ EventLoopFree /\ testCommands < MaxTestCommands
    /\ testCommands' = testCommands + 1
    /\ StartTransactionThread(checkBox) \/ StopTransactionThread(checkBox)
    /\ UNCHANGED <<testSignals, balance, coins, looked>>

\* startTransactionSignal reaches enableCheckBox.
EnableCheckBox ==
    /\ EventLoopFree /\ testSignals > 0
    /\ testSignals' = testSignals - 1
    /\ checkBox' = [checkBox EXCEPT !.enabled = TRUE]
    /\ UNCHANGED <<flags, transaction, testCommands, balance, coins, looked>>

-----------------------------------------------------------------------------
(* startTest.                                                              *)

At(place) == transaction = place
Goto(place) == transaction' = place /\ UNCHANGED <<flags, window>>

\* The latest index and the balance; the mempool is not looked at.
Begin ==
    /\ At("begin") /\ Goto("head")
    /\ newBlock' = FALSE
    /\ balance' = received - stored
    /\ looked' = (pool = 0 /\ moving = 0)
    /\ UNCHANGED <<received, pool, stored, moving, back, payments>>

\* Once there is a newer block, each round looks again.  currentBlock stays.
ReadChain ==
    /\ At("head") /\ transactionThreadRun
    /\ IF newBlock
       THEN Goto("pool") /\ balance' = received - stored /\ looked' = (moving = 0)
       ELSE Goto("pay") /\ UNCHANGED <<balance, looked>>
    /\ UNCHANGED coins

\* Mutant of ReadPool: the mempool is not subtracted.
ReadPoolNot == At("pool") /\ Goto("pay") /\ UNCHANGED <<balance, looked, coins>>

\* getMySendTransactionValueFromMempool, the right operand.
ReadPool ==
    /\ At("pool") /\ Goto("pay")
    /\ balance' = balance - pool
    /\ UNCHANGED <<coins, looked>>

\* A random part of the balance goes to one of the keys, if there is one.
\* Bound: more than twice the funds are not spent.
Pay ==
    /\ At("pay") /\ Goto("sleep")
    /\ \/ \E sendVal \in 1 .. balance :
              /\ Outstanding + sendVal <= 2 * Funds
              /\ balance' = balance - sendVal /\ pool' = pool + sendVal
       \/ UNCHANGED <<balance, pool>>
    /\ UNCHANGED <<newBlock, received, stored, moving, back, payments, looked>>

Wake == At("sleep") /\ Goto("head") /\ UNCHANGED <<balance, coins, looked>>

\* The end of the loop and of the thread.
LeaveTest ==
    /\ At("head") /\ ~ transactionThreadRun
    /\ Goto("left") /\ UNCHANGED <<balance, coins, looked>>

SetTestStopped ==
    /\ At("left") /\ transaction' = "stopped"
    /\ transactionThreadStopped' = TRUE
    /\ UNCHANGED <<transactionThreadRun, joining, window, balance, coins, looked>>

EmitStartTransaction ==
    /\ At("stopped") /\ transaction' = "done"
    /\ testSignals' = testSignals + 1
    /\ UNCHANGED <<flags, checkBox, testCommands, balance, coins, looked>>

StartTest ==
    Begin \/ ReadChain \/ ReadPool \/ Pay \/ Wake \/ LeaveTest \/ SetTestStopped \/ EmitStartTransaction

-----------------------------------------------------------------------------
(* The other threads; one handleBlock at a time.                            *)

\* A payment the user enters; the console asks for no balance.  Bound: as Pay.
UserPays ==
    /\ EventLoopFree /\ payments < MaxPayments
    /\ payments' = payments + 1
    /\ \E v \in 1 .. Funds : Outstanding + v <= 2 * Funds /\ pool' = pool + v
    /\ looked' = FALSE
    /\ UNCHANGED <<flags, transaction, window, balance, newBlock, received, stored, moving, back>>

\* The two looks of a round are one: what happens between them disturbs it.
Disturbed == IF At("pool") THEN FALSE ELSE looked

\* The chain gets longer or shorter than it was when the thread began.
NewLength == newBlock' \in BOOLEAN

\* handleBlock of a block with payments of this node: mempoolUpdate deletes
\* them from the mempool, applyFork stores them, and what it earns.
DeleteFromMempool ==
    /\ moving = 0 /\ back = 0
    /\ \E v \in 1 .. pool : moving' = v /\ pool' = pool - v
    /\ looked' = Disturbed
    /\ UNCHANGED <<flags, transaction, window, balance, newBlock, received, stored, back, payments>>

StoreBlock ==
    /\ moving > 0
    /\ stored' = stored + moving /\ moving' = 0
    /\ received' \in received .. Funds /\ NewLength
    /\ looked' = Disturbed
    /\ UNCHANGED <<flags, transaction, window, balance, pool, back, payments>>

\* handleBlock of a fork without them: the other way round.
PutBack ==
    /\ moving = 0 /\ back = 0
    /\ \E v \in 1 .. stored : back' = v /\ pool' = pool + v
    /\ UNCHANGED <<flags, transaction, window, balance, newBlock, received, stored, moving, payments, looked>>

Displace ==
    /\ back > 0
    /\ stored' = stored - back /\ back' = 0
    /\ received' \in 0 .. Funds /\ NewLength
    /\ looked' = (looked /\ received' >= received)
    /\ UNCHANGED <<flags, transaction, window, balance, pool, moving, payments>>

HandleBlock == DeleteFromMempool \/ StoreBlock \/ PutBack \/ Displace

-----------------------------------------------------------------------------

Next ==
    \/ Tick \/ TestCommand \/ JoinTest \/ EnableCheckBox
    \/ StartTest
    \/ UserPays \/ HandleBlock

Spec == Init /\ [][Next]_vars

-----------------------------------------------------------------------------

\* What the test mode pays is covered: with what it is about to pay, no more
\* is spent than this node has received, provided that, since the thread's
\* last look, the user paid nothing and no fork took income away, and that no
\* payment was on its way into a block during the look.
PaysWhatItHas == looked /\ At("pay") => Outstanding + balance <= received
=============================================================================
