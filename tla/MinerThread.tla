----------------------------- MODULE MinerThread -----------------------------
(***************************************************************************)
(* Starting and stopping the miner: the flags threadRun and threadStopped  *)
(* that the event loop and the miner's thread share (src/Network/          *)
(* client.cpp), and the button and the console that set them               *)
(* (src/Interface/gui.cpp, consolehandler.cpp).  The thread of the test    *)
(* mode is started and stopped in the same way.                            *)
(***************************************************************************)
EXTENDS Integers

CONSTANT MaxCommands \* bound: commands typed into the console

ASSUME MinerThreadAssumption == MaxCommands \in Nat

VARIABLES
    threadRun,     \* told to run
    threadStopped, \* has said that it stopped
    miner,         \* where the thread is that "miner" points to
    looping,       \* threads that are in the loop of handleBlockCommand
    main,          \* what the event loop does: idle, or in join() for whom
    button,        \* text and state of mineButton
    signals,       \* startMiningSignals that wait for the event loop
    commands       \* commands typed so far

minerThreadVars ==
    <<threadRun, threadStopped, miner, looping, main, button, signals, commands>>

Start    == "Start Mining"
Stop     == "Stop Mining"
Cleaning == "Cleaning up the last block creation."

MinerThreadInit ==
    /\ threadRun \in BOOLEAN \* not initialised
    /\ threadStopped = TRUE
    /\ miner = "none" /\ looping = 0
    /\ main = "idle"
    /\ button = [text |-> Start, enabled |-> TRUE]
    /\ signals = 0 /\ commands = 0

\* The caller goes on: a click changes the text of the button.
Return(who) == button' = IF who = "click" THEN [button EXCEPT !.text = Stop] ELSE button

Launch(who) ==
    /\ threadRun' = TRUE /\ threadStopped' = FALSE
    /\ miner' = "loop" /\ looping' = looping + 1
    /\ main' = "idle"
    /\ Return(who)

\* Mutant of StartMiningThread: a stop that is under way is taken for done.
StartMiningThreadEarly(who) ==
    \/ /\ threadStopped \/ ~ threadRun
       /\ Launch(who)
    \/ /\ ~ threadStopped /\ threadRun
       /\ Return(who)
       /\ UNCHANGED <<threadRun, threadStopped, miner, looping, main>>

\* startMiningThread joins the last thread before it starts another.
StartMiningThread(who) ==
    \/ /\ threadStopped /\ miner = "none"
       /\ Launch(who)
    \/ /\ threadStopped /\ miner # "none"
       /\ main' = who
       /\ UNCHANGED <<threadRun, threadStopped, miner, looping, button>>
    \/ /\ ~ threadStopped
       /\ Return(who)
       /\ UNCHANGED <<threadRun, threadStopped, miner, looping, main>>

\* join() returns.
Join ==
    /\ main # "idle" /\ miner = "done"
    /\ Launch(main)
    /\ UNCHANGED <<signals, commands>>

\* Mutant of StopMiningThread: the thread is taken for stopped.
StopMiningThreadAtOnce(text) ==
    /\ threadRun' = FALSE /\ threadStopped' = TRUE
    /\ button' = [text |-> text, enabled |-> FALSE]
    /\ UNCHANGED <<miner, looping, main>>

\* stopMiningThread; its signal disables the button at once.
StopMiningThread(text) ==
    /\ threadRun' = FALSE
    /\ button' = [text |-> text, enabled |-> FALSE]
    /\ UNCHANGED <<threadStopped, miner, looping, main>>

\* on_mineButton_clicked.
Click ==
    /\ main = "idle" /\ button.enabled
    /\ \/ button.text = Start /\ StartMiningThread("click")
       \/ button.text # Start /\ StopMiningThread(Cleaning)
    /\ UNCHANGED <<signals, commands>>

\* OnKeyPressed: "mine" and "stop mine".
Command ==
    /\ main = "idle" /\ commands < MaxCommands
    /\ commands' = commands + 1
    /\ StartMiningThread("console") \/ StopMiningThread(button.text)
    /\ UNCHANGED signals

\* startMiningSignal reaches enableMineButton.
EnableMineButton ==
    /\ main = "idle" /\ signals > 0
    /\ signals' = signals - 1
    /\ button' = [text |-> Start, enabled |-> TRUE]
    /\ UNCHANGED <<threadRun, threadStopped, miner, looping, main, commands>>

-----------------------------------------------------------------------------
(* The end of handleBlockCommand.                                          *)

\* while (threadRun).
LeaveLoop ==
    /\ miner = "loop" /\ ~ threadRun
    /\ miner' = "left" /\ looping' = looping - 1
    /\ UNCHANGED <<threadRun, threadStopped, main, button, signals, commands>>

SetThreadStopped ==
    /\ miner = "left"
    /\ miner' = "stopped" /\ threadStopped' = TRUE
    /\ UNCHANGED <<threadRun, looping, main, button, signals, commands>>

\* Mutant of EmitStartMining: the signal is not sent.
EmitNoStartMining ==
    /\ miner = "stopped"
    /\ miner' = "done"
    /\ UNCHANGED <<threadRun, threadStopped, looping, main, button, signals, commands>>

EmitStartMining ==
    /\ miner = "stopped"
    /\ miner' = "done" /\ signals' = signals + 1
    /\ UNCHANGED <<threadRun, threadStopped, looping, main, button, commands>>

Leaving == LeaveLoop \/ SetThreadStopped \/ EmitStartMining

MinerThreadNext == Click \/ Command \/ Join \/ EnableMineButton \/ Leaving

\* The miner finishes its round and looks at threadRun, the event loop runs
\* what is queued.  Nobody has to click or type.
MinerThreadFairness ==
    /\ WF_minerThreadVars(Leaving) /\ WF_minerThreadVars(Join)
    /\ WF_minerThreadVars(EnableMineButton)

MinerThreadSpec == MinerThreadInit /\ [][MinerThreadNext]_minerThreadVars
MinerThreadFairSpec == MinerThreadSpec /\ MinerThreadFairness

-----------------------------------------------------------------------------

TypeOK ==
    /\ threadRun \in BOOLEAN /\ threadStopped \in BOOLEAN
    /\ miner \in {"none", "loop", "left", "stopped", "done"}
    /\ looping \in Nat
    /\ main \in {"idle", "click", "console"}
    /\ button \in [text : {Start, Stop, Cleaning}, enabled : BOOLEAN]
    /\ signals \in Nat
    /\ commands \in 0 .. MaxCommands

\* However clicks, commands and the end of a thread interleave, no two
\* threads mine, and "miner" points to the one that does.
OneMiner == looping = IF miner = "loop" THEN 1 ELSE 0

\* The event loop joins no thread that still mines: the window would freeze
\* for a round.
JoinIsShort == main # "idle" => miner # "loop"

\* Without the console a disabled button is enabled again.
ButtonComesBack == (~ button.enabled /\ commands = 0) ~> (button.enabled \/ commands > 0)

=============================================================================
