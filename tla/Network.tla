------------------------------ MODULE Network ------------------------------
(***************************************************************************)
(* Nodes that exchange blocks: src/Network/client.cpp above one connection *)
(* per pair of nodes.  A miner's block goes to the peers and no further; a *)
(* peer that misses its predecessor asks the sender for it, one index at a *)
(* time, and collects the answers in a fork table.                         *)
(*                                                                         *)
(* handleBlock is one step here: HandleBlock has its statements, and the   *)
(* run "refine" shows that they implement such a step.  A fork table is    *)
(* the set of its rows; it exists while that set is not empty.  Each node  *)
(* has the transactions of its blocks, and of no others.                   *)
(***************************************************************************)
EXTENDS ChainTables, Sequences

CONSTANTS
    Nodes,
    MinerOf,   \* the node that finds each block, if it does
    MaxForks,  \* bound: fork tables a node creates
    MaxFaults  \* bound: lost connections and restarts

ASSUME NetworkAssumption ==
    /\ MinerOf \in [Blocks -> Nodes]
    /\ MaxForks \in Nat \ {0}
    /\ MaxFaults \in Nat
    /\ Unset # {}

ForkIds == 1 .. MaxForks

VARIABLES
    main,    \* per node: table BLOCKCHAIN
    fork,    \* per node and id: the rows of FORK<id>
    forks,   \* per node: rows of table FORKS
    base,    \* per node: the miner's prevBlock, NoRow while it does not run
    asked,   \* per node: getChainFromNetwork has run
    found,   \* the blocks found so far
    outbox,  \* per node: blocks of sendBlockSignal that Qt has not sent yet
    linked,  \* the pairs of nodes that are connected
    chan,    \* chan[n][m]: what n has sent to m
    faults,  \* lost connections and restarts so far
    apart,   \* history: a chain has changed unheard, see the actions
    lost     \* history: forks <<n, f>> whose next block is not asked for again

nodeVars == <<main, fork, forks>>
vars == <<nodeVars, base, asked, found, outbox, linked, chan, faults, apart, lost>>

BlockMsg(b, f) == [kind |-> "block", block |-> b, fork |-> f]
Request(i, f)  == [kind |-> "request", index |-> i, fork |-> f]
CheckMsg       == [kind |-> "check"]

Pairs == {p \in SUBSET Nodes : Cardinality(p) = 2}
Peers(n) == {m \in Nodes : {n, m} \in linked}

Init ==
    /\ main = [n \in Nodes |-> [EmptyTable EXCEPT ![1] = Genesis]]
    /\ fork = [n \in Nodes |-> [f \in ForkIds |-> {}]]
    /\ forks = [n \in Nodes |-> 0]
    /\ base = [n \in Nodes |-> NoRow]
    /\ asked = [n \in Nodes |-> FALSE]
    /\ found = {}
    /\ outbox = [n \in Nodes |-> <<>>]
    /\ linked = {}
    /\ chan = [n \in Nodes |-> [m \in Nodes |-> <<>>]]
    /\ faults = 0
    /\ apart = FALSE
    /\ lost = {}

-----------------------------------------------------------------------------
(* handleBlock.                                                            *)

TxsIn(c) == [i \in Index |-> IF i \in Held(c) THEN c[i].txs ELSE {}]

Follows(c, b) ==
    /\ b.index - 1 <= LastIndex(c)
    /\ b.prev = HashAt(c, b.index - 1)

\* addToFork: a second row with an index is not stored.
Added(s, b) == IF \E r \in s : r.index = b.index THEN s ELSE s \cup {b}

\* Mutant of CheckTempChain: every valid fork is taken.
CheckTempChainAnyLuck(c, s) ==
    IF s \subseteq Blocks /\ VerifyFork(c, TxsIn(c), Overlay(EmptyTable, s), TRUE) THEN 0 ELSE -2

\* checkTempChain: -2 for a fork that does not verify, 0 for a luckier one.
CheckTempChain(c, s) ==
    LET f == Overlay(EmptyTable, s)
    IN  IF ~ (s \subseteq Blocks /\ VerifyFork(c, TxsIn(c), f, TRUE)) THEN -2
        ELSE IF IsLuckierChain(c, s, f) THEN 0
        ELSE -1

\* handleBlock(b) on the chain c, with the rows s in its fork table: the
\* result, and the chain and the fork's rows afterwards.
HandleBlock(c, s, b) ==
    LET t == Added(s, b)
        r == IF Follows(c, b) THEN CheckTempChain(c, t)
             ELSE IF ProofCertificate(b) THEN b.index - 1
             ELSE -2
    IN  [result |-> r,
         chain  |-> IF Follows(c, b) /\ r = 0 THEN Overlay(c, t) ELSE c,
         fork   |-> IF Follows(c, b) \/ r = -2 THEN {} ELSE t]

\* createFork: the next id, for a block that comes without one.
ForkId(n, f) == IF f = 0 THEN forks[n] + 1 ELSE f
RoomForFork(n, f) == ForkId(n, f) \in ForkIds
RowsOfFork(n, f) == IF f = 0 THEN {} ELSE fork[n][f]

\* Node n has handled a block for fork f, with the outcome o.
Store(n, f, o) ==
    /\ main' = [main EXCEPT ![n] = o.chain]
    /\ fork' = [fork EXCEPT ![n][ForkId(n, f)] = o.fork]
    /\ forks' = [forks EXCEPT ![n] = IF f = 0 THEN @ + 1 ELSE @]

-----------------------------------------------------------------------------
(* The miner's thread.                                                     *)

\* buildNewBlock, when the loop starts and whenever a round is over.  Blocks
\* bounds what is found: on another predecessor the miner finds nothing.
Build(n) ==
    /\ Held(main[n]) # {}
    /\ \E b \in Blocks \ found : MinerOf[b] = n /\ b.prev = HashAt(main[n], LastIndex(main[n]))
    /\ base' = [base EXCEPT ![n] = main[n][LastIndex(main[n])]]
    /\ UNCHANGED <<nodeVars, asked, found, outbox, linked, chan, faults, apart, lost>>

\* The enclave draws a number that makes the block lucky enough.  When its
\* predecessor has left the chain, that one is handled too, in the same
\* fork, and nobody is asked for what that one lacks.  The block is sent only
\* when the first call has stored it.
Mine(n, b) ==
    /\ base[n] # NoRow
    /\ b \notin found /\ MinerOf[b] = n
    /\ b.prev = base[n].hash /\ b.index = base[n].index + 1
    /\ IsLuckierBlock(main[n], b)
    /\ RoomForFork(n, 0)
    /\ found' = found \cup {b}
    /\ \E first \in {HandleBlock(main[n], {}, b)} :
        \/ /\ first.result <= 0
           /\ Store(n, 0, first)
           /\ outbox' = IF first.result = 0 THEN [outbox EXCEPT ![n] = Append(@, b)] ELSE outbox
           /\ apart' = (apart \/ ~ Linked(first.chain))
           /\ UNCHANGED lost
        \/ /\ first.result > 0
           /\ Store(n, 0, HandleBlock(first.chain, first.fork, base[n]))
           /\ apart' = TRUE
           /\ lost' = lost \cup {<<n, ForkId(n, 0)>>}
           /\ UNCHANGED outbox
    /\ UNCHANGED <<base, asked, linked, chan, faults>>

-----------------------------------------------------------------------------
(* The Qt thread.                                                          *)

Send(n, m, msgs) == chan' = [chan EXCEPT ![n][m] = @ \o msgs]

\* The message is handled and answered.
Reply(n, m, msgs) == chan' = [[chan EXCEPT ![m][n] = Tail(@)] EXCEPT ![n][m] = @ \o msgs]

\* sendBlock: to the peers of the moment.
SendBlock(n) ==
    /\ outbox[n] # <<>>
    /\ outbox' = [outbox EXCEPT ![n] = Tail(@)]
    /\ chan' = [chan EXCEPT ![n] = [m \in Nodes |->
                   IF m \in Peers(n) THEN Append(@[m], BlockMsg(Head(outbox[n]), 0)) ELSE @[m]]]
    /\ UNCHANGED <<nodeVars, base, asked, found, linked, faults, apart, lost>>

\* The timer of the constructor: getChainFromNetwork asks the first peer, if
\* there is one, for its latest block.
GetChainFromNetwork(n) ==
    /\ ~ asked[n]
    /\ asked' = [asked EXCEPT ![n] = TRUE]
    /\ IF Peers(n) = {} THEN UNCHANGED chan
       ELSE \E m \in Peers(n) : Send(n, m, <<Request(0, 0)>>)
    /\ UNCHANGED <<nodeVars, base, found, outbox, linked, faults, apart, lost>>

Incoming(n, m, kind) == chan[m][n] # <<>> /\ Head(chan[m][n]).kind = kind

\* Mutant of Response: a missing block is not asked for.
ResponseAsksNothing(o, f) == IF o.result = -2 THEN <<CheckMsg>> ELSE <<>>

\* Mutant of Response: asks for the latest block again.
ResponseAsksAgain(o, f) ==
    IF o.result > 0 THEN <<Request(o.result, f)>>
    ELSE IF o.result = -2 THEN <<Request(0, 0)>>
    ELSE <<>>

\* What the sender of a block is told: that its predecessor is missing in
\* fork f, or that it should check its database.
Response(o, f) ==
    IF o.result > 0 THEN <<Request(o.result, f)>>
    ELSE IF o.result = -2 THEN <<CheckMsg>>
    ELSE <<>>

\* handleReceivedBlock, for broadcasts and answers alike.
HandleReceivedBlock(n, m) ==
    /\ Incoming(n, m, "block")
    /\ UNCHANGED <<base, asked, found, outbox, linked, faults, lost>>
    /\ \E msg \in {Head(chan[m][n])} :
       \E o \in {HandleBlock(main[n], RowsOfFork(n, msg.fork), msg.block)} :
            /\ RoomForFork(n, msg.fork)
            /\ Store(n, msg.fork, o)
            /\ Reply(n, m, Response(o, ForkId(n, msg.fork)))
            /\ apart' = (apart \/ ~ Linked(o.chain))

\* The block that getLatestBlock and getBlock find.
Answers(n, i) ==
    LET j == IF i = 0 THEN LastIndex(main[n]) ELSE i
    IN  IF j \in Held(main[n]) THEN {main[n][j]} ELSE Unset

SendBlockResponse(n, m) ==
    /\ Incoming(n, m, "request")
    /\ \E msg \in {Head(chan[m][n])} : \E b \in Answers(n, msg.index) :
        Reply(n, m, <<BlockMsg(b, msg.fork)>>)
    /\ UNCHANGED <<nodeVars, base, asked, found, outbox, linked, faults, apart, lost>>

\* checkDatabase; a predecessor without a row has any time.
CheckDatabase(n) ==
    /\ \E low \in BOOLEAN :
        LET bad == BadRows(main[n], TxsIn(main[n]), low)
        IN  main' = [main EXCEPT ![n] = [i \in Index |-> IF \E j \in bad : j <= i THEN NoRow ELSE @[i]]]
    /\ apart' = (apart \/ main' # main)
    /\ UNCHANGED <<fork, forks>>

HandleCheck(n, m) ==
    /\ Incoming(n, m, "check")
    /\ CheckDatabase(n)
    /\ Reply(n, m, <<>>)
    /\ UNCHANGED <<base, asked, found, outbox, linked, faults, lost>>

-----------------------------------------------------------------------------
(* Connections.                                                            *)

\* The nodes of p have the same chain, or one of them is new and will ask.
Joins(p) ==
    \/ \A n, m \in p : main[n] = main[m]
    \/ \E n \in p : Held(main[n]) = {1} /\ ~ asked[n]

Connect(p) ==
    /\ p \notin linked
    /\ linked' = linked \cup {p}
    /\ apart' = (apart \/ ~ Joins(p))
    /\ UNCHANGED <<nodeVars, base, asked, found, outbox, chan, faults, lost>>

\* What is on its way between the nodes of the pairs gone is lost.
Emptied(gone) ==
    [n \in Nodes |-> [m \in Nodes |-> IF {n, m} \in gone THEN <<>> ELSE chan[n][m]]]

\* The forks whose request, or the answer to it, is on its way there.
Underway(gone) ==
    {r \in Nodes \X ForkIds : \E m \in Nodes :
        /\ {r[1], m} \in gone
        /\ \/ \E j \in DOMAIN chan[r[1]][m] :
                 chan[r[1]][m][j].kind = "request" /\ chan[r[1]][m][j].fork = r[2]
           \/ \E j \in DOMAIN chan[m][r[1]] :
                 chan[m][r[1]][j].kind = "block" /\ chan[m][r[1]][j].fork = r[2]}

Disconnect(p) ==
    /\ p \in linked
    /\ faults < MaxFaults
    /\ faults' = faults + 1
    /\ apart' = TRUE
    /\ linked' = linked \ {p}
    /\ chan' = Emptied({p})
    /\ lost' = lost \cup Underway({p})
    /\ UNCHANGED <<nodeVars, base, asked, found, outbox>>

\* A process is killed, or asked to "quit" (closeDb), and started again; the
\* tables stay, and an empty chain gets the genesis block.
Restart(n) ==
    LET gone == {p \in linked : n \in p}
    IN  /\ faults < MaxFaults
        /\ faults' = faults + 1
        /\ apart' = TRUE
        /\ linked' = linked \ gone
        /\ chan' = Emptied(gone)
        /\ lost' = lost \cup Underway(gone)
        /\ main' = IF Held(main[n]) = {} THEN [main EXCEPT ![n][1] = Genesis] ELSE main
        /\ base' = [base EXCEPT ![n] = NoRow]
        /\ asked' = [asked EXCEPT ![n] = FALSE]
        /\ outbox' = [outbox EXCEPT ![n] = <<>>]
        /\ UNCHANGED <<fork, forks, found>>

-----------------------------------------------------------------------------

Handle(n, m) ==
    HandleReceivedBlock(n, m) \/ SendBlockResponse(n, m) \/ HandleCheck(n, m)

Next ==
    \/ \E n \in Nodes, b \in Blocks : Mine(n, b)
    \/ \E n \in Nodes : Build(n) \/ SendBlock(n) \/ GetChainFromNetwork(n) \/ Restart(n)
    \/ \E n, m \in Nodes : Handle(n, m)
    \/ \E p \in Pairs : Connect(p) \/ Disconnect(p)

\* What the nodes do by themselves: Qt runs its slots and its timers, what is
\* sent arrives, and a peer in reach is found.
Work ==
    \/ \E n \in Nodes : SendBlock(n) \/ GetChainFromNetwork(n)
    \/ \E n, m \in Nodes : Handle(n, m)
    \/ \E p \in Pairs : Connect(p)

\* Work goes on while there is any; nobody has to find a block.
Fairness == WF_vars(Work)

Spec == Init /\ [][Next]_vars
FairSpec == Spec /\ Fairness
=============================================================================
