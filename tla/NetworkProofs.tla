--------------------------- MODULE NetworkProofs ---------------------------
(***************************************************************************)
(* What nodes that exchange blocks keep, for every set of nodes and of     *)
(* blocks: each chain changes as LuckyChain says, and no fork table waits  *)
(* for an answer that is not on its way.                                   *)
(***************************************************************************)
EXTENDS NetworkProperties, TableProofs

\* The messages that nodes send.
Msg ==
    [kind : {"block"}, block : Sent, fork : 0 .. MaxForks]
        \cup [kind : {"request"}, index : Nat, fork : 0 .. MaxForks]
        \cup [kind : {"check"}]

TypeInv ==
    /\ main \in [Nodes -> Tables]
    /\ fork \in [Nodes -> [ForkIds -> SUBSET Sent]]
    /\ forks \in [Nodes -> 0 .. MaxForks]
    /\ base \in [Nodes -> Blocks \cup {NoRow}]
    /\ asked \in [Nodes -> BOOLEAN]
    /\ found \subseteq Blocks
    /\ outbox \in [Nodes -> Seq(Blocks)]
    /\ linked \subseteq Pairs
    /\ chan \in [Nodes -> [Nodes -> Seq(Msg)]]
    /\ faults \in 0 .. MaxFaults
    /\ apart \in BOOLEAN

\* The rows of a fork table have different indexes, and index 0 is not one
\* of them.
ForkRows(s) ==
    /\ \A a, b \in s : a.index = b.index => a = b
    /\ \A b \in s : b.index >= 1
ForksOK == \A n \in Nodes, f \in ForkIds : ForkRows(fork[n][f])

In(x, s) == \E j \in 1 .. Len(s) : s[j] = x

\* The request for the next block of n's fork f, or the answer, is on its way.
Waits(n, f) ==
    \E m \in Nodes : \/ \E i \in Nat : In(Request(i, f), chan[n][m])
                     \/ \E b \in Sent : In(BlockMsg(b, f), chan[m][n])

ReachesGenesis(s) == \E b \in s : b.index = 1

Waiting ==
    \A n \in Nodes, f \in ForkIds :
        fork[n][f] # {} => ReachesGenesis(fork[n][f]) \/ Waits(n, f) \/ <<n, f>> \in lost

NetInv == TypeInv /\ ForksOK /\ Waiting

\* Adopt of LuckyChain, from one table to another.
Adopts(c, s, d) ==
    /\ s \in SUBSET Blocks /\ s # {}
    /\ \A a, b \in s : a.index = b.index => a = b
    /\ \A b \in s :
        /\ b.content /\ ProofCertificate(b)
        /\ \/ b.index = 1
           \/ b.prev = HashAt(c, b.index - 1) /\ \A a \in s : a.index >= b.index
           \/ \E a \in s : a.index = b.index - 1 /\ a.hash = b.prev
    /\ IsLuckierChain(c, s, Overlay(EmptyTable, s))
    /\ d = Overlay(c, s)

-----------------------------------------------------------------------------
(* handleBlock.                                                            *)

LEMMA SentFields ==
    ASSUME NEW b \in Sent
    PROVE  /\ b.index \in Nat
           /\ b \in Blocks \/ b.prev = NoHash
           /\ b \in Blocks => b.index >= 1
BY BlockFields, BlocksAssumption DEF Sent, BlockType, IsUnset, Index

\* A second row with an index is never stored.
LEMMA AddedRows ==
    ASSUME NEW s \in SUBSET Sent, ForkRows(s), NEW b \in Sent
    PROVE  /\ Added(s, b) \subseteq Sent /\ Added(s, b) # {}
           /\ \A a, d \in Added(s, b) : a.index = d.index => a = d
           /\ b.index >= 1 => ForkRows(Added(s, b))
           /\ b.index = 1 => ReachesGenesis(Added(s, b))
BY DEF Added, ForkRows, ReachesGenesis

\* checkTempChain lets only a whole valid and luckier fork through.
LEMMA TempChainAdopts ==
    ASSUME NEW c \in Tables, NEW s, s # {}, \A a, b \in s : a.index = b.index => a = b,
           CheckTempChain(c, s) = 0
    PROVE  Adopts(c, s, Overlay(c, s)) /\ Overlay(c, s) \in Tables
<1> DEFINE f == Overlay(EmptyTable, s)
<1>1. s \subseteq Blocks /\ VerifyFork(c, TxsIn(c), f, TRUE) /\ IsLuckierChain(c, s, f)
    <2>1. 0 # -2 /\ 0 # -1
        OBVIOUS
    <2>2. QED
        BY <2>1, Zenon DEF CheckTempChain
<1>2. f \in Tables /\ Keyed(f) /\ RowsOf(f) = s
    BY <1>1, TableOfBlocks
<1>3. \A b \in s :
        /\ b.content /\ ProofCertificate(b)
        /\ \/ b.index = 1
           \/ b.prev = HashAt(c, b.index - 1) /\ \A a \in s : a.index >= b.index
           \/ \E a \in s : a.index = b.index - 1 /\ a.hash = b.prev
    <2> HIDE DEF f
    <2>1. QED
        BY <1>1, <1>2, VerifiedFork
<1>4. Overlay(c, s) \in Tables
    BY <1>1 DEF Overlay, Tables
<1>5. QED
    BY <1>1, <1>3, <1>4 DEF Adopts

\* handleBlock changes the chain by taking over a fork only, and leaves a fork
\* table behind only when it asks for a block, or has reached a block that
\* nothing comes before.
LEMMA HandleOutcome ==
    ASSUME NEW c \in Tables, NEW s \in SUBSET Sent, ForkRows(s), NEW b \in Sent
    PROVE  LET o == HandleBlock(c, s, b)
           IN  /\ o.chain \in Tables
               /\ o.chain = c \/ \E t \in SUBSET Blocks : Adopts(c, t, o.chain)
               /\ o.fork \in SUBSET Sent /\ ForkRows(o.fork)
               /\ o.result \in Int
               /\ o.result > 0 => o.chain = c
               /\ o.fork # {} => o.result > 0 \/ ReachesGenesis(o.fork)
<1> DEFINE t == Added(s, b)
           r == IF Follows(c, b) THEN CheckTempChain(c, t)
                ELSE IF ProofCertificate(b) THEN b.index - 1 ELSE -2
           o == HandleBlock(c, s, b)
<1>1. /\ o.result = r
      /\ o.chain = IF Follows(c, b) /\ r = 0 THEN Overlay(c, t) ELSE c
      /\ o.fork = IF Follows(c, b) \/ r = -2 THEN {} ELSE t
    BY DEF HandleBlock
<1>2. /\ t \subseteq Sent /\ t # {} /\ \A a, d \in t : a.index = d.index => a = d
      /\ b.index >= 1 => ForkRows(t)
      /\ b.index = 1 => ReachesGenesis(t)
      /\ b.index \in Nat
    BY AddedRows, SentFields
<1>3. CheckTempChain(c, t) \in {-2, -1, 0}
    BY DEF CheckTempChain
<1> HIDE DEF t, o
<1>4. CASE Follows(c, b)
    <2>1. r = 0 => Overlay(c, t) \in Tables /\ t \subseteq Blocks /\ Adopts(c, t, Overlay(c, t))
        BY <1>2, <1>4, TempChainAdopts DEF Adopts
    <2>2. r \in {-2, -1, 0} /\ o.fork = {}
        BY <1>1, <1>3, <1>4
    <2>3. ForkRows({})
        BY DEF ForkRows
    <2>4. QED
        BY <1>1, <1>4, <2>1, <2>2, <2>3 DEF o
<1>5. CASE ~ Follows(c, b)
    <2>1. b.index >= 1
        <3>1. CASE b \in Blocks
            BY <3>1, SentFields
        <3>2. CASE b.prev = NoHash
            <4>1. LastIndex(c) \in Nat
                BY MaxIndexOf DEF LastIndex, Held, Index
            <4>2. b.index = 0 => HashAt(c, b.index - 1) = NoHash
                BY DEF HashAt, Held, Index
            <4>3. b.index = 0 => b.index - 1 <= LastIndex(c)
                BY <1>2, <4>1
            <4>4. QED
                BY <1>2, <1>5, <3>2, <4>2, <4>3 DEF Follows
        <3>3. QED
            BY <3>1, <3>2, SentFields
    <2>2. r \in {b.index - 1, -2} /\ r \in Int
        BY <1>2, <1>5
    <2>3. b.index = 1 \/ b.index - 1 > 0
        BY <1>2, <2>1
    <2>4. o.fork = {} \/ (o.fork = t /\ r = b.index - 1)
        BY <1>1, <1>5, <2>2
    <2>5. ForkRows({})
        BY DEF ForkRows
    <2>6. o.fork # {} => o.result > 0 \/ ReachesGenesis(o.fork)
        BY <1>1, <1>2, <2>3, <2>4
    <2>7. o.fork \in SUBSET Sent /\ ForkRows(o.fork)
        BY <1>2, <2>1, <2>4, <2>5
    <2>8. o.chain = c /\ o.result \in Int
        BY <1>1, <1>5, <2>2
    <2>9. QED
        BY <2>6, <2>7, <2>8 DEF o
<1>6. QED
    BY <1>4, <1>5

-----------------------------------------------------------------------------
(* Channels.                                                               *)

\* What is sent stays until it is handled.
LEMMA InTail ==
    ASSUME NEW S, NEW s \in Seq(S), s # <<>>, NEW x, In(x, s)
    PROVE  x = Head(s) \/ In(x, Tail(s))
<1>1. PICK j \in 1 .. Len(s) : s[j] = x
    BY DEF In
<1>2. CASE j = 1
    BY <1>1, <1>2
<1>3. CASE j # 1
    <2>1. j - 1 \in 1 .. Len(Tail(s)) /\ Tail(s)[j - 1] = x
        BY <1>1, <1>3
    <2>2. Tail(s) \in Seq(S)
        OBVIOUS
    <2>3. QED
        BY <2>1, <2>2 DEF In
<1>4. QED
    BY <1>2, <1>3

LEMMA InConcat ==
    ASSUME NEW S, NEW s \in Seq(S), NEW t \in Seq(S), NEW x, In(x, s) \/ In(x, t)
    PROVE  In(x, s \o t)
<1>0. s \o t \in Seq(S) /\ Len(s \o t) = Len(s) + Len(t)
    OBVIOUS
<1>1. CASE In(x, s)
    <2>1. PICK j \in 1 .. Len(s) : s[j] = x
        BY <1>1 DEF In
    <2>2. j \in 1 .. Len(s \o t) /\ (s \o t)[j] = x
        BY <1>0, <2>1
    <2>3. QED
        BY <1>0, <2>2 DEF In
<1>2. CASE In(x, t)
    <2>1. PICK j \in 1 .. Len(t) : t[j] = x
        BY <1>2 DEF In
    <2>2. j + Len(s) \in 1 .. Len(s \o t) /\ (s \o t)[j + Len(s)] = x
        BY <1>0, <2>1
    <2>3. QED
        BY <1>0, <2>2 DEF In
<1>3. QED
    BY <1>1, <1>2

\* A reply takes one message off, and no other, and adds the answers.
LEMMA ReplyKeeps ==
    ASSUME chan \in [Nodes -> [Nodes -> Seq(Msg)]], NEW n \in Nodes, NEW m \in Nodes,
           chan[m][n] # <<>>, NEW msgs \in Seq(Msg), Reply(n, m, msgs)
    PROVE  /\ chan' \in [Nodes -> [Nodes -> Seq(Msg)]]
           /\ \A p, q \in Nodes : \A x :
                In(x, chan[p][q]) => \/ In(x, chan'[p][q])
                                     \/ p = m /\ q = n /\ x = Head(chan[m][n])
           /\ \A x : In(x, msgs) => In(x, chan'[n][m])
<1> DEFINE rest == [chan EXCEPT ![m][n] = Tail(chan[m][n])]
<1>1. rest \in [Nodes -> [Nodes -> Seq(Msg)]] /\ rest[m][n] = Tail(chan[m][n])
    <2>1. Tail(chan[m][n]) \in Seq(Msg)
        OBVIOUS
    <2>2. QED
        BY <2>1
<1>2. \A p, q \in Nodes : (p = m /\ q = n) \/ rest[p][q] = chan[p][q]
    OBVIOUS
<1>3. chan' = [rest EXCEPT ![n][m] = rest[n][m] \o msgs]
    BY DEF Reply
<1> HIDE DEF rest
<1>4. rest[n][m] \o msgs \in Seq(Msg)
    BY <1>1
<1>5. chan' \in [Nodes -> [Nodes -> Seq(Msg)]] /\ chan'[n][m] = rest[n][m] \o msgs
    BY <1>1, <1>3, <1>4
<1>6. \A p, q \in Nodes : (p = n /\ q = m) \/ chan'[p][q] = rest[p][q]
    BY <1>1, <1>3
<1>7. ASSUME NEW p \in Nodes, NEW q \in Nodes, NEW x, In(x, rest[p][q])
      PROVE  In(x, chan'[p][q])
    <2>1. CASE p = n /\ q = m
        <3>1. rest[n][m] \in Seq(Msg)
            BY <1>1
        <3>2. In(x, rest[n][m] \o msgs)
            BY <1>7, <2>1, <3>1, InConcat
        <3>3. QED
            BY <1>5, <2>1, <3>2
    <2>2. CASE ~ (p = n /\ q = m)
        BY <1>6, <1>7, <2>2
    <2>3. QED
        BY <2>1, <2>2
<1>8. ASSUME NEW p \in Nodes, NEW q \in Nodes, NEW x, In(x, chan[p][q])
      PROVE  In(x, rest[p][q]) \/ (p = m /\ q = n /\ x = Head(chan[m][n]))
    <2>1. CASE p = m /\ q = n
        <3>1. chan[m][n] \in Seq(Msg)
            OBVIOUS
        <3>2. x = Head(chan[m][n]) \/ In(x, Tail(chan[m][n]))
            BY <1>8, <2>1, <3>1, InTail
        <3>3. QED
            BY <1>1, <2>1, <3>2
    <2>2. CASE ~ (p = m /\ q = n)
        BY <1>2, <1>8, <2>2
    <2>3. QED
        BY <2>1, <2>2
<1>9. \A x : In(x, msgs) => In(x, chan'[n][m])
    <2>1. rest[n][m] \in Seq(Msg)
        BY <1>1
    <2>2. QED
        BY <1>5, <2>1, InConcat
<1>10. QED
    BY <1>5, <1>7, <1>8, <1>9

\* What is sent is added to what is on its way.
LEMMA SendKeeps ==
    ASSUME chan \in [Nodes -> [Nodes -> Seq(Msg)]],
           \A p, q \in Nodes : \E msgs \in Seq(Msg) : chan'[p][q] = chan[p][q] \o msgs,
           chan' = [p \in Nodes |-> [q \in Nodes |-> chan'[p][q]]]
    PROVE  /\ chan' \in [Nodes -> [Nodes -> Seq(Msg)]]
           /\ \A p, q \in Nodes : \A x : In(x, chan[p][q]) => In(x, chan'[p][q])
<1>1. ASSUME NEW p \in Nodes, NEW q \in Nodes
      PROVE  /\ chan'[p][q] \in Seq(Msg)
             /\ \A x : In(x, chan[p][q]) => In(x, chan'[p][q])
    <2>1. PICK msgs \in Seq(Msg) : chan'[p][q] = chan[p][q] \o msgs
        OBVIOUS
    <2>2. chan[p][q] \in Seq(Msg)
        OBVIOUS
    <2>3. chan[p][q] \o msgs \in Seq(Msg)
        BY <2>2
    <2>4. \A x : In(x, chan[p][q]) => In(x, chan[p][q] \o msgs)
        BY <2>2, InConcat
    <2>5. QED
        BY <2>1, <2>3, <2>4
<1>2. QED
    BY <1>1

\* The messages of the code are messages.
LEMMA MessageTypes ==
    /\ \A b \in Sent, f \in 0 .. MaxForks : BlockMsg(b, f) \in Msg
    /\ \A i \in Nat, f \in 0 .. MaxForks : Request(i, f) \in Msg
    /\ CheckMsg \in Msg
BY DEF BlockMsg, Request, CheckMsg, Msg

LEMMA Kinds ==
    /\ \A i, f : Request(i, f).kind = "request" /\ Request(i, f).fork = f
    /\ \A b, f : BlockMsg(b, f).kind = "block" /\ BlockMsg(b, f).fork = f
BY DEF Request, BlockMsg

LEMMA HeadTypes ==
    ASSUME NEW msg \in Msg
    PROVE  /\ msg.kind = "block" => /\ msg.block \in Sent /\ msg.fork \in 0 .. MaxForks
                                    /\ msg = BlockMsg(msg.block, msg.fork)
           /\ msg.kind = "request" => /\ msg.index \in Nat /\ msg.fork \in 0 .. MaxForks
                                      /\ msg = Request(msg.index, msg.fork)
           /\ msg.kind \in {"block", "request", "check"}
BY DEF BlockMsg, Request, Msg

LEMMA ResponseType ==
    ASSUME NEW o, o.result \in Int, NEW f \in 0 .. MaxForks
    PROVE  /\ Response(o, f) \in Seq(Msg)
           /\ o.result > 0 => o.result \in Nat /\ In(Request(o.result, f), Response(o, f))
<1>1. CASE o.result > 0
    <2>1. Request(o.result, f) \in Msg /\ o.result \in Nat
        BY <1>1, MessageTypes
    <2>2. Response(o, f) = <<Request(o.result, f)>>
        BY <1>1 DEF Response
    <2>3. QED
        BY <2>1, <2>2 DEF In
<1>2. CASE ~ (o.result > 0)
    BY <1>2, MessageTypes DEF Response
<1>3. QED
    BY <1>1, <1>2

-----------------------------------------------------------------------------
(* Blocks that are handled.                                                *)

\* What a node may have after it has handled a block, or two.
Outcome(c, o) ==
    /\ o.chain \in Tables
    /\ o.chain = c \/ \E t \in SUBSET Blocks : Adopts(c, t, o.chain)
    /\ o.fork \in SUBSET Sent /\ ForkRows(o.fork)

LEMMA StoreEffect ==
    ASSUME TypeInv, ForksOK, NEW n \in Nodes, NEW f \in 0 .. MaxForks, RoomForFork(n, f),
           NEW o, Outcome(main[n], o), Store(n, f, o)
    PROVE  /\ main' \in [Nodes -> Tables] /\ fork' \in [Nodes -> [ForkIds -> SUBSET Sent]]
           /\ forks' \in [Nodes -> 0 .. MaxForks] /\ ForksOK'
           /\ \A p \in Nodes : main'[p] = IF p = n THEN o.chain ELSE main[p]
           /\ \A p \in Nodes, g \in ForkIds :
                fork'[p][g] = IF p = n /\ g = ForkId(n, f) THEN o.fork ELSE fork[p][g]
<1>1. ForkId(n, f) \in ForkIds
    BY DEF RoomForFork
<1>2. main' \in [Nodes -> Tables]
    BY DEF TypeInv, Store, Outcome
<1>3. \A p \in Nodes : main'[p] = IF p = n THEN o.chain ELSE main[p]
    BY DEF TypeInv, Store
<1>4. fork' = [fork EXCEPT ![n][ForkId(n, f)] = o.fork] /\ o.fork \in SUBSET Sent
    BY DEF Store, Outcome
<1>5. fork' \in [Nodes -> [ForkIds -> SUBSET Sent]]
    BY <1>1, <1>4 DEF TypeInv
<1>6. \A p \in Nodes, g \in ForkIds :
        fork'[p][g] = IF p = n /\ g = ForkId(n, f) THEN o.fork ELSE fork[p][g]
    BY <1>1, <1>4 DEF TypeInv
<1>7. forks' \in [Nodes -> 0 .. MaxForks]
    <2>1. f = 0 => forks[n] + 1 \in 0 .. MaxForks
        BY <1>1, NetworkAssumption DEF ForkId, ForkIds
    <2>2. forks' = [forks EXCEPT ![n] = IF f = 0 THEN forks[n] + 1 ELSE forks[n]]
        BY DEF Store
    <2>3. QED
        BY <2>1, <2>2 DEF TypeInv
<1>8. ForksOK'
    BY <1>6 DEF ForksOK, Outcome
<1>9. QED
    BY <1>2, <1>3, <1>5, <1>6, <1>7, <1>8

\* A miner's block, with the one before it or without, is handled in a fork of
\* its own, which is gone afterwards unless nobody was asked for what it lacks.
LEMMA MineStores ==
    ASSUME TypeInv, NEW n \in Nodes, NEW b \in Blocks, Mine(n, b)
    PROVE  /\ RoomForFork(n, 0)
           /\ \E o : /\ Outcome(main[n], o) /\ Store(n, 0, o)
                     /\ <<n, ForkId(n, 0)>> \in lost' \/ o.fork = {} \/ ReachesGenesis(o.fork)
<1>1. /\ main[n] \in Tables /\ Blocks \subseteq Sent /\ ForkRows({}) /\ base[n] \in Blocks
      /\ RoomForFork(n, 0)
    BY DEF TypeInv, Sent, ForkRows, Mine
<1> DEFINE first  == HandleBlock(main[n], {}, b)
           second == HandleBlock(first.chain, first.fork, base[n])
<1>2. /\ Outcome(main[n], first) /\ first.result \in Int
      /\ first.result > 0 => first.chain = main[n]
      /\ first.fork # {} => first.result > 0 \/ ReachesGenesis(first.fork)
    BY <1>1, HandleOutcome DEF Outcome
<1>3. \/ first.result <= 0 /\ Store(n, 0, first)
      \/ first.result > 0 /\ Store(n, 0, second) /\ <<n, ForkId(n, 0)>> \in lost'
    BY DEF Mine
<1>4. CASE first.result <= 0 /\ Store(n, 0, first)
    <2>1. first.fork = {} \/ ReachesGenesis(first.fork)
        BY <1>2, <1>4
    <2>2. QED
        BY <1>1, <1>2, <1>4, <2>1
<1>5. CASE first.result > 0 /\ Store(n, 0, second) /\ <<n, ForkId(n, 0)>> \in lost'
    <2>1. first.chain = main[n] /\ first.fork \in SUBSET Sent /\ ForkRows(first.fork)
        BY <1>2, <1>5 DEF Outcome
    <2>2. Outcome(main[n], second)
        BY <1>1, <2>1, HandleOutcome DEF Outcome
    <2>3. QED
        BY <1>1, <1>5, <2>2
<1>6. QED
    BY <1>3, <1>4, <1>5

\* A received block is handled in the fork it comes for, and an answer asks
\* for the next one when that fork still waits.
LEMMA ReceiveStores ==
    ASSUME TypeInv, ForksOK, NEW n \in Nodes, NEW m \in Nodes, HandleReceivedBlock(n, m)
    PROVE  \E b, f, o :
            /\ b \in Sent /\ f \in 0 .. MaxForks
            /\ chan[m][n] # <<>> /\ Head(chan[m][n]) = BlockMsg(b, f)
            /\ RoomForFork(n, f) /\ Outcome(main[n], o) /\ Store(n, f, o)
            /\ o.result \in Int /\ Reply(n, m, Response(o, ForkId(n, f)))
            /\ o.fork # {} => o.result > 0 \/ ReachesGenesis(o.fork)
<1> DEFINE msg == Head(chan[m][n])
           b   == msg.block
           f   == msg.fork
           o   == HandleBlock(main[n], RowsOfFork(n, f), b)
<1>1. chan[m][n] # <<>> /\ msg.kind = "block" /\ msg \in Msg
    BY DEF HandleReceivedBlock, Incoming, TypeInv
<1>2. b \in Sent /\ f \in 0 .. MaxForks /\ msg = BlockMsg(b, f)
    BY <1>1, HeadTypes
<1>3. RoomForFork(n, f) /\ Store(n, f, o) /\ Reply(n, m, Response(o, ForkId(n, f)))
    BY DEF HandleReceivedBlock
<1>4. RowsOfFork(n, f) \in SUBSET Sent /\ ForkRows(RowsOfFork(n, f))
    <2>1. f # 0 => f \in ForkIds
        BY <1>2 DEF ForkIds
    <2>2. QED
        BY <2>1 DEF RowsOfFork, ForksOK, TypeInv, ForkRows
<1>5. main[n] \in Tables
    BY DEF TypeInv
<1> HIDE DEF msg, b, f
<1>6. /\ Outcome(main[n], o) /\ o.result \in Int
      /\ o.fork # {} => o.result > 0 \/ ReachesGenesis(o.fork)
    BY <1>2, <1>4, <1>5, HandleOutcome DEF Outcome
<1> HIDE DEF o
<1>7. QED
    BY <1>1, <1>2, <1>3, <1>6 DEF msg

-----------------------------------------------------------------------------
(* Types, and what fork tables hold.                                       *)

LEMMA NetInit == Init => NetInv
<1> SUFFICES ASSUME Init PROVE NetInv
    OBVIOUS
<1>1. [EmptyTable EXCEPT ![1] = Genesis] \in Tables
    <2>1. 1 \in Index /\ Genesis \in Blocks
        BY BlocksAssumption DEF Index
    <2>2. QED
        BY <2>1 DEF EmptyTable, Tables
<1>2. /\ forks \in [Nodes -> 0 .. MaxForks] /\ faults \in 0 .. MaxFaults
    BY NetworkAssumption DEF Init
<1>3. outbox \in [Nodes -> Seq(Blocks)] /\ chan \in [Nodes -> [Nodes -> Seq(Msg)]]
    BY DEF Init
<1>4. TypeInv
    BY <1>1, <1>2, <1>3 DEF Init, TypeInv
<1>5. ForksOK /\ Waiting
    BY DEF Init, ForksOK, ForkRows, Waiting
<1>6. QED
    BY <1>4, <1>5 DEF NetInv

\* Nothing but handleBlock changes the fork tables.
LEMMA ForksStay ==
    ASSUME ForksOK, fork' = fork
    PROVE  ForksOK'
BY DEF ForksOK

LEMMA MineType ==
    ASSUME TypeInv, ForksOK, NEW n \in Nodes, NEW b \in Blocks, Mine(n, b)
    PROVE  TypeInv' /\ ForksOK'
<1>1. PICK o : RoomForFork(n, 0) /\ Outcome(main[n], o) /\ Store(n, 0, o)
    BY MineStores
<1>2. /\ main' \in [Nodes -> Tables] /\ fork' \in [Nodes -> [ForkIds -> SUBSET Sent]]
      /\ forks' \in [Nodes -> 0 .. MaxForks] /\ ForksOK'
    <2>1. 0 \in 0 .. MaxForks
        BY NetworkAssumption
    <2>2. QED
        BY <1>1, <2>1, StoreEffect
<1>3. outbox' = outbox \/ outbox' = [outbox EXCEPT ![n] = Append(outbox[n], b)]
    BY DEF Mine
<1>4. outbox' \in [Nodes -> Seq(Blocks)]
    <2>1. outbox \in [Nodes -> Seq(Blocks)] /\ Append(outbox[n], b) \in Seq(Blocks)
        BY DEF TypeInv
    <2>2. QED
        BY <1>3, <2>1
<1>5. found' \subseteq Blocks /\ apart' \in BOOLEAN /\ UNCHANGED <<base, asked, linked, chan, faults>>
    BY DEF Mine, TypeInv
<1>6. QED
    BY <1>2, <1>4, <1>5 DEF TypeInv

LEMMA BuildType ==
    ASSUME TypeInv, ForksOK, NEW n \in Nodes, Build(n)
    PROVE  TypeInv' /\ ForksOK'
<1>1. main[n][LastIndex(main[n])] \in Blocks
    <2>1. main[n] \in Tables /\ Held(main[n]) # {}
        BY DEF TypeInv, Build
    <2>2. Max(Held(main[n])) \in Held(main[n])
        BY <2>1, MaxIndexOf DEF Held
    <2>3. QED
        BY <2>1, <2>2 DEF LastIndex, Held, Tables
<1>2. QED
    BY <1>1, ForksStay DEF Build, TypeInv, nodeVars

LEMMA SendBlockKeeps ==
    ASSUME TypeInv, NEW n \in Nodes, SendBlock(n)
    PROVE  /\ chan' \in [Nodes -> [Nodes -> Seq(Msg)]]
           /\ \A p, q \in Nodes : \A x : In(x, chan[p][q]) => In(x, chan'[p][q])
<1> DEFINE msg == BlockMsg(Head(outbox[n]), 0)
<1>1. msg \in Msg /\ chan \in [Nodes -> [Nodes -> Seq(Msg)]]
    <2>1. Head(outbox[n]) \in Sent
        BY DEF SendBlock, TypeInv, Sent
    <2>2. QED
        BY <2>1, MessageTypes, NetworkAssumption, SMTT(60) DEF TypeInv
<1>2. chan' = [chan EXCEPT ![n] = [m \in Nodes |->
                   IF m \in Peers(n) THEN Append(chan[n][m], msg) ELSE chan[n][m]]]
    BY DEF SendBlock
<1> HIDE DEF msg
<1>3. ASSUME NEW p \in Nodes, NEW q \in Nodes
      PROVE  \E msgs \in Seq(Msg) : chan'[p][q] = chan[p][q] \o msgs
    <2>1. chan[p][q] \in Seq(Msg)
        BY <1>1
    <2>2. chan'[p][q] = chan[p][q] \/ chan'[p][q] = Append(chan[p][q], msg)
        BY <1>1, <1>2
    <2>3. chan[p][q] \o <<>> = chan[p][q] /\ chan[p][q] \o <<msg>> = Append(chan[p][q], msg)
        BY <1>1, <2>1
    <2>4. <<>> \in Seq(Msg) /\ <<msg>> \in Seq(Msg)
        BY <1>1
    <2>5. QED
        BY <2>2, <2>3, <2>4
<1>4. chan' = [p \in Nodes |-> [q \in Nodes |-> chan'[p][q]]]
    BY <1>1, <1>2
<1>5. QED
    BY <1>1, <1>3, <1>4, SendKeeps

LEMMA AskKeeps ==
    ASSUME TypeInv, NEW n \in Nodes, GetChainFromNetwork(n)
    PROVE  /\ chan' \in [Nodes -> [Nodes -> Seq(Msg)]]
           /\ \A p, q \in Nodes : \A x : In(x, chan[p][q]) => In(x, chan'[p][q])
<1>1. CASE chan' = chan
    BY <1>1 DEF TypeInv
<1>2. CASE \E m \in Peers(n) : Send(n, m, <<Request(0, 0)>>)
    <2>1. PICK m \in Nodes : chan' = [chan EXCEPT ![n][m] = chan[n][m] \o <<Request(0, 0)>>]
        BY <1>2 DEF Send, Peers
    <2>2. chan \in [Nodes -> [Nodes -> Seq(Msg)]] /\ <<Request(0, 0)>> \in Seq(Msg)
        BY MessageTypes, NetworkAssumption DEF TypeInv
    <2>3. ASSUME NEW p \in Nodes, NEW q \in Nodes
          PROVE  \E msgs \in Seq(Msg) : chan'[p][q] = chan[p][q] \o msgs
        <3>1. chan[p][q] \in Seq(Msg)
            BY <2>2
        <3>2. \/ chan'[p][q] = chan[p][q]
              \/ chan'[p][q] = chan[p][q] \o <<Request(0, 0)>>
            BY <2>1, <2>2
        <3>3. chan[p][q] \o <<>> = chan[p][q] /\ <<>> \in Seq(Msg)
            BY <3>1
        <3>4. QED
            BY <2>2, <3>2, <3>3
    <2>4. chan' = [p \in Nodes |-> [q \in Nodes |-> chan'[p][q]]]
        BY <2>1, <2>2
    <2>5. QED
        BY <2>2, <2>3, <2>4, SendKeeps
<1>3. QED
    BY <1>1, <1>2 DEF GetChainFromNetwork

LEMMA SendType ==
    ASSUME TypeInv, ForksOK, NEW n \in Nodes, SendBlock(n) \/ GetChainFromNetwork(n)
    PROVE  TypeInv' /\ ForksOK'
<1>1. chan' \in [Nodes -> [Nodes -> Seq(Msg)]]
    BY SendBlockKeeps, AskKeeps
<1>2. outbox' \in [Nodes -> Seq(Blocks)] /\ asked' \in [Nodes -> BOOLEAN]
    <2>1. outbox \in [Nodes -> Seq(Blocks)] /\ asked \in [Nodes -> BOOLEAN]
        BY DEF TypeInv
    <2>2. CASE SendBlock(n)
        <3>1. outbox' = [outbox EXCEPT ![n] = Tail(outbox[n])] /\ asked' = asked /\ outbox[n] # <<>>
            BY <2>2 DEF SendBlock
        <3>2. Tail(outbox[n]) \in Seq(Blocks)
            BY <2>1, <3>1
        <3>3. QED
            BY <2>1, <3>1, <3>2
    <2>3. CASE GetChainFromNetwork(n)
        BY <2>1, <2>3 DEF GetChainFromNetwork
    <2>4. QED
        BY <2>2, <2>3
<1>3. UNCHANGED <<nodeVars, base, found, linked, faults, apart>>
    BY DEF SendBlock, GetChainFromNetwork
<1>4. QED
    BY <1>1, <1>2, <1>3, ForksStay DEF TypeInv, nodeVars

\* A check cuts a chain off, or leaves it.
LEMMA CheckEffect ==
    ASSUME TypeInv, NEW n \in Nodes, CheckDatabase(n)
    PROVE  /\ main' \in [Nodes -> Tables]
           /\ \A p \in Nodes :
                \/ main'[p] = main[p]
                \/ \E k \in Index : main'[p] = [i \in Index |-> IF i >= k THEN NoRow ELSE main[p][i]]
<1>1. PICK bad \in SUBSET Index :
        main' = [main EXCEPT ![n] =
                    [i \in Index |-> IF \E j \in bad : j <= i THEN NoRow ELSE main[n][i]]]
    BY DEF CheckDatabase, BadRows, Held
<1>2. main[n] \in Tables
    BY DEF TypeInv
<1>3. main' \in [Nodes -> Tables]
    BY <1>1, <1>2 DEF TypeInv, Tables
<1>4. \A p \in Nodes \ {n} : main'[p] = main[p]
    BY <1>1 DEF TypeInv
<1>5. main'[n] = [i \in Index |-> IF \E j \in bad : j <= i THEN NoRow ELSE main[n][i]]
    BY <1>1 DEF TypeInv
<1>6. \/ main'[n] = main[n]
      \/ \E k \in Index : main'[n] = [i \in Index |-> IF i >= k THEN NoRow ELSE main[n][i]]
    <2> DEFINE c    == main[n]
               left == [i \in Index |-> IF \E j \in bad : j <= i THEN NoRow ELSE c[i]]
    <2>1. \/ left = c
          \/ \E k \in Index : left = [i \in Index |-> IF i >= k THEN NoRow ELSE c[i]]
        <3> HIDE DEF c
        <3>1. c \in Tables
            BY <1>2 DEF c
        <3>2. QED
            BY <3>1, CutFromLowest
    <2>2. main'[n] = left
        BY <1>5
    <2> HIDE DEF left
    <2>3. QED
        BY <2>1, <2>2
<1>7. QED
    BY <1>3, <1>4, <1>6

\* A message that is handled and answered keeps the types.
LEMMA HandleType ==
    ASSUME TypeInv, ForksOK, NEW n \in Nodes, NEW m \in Nodes, Handle(n, m)
    PROVE  TypeInv' /\ ForksOK'
<1>0. chan \in [Nodes -> [Nodes -> Seq(Msg)]]
    BY DEF TypeInv
<1>1. CASE HandleReceivedBlock(n, m)
    <2>1. PICK b, f, o :
            /\ b \in Sent /\ f \in 0 .. MaxForks
            /\ chan[m][n] # <<>> /\ RoomForFork(n, f) /\ Outcome(main[n], o) /\ Store(n, f, o)
            /\ o.result \in Int /\ Reply(n, m, Response(o, ForkId(n, f)))
        BY <1>1, ReceiveStores
    <2>2. ForkId(n, f) \in 0 .. MaxForks
        BY <2>1 DEF RoomForFork, ForkIds
    <2>3. chan' \in [Nodes -> [Nodes -> Seq(Msg)]]
        BY <1>0, <2>1, <2>2, ResponseType, ReplyKeeps
    <2>4. /\ main' \in [Nodes -> Tables] /\ fork' \in [Nodes -> [ForkIds -> SUBSET Sent]]
          /\ forks' \in [Nodes -> 0 .. MaxForks] /\ ForksOK'
        BY <2>1, StoreEffect
    <2>5. apart' \in BOOLEAN /\ UNCHANGED <<base, asked, found, outbox, linked, faults>>
        BY <1>1 DEF HandleReceivedBlock, TypeInv
    <2>6. QED
        BY <2>3, <2>4, <2>5 DEF TypeInv
<1>2. CASE SendBlockResponse(n, m)
    <2>1. PICK msg \in {Head(chan[m][n])} : \E b \in Answers(n, msg.index) :
            Reply(n, m, <<BlockMsg(b, msg.fork)>>)
        BY <1>2 DEF SendBlockResponse
    <2>2. PICK b \in Answers(n, msg.index) : Reply(n, m, <<BlockMsg(b, msg.fork)>>)
        BY <2>1
    <2>3. chan[m][n] # <<>> /\ msg \in Msg /\ msg.kind = "request"
        BY <1>2, <2>1 DEF SendBlockResponse, Incoming, TypeInv
    <2>4. b \in Sent
        BY <2>2 DEF Answers, TypeInv, Held, Tables, Sent
    <2>5. <<BlockMsg(b, msg.fork)>> \in Seq(Msg)
        BY <2>3, <2>4, HeadTypes, MessageTypes
    <2>6. chan' \in [Nodes -> [Nodes -> Seq(Msg)]]
        BY <1>0, <2>2, <2>3, <2>5, ReplyKeeps
    <2>7. QED
        BY <1>2, <2>6, ForksStay DEF SendBlockResponse, TypeInv, nodeVars
<1>3. CASE HandleCheck(n, m)
    <2>1. /\ chan[m][n] # <<>> /\ Reply(n, m, <<>>) /\ <<>> \in Seq(Msg) /\ CheckDatabase(n)
          /\ UNCHANGED <<base, asked, found, outbox, linked, faults>>
        BY <1>3 DEF HandleCheck, Incoming
    <2>2. chan' \in [Nodes -> [Nodes -> Seq(Msg)]]
        BY <1>0, <2>1, ReplyKeeps
    <2>3. main' \in [Nodes -> Tables]
        BY <2>1, CheckEffect
    <2>4. apart' \in BOOLEAN /\ fork' = fork /\ forks' = forks
        BY <2>1 DEF CheckDatabase, TypeInv
    <2>5. QED
        BY <2>1, <2>2, <2>3, <2>4, ForksStay DEF TypeInv
<1>4. QED
    BY <1>1, <1>2, <1>3 DEF Handle

LEMMA LinkType ==
    ASSUME TypeInv, ForksOK,
           \/ \E p \in Pairs : Connect(p) \/ Disconnect(p)
           \/ \E n \in Nodes : Restart(n)
    PROVE  TypeInv' /\ ForksOK'
<1>1. \A gone : Emptied(gone) \in [Nodes -> [Nodes -> Seq(Msg)]]
    BY DEF Emptied, TypeInv
<1>2. faults < MaxFaults => faults + 1 \in 0 .. MaxFaults
    BY NetworkAssumption DEF TypeInv
<1>3. CASE \E p \in Pairs : Connect(p) \/ Disconnect(p)
    BY <1>1, <1>2, <1>3, ForksStay DEF Connect, Disconnect, TypeInv, nodeVars
<1>4. ASSUME NEW n \in Nodes, Restart(n) PROVE TypeInv' /\ ForksOK'
    <2>1. 1 \in Index /\ Genesis \in Blocks
        BY BlocksAssumption DEF Index
    <2>2. main' \in [Nodes -> Tables]
        BY <1>4, <2>1 DEF Restart, TypeInv, Tables
    <2>3. /\ linked' \subseteq Pairs /\ outbox' \in [Nodes -> Seq(Blocks)]
          /\ base' \in [Nodes -> Blocks \cup {NoRow}] /\ asked' \in [Nodes -> BOOLEAN]
        BY <1>4 DEF Restart, TypeInv
    <2>4. chan' \in [Nodes -> [Nodes -> Seq(Msg)]] /\ faults' \in 0 .. MaxFaults
          /\ apart' \in BOOLEAN /\ UNCHANGED <<fork, forks, found>>
        BY <1>1, <1>2, <1>4 DEF Restart
    <2>5. QED
        BY <2>2, <2>3, <2>4, ForksStay DEF TypeInv
<1>5. QED
    BY <1>3, <1>4

LEMMA TypeNext ==
    ASSUME TypeInv, ForksOK, [Next]_vars
    PROVE  TypeInv' /\ ForksOK'
<1>1. CASE Next
    BY <1>1, MineType, BuildType, SendType, HandleType, LinkType DEF Next
<1>2. CASE UNCHANGED vars
    BY <1>2, ForksStay DEF vars, nodeVars, TypeInv
<1>3. QED
    BY <1>1, <1>2

-----------------------------------------------------------------------------
(* What a fork table waits for.                                            *)

LEMMA WaitsKept ==
    ASSUME NEW p \in Nodes, NEW g \in ForkIds, Waits(p, g),
           \A r, q \in Nodes : \A x : In(x, chan[r][q]) => In(x, chan'[r][q])
    PROVE  Waits(p, g)'
BY DEF Waits

\* What n handles of m takes nothing but the first message off.
TakesHead(n, m) ==
    \A r, q \in Nodes : \A x :
        In(x, chan[r][q]) => In(x, chan'[r][q]) \/ (r = m /\ q = n /\ x = Head(chan[m][n]))

\* The first message that m has sent to n is one that p's fork g waits for.
Answered(n, m, p, g) ==
    \/ p = m /\ \E i \in Nat : Head(chan[m][n]) = Request(i, g)
    \/ p = n /\ \E b \in Sent : Head(chan[m][n]) = BlockMsg(b, g)

\* A fork table waits until it is answered.
LEMMA WaitsWhileReplying ==
    ASSUME NEW n \in Nodes, NEW m \in Nodes, TakesHead(n, m),
           NEW p \in Nodes, NEW g \in ForkIds, Waits(p, g), ~ Answered(n, m, p, g)
    PROVE  Waits(p, g)'
<1>1. PICK q \in Nodes : \/ \E i \in Nat : In(Request(i, g), chan[p][q])
                         \/ \E b \in Sent : In(BlockMsg(b, g), chan[q][p])
    BY DEF Waits
<1>2. \/ \E i \in Nat : In(Request(i, g), chan'[p][q])
      \/ \E b \in Sent : In(BlockMsg(b, g), chan'[q][p])
    <2>1. ASSUME NEW i \in Nat, In(Request(i, g), chan[p][q]) PROVE In(Request(i, g), chan'[p][q])
        BY <2>1 DEF TakesHead, Answered
    <2>2. ASSUME NEW b \in Sent, In(BlockMsg(b, g), chan[q][p]) PROVE In(BlockMsg(b, g), chan'[q][p])
        BY <2>2 DEF TakesHead, Answered
    <2>3. QED
        BY <1>1, <2>1, <2>2
<1>3. QED
    BY <1>2 DEF Waits

\* What every fork table keeps, when none of them changes, and each waits as
\* before or counts as lost.
LEMMA WaitingKept ==
    ASSUME Waiting, lost \subseteq lost', fork' = fork,
           \A p \in Nodes, g \in ForkIds : Waits(p, g) => Waits(p, g)' \/ <<p, g>> \in lost'
    PROVE  Waiting'
BY DEF Waiting

LEMMA WaitingMine ==
    ASSUME TypeInv, ForksOK, Waiting, NEW n \in Nodes, NEW b \in Blocks, Mine(n, b)
    PROVE  Waiting'
<1>1. PICK o : /\ RoomForFork(n, 0) /\ Outcome(main[n], o) /\ Store(n, 0, o)
               /\ <<n, ForkId(n, 0)>> \in lost' \/ o.fork = {} \/ ReachesGenesis(o.fork)
    BY MineStores
<1>2. \A p \in Nodes, g \in ForkIds :
        fork'[p][g] = IF p = n /\ g = ForkId(n, 0) THEN o.fork ELSE fork[p][g]
    <2>1. 0 \in 0 .. MaxForks
        BY NetworkAssumption
    <2>2. QED
        BY <1>1, <2>1, StoreEffect
<1>3. chan' = chan /\ lost \subseteq lost'
    BY DEF Mine
<1>4. \A p \in Nodes, g \in ForkIds : Waits(p, g) => Waits(p, g)'
    BY <1>3 DEF Waits
<1>5. QED
    BY <1>1, <1>2, <1>3, <1>4 DEF Waiting

LEMMA WaitingReceive ==
    ASSUME TypeInv, ForksOK, Waiting, NEW n \in Nodes, NEW m \in Nodes, HandleReceivedBlock(n, m)
    PROVE  Waiting'
<1>1. PICK b, f, o :
        /\ b \in Sent /\ f \in 0 .. MaxForks
        /\ chan[m][n] # <<>> /\ Head(chan[m][n]) = BlockMsg(b, f)
        /\ RoomForFork(n, f) /\ Outcome(main[n], o) /\ Store(n, f, o)
        /\ o.result \in Int /\ Reply(n, m, Response(o, ForkId(n, f)))
        /\ o.fork # {} => o.result > 0 \/ ReachesGenesis(o.fork)
    BY ReceiveStores
<1>0. PICK id, msgs : id = ForkId(n, f) /\ msgs = Response(o, id)
    OBVIOUS
<1>2. id \in ForkIds /\ id \in 0 .. MaxForks /\ (f = 0 \/ id = f)
    BY <1>0, <1>1 DEF RoomForFork, ForkIds, ForkId
<1>3. \A p \in Nodes, g \in ForkIds :
        fork'[p][g] = IF p = n /\ g = id THEN o.fork ELSE fork[p][g]
    BY <1>0, <1>1, StoreEffect
<1>4. chan \in [Nodes -> [Nodes -> Seq(Msg)]] /\ lost' = lost
    BY DEF TypeInv, HandleReceivedBlock
<1>5. /\ msgs \in Seq(Msg) /\ Reply(n, m, msgs)
      /\ o.result > 0 => o.result \in Nat /\ In(Request(o.result, id), msgs)
    BY <1>0, <1>1, <1>2, ResponseType
<1>6. /\ \A x : In(x, msgs) => In(x, chan'[n][m])
      /\ TakesHead(n, m)
    BY <1>1, <1>4, <1>5, ReplyKeeps DEF TakesHead
<1>7. o.fork # {} => ReachesGenesis(o.fork) \/ Waits(n, id)'
    BY <1>1, <1>2, <1>5, <1>6 DEF Waits
<1>8. ASSUME NEW p \in Nodes, NEW g \in ForkIds, ~ (p = n /\ g = id), Waits(p, g)
      PROVE  Waits(p, g)'
    <2>1. g # 0
        BY DEF ForkIds
    <2>2. ~ Answered(n, m, p, g)
        BY <1>1, <1>2, <1>8, <2>1, Kinds DEF Answered
    <2>3. QED
        BY <1>6, <1>8, <2>2, WaitsWhileReplying
<1>9. QED
    BY <1>3, <1>4, <1>7, <1>8 DEF Waiting

LEMMA WaitingAnswer ==
    ASSUME TypeInv, Waiting, NEW n \in Nodes, NEW m \in Nodes, SendBlockResponse(n, m)
    PROVE  Waiting'
<1>1. PICK msg \in {Head(chan[m][n])} : \E b \in Answers(n, msg.index) :
        Reply(n, m, <<BlockMsg(b, msg.fork)>>)
    BY DEF SendBlockResponse
<1>2. PICK b \in Answers(n, msg.index) : Reply(n, m, <<BlockMsg(b, msg.fork)>>)
    BY <1>1
<1>3. chan[m][n] # <<>> /\ msg \in Msg /\ msg.kind = "request"
    BY <1>1 DEF SendBlockResponse, Incoming, TypeInv
<1>4. b \in Sent
    BY <1>2 DEF Answers, TypeInv, Held, Tables, Sent
<1>0. PICK answer : answer = BlockMsg(b, msg.fork)
    OBVIOUS
<1>5. <<answer>> \in Seq(Msg) /\ In(answer, <<answer>>) /\ msg = Request(msg.index, msg.fork)
    BY <1>0, <1>3, <1>4, HeadTypes, MessageTypes DEF In
<1>6. chan \in [Nodes -> [Nodes -> Seq(Msg)]] /\ fork' = fork /\ lost' = lost
    BY DEF TypeInv, SendBlockResponse, nodeVars
<1>7. /\ In(answer, chan'[n][m])
      /\ TakesHead(n, m)
    BY <1>0, <1>2, <1>3, <1>5, <1>6, ReplyKeeps DEF TakesHead
<1>8. ASSUME NEW p \in Nodes, NEW g \in ForkIds, Waits(p, g)
      PROVE  Waits(p, g)'
    <2>1. CASE p = m /\ msg.fork = g
        BY <1>0, <1>4, <1>7, <2>1 DEF Waits
    <2>2. CASE ~ (p = m /\ msg.fork = g)
        <3>1. ~ Answered(n, m, p, g)
            BY <1>1, <1>3, <2>2, Kinds DEF Answered
        <3>2. QED
            BY <1>7, <1>8, <3>1, WaitsWhileReplying
    <2>3. QED
        BY <2>1, <2>2
<1>9. QED
    BY <1>6, <1>8, WaitingKept

LEMMA WaitingCheck ==
    ASSUME TypeInv, Waiting, NEW n \in Nodes, NEW m \in Nodes, HandleCheck(n, m)
    PROVE  Waiting'
<1>1. /\ chan[m][n] # <<>> /\ Head(chan[m][n]).kind = "check"
      /\ Reply(n, m, <<>>) /\ <<>> \in Seq(Msg)
    BY DEF HandleCheck, Incoming
<1>2. chan \in [Nodes -> [Nodes -> Seq(Msg)]] /\ fork' = fork /\ lost' = lost
    BY DEF TypeInv, HandleCheck, CheckDatabase
<1>3. TakesHead(n, m)
    BY <1>1, <1>2, ReplyKeeps DEF TakesHead
<1>4. ASSUME NEW p \in Nodes, NEW g \in ForkIds, Waits(p, g)
      PROVE  Waits(p, g)'
    <2>1. ~ Answered(n, m, p, g)
        BY <1>1, Kinds DEF Answered
    <2>2. QED
        BY <1>3, <1>4, <2>1, WaitsWhileReplying
<1>5. QED
    BY <1>2, <1>4, WaitingKept

\* A fork whose request or answer goes with a connection counts as lost.
LEMMA WaitingLost ==
    ASSUME TypeInv, Waiting, NEW gone, chan' = Emptied(gone), fork' = fork,
           lost' = lost \cup Underway(gone)
    PROVE  Waiting'
<1>1. ASSUME NEW p \in Nodes, NEW g \in ForkIds, Waits(p, g), <<p, g>> \notin Underway(gone)
      PROVE  Waits(p, g)'
    <2>1. PICK m \in Nodes : \/ \E i \in Nat : In(Request(i, g), chan[p][m])
                             \/ \E b \in Sent : In(BlockMsg(b, g), chan[m][p])
        BY <1>1 DEF Waits
    <2>2. /\ DOMAIN chan[p][m] = 1 .. Len(chan[p][m])
          /\ DOMAIN chan[m][p] = 1 .. Len(chan[m][p])
        BY DEF TypeInv
    <2>3. {p, m} \notin gone
        <3>1. ASSUME NEW i \in Nat, In(Request(i, g), chan[p][m])
              PROVE  \E j \in DOMAIN chan[p][m] :
                        chan[p][m][j].kind = "request" /\ chan[p][m][j].fork = g
            BY <2>2, <3>1, Kinds DEF In
        <3>2. ASSUME NEW b \in Sent, In(BlockMsg(b, g), chan[m][p])
              PROVE  \E j \in DOMAIN chan[m][p] :
                        chan[m][p][j].kind = "block" /\ chan[m][p][j].fork = g
            BY <2>2, <3>2, Kinds DEF In
        <3>3. <<p, g>> \in Nodes \X ForkIds /\ <<p, g>>[1] = p /\ <<p, g>>[2] = g
            OBVIOUS
        <3>4. ~ (/\ {p, m} \in gone
                 /\ \/ \E j \in DOMAIN chan[p][m] :
                          chan[p][m][j].kind = "request" /\ chan[p][m][j].fork = g
                    \/ \E j \in DOMAIN chan[m][p] :
                          chan[m][p][j].kind = "block" /\ chan[m][p][j].fork = g)
            BY <1>1, <3>3 DEF Underway
        <3>5. QED
            BY <2>1, <3>1, <3>2, <3>4
    <2>4. {m, p} = {p, m}
        OBVIOUS
    <2>5. chan'[p][m] = chan[p][m] /\ chan'[m][p] = chan[m][p]
        BY <2>3, <2>4 DEF Emptied
    <2>6. QED
        BY <2>1, <2>5 DEF Waits
<1>2. QED
    BY <1>1, WaitingKept

LEMMA WaitingNext ==
    ASSUME TypeInv, ForksOK, Waiting, [Next]_vars
    PROVE  Waiting'
<1>1. CASE \E n \in Nodes, b \in Blocks : Mine(n, b)
    BY <1>1, WaitingMine
<1>2. ASSUME NEW n \in Nodes, Build(n) \/ UNCHANGED vars
      PROVE  Waiting'
    <2>1. chan' = chan /\ fork' = fork /\ lost' = lost
        BY <1>2 DEF Build, vars, nodeVars
    <2>2. QED
        BY <2>1 DEF Waiting, Waits
<1>3. ASSUME NEW n \in Nodes, SendBlock(n) \/ GetChainFromNetwork(n)
      PROVE  Waiting'
    <2>1. \A r, q \in Nodes : \A x : In(x, chan[r][q]) => In(x, chan'[r][q])
        BY <1>3, SendBlockKeeps, AskKeeps
    <2>2. fork' = fork /\ lost' = lost
        BY <1>3 DEF SendBlock, GetChainFromNetwork, nodeVars
    <2>3. QED
        BY <2>1, <2>2, WaitsKept, WaitingKept
<1>4. ASSUME NEW n \in Nodes, NEW m \in Nodes, Handle(n, m)
      PROVE  Waiting'
    BY <1>4, WaitingReceive, WaitingAnswer, WaitingCheck DEF Handle
<1>5. CASE \E p \in Pairs : Connect(p)
    <2>1. chan' = chan /\ fork' = fork /\ lost' = lost
        BY <1>5 DEF Connect, nodeVars
    <2>2. QED
        BY <2>1 DEF Waiting, Waits
<1>6. CASE (\E n \in Nodes : Restart(n)) \/ (\E p \in Pairs : Disconnect(p))
    <2>1. ASSUME NEW n \in Nodes, Restart(n) PROVE Waiting'
        <3>1. PICK gone : /\ chan' = Emptied(gone) /\ fork' = fork
                          /\ lost' = lost \cup Underway(gone)
            BY <2>1 DEF Restart
        <3>2. QED
            BY <3>1, WaitingLost
    <2>2. ASSUME NEW p \in Pairs, Disconnect(p) PROVE Waiting'
        <3>1. chan' = Emptied({p}) /\ fork' = fork /\ lost' = lost \cup Underway({p})
            BY <2>2 DEF Disconnect, nodeVars
        <3>2. QED
            BY <3>1, WaitingLost
    <2>3. QED
        BY <1>6, <2>1, <2>2
<1>7. CASE UNCHANGED vars
    BY <1>7 DEF vars, nodeVars, Waiting, Waits
<1>8. QED
    BY <1>1, <1>2, <1>3, <1>4, <1>5, <1>6, <1>7 DEF Next

\* NetInv holds of every step, and so of every state.
LEMMA NetNext == NetInv /\ [Next]_vars => NetInv'
BY TypeNext, WaitingNext DEF NetInv

LEMMA NetCorrect == Spec => []NetInv
<1>1. QED
    BY NetInit, NetNext, PTL DEF Spec

\* Whatever connections are lost, nodes stopped and chains cut off: when every
\* message is answered, a fork table that is left holds a block of index 1, or
\* it is one whose own request or answer was lost, or which the miner left.
\* handleReceivedBlock never stops asking for a fork that it keeps.
THEOREM NoForkLeftAlways == Spec => []NoForkLeft
<1>1. NetInv => NoForkLeft
    <2> SUFFICES ASSUME NetInv, Quiet, NEW n \in Nodes, NEW f \in ForkIds,
                        fork[n][f] # {}, <<n, f>> \notin lost
                 PROVE  FirstIndex(fork[n][f]) = 1
        BY DEF NoForkLeft
    <2>1. \A p, q \in Nodes : \A x : ~ In(x, chan[p][q])
        BY DEF Quiet, In
    <2>2. ~ Waits(n, f)
        BY <2>1 DEF Waits
    <2>3. PICK b \in fork[n][f] : b.index = 1
        BY <2>2 DEF NetInv, Waiting, ReachesGenesis
    <2>4. \A d \in fork[n][f] : d.index \in Nat /\ 1 <= d.index
        BY SentFields DEF NetInv, TypeInv, ForksOK, ForkRows
    <2> DEFINE S == {d.index : d \in fork[n][f]}
    <2>5. 1 \in S /\ \A i \in S : 1 <= i /\ i \in Nat
        BY <2>3, <2>4
    <2> HIDE DEF S
    <2>6. Min(S) = 1
        <3>1. Min(S) = CHOOSE i \in S : \A j \in S : i <= j
            BY DEF Min
        <3>2. \A i \in S : (\A j \in S : i <= j) => i = 1
            BY <2>5
        <3>3. QED
            BY <2>5, <3>1, <3>2
    <2>7. QED
        BY <2>6 DEF FirstIndex, S
<1>2. QED
    BY <1>1, NetCorrect, PTL

-----------------------------------------------------------------------------
(* Each chain is the chain of LuckyChain.                                  *)

LEMMA SameTables ==
    ASSUME NEW n
    PROVE  /\ Chain(n)!EmptyTable = EmptyTable /\ Chain(n)!Index = Index
           /\ \A c, s : Chain(n)!Overlay(c, s) = Overlay(c, s)
           /\ \A c, i : Chain(n)!HashAt(c, i) = HashAt(c, i)
           /\ \A c : Chain(n)!Held(c) = Held(c)
           /\ \A b : Chain(n)!ProofCertificate(b) = ProofCertificate(b)
           /\ \A s : Chain(n)!FirstIndex(s) = FirstIndex(s)
<1>1. Chain(n)!Index = Index
    BY DEF Chain!Index, Index
<1>2. \A c : Chain(n)!Held(c) = Held(c)
    BY <1>1 DEF Chain!Held, Held
<1>3. \A c, i : Chain(n)!HashAt(c, i) = HashAt(c, i)
    BY <1>2 DEF Chain!HashAt, HashAt, Chain!NoHash, NoHash
<1>4. \A c, s : Chain(n)!Overlay(c, s) = Overlay(c, s)
    BY <1>1 DEF Chain!Overlay, Overlay
<1>5. \A s : Chain(n)!FirstIndex(s) = FirstIndex(s)
    BY DEF Chain!FirstIndex, FirstIndex, Chain!Min, Min
<1>6. Chain(n)!EmptyTable = EmptyTable
    BY <1>1 DEF Chain!EmptyTable, EmptyTable
<1>7. QED
    BY <1>1, <1>2, <1>3, <1>4, <1>5, <1>6 DEF Chain!ProofCertificate, ProofCertificate, Chain!NoHash, NoHash

LEMMA SameLuck ==
    ASSUME NEW n
    PROVE  \A c, s, f : Chain(n)!IsLuckierChain(c, s, f) = IsLuckierChain(c, s, f)
<1>1. \A s : Chain(n)!LuckOf(s) = LuckOf(s)
    BY DEF Chain!LuckOf, LuckOf, MapThenSumSet, Chain!MapThenSumSet, MapThenFoldSet,
           Chain!MapThenFoldSet
<1>2. \A c, i : Chain(n)!LuckFrom(c, i) = LuckFrom(c, i)
    BY <1>1, SameTables DEF Chain!LuckFrom, LuckFrom
<1>3. QED
    BY <1>1, <1>2, SameTables DEF Chain!IsLuckierChain, IsLuckierChain

\* The steps of LuckyChain, from one table to another.
ChainStep(c, d) ==
    \/ \E s \in SUBSET Blocks : Adopts(c, s, d)
    \/ \E i \in Index : d = [j \in Index |-> IF j >= i THEN NoRow ELSE c[j]]
    \/ c = EmptyTable /\ d = [EmptyTable EXCEPT ![1] = Genesis]

LEMMA ChainStepIsNext ==
    ASSUME NEW n \in Nodes, ChainStep(main[n], main'[n])
    PROVE  Chain(n)!ChainNext
<1>1. ASSUME NEW s \in SUBSET Blocks, Adopts(main[n], s, main'[n])
      PROVE  Chain(n)!Adopt(s)
    <2>1. Chain(n)!Extends(main[n], s)
        BY <1>1, SameTables DEF Chain!Extends, Adopts
    <2>2. Chain(n)!IsLuckierChain(main[n], s, Chain(n)!Overlay(Chain(n)!EmptyTable, s))
        BY <1>1, SameTables, SameLuck DEF Adopts
    <2>3. main'[n] = Chain(n)!Overlay(main[n], s)
        BY <1>1, SameTables DEF Adopts
    <2>4. /\ s # {} /\ \A a, b \in s : a.index = b.index => a = b
          /\ \A b \in s : b.content /\ Chain(n)!ProofCertificate(b)
        BY <1>1, SameTables DEF Adopts
    <2>5. QED
        BY <2>1, <2>2, <2>3, <2>4 DEF Chain!Adopt
<1>2. ASSUME NEW i \in Index, main'[n] = [j \in Index |-> IF j >= i THEN NoRow ELSE main[n][j]]
      PROVE  Chain(n)!Cut(i)
    BY <1>2, SameTables DEF Chain!Cut
<1>3. ASSUME main[n] = EmptyTable, main'[n] = [EmptyTable EXCEPT ![1] = Genesis]
      PROVE  Chain(n)!StartAnew
    BY <1>3, SameTables DEF Chain!StartAnew
<1>4. Chain(n)!Index = Index
    BY SameTables
<1>5. QED
    BY <1>1, <1>2, <1>3, <1>4 DEF ChainStep, Chain!ChainNext

\* Every chain that a step of the nodes changes makes a step of its own.
LEMMA ChainsStep ==
    ASSUME TypeInv, ForksOK, [Next]_vars, NEW p \in Nodes, main'[p] # main[p]
    PROVE  ChainStep(main[p], main'[p])
<1>1. ASSUME NEW n \in Nodes, NEW f \in 0 .. MaxForks, NEW o,
             RoomForFork(n, f), Outcome(main[n], o), Store(n, f, o)
      PROVE  ChainStep(main[p], main'[p])
    <2>1. main'[p] = IF p = n THEN o.chain ELSE main[p]
        BY <1>1, StoreEffect
    <2>2. p = n /\ main'[p] = o.chain /\ o.chain # main[n]
        BY <2>1
    <2>3. QED
        BY <1>1, <2>2 DEF Outcome, ChainStep
<1>2. CASE \E n \in Nodes, b \in Blocks : Mine(n, b)
    <2>1. 0 \in 0 .. MaxForks
        BY NetworkAssumption
    <2>2. QED
        BY <1>1, <1>2, <2>1, MineStores
<1>3. ASSUME NEW n \in Nodes, NEW m \in Nodes, HandleReceivedBlock(n, m)
      PROVE  ChainStep(main[p], main'[p])
    BY <1>1, <1>3, ReceiveStores
<1>4. ASSUME NEW n \in Nodes, NEW m \in Nodes, HandleCheck(n, m)
      PROVE  ChainStep(main[p], main'[p])
    BY <1>4, CheckEffect DEF HandleCheck, ChainStep
<1>5. ASSUME NEW n \in Nodes, Restart(n)
      PROVE  ChainStep(main[p], main'[p])
    <2>1. main \in [Nodes -> Tables]
        BY DEF TypeInv
    <2>2. Held(main[n]) = {} /\ main' = [main EXCEPT ![n][1] = Genesis]
        BY <1>5 DEF Restart
    <2>3. p = n /\ main'[p] = [main[p] EXCEPT ![1] = Genesis]
        BY <2>1, <2>2
    <2>4. main[p] = EmptyTable
        BY <2>1, <2>2, <2>3 DEF Held, Tables, EmptyTable
    <2>5. QED
        BY <2>3, <2>4 DEF ChainStep
<1>6. QED
    <2>1. \/ \E n \in Nodes : Build(n) \/ SendBlock(n) \/ GetChainFromNetwork(n)
          \/ \E n, m \in Nodes : SendBlockResponse(n, m)
          \/ \E q \in Pairs : Connect(q) \/ Disconnect(q)
          \/ UNCHANGED vars
          => main' = main
        BY DEF Build, SendBlock, GetChainFromNetwork, SendBlockResponse, Connect, Disconnect,
               vars, nodeVars
    <2>2. QED
        BY <1>2, <1>3, <1>4, <1>5, <2>1 DEF Next, Handle

\* Whatever blocks the nodes exchange, in whatever order, and wherever they
\* are stopped and started again: each chain only takes over a whole valid
\* segment that is luckier than what it displaces, is cut off by a check, or
\* begins anew from nothing.
THEOREM NodesImplementLuckyChain == Spec => ImplementsLuckyChain
<1>1. Init => \A n \in Nodes : Chain(n)!ChainInit
    BY SameTables DEF Init, Chain!ChainInit
<1>2. NetInv /\ [Next]_vars =>
        [\A n \in Nodes : main'[n] # main[n] => Chain(n)!ChainNext]_main
    BY ChainsStep, ChainStepIsNext DEF NetInv
<1>3. QED
    BY <1>1, <1>2, NetCorrect, PTL DEF Spec, ImplementsLuckyChain
=============================================================================
