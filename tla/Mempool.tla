------------------------------ MODULE Mempool ------------------------------
(***************************************************************************)
(* The mempool of one node: newTransaction, mempoolUpdate and putTxInBlock *)
(* of src/Chain/blockchain.cpp, called by the Qt thread (payments and      *)
(* blocks of peers, the user's payments) and by the miner.  mempoolMutex   *)
(* is taken anew for each of newTransaction's two halves and for each      *)
(* payment that mempoolUpdate deletes; putTxInBlock keeps it for its loop, *)
(* while the chain may change under it.                                    *)
(*                                                                         *)
(* handleBlock comes in three parts: what it verifies and compares, the    *)
(* mempool, applyFork.  A block is its number and its payments; its        *)
(* coinbase transaction has the same number.  Every payer can pay twice    *)
(* (what a payer cannot pay is in Ledger).                                 *)
(***************************************************************************)
EXTENDS Integers, SequencesExt

CONSTANTS
    Payments,  \* payments, told apart by their hashes
    MaxCopies, \* bound: how often one arrives
    MaxBlocks, \* bound: blocks found after the genesis block
    MaxTxs     \* bound: payments in a block of a peer

ASSUME MempoolAssumption ==
    /\ Payments \cap Int = {}
    /\ MaxCopies \in Nat
    /\ MaxBlocks \in Nat
    /\ MaxTxs \in Nat

VARIABLES
    mempool, \* payments, and coinbase transactions of blocks that were displaced
    main,    \* the chain, from the genesis block on
    found,   \* blocks that any node has found
    arrived, \* per payment: how often it has arrived
    pc,      \* per thread: where it is
    hand,    \* per thread: what newTransaction has looked for
    fork,    \* per thread: the first index and the blocks of its fork
    adds,    \* per thread: what mempoolUpdate still has to put back
    dels,    \* per thread: what it still has to delete
    cursor,  \* putTxInBlock's position, 0 outside
    base,    \* the chain that the miner's block is built on
    trans,   \* its payments
    crossed, \* history: payments looked for while the other thread was adding them
    raced,   \* history: threads in handleBlock whose ground was changed by the other
    torn     \* history: such a thread has written its fork, or one has left rows above

poolVars == <<mempool, main, found, arrived>>
threadVars == <<pc, hand, fork, adds, dels>>
minerVars == <<cursor, base, trans>>
history == <<crossed, raced, torn>>
vars == <<poolVars, threadVars, minerVars, history>>

Threads == {"net", "miner"}
Other(t) == CHOOSE u \in Threads : u # t

Block(n, txs) == [n |-> n, txs |-> txs]
Genesis == Block(0, <<>>)
NoFork == [start |-> 0, blocks |-> <<>>]
Nobody == -1

\* All transactions of a row of blocks, coinbases included.
TxsOf(blocks) == FlattenSeq([i \in DOMAIN blocks |-> Append(blocks[i].txs, blocks[i].n)])

\* What a segment that starts at index "start" would displace.
From(start) == SubSeq(main, start, Len(main))
Below(start) == SubSeq(main, 1, start - 1)

Stored(e) == e \in ToSet(TxsOf(main))

Init ==
    /\ mempool = <<>>
    /\ main = <<Genesis>>
    /\ found = 0
    /\ arrived = [p \in Payments |-> 0]
    /\ pc = [t \in Threads |-> "idle"]
    /\ hand = [t \in Threads |-> Nobody]
    /\ fork = [t \in Threads |-> NoFork]
    /\ adds = [t \in Threads |-> <<>>]
    /\ dels = [t \in Threads |-> <<>>]
    /\ cursor = 0
    /\ base = <<>>
    /\ trans = <<>>
    /\ crossed = {}
    /\ raced = {}
    /\ torn = FALSE

\* Only putTxInBlock keeps mempoolMutex from one action to the next.
MutexFree == cursor = 0

-----------------------------------------------------------------------------
(* newTransaction.                                                         *)

\* Mutant of Look: nothing is looked for.
LookBlindly(t, e, back) ==
    /\ MutexFree
    /\ pc' = [pc EXCEPT ![t] = "push"]
    /\ hand' = [hand EXCEPT ![t] = e]
    /\ UNCHANGED <<crossed, mempool>>

\* checkDuplicateTransition: an entry with this hash ends the call.
Look(t, e, back) ==
    /\ MutexFree
    /\ UNCHANGED mempool
    /\ \/ /\ e \in ToSet(mempool)
          /\ pc' = [pc EXCEPT ![t] = back]
          /\ UNCHANGED <<hand, crossed>>
       \/ /\ e \notin ToSet(mempool)
          /\ pc' = [pc EXCEPT ![t] = "push"]
          /\ hand' = [hand EXCEPT ![t] = e]
          /\ crossed' = IF hand[Other(t)] = e THEN crossed \cup {e} ELSE crossed

\* push_back; the call was mempoolUpdate's if the thread is in handleBlock.
Push(t) ==
    /\ pc[t] = "push"
    /\ MutexFree
    /\ mempool' = Append(mempool, hand[t])
    /\ hand' = [hand EXCEPT ![t] = Nobody]
    /\ pc' = [pc EXCEPT ![t] = IF fork[t] = NoFork THEN "idle" ELSE "putback"]
    /\ UNCHANGED <<main, found, arrived, fork, adds, dels, minerVars, history>>

\* addReceivedTransaction, or the user's own payment.
Receive(p) ==
    /\ pc["net"] = "idle"
    /\ arrived[p] < MaxCopies
    /\ arrived' = [arrived EXCEPT ![p] = @ + 1]
    /\ Look("net", p, "idle")
    /\ UNCHANGED <<main, found, fork, adds, dels, minerVars, raced, torn>>

-----------------------------------------------------------------------------
(* handleBlock.                                                            *)

\* Mutant of Fits: only the chain is searched.
FitsChain(f) ==
    \A i \in DOMAIN f.blocks : \A p \in ToSet(f.blocks[i].txs) : p \notin ToSet(TxsOf(Below(f.start)))

\* verifyBlock's existsTransaction: no payment is in a lower block.
Fits(f) ==
    \A i \in DOMAIN f.blocks : \A p \in ToSet(f.blocks[i].txs) :
        p \notin ToSet(TxsOf(Below(f.start) \o SubSeq(f.blocks, 1, i - 1)))

\* checkTempChain finds a valid and luckier fork.
Verified(t, f) ==
    /\ pc[t] = "idle"
    /\ Fits(f)
    /\ fork' = [fork EXCEPT ![t] = f]
    /\ pc' = [pc EXCEPT ![t] = "update"]
    /\ raced' = raced \ {t}

PeerTxs == {s \in UNION {[1 .. k -> Payments] : k \in 0 .. MaxTxs} : IsInjective(s)}

\* A fork of one or two blocks of a peer, no shorter than what it displaces
\* (what a shorter one leaves is in NodeProperties).
HandleReceivedBlock(start, rows) ==
    /\ start <= Len(main) + 1
    /\ start + Len(rows) > Len(main)
    /\ found + Len(rows) <= MaxBlocks
    /\ found' = found + Len(rows)
    /\ Verified("net", [start |-> start, blocks |-> [i \in DOMAIN rows |-> Block(found + i, rows[i])]])
    /\ UNCHANGED <<mempool, main, arrived, hand, adds, dels, minerVars, crossed, torn>>

\* Mutant of ReadTransactions: the test for a coinbase is the wrong way round.
ReadCoinbases(t) ==
    /\ pc[t] = "update"
    /\ adds' = [adds EXCEPT ![t] = SelectSeq(TxsOf(From(fork[t].start)), LAMBDA e : e \notin Payments)]
    /\ dels' = [dels EXCEPT ![t] = TxsOf(fork[t].blocks)]
    /\ pc' = [pc EXCEPT ![t] = "putback"]
    /\ UNCHANGED <<poolVars, hand, fork, minerVars, history>>

\* mempoolUpdate reads what the fork displaces and what it brings.
ReadTransactions(t) ==
    /\ pc[t] = "update"
    /\ adds' = [adds EXCEPT ![t] = TxsOf(From(fork[t].start))]
    /\ dels' = [dels EXCEPT ![t] = TxsOf(fork[t].blocks)]
    /\ pc' = [pc EXCEPT ![t] = "putback"]
    /\ UNCHANGED <<poolVars, hand, fork, minerVars, history>>

PutBack(t) ==
    /\ pc[t] = "putback"
    /\ adds[t] # <<>>
    /\ Look(t, Head(adds[t]), "putback")
    /\ adds' = [adds EXCEPT ![t] = Tail(@)]
    /\ UNCHANGED <<main, found, arrived, fork, dels, minerVars, raced, torn>>

\* erase of the first entry with the hash, if there is one.
Without(s, e) == IF e \in ToSet(s) THEN RemoveFirst(s, e) ELSE s

Delete(t) ==
    /\ pc[t] = "putback" /\ adds[t] = <<>>
    /\ dels[t] # <<>>
    /\ MutexFree
    /\ mempool' = Without(mempool, Head(dels[t]))
    /\ dels' = [dels EXCEPT ![t] = Tail(@)]
    /\ UNCHANGED <<main, found, arrived, pc, hand, fork, adds, minerVars, history>>

InHandleBlock(t) == fork[t] # NoFork
Displaced(t) == IF InHandleBlock(t) THEN ToSet(TxsOf(From(fork[t].start))) ELSE {}

\* applyFork.
ApplyFork(t) ==
    /\ pc[t] = "putback" /\ adds[t] = <<>> /\ dels[t] = <<>>
    /\ LET rows == fork[t].blocks
           rest == From(fork[t].start + Len(rows))
       IN  /\ main' = Below(fork[t].start) \o rows \o rest
           /\ torn' = (torn \/ t \in raced \/ rest # <<>>)
    /\ pc' = [pc EXCEPT ![t] = "idle"]
    /\ fork' = [fork EXCEPT ![t] = NoFork]
    /\ raced' = {u \in {Other(t)} : InHandleBlock(u)}
    /\ UNCHANGED <<mempool, found, arrived, hand, adds, dels, minerVars, crossed>>

-----------------------------------------------------------------------------
(* The miner.                                                              *)

\* buildNewBlock: reads the latest block and enters putTxInBlock.
BuildNewBlock ==
    /\ pc["miner"] = "idle"
    /\ MutexFree
    /\ base' = main
    /\ trans' = <<>>
    /\ cursor' = 1
    /\ UNCHANGED <<poolVars, threadVars, history>>

\* Mutant of PutTxInBlock: the entry after one that is taken is skipped too.
PutTxInBlockSkips ==
    /\ cursor \in DOMAIN mempool
    /\ LET e == mempool[cursor]
       IN  \/ /\ e \in Payments /\ ~ Stored(e)
              /\ trans' = Append(trans, e)
              /\ cursor' = cursor + 2
              /\ UNCHANGED <<mempool, raced>>
           \/ /\ e \notin Payments \/ Stored(e)
              /\ mempool' = RemoveAt(mempool, cursor)
              /\ cursor' = cursor + 1
              /\ UNCHANGED <<trans, raced>>
    /\ UNCHANGED <<main, found, arrived, threadVars, base, crossed, torn>>

\* One round of the loop.  What is stored already, and what is no payment, is
\* erased, and the entry that takes its place is skipped.
PutTxInBlock ==
    /\ cursor \in DOMAIN mempool
    /\ LET e == mempool[cursor]
       IN  \/ /\ e \in Payments /\ ~ Stored(e)
              /\ trans' = Append(trans, e)
              /\ UNCHANGED <<mempool, raced>>
           \/ /\ e \notin Payments \/ Stored(e)
              /\ mempool' = RemoveAt(mempool, cursor)
              /\ raced' = raced \cup {t \in {"net"} : e \in Displaced(t)}
              /\ UNCHANGED trans
    /\ cursor' = cursor + 1
    /\ UNCHANGED <<main, found, arrived, threadVars, base, crossed, torn>>

PutTxInBlockEnds ==
    /\ cursor > Len(mempool)
    /\ cursor' = 0
    /\ UNCHANGED <<poolVars, threadVars, base, trans, history>>

\* The miner is lucky: its block, with its predecessor when that has left
\* the chain.
MinerHandlesBlock ==
    /\ base # <<>> /\ cursor = 0
    /\ found < MaxBlocks
    /\ found' = found + 1
    /\ LET end == Len(base)
           new == Block(found + 1, trans)
       IN  IF end <= Len(main) /\ main[end] = base[end]
           THEN Verified("miner", [start |-> end + 1, blocks |-> <<new>>])
           ELSE /\ end - 1 \in DOMAIN main /\ main[end - 1] = base[end - 1]
                /\ Verified("miner", [start |-> end, blocks |-> <<base[end], new>>])
    /\ UNCHANGED <<mempool, main, arrived, hand, adds, dels, minerVars, crossed, torn>>

-----------------------------------------------------------------------------

Step(t) == Push(t) \/ ReadTransactions(t) \/ PutBack(t) \/ Delete(t) \/ ApplyFork(t)
Scan == PutTxInBlock \/ PutTxInBlockEnds

Next ==
    \/ \E p \in Payments : Receive(p)
    \/ \E start \in 2 .. MaxBlocks + 1, rows \in UNION {[1 .. k -> PeerTxs] : k \in 1 .. 2} :
           HandleReceivedBlock(start, rows)
    \/ \E t \in Threads : Step(t)
    \/ BuildNewBlock \/ Scan \/ MinerHandlesBlock

\* Threads go on; the miner keeps building blocks, and nobody has to be lucky.
Fairness ==
    /\ \A t \in Threads : WF_vars(Step(t))
    /\ WF_vars(Scan)
    /\ WF_vars(BuildNewBlock)

Spec == Init /\ [][Next]_vars
FairSpec == Spec /\ Fairness

-----------------------------------------------------------------------------

\* Where a payment can be: in the mempool, in the chain, or on its way.
InMempool(p) == p \in ToSet(mempool)
OnItsWay(p) ==
    \E t \in Threads :
        \/ hand[t] = p
        \/ p \in ToSet(adds[t])
        \/ p \in ToSet(TxsOf(fork[t].blocks))
Present(p) == InMempool(p) \/ Stored(p) \/ OnItsWay(p)

\* mempoolUpdate puts displaced payments back before applyFork removes them:
\* a payment that has reached the node is lost only when the other thread
\* wrote the chain, or cleared the mempool, in the middle of a handleBlock.
NothingLost ==
    [][\A p \in Payments : Present(p) =>
            Present(p)' \/ \E t \in raced : fork[t] # NoFork /\ fork'[t] = NoFork]_vars

\* "check here if the transaction is in the currentTransactions already"
\* (blockchain.cpp:416): a payment is in the mempool twice only when both
\* threads looked for it before either added it.
ListedOnce == \A i, j \in DOMAIN mempool : i # j /\ mempool[i] = mempool[j] => mempool[i] \in crossed

Times(p) == Cardinality({i \in DOMAIN TxsOf(main) : TxsOf(main)[i] = p})

\* No payment is in the chain twice, unless it was in the mempool twice, or a
\* fork was written that had been verified against another chain, or that was
\* shorter than what it replaced.
PaidOnce == torn \/ \A p \in Payments : Times(p) > 1 => p \in crossed

\* Whatever putTxInBlock erases and skips, a payment in the mempool gets its
\* turn: it is taken into a block or it leaves the mempool.
Considered ==
    \A p \in Payments : InMempool(p) ~> (p \in ToSet(trans) \/ ~ InMempool(p))
=============================================================================
