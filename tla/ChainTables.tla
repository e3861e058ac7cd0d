---------------------------- MODULE ChainTables ----------------------------
(***************************************************************************)
(* The block tables of a node and the pure questions the code asks of      *)
(* them: src/Database/database.cpp (table BLOCKCHAIN, tables FORK<id>) and *)
(* the checks of src/Chain/blockchain.cpp.                                 *)
(*                                                                         *)
(* A hash is a positive number, different for different blocks; the order  *)
(* of the numbers is the string order that breaks a tie of luck.  What     *)
(* verifyBlock decides from the block and its ancestors alone (merkle      *)
(* root, own hash, a later time than the parent, signatures, balances,     *)
(* inputs plus reward = outputs) is the flag "content"; what the enclave's *)
(* signature check says is the flag "cert".  MerkleTree of no transactions *)
(* is undefined: where verifyBlock gets to a row without any, the process  *)
(* may die, which is a crash like any other, or the row fails.             *)
(***************************************************************************)
EXTENDS FiniteSetsExt

CONSTANTS
    Tx,        \* transactions, coinbase transactions included
    Blocks,    \* every block that exists anywhere in the network
    Unset,     \* values of a Block() that getBlock returns without a row
    Genesis,   \* the block initializeChain appends
    NoRow,     \* "SELECT found no row"
    MaxIndex   \* bound: the highest block index

Index == 1 .. MaxIndex

\* The empty string.
NoHash == 0

BlockType ==
    [hash : Nat, index : Nat, prev : Nat, ln : Nat,
     txs : SUBSET Tx, content : BOOLEAN, cert : BOOLEAN]

\* A block that somebody has made.
Made(b) == b.hash # NoHash /\ b.prev # NoHash /\ b.index \in Index /\ b.txs # {}

\* Block(): no hash, no predecessor, no transactions, and so no hash that
\* verifyHash could find; its index and its luck are whatever was in memory.
IsUnset(b) ==
    /\ b.hash = NoHash /\ b.prev = NoHash /\ b.txs = {}
    /\ ~ b.content /\ ~ b.cert

ASSUME BlocksAssumption ==
    /\ MaxIndex \in Nat \ {0}
    /\ NoRow \notin Blocks \cup Unset
    /\ \A b \in Blocks : b \in BlockType /\ Made(b)
    /\ \A a, b \in Blocks : a.hash = b.hash => a = b
    /\ \A b \in Unset : b \in BlockType /\ IsUnset(b)
    /\ Genesis \in Blocks
    /\ Genesis.index = 1

\* What peers send, and what of it handleBlock is called with.  Bound: an
\* unset index is one that the tables have.  One below 1 is taken for the
\* start of the chain, as 1 is.
Sent == Blocks \cup Unset
Received == {b \in Sent : b.index \in Index}

\* A table of blocks, keyed by block index; a fork table takes what is received.
Tables == [Index -> Blocks \cup {NoRow}]
SentTables == [Index -> Received \cup {NoRow}]
EmptyTable == [i \in Index |-> NoRow]

Held(c) == {i \in Index : c[i] # NoRow}

RowsOf(c) == {c[i] : i \in Held(c)}

\* SELECT COALESCE(MAX(BLOCK_INDEX), 0)
LastIndex(c) == IF Held(c) = {} THEN 0 ELSE Max(Held(c))

HashAt(c, i) == IF i \in Held(c) THEN c[i].hash ELSE NoHash

\* The rows of c, with those of the block set s written over them.
Overlay(c, s) ==
    [i \in Index |-> IF \E b \in s : b.index = i
                     THEN CHOOSE b \in s : b.index = i
                     ELSE c[i]]

FirstIndex(s) == Min({b.index : b \in s})

LuckOf(s) == MapThenSumSet(LAMBDA b : b.ln, s)

\* Mutant of LuckFrom: the row at "start" itself is not counted.
LuckAbove(c, start) == LuckOf({c[i] : i \in {j \in Held(c) : j > start}})

\* The luck of the rows of c from index "start" on.
LuckFrom(c, start) == LuckOf({c[i] : i \in {j \in Held(c) : j >= start}})

\* Mutant of IsLuckierChain: a tie is not decided.
IsLuckierChainNoTie(c, s, f) == LuckFrom(c, FirstIndex(s)) < LuckOf(s)

(***************************************************************************)
(* isLuckierChain: the fork s, whose table is f, against the rows of c it  *)
(* would displace.  A tie is decided by the hashes of the two rows at the  *)
(* fork's first index; without a row there, the fork loses it.             *)
(***************************************************************************)
IsLuckierChain(c, s, f) ==
    LET start == FirstIndex(s)
        ours  == LuckFrom(c, start)
    IN  \/ ours < LuckOf(s)
        \/ /\ ours = LuckOf(s)
           /\ {start} \subseteq Held(c) \cap Held(f)
           /\ c[start].hash < f[start].hash

\* isLuckierBlock: a new block against the rows it would displace; no tie.
IsLuckierBlock(c, b) == LuckFrom(c, b.index) < b.ln

\* proofCertificate: the proof of a block of index 1, or of one without a
\* predecessor, is not checked.
ProofCertificate(b) == b.prev = NoHash \/ b.index = 1 \/ b.cert

\* Mutant of VerifyBlock: the previous hash is not compared.
VerifyBlockAlone(b, prevHash, earlier, low) ==
    /\ b.content
    /\ prevHash = NoHash => low
    /\ b.txs \cap earlier = {}
    /\ ProofCertificate(b)

(***************************************************************************)
(* verifyBlock, for a block b that is preceded by the row with hash        *)
(* prevHash and by the transactions in "earlier".  The time of a           *)
(* predecessor that has no row is not initialized: it may or may not be    *)
(* before the block's ("low").  Only index 1 comes that far without a      *)
(* predecessor.                                                            *)
(***************************************************************************)
VerifyBlock(b, prevHash, earlier, low) ==
    /\ b.content
    /\ b.index > 1 => b.prev = prevHash
    /\ prevHash = NoHash => low
    /\ b.txs \cap earlier = {}
    /\ ProofCertificate(b)

TxsBefore(r, i) == UNION {r[j] : j \in {k \in Index : k < i}}

\* Mutant of BadRows: the merkle root is not recomputed.
BadLinks(c, r, low) ==
    {i \in Held(c) : ~ VerifyBlock(c[i], HashAt(c, i - 1), TxsBefore(r, i), low)}

\* The loop of checkDatabase: the indexes whose row fails.  The merkle root
\* is recomputed from the stored transactions, so those must be the block's.
BadRows(c, r, low) ==
    {i \in Held(c) : ~ /\ r[i] = c[i].txs
                       /\ VerifyBlock(c[i], HashAt(c, i - 1), TxsBefore(r, i), low)}

\* Mutant of VerifyFork: only the fork's first row is verified.
VerifyForkFirst(c, r, f, low) ==
    LET first == Min(Held(f))
    IN  VerifyBlock(f[first], HashAt(c, first - 1), TxsBefore(r, first), low)

\* Mutant of VerifyFork: the first row, too, is compared with the fork.
VerifyForkInside(c, r, f, low) ==
    \A i \in Held(f) :
        VerifyBlock(f[i], HashAt(f, i - 1), TxsBefore(r, Min(Held(f))), low)

\* The loop of checkTempChain: every row of the fork f, the first one against
\* the main chain, the others against the fork.
VerifyFork(c, r, f, low) ==
    LET first == Min(Held(f))
        below == TxsBefore(r, first)
    IN  \A i \in Held(f) :
            VerifyBlock(f[i],
                        IF i = first THEN HashAt(c, i - 1) ELSE HashAt(f, i - 1),
                        below \cup UNION {f[j].txs : j \in {k \in Held(f) : k < i}},
                        low)

\* Every block has the block before it as its predecessor, down to index 1.
Linked(c) == \A i \in Held(c) : i > 1 => c[i].prev = HashAt(c, i - 1)

\* The last index of the part of c that is linked down to index 1: the
\* chain a peer that asks for it block by block would accept.
LinkedPart(c) ==
    {c[i] : i \in {j \in Held(c) :
        \A k \in 1 .. j : k \in Held(c) /\ (k > 1 => c[k].prev = HashAt(c, k - 1))}}
=============================================================================
