------------------------------- MODULE Ledger -------------------------------
(***************************************************************************)
(* The money of the chain: how putTxInBlock (src/Chain/blockchain.cpp)     *)
(* makes the transactions of a new block out of the mempool, how           *)
(* verifyBlock accounts for that block, and the queries of                 *)
(* src/Database/database.cpp that both rest on.                            *)
(*                                                                         *)
(* One node, one block at a time: each block is verified as a fork of one  *)
(* block above the main chain, which is what handleBlock does with it.     *)
(* Signatures are valid and values positive.                               *)
(***************************************************************************)
EXTENDS SequencesExt

CONSTANTS
    Keys,        \* public keys
    Nobody,      \* the sender "" of a coinbase transaction
    Reward,      \* MINER_REWARD
    Values,      \* the values that users send
    MaxPayments, \* bound: payments ever made
    MaxHeight    \* bound: blocks ever stored

ASSUME LedgerAssumption ==
    /\ Nobody \notin Keys
    /\ Reward \in Nat \ {0}
    /\ Values \subseteq Nat \ {0}
    /\ MaxPayments \in Nat /\ MaxHeight \in Nat

VARIABLES
    ledger,  \* tables TRANSACTIONS and INPUT: rows with the hashes they spend
    height,  \* getLastBlockIndex
    mempool, \* the mempool, a sequence of payments
    paid     \* payments made so far

vars == <<ledger, height, mempool, paid>>

\* A hash: of a payment, or of the change or reward transaction of a block.
PaymentId(n)   == <<n>>
OwnId(b, k)    == <<b, k>>

Payment(n, k, to, v) == [id |-> PaymentId(n), from |-> k, to |-> to, value |-> v]
RowOf(p, b, in) ==
    [id |-> p.id, block |-> b, from |-> p.from, to |-> p.to, value |-> p.value, inputs |-> in]

SumValues(S) == MapThenSumSet(LAMBDA t : t.value, S)

-----------------------------------------------------------------------------
(* Queries.                                                                *)

\* getBalance of the main chain: what a key sends to itself does not count.
Balance(k) ==
    SumValues({t \in ledger : t.to = k /\ t.from # k})
        - SumValues({t \in ledger : t.from = k /\ t.to # k})

\* getBalance for a block in a fork: its UNION keeps one row of those that
\* agree in sender, block, recipient and value.
ForkBalance(k) ==
    LET tr == {[from |-> t.from, block |-> t.block, to |-> t.to, value |-> t.value] : t \in ledger}
    IN  SumValues({t \in tr : t.to = k /\ t.from # k})
            - SumValues({t \in tr : t.from = k /\ t.to # k})

Spent == UNION {t.inputs : t \in ledger}

\* Mutant of Unspent: the table INPUT is not asked.
UnspentOrSpent(k) == {t \in ledger : t.to = k}

\* getUTXO.
Unspent(k) == {t \in ledger : t.to = k /\ t.id \notin Spent}

\* The order of the rows: by block, in a block payments first.
Before(s, t) ==
    \/ s.block < t.block
    \/ s.block = t.block /\ Len(s.id) < Len(t.id)
    \/ s.block = t.block /\ Len(s.id) = 1 /\ Len(t.id) = 1 /\ s.id[1] < t.id[1]
    \/ s.block = t.block /\ Len(s.id) = 2 /\ s.from # Nobody /\ t.from = Nobody

\* Mutant of Stored: the last block is not searched.
StoredBelow(id) == \E t \in ledger : t.id = id /\ t.block < height

\* getTransactionValueByHash(...) # 0, and existsTransaction.
Stored(id) == \E t \in ledger : t.id = id

-----------------------------------------------------------------------------
(* putTxInBlock.                                                           *)

\* What the loop over the mempool keeps.  "changes" has one entry per key:
\* the money left of the outputs that the key's payments used.
Start == [rows |-> {}, used |-> {}, pool |-> <<>>, skip |-> FALSE,
          changes |-> [k \in Keys |-> [left |-> 0, input |-> {}]]]

NoChange == [left |-> 0, input |-> {}]

\* The outputs taken for a payment that needs v: one after the other in row
\* order until v is reached, those used already not counted but taken as well.
Taken(outputs, used, v) ==
    LET worth(S) == SumValues({t \in S : t.id \notin used})
        first    == {t \in outputs : worth({s \in outputs : Before(s, t)}) < v}
    IN  [sum   |-> worth(first),
         input |-> IF worth(first) < v THEN {} ELSE {t.id : t \in first}]

\* The block at the given index takes payment p with the inputs "in"; the
\* sender's entry in changes becomes "change".
Select(acc, p, in, change) ==
    [acc EXCEPT !.rows = @ \cup {RowOf(p, height + 1, in)},
                !.pool = Append(@, p),
                !.changes = [@ EXCEPT ![p.from] = change]]

\* Mutant of Consider: what is left of an output is not given back.
ConsiderKeepsChange(acc, p) ==
    LET change == acc.changes[p.from]
        taken  == Taken(Unspent(p.from), acc.used, p.value - change.left)
    IN  IF acc.skip \/ Stored(p.id)
        THEN [acc EXCEPT !.skip = ~ acc.skip, !.pool = IF acc.skip THEN Append(@, p) ELSE @]
        ELSE IF change.left + taken.sum < p.value THEN acc
        ELSE [Select(acc, p, taken.input, NoChange) EXCEPT !.used = @ \cup taken.input]

\* Mutant of Consider: a payment that cannot be covered erases the next one too.
ConsiderErasesNext(acc, p) ==
    LET change == acc.changes[p.from]
        taken  == Taken(Unspent(p.from), acc.used, p.value - change.left)
    IN  IF acc.skip THEN [acc EXCEPT !.skip = FALSE]
        ELSE IF Stored(p.id) THEN [acc EXCEPT !.skip = TRUE]
        ELSE IF change.left + taken.sum < p.value THEN acc
        ELSE [Select(acc, p, taken.input, NoChange) EXCEPT !.used = @ \cup taken.input]

(***************************************************************************)
(* One round of the loop.  A stored payment is erased without i--, so the  *)
(* next one is skipped and stays.  A payment that change covers takes the  *)
(* change's inputs.  Otherwise unspent outputs are added; when there was   *)
(* change as well, its inputs replace theirs (add_Input assigns), and they *)
(* are listed only if money is left for a change transaction.  A payment   *)
(* that cannot be covered is erased.                                       *)
(***************************************************************************)
Consider(acc, p) ==
    LET change == acc.changes[p.from]
        taken  == Taken(Unspent(p.from), acc.used, p.value - change.left)
        rest   == change.left + taken.sum - p.value
    IN  IF acc.skip
        THEN [acc EXCEPT !.skip = FALSE, !.pool = Append(@, p)]
        ELSE IF Stored(p.id)
        THEN [acc EXCEPT !.skip = TRUE]
        ELSE IF change.left >= p.value
        THEN Select(acc, p, change.input,
                    IF change.left = p.value THEN NoChange
                    ELSE [change EXCEPT !.left = @ - p.value])
        ELSE IF rest < 0
        THEN acc
        ELSE [Select(acc, p,
                     IF change.left > 0 THEN change.input ELSE taken.input,
                     IF rest = 0 THEN NoChange ELSE [left |-> rest, input |-> taken.input])
              EXCEPT !.used = @ \cup taken.input]

PutTxInBlock == FoldLeft(Consider, Start, mempool)

\* buildNewBlock for miner m: the payments, a change transaction for each
\* sender with money left, the reward.
BlockOf(selected, m) ==
    LET b == height + 1
        changeRow(k) == [id |-> OwnId(b, k), block |-> b, from |-> k, to |-> k,
                         value |-> selected.changes[k].left,
                         inputs |-> selected.changes[k].input]
    IN  selected.rows
        \cup {changeRow(k) : k \in {j \in Keys : selected.changes[j].left > 0}}
        \cup {[id |-> OwnId(b, Nobody), block |-> b, from |-> Nobody, to |-> m,
               value |-> Reward, inputs |-> {}]}

-----------------------------------------------------------------------------
(* verifyBlock.                                                            *)

\* getInputSumOfBlock: each output that the block spends counts once.
InputSum(block) ==
    SumValues({t \in ledger : t.id \in UNION {r.inputs : r \in block}})

InputsMatch(block) == InputSum(block) + Reward = SumValues(block)

PayersCovered(block) ==
    \A r \in block : r.from # Nobody => ForkBalance(r.from) >= r.value

\* What verifyBlock asks of the transactions of a block.
Accounted(block) ==
    /\ \A r \in block : ~ Stored(r.id)
    /\ PayersCovered(block)
    /\ InputsMatch(block)

-----------------------------------------------------------------------------

\* The genesis block rewards a key that nobody uses.
Init ==
    /\ ledger = {[id |-> OwnId(1, Nobody), block |-> 1, from |-> Nobody, to |-> Nobody,
                  value |-> Reward, inputs |-> {}]}
    /\ height = 1
    /\ mempool = <<>>
    /\ paid = 0

\* A user pays: newTransaction does not verify anything.
Pay(k, to, v) ==
    /\ paid < MaxPayments
    /\ paid' = paid + 1
    /\ mempool' = Append(mempool, Payment(paid + 1, k, to, v))
    /\ UNCHANGED <<ledger, height>>

\* A payment that is in the chain arrives again, late, from a peer:
\* checkDuplicateTransition looks into the mempool only.
PayAgain(t) ==
    /\ Len(t.id) = 1
    /\ Len(mempool) < MaxPayments
    /\ \A j \in 1 .. Len(mempool) : mempool[j].id # t.id
    /\ mempool' = Append(mempool, [id |-> t.id, from |-> t.from, to |-> t.to, value |-> t.value])
    /\ UNCHANGED <<ledger, height, paid>>

\* mempoolUpdate: the payments of a stored block leave the mempool.
Without(pool, block) ==
    FoldLeft(LAMBDA q, p : IF \E r \in block : r.id = p.id THEN q ELSE Append(q, p), <<>>, pool)

\* A round of the miner whose block is the luckiest: stored when it verifies,
\* dropped when it does not.  Either way putTxInBlock has cleaned the mempool,
\* and mempoolUpdate takes out what was stored.
Mine(m) ==
    LET selected == PutTxInBlock
        block    == BlockOf(selected, m)
    IN  /\ height < MaxHeight
        /\ \/ /\ Accounted(block)
              /\ ledger' = ledger \cup block
              /\ height' = height + 1
              /\ mempool' = Without(selected.pool, block)
           \/ /\ ~ Accounted(block)
              /\ mempool' = selected.pool
              /\ UNCHANGED <<ledger, height>>
        /\ UNCHANGED paid

Next ==
    \/ \E k, to \in Keys, v \in Values : Pay(k, to, v)
    \/ \E t \in ledger : PayAgain(t)
    \/ \E m \in Keys : Mine(m)

Spec == Init /\ [][Next]_vars
=============================================================================
