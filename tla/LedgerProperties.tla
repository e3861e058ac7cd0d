-------------------------- MODULE LedgerProperties --------------------------
(***************************************************************************)
(* What must be true of the money: Ledger.                                 *)
(***************************************************************************)
EXTENDS Ledger

Settled == {[id |-> t.id, from |-> t.from, to |-> t.to, value |-> t.value] :
                t \in {r \in ledger : Len(r.id) = 1}}

\* The two ways the code counts a key's money agree: the outputs getUTXO
\* lists are worth what getBalance says, so no output is spent twice, lost or
\* made up by a change transaction.
UnspentIsBalance ==
    \A k \in Keys :
        SumValues({t \in ledger : t.to = k /\ t.id \notin Spent}) = Balance(k)

\* putTxInBlock and verifyBlock together settle payments like an account
\* book: once, and with money the payer has.
Book == INSTANCE AccountBook
            WITH balance <- [k \in Keys |-> Balance(k)], settled <- Settled
ImplementsAccountBook == Book!BookSpec

\* The payments of k that wait in the mempool up to place j.
Waiting(k, j) == {mempool[i] : i \in {n \in 1 .. j : mempool[n].from = k /\ ~ Stored(mempool[n].id)}}

\* The mempool loses a payment without storing it only when its payer cannot
\* cover it after the payments that came before it.
CoveredPaymentKept ==
    [][\A j \in 1 .. Len(mempool) : \A p \in {mempool[j]} :
        /\ ~ Stored(p.id) /\ ~ Stored(p.id)'
        /\ \A i \in 1 .. Len(mempool') : mempool'[i].id # p.id
        => Balance(p.from) < SumValues(Waiting(p.from, j))]_vars

\* When each payer has one payment in it, and no two rows of the chain look
\* alike, the block that putTxInBlock makes passes verifyBlock.
SinglePaymentsFit ==
    LET selected == PutTxInBlock
    IN  /\ \A r, s \in selected.rows : r.from = s.from => r = s
        /\ \A k \in Keys : ForkBalance(k) = Balance(k)
        => \A m \in Keys : Accounted(BlockOf(selected, m))

-----------------------------------------------------------------------------
(* What the comments of the code say, and the code does not do.            *)

\* putTxInBlock: "@return List of valid transactions to be put in a block"
\* (blockchain.cpp:434): they pass the check of inputs against outputs.
BuiltBlockBalances == \A m \in Keys : InputsMatch(BlockOf(PutTxInBlock, m))

\* getBalance: "returns the Balance of the input key" (blockchain.cpp:575),
\* of a fork's block as of the main chain.
ForkBalanceIsBalance == \A k \in Keys : ForkBalance(k) = Balance(k)
=============================================================================
