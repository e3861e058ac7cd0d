---------------------------- MODULE AccountBook ----------------------------
(***************************************************************************)
(* What the ledger promises: balances and settled payments, without        *)
(* blocks, inputs, change or a mempool.  A payment is settled at most      *)
(* once, and never with money its payer does not have.                     *)
(***************************************************************************)
EXTENDS FiniteSetsExt

CONSTANTS Keys, Reward

VARIABLES
    balance, \* the money of each key
    settled  \* the payments that are in the chain

Total(S) == MapThenSumSet(LAMBDA p : p.value, S)

BookInit ==
    /\ balance = [k \in Keys |-> 0]
    /\ settled = {}

\* New payments are settled together, each payer having had all the money
\* before, and one key gets the reward.
Settle(m) ==
    LET new     == settled' \ settled
        sent(k) == Total({p \in new : p.from = k /\ p.to # k})
        got(k)  == Total({p \in new : p.to = k /\ p.from # k})
    IN  /\ settled \subseteq settled'
        /\ \A k \in Keys : sent(k) <= balance[k]
        /\ balance' = [k \in Keys |-> balance[k] - sent(k) + got(k) + IF k = m THEN Reward ELSE 0]

BookSpec == BookInit /\ [][\E m \in Keys : Settle(m)]_<<balance, settled>>
=============================================================================
