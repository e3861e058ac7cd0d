SPECIFICATION FairSpec
CONSTANTS
  Payments = {t1, t2}
  MaxCopies = 1
  MaxBlocks = 3
  MaxTxs = 1
CHECK_DEADLOCK FALSE
INVARIANTS ListedOnce PaidOnce
PROPERTIES NothingLost Considered
