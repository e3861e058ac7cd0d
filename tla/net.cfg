SPECIFICATION Spec
CONSTANTS
  Blocks <- MCBlocks
  Unset <- MCUnset
  Tx <- MCTx
  Genesis <- G
  NoRow = NoRow
  MaxIndex = 3
  MaxForks = 2
  Threads = {"net"}
  Payments = {"t1"}
  RunsBeforeCheck = 2
  Crashes = TRUE
  Checks = TRUE
INVARIANTS TypeOK NoGaps NoAbort RequestsFitForks SuccessMeansStored
PROPERTIES LinkLostOnlyToShorterFork LinkedLuckNeverFalls TxsKept
