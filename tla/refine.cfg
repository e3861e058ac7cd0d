SPECIFICATION FairSpec
CONSTANTS
  Blocks <- MCBlocks
  Unset <- MCUnsetTop
  Tx <- MCTx
  Genesis <- G
  NoRow = NoRow
  MaxIndex = 3
  MaxForks = 2
  Threads = {"net"}
  Payments = {"t1"}
  RunsBeforeCheck = 2
  Crashes = FALSE
  Checks = TRUE
PROPERTIES ImplementsLuckyChain LuckierBlockIsAdopted
CHECK_DEADLOCK FALSE
