SPECIFICATION FairSpec
CONSTANTS
  Blocks <- MCPair
  Unset <- MCUnsetTop
  Tx <- MCTx
  Genesis <- G
  NoRow = NoRow
  MaxIndex = 3
  MaxForks = 2
  Threads = {"net", "miner"}
  Payments = {}
  RunsBeforeCheck = 2
  Crashes = FALSE
  Checks = FALSE
PROPERTIES CheckRepairs Returns
CHECK_DEADLOCK FALSE
