SPECIFICATION FairSpec
CONSTANTS
  n1 = n1
  n2 = n2
  Nodes = {n1, n2}
  Blocks <- MCBlocks
  Unset <- MCUnset
  Tx <- MCTx
  Genesis <- G
  NoRow = NoRow
  MaxIndex = 3
  MinerOf <- MCMinerOf
  MaxForks = 7
  MaxFaults = 1
CHECK_DEADLOCK FALSE
INVARIANTS NoForkLeft
PROPERTIES ImplementsLuckyChain Quiesces Converges
