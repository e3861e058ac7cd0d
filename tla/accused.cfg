SPECIFICATION Spec
CONSTANTS
  n1 = n1
  n2 = n2
  Nodes = {n1, n2}
  Blocks <- MCRivals
  Unset <- MCUnset
  Tx <- MCTx
  Genesis <- G
  NoRow = NoRow
  MaxIndex = 3
  MinerOf <- MCRivalMinerOf
  MaxForks = 7
  MaxFaults = 0
CHECK_DEADLOCK FALSE
PROPERTIES HonestChainKept
