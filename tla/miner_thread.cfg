SPECIFICATION MinerThreadFairSpec
CONSTANTS
  MaxCommands = 4
INVARIANTS OneMiner JoinIsShort
PROPERTIES ButtonComesBack
CHECK_DEADLOCK FALSE
