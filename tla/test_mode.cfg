SPECIFICATION Spec
CONSTANTS
  Funds = 2
  MaxPayments = 1
  MaxTestCommands = 1
  MaxSignals = 0
INVARIANTS PaysWhatItHas
CHECK_DEADLOCK FALSE
