SPECIFICATION Spec
CONSTANTS
  Keys = {k1, k2}
  Nobody = Nobody
  Reward = 2
  Values = {1, 2, 3}
  MaxPayments = 3
  MaxHeight = 4
INVARIANTS UnspentIsBalance SinglePaymentsFit
PROPERTIES ImplementsAccountBook CoveredPaymentKept
CHECK_DEADLOCK FALSE
