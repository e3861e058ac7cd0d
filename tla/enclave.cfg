SPECIFICATION FairSpec
CONSTANTS
  Enclaves = {e1, e2}
  MaxWait = 2
  Scale = 4
  Lucks = {0, 1, 3}
  MaxCalls = 2
  MaxNonces = 1
INVARIANTS TypeOK OneProofPerCounter WaitedForLuck PublishedKeySigns
PROPERTIES Returns
CHECK_DEADLOCK FALSE
