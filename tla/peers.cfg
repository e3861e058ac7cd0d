SPECIFICATION PeersFairSpec
CONSTANTS
  Nodes = {a, b}
  MaxLinks = 2
  MaxLosses = 2
  MaxToggles = 1
INVARIANTS NoDeletedConnection
PROPERTIES Meshed
CHECK_DEADLOCK FALSE
