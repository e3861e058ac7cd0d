SPECIFICATION FairSpec
CONSTANTS
  AppTypes = {"BLOCK_REQUEST"}
  Senders = {"initiator"}
  Cut = {"acceptor"}
  MaxSent = 1
  PongLimit = 0
INVARIANTS Framing GreetingIsFirst TransferTimed
PROPERTIES Delivered GoneIsNoticed
CHECK_DEADLOCK FALSE
