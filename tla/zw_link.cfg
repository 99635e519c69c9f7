CONSTANTS
  RetryCount = 2
  RxFrames = 2
  Answers = {"ACK", "NAK"}
  MaxSends = 2
  MaxFrames = 1
  MaxWire = 3
SPECIFICATION Spec
INVARIANTS
  TypeOK
  WaitingIsGuarded
  NoStaleToken
  SuccessMeansReceived
CHECK_DEADLOCK FALSE
