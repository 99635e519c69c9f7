CONSTANTS
  RetryCount = 2
  RxFrames = 2
  Answers = {"ACK", "NAK"}
  MaxSends = 1
  MaxFrames = 2
  MaxWire = 3
SPECIFICATION FairSpec
INVARIANTS
  RxRing

  
CHECK_DEADLOCK FALSE
