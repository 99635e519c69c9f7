CONSTANTS
  RetryCount = 2
  RxFrames = 2
  Answers = {"ACK", "NAK", "CAN"}
  MaxSends = 1
  MaxFrames = 0
  MaxWire = 1
SPECIFICATION FairSpec
PROPERTY
  SendAlwaysReturns
CHECK_DEADLOCK FALSE
