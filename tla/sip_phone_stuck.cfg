CONSTANTS
  SendTryCnt = 2
  TryCntMod = 4
SPECIFICATION FairSpec
PROPERTIES
  SecondCallIsMade
