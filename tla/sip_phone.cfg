CONSTANTS
  SendTryCnt = 2
  TryCntMod = 4
SPECIFICATION FairSpec
INVARIANTS
  TypeOK
  TriesInBounds
  
  
PROPERTIES
  TransactionsEnd
