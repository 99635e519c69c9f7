CONSTANTS
  Threads = {t1, t2, t3}
  NoThread = NoThread
  BufSize = 4
  FileSize = 5
  NumFiles = 2
  LineLen = 2
  MaxLines = 6
SPECIFICATION Spec
INVARIANTS
  TypeOK
  
  RotatedFull
  

  
CHECK_DEADLOCK FALSE
