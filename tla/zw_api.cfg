CONSTANTS
  c1 = c1
  c2 = c2
  Callers = {c1, c2}
  NoCaller = NoCaller
  KindsOf <- MCKindsOf
  RxFrames = 1
  SeqNos = 2
  MaxCalls = 2
  MaxCommands = 1
SPECIFICATION Spec
INVARIANTS
  TypeOK
  
  CallbackExpected
PROPERTY
  CallsReturn
CHECK_DEADLOCK FALSE
