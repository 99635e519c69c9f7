CONSTANTS
  Ops = {"write"}
  RequestLen = 3
  AnswerLen <- MCAnswerLen
  ErrorLen = 1
  RetryCnt = 2
  Capacity = 2
  MaxCalls = 2
  MaxNoise = 1
  MaxWire = 3
  MaxInput = 2
SPECIFICATION Spec
INVARIANTS
  TypeOK
  ParserGuarded
  FrameKept
  SuccessIsOurs
PROPERTY
  ParserRecovers
CHECK_DEADLOCK FALSE
