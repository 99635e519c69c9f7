CONSTANTS
  one = one
  two = two
  per = per
  irqper = irqper
  irqone = irqone
  Timers = {one, two, per, irqper}
  NoTimer = NoTimer
  OtherTask = OtherTask
  IsrTimers = {one}
  Type <- MCType
  Interval <- MCInterval
  TimeMod = 5
  Capacity = 1
SPECIFICATION Spec
INVARIANTS
  TypeOK
  
  LateByOneShotsAhead
  
PROPERTIES
  NeverEarly
