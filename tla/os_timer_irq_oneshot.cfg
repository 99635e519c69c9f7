CONSTANTS
  one = one
  two = two
  per = per
  irqper = irqper
  irqone = irqone
  Timers = {one, irqone}
  NoTimer = NoTimer
  OtherTask = OtherTask
  IsrTimers = {one}
  Type <- MCType
  Interval <- MCInterval
  TimeMod = 5
  Capacity = 1
SPECIFICATION Spec
INVARIANT
  OneShotLeavesList
