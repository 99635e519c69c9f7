CONSTANTS
  NumPrio = 2
  MaxTasks = 4
  Tasks = {t1, t2}
  NoTask = NoTask
  MaxPushes = 5
SPECIFICATION FairSpec
INVARIANTS
  TypeOK
  RunningSlotHeld
  CountNeverOverstates
PROPERTIES
  FifoSpec
  QueuesDrain
