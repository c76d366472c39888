SPECIFICATION Spec
CONSTANTS
  j1 = j1
  j2 = j2
  j3 = j3
  j4 = j4
  Job <- Jobs4
  NoJob = NoJob
  Slots = 2
  Cap = 3
  Window = 3
  MaxSkips = 1
  MaxScore = 1
  MayShutdown = TRUE
INVARIANTS IdleSlots BoundedOvertaking NoLostWakeup
PROPERTIES AllServed ImplementsDispatch
CHECK_DEADLOCK FALSE
