SPECIFICATION FairSpec
CONSTANTS
  Object = {o1, o2, o3}
  Periodic = {o1, o2}
  None = none
  Pause = 2
  Stack = 2
  Room = 15
INVARIANTS
  TypeOK
  NoDangling
  NothingLeaks
PROPERTIES
  KeepsPace
  EndComes
  EndsAfterTerminate
  JoinReturns
CHECK_DEADLOCK FALSE
