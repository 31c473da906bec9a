SPECIFICATION Spec
CONSTANTS
  Thread = {main, t1, t2}
  Main = main
  Idle = idle
  UserSem = {s}
  ConsoleSem = input
  TimeSlice = 2
  InitVal = {0, 1}
  SleepTime = {1, 2, 4}
  UIntLimit = 4
  MaxVal = 1
  MaxBurst = 2
  Data = data
INVARIANT
  SemWaitResult
