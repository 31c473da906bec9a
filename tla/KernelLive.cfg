SPECIFICATION FairSpec
CONSTANTS
  Thread = {main, t1, t2}
  Main = main
  Idle = idle
  UserSem = {}
  ConsoleSem = input
  TimeSlice = 2
  InitVal = {0}
  SleepTime = {1, 2}
  UIntLimit = 4
  MaxVal = 0
  MaxBurst = 1
  Data = data
PROPERTIES
  ReadyThreadRuns
  SleeperRuns
