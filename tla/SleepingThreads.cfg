SPECIFICATION Spec
CONSTANTS
  Thread = {t1, t2, t3, t4}
  SleepTime = {0, 1, 2, 3, 4}
  UIntLimit = 5
INVARIANTS
  TypeOK
  HeadNeverWraps
PROPERTY
  WakesOnTime
