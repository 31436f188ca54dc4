SPECIFICATION Spec
CONSTANTS
  Fails = 2
  Oks = 1
  LineTimeout = 1
  ReportEvery = 3
  Faulty = TRUE
  BufMax = 2
  WaitMax = 0
INVARIANT TypeOK
PROPERTIES Alternates NoFalseAlarm
CHECK_DEADLOCK TRUE
