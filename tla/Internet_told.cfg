SPECIFICATION FairSpec
CONSTANTS
  Fails = 2
  Oks = 1
  LineTimeout = 1
  ReportEvery = 2
  Faulty = FALSE
  BufMax = 2
  WaitMax = 0
PROPERTIES OutageTold ReturnTold
CHECK_DEADLOCK TRUE
