SPECIFICATION Spec
CONSTANTS
  Fails = 2
  Oks = 1
  LineTimeout = 1
  ReportEvery = 3
  Faulty = FALSE
  BufMax = 2
  WaitMax = 2
INVARIANT ReadReturns
CHECK_DEADLOCK TRUE
