SPECIFICATION FairSpec
CONSTANTS
  Delay = 1
  Sentinel = 5
  Debounce = 3
  WdtLimit = 1
  MaxNest = 3
  Web <- WebAll
  Dtmf <- DtmfAll
  Sms <- SmsAll
INVARIANTS TypeOK RestartKeepsModes DueArmingServed ModesExclusive
PROPERTY LoopTurns
CHECK_DEADLOCK TRUE
