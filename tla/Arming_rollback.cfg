SPECIFICATION Spec
CONSTANTS
  Delay = 0
  Sentinel = 4
  Debounce = 3
  WdtLimit = 1
  MaxNest = 2
  Web <- WebModes
  Dtmf <- None
  Sms <- SmsAuto
PROPERTY RejectedSetRestores
CHECK_DEADLOCK TRUE
