SPECIFICATION Spec
CONSTANTS
  Zones <- House
  FirstM = {FALSE, TRUE}
  Single = TRUE
  AcceptCalls = FALSE
INVARIANTS TypeOK MaskedZoneRecovers PendingSeesAllZones
INVARIANTS PageKeepsAlarm TempAlarmKept AlarmsLeaveAtOnce
CHECK_DEADLOCK TRUE
