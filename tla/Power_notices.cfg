SPECIFICATION FairSpec
CONSTANTS
  Minute = 2
  OnSettings <- ReportOrNot
  OffSettings <- ReportOrNot
INVARIANTS TypeOK FlagsFollowNotices
PROPERTIES Alternates OnIsSettled OutageTold ReturnTold
CHECK_DEADLOCK TRUE
