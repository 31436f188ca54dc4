SPECIFICATION FairSpec
CONSTANTS
  Admins = 2
  Dials = 3
  SmsDial = 2
  Slots = 2
  Tries = 2
  MaxIndex = 1
  Fails = 2
  CharMax = 2
INVARIANTS TypeOK SilentAdminGetsSms StoredSmsKnown
PROPERTIES OutboxMoves ResetsGoOn
CHECK_DEADLOCK TRUE
