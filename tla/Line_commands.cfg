SPECIFICATION Spec
CONSTANTS
  Messages <- AllMessages
  Length <- MCLength
  NameEnd <- MCNameEnd
  Unended <- MCUnended
  BufSize = 17
  Cuts <- MCCuts
INVARIANTS TypeOK WordsInPlace LastWishHolds
