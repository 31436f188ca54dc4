SPECIFICATION FairSpec
CONSTANTS
  Size = 6
  Mode = 1
  Slots <- MCSlots
  FirstUsage = 4
  Phones <- MCPhones
  Values <- MCValues
  Default <- MCDefaultCells
  MaxCuts = 1
INVARIANTS TypeOK AcceptedHold AdminsRemain
PROPERTY ResetServed
