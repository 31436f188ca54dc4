SPECIFICATION FairSpec
CONSTANTS
  Pages <- OnePage
  MaxClicks = 1
INVARIANTS PageTypeOK WholeReport
PROPERTY PageSettles
