CONSTANTS
  NumChars = 2
  NumRows = 1
  NumCols = 2
  BootRow = 0
  PageCells = 3
  MaxTerm = 2
  Strings <- Texts
SPECIFICATION FairSpec
CHECK_DEADLOCK FALSE
INVARIANTS TypeOK LineDeliveredUnlessMarred
PROPERTIES EnterEndsLine ReadReturns
