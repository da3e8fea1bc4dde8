CONSTANTS
  NumChars = 3
  NumRows = 3
  NumCols = 3
  BootRow = 0
  PageCells = 11
  MaxTerm = 1
  Strings <- Texts
SPECIFICATION Spec
CHECK_DEADLOCK FALSE
INVARIANT NeverFaults
