CONSTANTS
  BlockSize = 2
  Word = 256
  dir_Entries <- SmallDirectory
  inodes <- SmallInodes
  MaxTask = 2
  MaxTerm = 2
  NumFd = 4
  NBytes = {2, 3}
  Residue = {5}
SPECIFICATION Spec
INVARIANTS TypeOK NeverNull PositionInFile ReadsInOrder
CONSTRAINT ShortPass
PROPERTIES SuspendedUntouched PassCompleteUnlessCut
