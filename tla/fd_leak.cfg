CONSTANTS
  BlockSize = 2
  Word = 256
  dir_Entries <- WithRtc
  inodes <- SmallInodes
  MaxTask = 2
  MaxTerm = 2
  NumFd = 4
  NBytes = {2, 3}
  Residue = {5}
SPECIFICATION Spec
PROPERTY StartsClosed
