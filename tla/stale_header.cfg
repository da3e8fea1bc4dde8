CONSTANTS
  BlockSize = 2
  Word = 256
  dir_Entries <- ThreeFiles
  inodes <- ThreeInodes
  HeaderSize = 3
  MagicSize = 2
  ElfBlocks = {5}
SPECIFICATION Spec
INVARIANT OnlyExecutables
