CONSTANTS
  Memories <- ThreeMemories
  Size = 12
  Fills = {0, 5, 263}
  Bits = 6
  HexRadix = 4
  HexDigits = 3
  DecRadix = 3
  Rows = 2
  Cols = 2
  Letters = {"a", "b"}
  MaxText = 6
  BufSize = 3
  NameMax = 2
  ArgMax = 2
  Exit <- ExitWord
  Patterns <- TwoPatterns
  Slots = 3
  Places = 3
  Locations <- TwoCells
  Lengths <- TwoLengths
SPECIFICATION Spec
INVARIANTS MemoryRight StringsRight NumbersPrinted ScrollsUp CommandParsed GrepFinds FramesComplete ListSound PhaseLasts CellShows InPhase
