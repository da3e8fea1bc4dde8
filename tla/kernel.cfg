CONSTANTS
  MaxTask = 3
  MaxTerm = 2
  Status = {0, 1}
SPECIFICATION FairSpec
CHECK_DEADLOCK FALSE
CONSTRAINT SmallAfterTear
INVARIANTS TypeOK TerminalFoundUnlessTorn NeverLostUnlessTorn VideoVisibleUnlessTorn KernelStackMatches StatusUnlessClobbered
PROPERTIES TableSpec CallsFinish
