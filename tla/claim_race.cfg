CONSTANTS
  MaxTask = 3
  MaxTerm = 2
  Status = {0, 1}
SPECIFICATION Spec
CHECK_DEADLOCK FALSE
INVARIANTS PidUnique
