SPECIFICATION Spec
CONSTANTS
  Refreshes = {r1, r2}
  FirstOne = FirstOne
  Closer = Closer
  MaxSetups = 2
  MaxReadings = 3
  Refusals = {FALSE}
SYMMETRY Symmetry
CHECK_DEADLOCK FALSE
INVARIANTS
  StatusTellsFailure
