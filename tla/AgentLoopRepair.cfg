SPECIFICATION Spec
CONSTANTS
  Width = 2
  MaxSteps = 2
  Attempts = 1
  Parallel = {TRUE, FALSE}
  FreshIds = TRUE
  Fragile = {"thunk", "warning", "start", "call"}
  MaxRuns = 2
  MaxTurns = 2
  MaxStaged = 1
  MaxIncidents = 1
PROPERTY RepairTruthful
CHECK_DEADLOCK FALSE
