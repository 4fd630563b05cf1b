SPECIFICATION Spec
CONSTANTS
  Calls = {c1, c2, c3, c4, c5}
  Limit = 2
  Window = 2
  LastWindow = 2
  Straddle = TRUE
  Outages = TRUE
  MaxLosses = 1
SYMMETRY AnyCall
CHECK_DEADLOCK FALSE
INVARIANTS LimiterInv Quota WaitIsEnough
