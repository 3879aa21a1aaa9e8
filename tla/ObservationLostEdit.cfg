CONSTANTS
  Pages = {1, 2}
  MaxValue = 3
  Returns = FALSE
  Overlap = FALSE
  MaxEdits = 2
  MaxMoves = 0
  MaxPushes = 0
  MaxFaults = 0
SPECIFICATION Spec
INVARIANT NoEditBelowWatermark

