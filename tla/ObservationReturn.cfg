CONSTANTS
  Pages = {1, 2}
  MaxValue = 2
  Returns = TRUE
  Overlap = FALSE
  MaxEdits = 0
  MaxMoves = 2
  MaxPushes = 0
  MaxFaults = 0
SPECIFICATION Spec
INVARIANT FullPullMirrors

