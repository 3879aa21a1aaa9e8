CONSTANTS
  Pages = {1, 2}
  MaxValue = 2
  Returns = FALSE
  Overlap = FALSE
  MaxEdits = 1
  MaxMoves = 1
  MaxPushes = 2
  MaxFaults = 1
SPECIFICATION Spec
INVARIANT TypeOK
INVARIANT AbsenceMeansAway
INVARIANT ClassifiedAsFound
INVARIANT CompleteMeansCovered
INVARIANT FullPullMirrors
PROPERTY FlipWasRaised
PROPERTY FrozenWhileConflicted
