CONSTANTS
  s1 = s1
  s2 = s2
  d1 = d1
  d2 = d2
  Nobody = Nobody
  Signals = {s1}
  Daemons = {d1, d2}
  Overlap = TRUE
  LeaseDuration = 1
  Backoff = 1
  RetryAfter = 1
  MaxErrors = 1
  MaxEnds = 1
SPECIFICATION Spec
INVARIANT TypeOK
INVARIANT ProcessedWasSynced
PROPERTY ClaimKept
SYMMETRY DaemonSymmetry
