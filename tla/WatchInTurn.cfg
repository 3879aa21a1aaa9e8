CONSTANTS
  s1 = s1
  s2 = s2
  d1 = d1
  d2 = d2
  Nobody = Nobody
  Signals = {s1, s2}
  Daemons = {d1, d2}
  Overlap = FALSE
  LeaseDuration = 2
  Backoff = 1
  RetryAfter = 2
  MaxErrors = 1
  MaxEnds = 1
SPECIFICATION FairSpec
INVARIANT NoSignalSleptOn
PROPERTY FailedSyncBacksOff
PROPERTY EverySignalProcessed
