CONSTANTS
  c1 = c1
  c2 = c2
  c3 = c3
  p1 = p1
  p2 = p2
  p3 = p3
  t1 = t1
  t2 = t2
  t3 = t3
  NoToken = NoToken
  NoCommand = NoCommand
  Tokens = {t1, t2, t3}
  Commands = {c1}
  Workers = {p1, p2}
  Kind <- OneSurface
  Token <- OwnTokens
  Overlap = TRUE
  LeaseDuration = 2
  RetryAfter = 1
  MaxErrors = 1
  MaxCrashes = 0
  MaxStalls = 1
  MaxEdits = 0
  MaxAppends = 0
  MaxAttempts = 5
SPECIFICATION Spec
INVARIANT FirstSettlementIsTerminal
\* The bounds end every behaviour: all commands concluded, attempts or faults spent.
CHECK_DEADLOCK FALSE
