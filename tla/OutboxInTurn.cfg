CONSTANTS
  c1 = c1
  c2 = c2
  c3 = c3
  p1 = p1
  p2 = p2
  p3 = p3
  t1 = t1
  t2 = t2
  t3 = t3
  NoToken = NoToken
  NoCommand = NoCommand
  Tokens = {t1, t2, t3}
  Commands = {c1, c2, c3}
  Workers = {p1,p2}
  Kind <- OneOfEach
  Token <- OwnTokens
  Overlap = FALSE
  LeaseDuration = 2
  RetryAfter = 1
  MaxErrors = 1
  MaxCrashes = 1
  MaxStalls = 0
  MaxEdits = 0
  MaxAppends = 1
  MaxAttempts = 7
SPECIFICATION FairSpec
INVARIANT FirstSettlementIsTerminal
PROPERTY EveryCommandConcludes
\* The bounds end every behaviour: all commands concluded, attempts or faults spent.
CHECK_DEADLOCK FALSE
