SPECIFICATION Spec
CONSTANTS
  Updates = {u1}
  Recoveries = {v1}
  Unlocked = Unlocked
  u1 = u1
  v1 = v1
  Attempts = {a4}
  a4 = a4
  Distant = a4
  Pid <- OwnPid
  Host <- TwoHosts
  Free = Free
  Artifacts = {x1, x2}
  x1 = x1
  x2 = x2
  Inodes = {i1, i2}
  i1 = i1
  i2 = i2
  Nothing = Nothing
  Strange = Strange
  Filled = Filled
  Broken = Broken
  TornJournal = TornJournal
  Republish = TRUE
  Sources = {y1, y2}
  y1 = y1
  y2 = y2
  MountInodes = {j1}
  j1 = j1
  TheirInodes = {z1}
  z1 = z1
  Absent = Absent
  Foreign = Foreign
  Linked = Linked
  Partial = Partial
  Darwin = TRUE
CHECK_DEADLOCK FALSE
INVARIANT CleanupRecoverable
