SPECIFICATION Spec
CONSTANTS
  n1 = n1
  n2 = n2
  n3 = n3
  Updates = {n1, n2, n3}
  Recoveries = {v1, v2}
  v1 = v1
  v2 = v2
  Unlocked = Unlocked
  Attempts = {n1, n2, n3, a4}
  a4 = a4
  Distant = a4
  Pid <- OwnPid
  Host <- TwoHosts
  Free = Free
  Artifacts = {x1, x2}
  x1 = x1
  x2 = x2
  Inodes = {n1, n2, n3}
  Nothing = Nothing
  Strange = Strange
  Filled = Filled
  Broken = Broken
  TornJournal = TornJournal
  Republish = FALSE
  Sources = {y1, y2}
  y1 = y1
  y2 = y2
  MountInodes = {n1, n2, n3, a4}
  TheirInodes = {z1}
  z1 = z1
  Absent = Absent
  Foreign = Foreign
  Linked = Linked
  Partial = Partial
  Darwin = TRUE
SYMMETRY Interchangeable
CHECK_DEADLOCK FALSE
INVARIANTS
  FilesTypeOK
  OneUpdater
  UnlinksItsTarget
  OneHolder
  SettledAgrees
  RecordedSurvives
  OverlayRecoverable
  MountSettled
  MountRecoverable
PROPERTIES
  LiveLeaseKept
  StrangeRefused
  MountStaysWhole
