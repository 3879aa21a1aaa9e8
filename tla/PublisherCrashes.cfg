SPECIFICATION Spec
CONSTANTS
  Publishers = {p1, p2}
  Tokens = {k1, k2, k3}
  Gens = {"wide", "slim"}
  Paths = {"config", "manifest", "tool", "old"}
  Config = "config"
  Manifest = "manifest"
  Canonical = {"config", "tool"}
  Contents = {"c", "m1", "m2", "t1", "t2", "o"}
  Editable = {"tool"}
  Overlap = FALSE
  HandlerFaults = FALSE
  p1 = p1
  p2 = p2
  k1 = k1
  k2 = k2
  k3 = k3
  Absent = Absent
  Foreign = Foreign
  Torn = Torn
  Teardown = Teardown
  Output <- SlimOverWide
  Rank <- ByteOrder
SYMMETRY BothSymmetric
CHECK_DEADLOCK FALSE
INVARIANTS
  TypeOK
  OnePublisher
  Recoverable
PROPERTIES
  AuthorityComesLast
  AtomicRoot
