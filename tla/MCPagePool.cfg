SPECIFICATION Spec
CONSTANTS
  Pages = {p1, p2, p3, p4}
  Threads = {t1, t2, t3}
  Cap = 1
  TagMod = 4
  Nil = Nil
  Junk = Junk
SYMMETRY Alike
INVARIANTS
  StackRight
  AcquiredZeroed
  CacheBounded
CHECK_DEADLOCK FALSE
