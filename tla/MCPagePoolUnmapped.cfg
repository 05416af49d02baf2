SPECIFICATION Spec
CONSTANTS
  Pages = {p1, p2}
  Threads = {t1, t2}
  Cap = 1
  TagMod = 8
  Nil = Nil
  Junk = Junk
SYMMETRY Alike
INVARIANTS
  NoFault
CHECK_DEADLOCK FALSE
