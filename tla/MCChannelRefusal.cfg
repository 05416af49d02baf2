SPECIFICATION Spec
CONSTANTS
  s1 = s1
  s2 = s2
  r1 = r1
  r2 = r2
  Senders = {s1, s2}
  Receivers = {r1, r2}
  Cap <- MCCap
  ItemsPer <- MCItemsPer
  Calls <- MCCalls
  NoItem = NoItem
PROPERTIES
  RefusedOnlyWhenFull
CHECK_DEADLOCK FALSE
