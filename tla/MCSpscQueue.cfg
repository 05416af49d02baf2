SPECIFICATION SpscFairSpec
CONSTANTS
  Capacity = 2
  Items = {a, b}
  MaxItems = 5
  NoItem = NoItem
INVARIANTS
  CopiesApart
  QueueInv
PROPERTIES
  RefusalsRight
  ImplementsFifo
  EverythingDelivered
CHECK_DEADLOCK FALSE
