SPECIFICATION MCSpec
CONSTANTS
  Uris = {d1}
  Texts = {old, new}
  Views = {v1, v2}
  Kinds = {ir}
  PoolSize = 2
  CacheCap = 1
  MaxSent = 3
  None = None
  OpenText = old
PROPERTIES
  DroppedForNewerRevision
CHECK_DEADLOCK FALSE
