CONSTANTS
  l1 = l1
  d1 = d1
  Lookups = {l1}
  Replicas = {d1}
  MaxRetries = 2
  MaxKeys = 2
  MaxCrashes = 1
SPECIFICATION Spec
INVARIANTS
  TypeOK
  ReleasedKeysWereStored
  StoredIsCurrent
PROPERTIES
  EventuallyAgree
  LookupsEnd
CHECK_DEADLOCK FALSE
