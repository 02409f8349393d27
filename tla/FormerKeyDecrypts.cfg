CONSTANTS
  l1 = l1
  d1 = d1
  Lookups = {l1}
  Replicas = {d1}
  MaxRetries = 2
  MaxKeys = 2
  MaxCrashes = 0
SPECIFICATION Spec
PROPERTIES
  FormerKeyDecrypts
CHECK_DEADLOCK FALSE
