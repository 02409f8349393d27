CONSTANTS
  None = None
  Nodes = {"n"}
  MaxUpgradeAttempts = 2
  MaxConns = 3
  MaxStops = 1
SPECIFICATION UpgraderSpec
INVARIANTS
  RelayedAreTracked
CHECK_DEADLOCK FALSE
