SPECIFICATION ServerSpec
CONSTANTS
  Callers = {"a", "b"}
  Commands = {"library"}
  MaxServers = 2
  MaxServerCalls = 3
  OverlayAttempts = 3
INVARIANT OneNodeRuns
CHECK_DEADLOCK FALSE
