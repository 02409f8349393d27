CONSTANTS
  o = o
  r1 = r1
  r2 = r2
  t = t
  m = m
  Nodes <- MCNodes
  Requests = {m}
  Origin <- MCOrigin
  Target <- MCTarget
  Peers <- MCPeers
  Redundancy = 2
  TTL = 2
  ExpiringNodes = {r1}
  MaxResponsePath = 4
SPECIFICATION Spec
INVARIANT
  ResponseGoesUpstream
CHECK_DEADLOCK FALSE
