SPECIFICATION ServerPartsSpec
CONSTANTS
  Callers = {"a", "b"}
  Commands = {"library", "node", "bridge"}
  MaxServers = 3
  MaxServerCalls = 7
  OverlayAttempts = 3
  Promises = {"p1", "p2", "p3"}
  MessageIds = {"m1", "m2"}
  IdOf <- MCIdOf
  Timeouts = {1, 2}
  MaxTime = 3
  NoPromise = NoPromise
  Clients = {"c"}
  Jobs = {"j1", "j2"}
  BridgeKeys = {"k"}
  BridgeValues = {"v", "w"}
  NoValue = NoValue
  MaxJobs = 5
  Base = 8
  Width = 1
  Ids <- MCIds
  Texts <- MCTexts
  WirePaths <- MCWirePaths
  Times <- MCTimes
  Payloads <- MCPayloads
  Attestations <- MCAttestations
  Ttls = {0, 7}
  ByteBits = 2
  IdBytes = 2
INVARIANTS
  ServerTypesOK
  TypeOK
  WaitingIffLive
  LiveHasTimer
  StrayTimersAreTimedOut
  FreshIdNeverEarly
  NothingIsLost
  StartedOverlayServes
  AcknowledgedIsFound
  DecodedOrRefused
  SharedBucketsAreNear
PROPERTIES
  CommandSettles
  ImplementsContract
  EveryRequestSettles
CHECK_DEADLOCK FALSE
