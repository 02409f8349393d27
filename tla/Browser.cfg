SPECIFICATION BrowserPartsSpec
CONSTANTS
  Callers = {"a", "b"}
  MaxNodes = 2
  MaxCalls = 4
  MaxEvents = 2
  RemotePeers = {"p", "q"}
  MaxConnections = 3
  Discoveries = {"d"}
  DhtLookups = 1
  MaxOpen = 3
  Relays = {"r", "s"}
  Requests = {"q1"}
  Fetches = {"f"}
  Full = 2
  Threshold = 2
  MaxRetryAttempts = 2
  Peers = {"p1"}
  Kinds = {"connection", "message", "relay"}
  KindOrder <- MCKindOrder
  MaxRequests <- MCMaxRequests
  Window <- MCWindow
  MaxAge = 5
  Penalty = 1
  BlockDurations = {1, 2}
  IdCalls = {"i", "j"}
  MaxIds = 2
  MaxReloads = 1
  ReservingRelays = {"r", "s"}
  HttpRelays = {"s"}
  Paths = {"x", "y"}
  Nodes = {"n"}
  None = None
  MaxUpgradeAttempts = 2
  MaxConns = 4
  MaxStops = 1
INVARIANTS
  BrowserTypesOK
  NothingIsLeftBehind
  GraceIsUninterrupted
  RefusedAreNotOffered
  ManualBlockHolds
  WindowLimit
  ReturnedIdIsKept
  AdvertisedAddresses
  CountIsTrueOrReset
  UpgraderTypeOK
  OneUpgradePerEntry
  BusyIffUpgrading
  TrackedAreConnected
PROPERTIES
  ConnectingEnds
  EveryEntryIsTried
CHECK_DEADLOCK FALSE
