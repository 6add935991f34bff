SPECIFICATION Spec
CONSTANTS
  a = a
  b = b
  Apps = {a, b}
  MaxBuffer = 1
  MaxTries = 2
  MaxRequests = 2
  MaxAppChanges = 2
  MaxFailures = 2
  browser = browser
  tool = tool
  game = game
  ProductA = ProductA
  ProductB = ProductB
  Platforms = {"windows", "linux"}
  Programs <- FivePrograms
  Undeclared = Undeclared
  Pids = {1, 2}
  CacheSize = 2
  MaxLaunches = 3
  n1 = n1
  n2 = n2
  Addresses = {n1, n2}
  Localhost = Localhost
  FixedName = FixedName
  HostName = HostName
  Nothing = Nothing
  MaxMoves = 3
  Names <- TwoNames
  Entered <- EnteredNames
  Asked <- AskedNames
  Local <- LoopbackNames
  Visitors = {1, 2}
  MaxRecent = 2
  MaxMinutes = 1
  Versions = {0, 1}
  VersionOnly = TRUE
  PortsExclusive = TRUE
  Faults = {"hosts", "quic", "port", "unhosts", "unquic", "cache"}
  MaxFaults = 2
  MaxRestarts = 1
  NoCache = NoCache
CHECK_DEADLOCK FALSE
INVARIANT PartsTypeOK
INVARIANT EventsAreAccountedFor
INVARIANT StoredOnceUnlessOverlapping
PROPERTY LatestEventTells
PROPERTY ChurnIsSilent
PROPERTY CacheHidesNoApplication
PROPERTY FindsTheMaster
INVARIANT ActiveIsEnforced
INVARIANT InactiveIsRemoved
INVARIANT NoSilentFailure
INVARIANT VisitsFollowPolicy
