SPECIFICATION StoresSpec
CONSTANTS
  Clients = {h1, h2}
  Names = {n1, n2}
  Ttl <- SmallTtl
  MaxHeld = 1
  SweepInterval = 3
  Second = 2
  MaxClock = 7
  MaxLeases = 3
  Keys = {k1, k2, k3}
  MaxEntries = 2
  Ids = {1, 2, 3}
  SortKeys = {1, 2, 3}
  Inexact = {3}
  Missing = Missing
  Absent = Absent
  PageLimit = 1
  Buffer = 1
  MaxFlight = 2
  Savers = {s1, s2}
  Processes = {i1, i2}
  Forms <- SmallForms
  Defaults <- SmallDefaults
  Unset = Unset
  Mask = Mask
  UserIds = {1, 2}
  Visits = {v1, v2}
  Passwords = {"other"}
  MaxChanges = 3
  FileIds = {f1, f2}
  FileCalls = {d1, d2}
  FileOwners = {p1, p2}
  User = User
  MaxUpload = 1
  Sizes = {1, 2, 3}
  Streams = {1, 2, 3}
  Subscriber <- SmallSubscriber
  Publishers = {g1, g2}
  StreamLimit = 1
  BufferSize = 1
  MaxEvents = 3
  MaxFetches = 4
  RateLimit = 2
  Minute = 2
  MaxTick = 4
  BucketKeys = {k1, k2}
  LimitSettings <- SmallLimits
  Token = 2
  SweepEvery = 2
  Sec = 3
  MaxNow = 8
  KeyReplicas = {1, 2}
  Lookups = {1, 2}
  LookAt <- SmallLookAt
  CacheTtl = 2
  LocalTtl = 1
  Patience = 1
  SyncReplicas = {1, 2}
  SyncJobs = {1}
  MaxJobMessages = 2
  MaxRequeues = 1
  JobAttempts = 2
  NoReplica = 0
  Letters = {"a"}
  GlobLength = 6
  PathLength = 6
  Lowest <- SmallLowest
  Highest <- SmallHighest
  FieldTexts <- SmallFieldTexts
  IntMax = 15
  DocClients = {d1, d2}
  MaxDocTx = 2
  MaxStamp = 3
  MaxBatch = 3
  Authenticates = {"authenticate", "authorize", "pre_handler"}
  FailClosed = {"authenticate"}
  Statuses = {0, 200, 404, 999}
  MaxEdits = 2
  ExtKey <- SmallExtKey
  Manifests <- SmallManifests
  NameLength = 6
  Launchers = {l1, l2}
  MaxProvisions = 3
  Entries <- SmallEntries
  Declares <- SmallDeclares
  Declarations = {"accepted", "other"}
  Binaries = {"x", "y"}
  Installed <- SmallInstalled
  Admins = {a1, a2}
  MaxFilters = 2
  MaxCollections = 1
  MaxJobs = 2
  MaxConfigKeys = 1
  MaxMenuDepth = 3
  MaxMenuNodes = 4
  MaxDeploys = 1
INVARIANTS
  StoresTypeOK
  LocksAreLeases
  NoDuplicatesNoGaps
  StaleOnlyIfExcused
  AdminRemains
  FilesAreWhole
  EventsAreAccounted
  EgressIsFair
  ExamplesAreSafe
  TextsAreRead
  DocumentsAreExact
  ExchangeIsTrue
  
  CatalogIsTrue
PROPERTIES
  CacheIsKept
  SettingsAreTrue
CHECK_DEADLOCK FALSE
