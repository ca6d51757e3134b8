CONSTANTS
  Parts = {"outbox", "durability", "evidence", "uploads", "models", "durable", "sightings", "watchlist", "database", "dispatch"}
  Key = {k1, k2}
  NoKey = NoKey
  MaxEvents = 2
  MaxOutbox = 2
  MaxWrites = 4
  Save = {t1, t2}
  Fence = {f1}
  NoFence = NoFence
  NoRow = NoRow
  MaxEpoch = 1
  EvidenceSave = {s1, s2, s3}
  MaxPending = 2
  EvictEvery = 2
  MaxFiles = 1
  NoSave = NoSave
  Upload = {u1, u2}
  Finalizer = {fin}
  Model = {m0, m1}
  BaseModel = m0
  Writer = {d1, d2}
  Deleter = {x1}
  Activator = {a1}
  NoModelFile = NoModelFile
  Shipped = Shipped
  Session = {e1, e2}
  RowKey = {rk}
  NoRowKey = NoRowKey
  MaxSaves = 4
  Limit = 2
  Plate = {p, q}
  MaxSightings = 2
  Window = 2
  MaxRecords = 4
  MaxTime = 4
  Skew = 1
  NoSighting = NoSighting
  Suspect = {1, 2, 3}
  Timer = {w1, w2, w3}
  MaxSeen = 1
  PlateOf <- Plates
  PlateRead <- Reads
  Critical = {3}
  MinFuzzy = 3
  NoTimer = NoTimer
  Configured = pg
  Fallback = file
  NoUrl = NoUrl
  MaxEngines = 4
  MaxRestarts = 1
  Webhook = {hook}
  NoWebhook = NoWebhook
  Alert = {alert}
  SeverityOf <- Severities
SPECIFICATION StoresSpec
INVARIANTS TypesOK Bounded OneEventPerKey DuplicateFindsItsEvent UnreachableHaveTwins SerialSavesAgree
INVARIANTS EvidenceBounded FilesAccounted DownloadingIsReal FirstMirrorsAreShown
INVARIANTS StoreReachesFile OneDatabase IndexedAreListed
PROPERTY ImplementsTimeline
CHECK_DEADLOCK FALSE
