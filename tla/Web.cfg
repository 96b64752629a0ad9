CONSTANTS
  c1 = c1 c2 = c2
  p1 = p1 k1 = k1 A = A B = B mem = mem ext = ext
  toMem = toMem toExt = toExt toNone = toNone NoStore = NoStore
  NoKey = NoKey Unrouted = Unrouted NoPartition = NoPartition
  NoSchema = NoSchema
  Partition = {p1}
  Key = {k1}
  Schema = {A, B}
  Store = {mem, ext}
  InMemory = {mem}
  PartitionOf <- AllOnFirst
  StoreOf <- OneStoreEach
  Preload = {}
  ForceResetEarliest = FALSE
  OffsetReset = "earliest"
  Traffic <- OneKey
  MaxLog = 2
  MaxFaults = 1
  MaxCrashes = 0
  MaxRebalances = 1
  Client = {c1, c2}
  Routes = {toMem, toExt, toNone}
  RouteStore <- Destinations
  KeyFromBody = {toMem}
  Body <- Payloads
  BodySchema <- PayloadSchema
  Unreadable <- BadAvro
  MaxRequests = 2
SPECIFICATION SceneSpec
CHECK_DEADLOCK FALSE
INVARIANTS WebTypeOK OnlyTouchedDiffer
PROPERTIES RecordsDecode ReadsMonotonic RequestsAnswered
