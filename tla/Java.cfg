CONSTANTS
  p1 = p1 k1 = k1 A = A B = B X = X mem = mem ext = ext c1 = c1
  toMem = toMem toExt = toExt toNone = toNone NoStore = NoStore
  NoKey = NoKey Unrouted = Unrouted NoPartition = NoPartition NoSchema = NoSchema
  Partition = {p1}
  Key = {k1}
  Schema = {A, B}
  StoreOrder <- MemoryFirst
  InMemory = {mem}
  PartitionOf <- AllOnFirst
  StoreOf <- OneStoreEach
  Preloaded = {}
  ForceResetEarliest = FALSE
  OffsetReset = "earliest"
  Traffic <- OneKey
  MaxLog = 2
  MaxFaults = 1
  MaxCrashes = 1
  MaxRebalances = 1
  Client = {c1}
  Routes = {toMem, toExt, toNone}
  RouteStore <- Destinations
  KeyFromBody = {toMem}
  Body <- AllPayloads
  BodySchema <- PayloadSchema
  Unknown = {X}
  Unreadable <- BadAvro
  MaxRequests = 2
SPECIFICATION SceneSpec
CHECK_DEADLOCK FALSE
INVARIANTS WebTypeOK OnlyTouchedDiffer CommitCoversHandled DatabasesDurable
PROPERTIES RecordsReadable ReadyWhenCaughtUp KeepsGoing
