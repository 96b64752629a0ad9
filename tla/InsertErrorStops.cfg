\* A failed insert against prd-ingestion.md 100.
CONSTANTS
  p1 = p1
  p2 = p2
  k1 = k1
  k2 = k2
  A = A
  B = B
  U = U
  mem = mem
  ext = ext
  NoKey = NoKey
  Unrouted = Unrouted
  NoPartition = NoPartition
  Partition = {p1}
  Key = {k1}
  Schema = {A, B, U}
  Store = {mem, ext}
  InMemory = {mem}
  PartitionOf <- AllOnFirst
  StoreOf <- OneStoreEach
  Preload = {}
  ForceResetEarliest = FALSE
  OffsetReset = "earliest"
  Traffic <- OneKey
  MaxLog = 1
  MaxFaults = 1
  MaxCrashes = 0
  MaxRebalances = 0
SPECIFICATION Spec
CHECK_DEADLOCK FALSE
PROPERTY InsertErrorKeepsConsumer
