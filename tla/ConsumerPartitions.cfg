\* Two partitions with a key each: lag is summed over both.
CONSTANTS
  p1 = p1
  p2 = p2
  k1 = k1
  k2 = k2
  A = A
  B = B
  U = U
  mem = mem
  ext = ext
  NoKey = NoKey
  Unrouted = Unrouted
  NoPartition = NoPartition
  Partition = {p1, p2}
  Key = {k1, k2}
  Schema = {A, B, U}
  Store = {mem, ext}
  InMemory = {mem}
  PartitionOf <- KeyPerPartition
  StoreOf <- OneStoreEach
  Preload = {}
  ForceResetEarliest = FALSE
  OffsetReset = "earliest"
  Traffic <- TwoKeys
  MaxLog = 1
  MaxFaults = 1
  MaxCrashes = 1
  MaxRebalances = 1
SPECIFICATION Spec
CHECK_DEADLOCK FALSE
PROPERTY ReadyAfterHandled
