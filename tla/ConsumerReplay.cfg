\* Every assignment replays the topic.
CONSTANTS
  p1 = p1
  p2 = p2
  k1 = k1
  k2 = k2
  A = A
  B = B
  U = U
  mem = mem
  ext = ext
  NoKey = NoKey
  Unrouted = Unrouted
  NoPartition = NoPartition
  Partition = {p1}
  Key = {k1}
  Schema = {A, B, U}
  Store = {mem, ext}
  InMemory = {mem}
  PartitionOf <- AllOnFirst
  StoreOf <- OneStoreEach
  Preload = {}
  ForceResetEarliest = TRUE
  OffsetReset = "earliest"
  Traffic <- OneKey
  MaxLog = 2
  MaxFaults = 1
  MaxCrashes = 1
  MaxRebalances = 1
SPECIFICATION Spec
CHECK_DEADLOCK FALSE
INVARIANT ReplayRebuildsView
