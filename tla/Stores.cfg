CONSTANTS
  mem1 = mem1 mem2 = mem2 redis = redis redis2 = redis2 mongo = mongo
  oracle = oracle postgres = postgres postgrestx = postgrestx
  Store = {mem1, mem2, redis, redis2, mongo, oracle, postgres, postgrestx}
  Client = {c1, c2}
  Key = {k}
  Value = {v1, v2}
  BackendOf <- MCBackendOf
  Deployments <- TwoMapsOrOne
  MaxFaults = 1
  ListKey <- FourKeys
  Listers <- RustAndJava
  BucketOf <- OddEven
  Buckets = 2
  Matching <- AllButTwo
  Limits <- ListLimits
  Offsets <- ListOffsets
  MaxWord = 31
  MaxWrites = 2
  MaxRepeats = 1
  MaxPages = 4
SPECIFICATION StoresSpec
CHECK_DEADLOCK FALSE
INVARIANTS StoresTypes GaugeCounts AnswersHeld ErrorsAreFaults
INVARIANTS PageIsSlice KeysWeaklyConsistent WalkConsistent
PROPERTY Linearizable
