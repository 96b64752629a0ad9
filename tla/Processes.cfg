\* Every part that shares no state with a consumer, one at a time.
CONSTANTS
  registry = registry broker = broker redis = redis postgres = postgres
  peer = peer other = other pg = pg ora = ora cache = cache users = users
  e1 = e1 e2 = e2 e3 = e3
  \* StartupChecks
  Service <- RustServices
  Check = {registry, broker, redis}
  Blocking = {broker}
  Connects <- RedisPostgresPreload
  Fails = 2
  MaxOutages = 2
  \* Service
  Request = {q1, q2, q3}
  Cancellable = TRUE
  Signalled = TRUE
  \* JavaStartup
  Dependency <- JavaServices
  Registry = registry
  Broker = broker
  Stores = {redis, postgres}
  Pools = {postgres}
  Contacted = {redis}
  Preload = 2
  Preflights <- OneUrl
  Shutdowns <- TwoUrls
  Commands = {"start", "create-schemas"}
  Enabled = TRUE
  JavaFails = 2
  HamsFails = 2
  Workers = 2
  MaxSwings = 1
  \* HealthServer
  Exchange = {e1, e2, e3}
  Path <- Probes
  Checked = {s1, s2}
  MaxStoreChanges = 1
  \* SchemaService
  Thread = {t1, t2, t3}
  Schema = {A, B}
  MaxFailedFetches = 1
  \* CreateSchemas
  Runner = {r1, r2}
  Database = {pg, ora}
  AutoCommit = {ora}
  Configs <- AllConfigs
  MaxFailures = 2
SPECIFICATION Spec
CHECK_DEADLOCK FALSE
INVARIANTS ProcessTypes StopsInOrder OkIsHonest FetchedOnce FailureIsOwn
INVARIANT SuccessMeansTables
PROPERTIES MyStateGated ApplicationGated EveryPartEnds RetriesPayOff
