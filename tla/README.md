# push-cache: specification, model checking and proofs

`push-cache` consumes one Kafka topic and keeps the latest value of every key in
one or more *stores* (in memory, Redis, Mongo, Oracle, Postgres), which it serves
over HTTP as JSON. There are two implementations of the same program, one in Rust
(`src/rust-container`) and one in Java (`src/java-container`). This directory
holds TLA+ modules translated from the source, their TLC configurations, and
proofs checked by TLAPS. Paths below are relative to the repository.

## 1. The system

Abbreviations: `R` is `src/rust-container/src`, `J` is
`src/java-container/src/main/java/com/polecatworks/pushcache`.

| Component | State | Operations | Correct when |
|---|---|---|---|
| Kafka consumer task, `R/consumer.rs` | record in hand and how far its handler is; the client's assignment and positions | take a record; fetch its schema; route; insert or remove; end on an error | stores follow the log; nothing is skipped but what the documentation accepts |
| Readiness, `R/consumer.rs` 29-65 | lag gauge, `startup_lag_cleared`, probe | statistics callback | ready not before, and at some time after, having caught up |
| Process assembly, `R/lib.rs` | `MyState`: stores, routing table, schema cache, metrics; the hams sidecar | build the state, preload schemas, start sidecar, consumer, web server; stop | a start leaves a state the others may rely on; a stop releases what a start took |
| Cache backends, `R/cache.rs`, `J/service/*Cache.java`, `CacheFactory` | a map from key to bytes; for memory also the shared size gauge | get, insert, remove (returning the old value), keys, contains_key | each operation acts atomically; the gauge counts the map |
| Web API, `R/webserver/mod.rs`, `J/web/RecordHandler.java` | none of its own: stores and schema cache | GET one, GET by body, POST, DELETE, list with offset and limit | answers explainable by a state of the store; 404 only for what is not there |
| Registry and Kafka tools, `R/kafka_utils.rs` | none | fetch a schema, check registry and broker | errors reach the caller |
| Startup checks, `R/startup_tools.rs`, `J/service/StartupCheckService.java`, `StartupCheckRunner` | attempts left of each check | retry, all checks in parallel | the program starts only when every check passed within its budget |
| Preflights, shutdown URLs, health, `J/service/HamsService.java` and the two indicators | the dispatcher's exchange, `cleared` | /alive, /ready, /startup; calls before and after | a 200 is honest; a stop ends |
| Java consumer, `J/service/KafkaConsumerService.java` | the batch of the last poll, what of it was read, the lag check | poll loop, `processRecord`, `checkLag` | as the Rust task |
| Java schema service, `J/service/SchemaService.java` | schema map and monitor | double-checked fetch, preload | one fetch per schema; nobody is refused by another's failure |
| Command lines, `R/main.rs`, `J/cli/Cli.java` | the tables of the databases, Flyway's history | start, create-schemas, config-check | a success leaves a table for every store; a rerun succeeds |
| Configuration | constants | group id, offset reset, routing table | |

Interaction. The consumer task and the HTTP handlers are tasks of one process and
share the stores, the schema cache, the readiness flag and the metrics. There is
no lock across two calls, so handlers interleave with the consumer at every
`await` (Rust) and at every call (Java). librdkafka has threads of its own that
fetch, commit and assemble statistics; its callbacks run on the consumer task,
between two records only. The Java client does all of that inside `poll`. The
health server reads what the consumer sets. External stores, committed offsets,
tables and Flyway's history outlive the process; everything else dies with it.

Hard behaviours. In Rust offsets are published before a record is applied. A
handler is cut in pieces by awaits, each of which can fail, and a tombstone has one
per store. Any store error ends ingestion for good while the process stays up. A
restart meets stores from before and a schema cache that is empty. Readiness is
decided from a report that may know nothing. Some store operations are several
statements, and the list of keys is assembled while keys come and go. Startup
retries race with services that come up and go away. The full list, at its lines
and with the properties that cover each item, is `hazards` in `PROJECT.json`.

## 2. Modules

| Module | What it is |
|---|---|
| `PushConsumer` | one Rust process: consumer task, stores as the consumer uses them, schema cache, readiness, start, death, with broker and registry as its environment |
| `WebApi` | extends it by the HTTP handlers of the same process |
| `AtomicStore` | what a store promises: operations that take effect at one instant |
| `Stores` | the backends of both programs, statement by statement, under concurrent callers |
| `KeyListing` | `keys()` beside writers, and the paged list of both programs on top of it |
| `JavaConsumer` | one Java process: the poll thread, its lag check, a closing context, death |
| `JavaWebApi` | extends it by the HTTP handlers of the same process |
| `SchemaService` | the monitor around a schema fetch, for any number of threads |
| `StartupGate` | what a startup promises |
| `StartupChecks` | `MyState::new` of the Rust program: checks, connections, preloading |
| `JavaStartup` | one run of the Java command line: pools, checks, preflights, consumer, shutdown URLs |
| `Service` | `service_cancellable`: the order in which the Rust program comes up and goes down |
| `HealthServer` | the one thread of the Java health server |
| `CreateSchemas` | `create-schemas` of both programs, concurrent and repeated |
| `MCPushConsumer`, `MCWebApi`, `MCStores`, `MCJavaWebApi`, `MCProcesses` | values for the constants and the instances TLC explores |
| `PushConsumerProofs`, `PushConsumerViewProofs`, `WebApiProofs`, `StoresProofs` (with `KeyListing`), `JavaConsumerProofs`, `JavaWebApiProofs`, `StartupChecksProofs` (with `JavaStartup`), `ProcessesProofs` (`Service`, `HealthServer`, `CreateSchemas`, `SchemaService`, `MCProcesses`) | TLAPS proofs |

How they fit: `WebApi` and `JavaWebApi` are compositions, their next-state relation is
a step of the consumer or a step of a handler on shared variables. Both see a store
as a map whose calls are atomic or fail; `Stores` says which backends deserve that
(`Linearizable`) and what remains of it for the others. `StartupChecks` and
`JavaStartup` implement one gate. The other modules describe parts that meet the rest
in one place only, which each header names.

### `PushConsumer`

`phase` is where the consumer task is: `idle` (polling the stream), at one of the
three awaits of the handler (`fetching`: consumer.rs 165-169, `inserting`:
200-202, `removing`: 231), `stopped` (`start_consumer` returned) or `down` (no
process). `cur` is the borrowed message and `todo` the rest of the loop over
`state.stores.values()`, whose order a `HashMap` does not fix: `RemoveOk(s)` takes
any of them next. Between two awaits the handler runs without being observed, so
one action covers a whole stretch of it: `ReceiveUpdate` goes from the stream to
the first await or to `Ok(())`, including the routing and the counter.

| Code | Actions |
|---|---|
| `try_for_each` takes a message (144-151) | `ReceiveInvalid`, `ReceiveTombstone`, `ReceiveUpdate` |
| `fetch_schema_by_id(..).await` (165-182) | `FetchSchemaOk`, `FetchSchemaErr` |
| `store.insert(..).await?` (200-202) | `InsertOk`, `InsertErr` |
| `store.remove(..).await?` (230-232) | `RemoveOk`, `RemoveErr` |
| an error of the stream (146) | `StreamError` |
| `post_rebalance` (82-116) | `Assign`, `Revoke` |
| `stats` (30-64) | `Stats`, fed by `EmitStats` |
| `enable.auto.commit` (137) | `AutoCommit`; also in `Revoke` and `Stop`, where it may fail |
| `session.timeout.ms` (136) | `Revoke` without a commit |
| `MyState::new`, spawn, subscribe | `Boot` |
| the process ends anywhere | `Crash` |

* *Values are offsets.* A cell holds the offset of the update whose payload it
  stores, or `Absent`. That is all the properties distinguish: which record a
  value came from. In `WebApi` and `JavaWebApi` a payload that was POSTed is a number
  above every offset.
* *A failed write may have arrived.* `InsertErr` and `RemoveErr` leave the external
  store as it was or changed, and a `Crash` during a write likewise. In-memory
  stores never fail (cache.rs 44-71 has no error path) and are emptied by `Crash`.
* *What librdkafka does* is taken from how the code configures it and from the
  documented behaviour of the client: with `enable.auto.commit` and no explicit
  offset storing, the offset is stored when a message is handed to the
  application; the commit timer, a revocation and an orderly close publish stored
  offsets, but nothing does when an assignment is lost (session or poll timeout), and
  a commit at a revocation may fail: `Revoke` does either, and the next session then
  starts where the group was; `consumer_lag` is the end of the partition minus the committed offset
  and -1 while either is unknown; an assignment with `Offset::Beginning` does not
  look at the group's offset. An orderly shutdown is an `AutoCommit` followed by
  `Crash`.

`done`, `applied`, `dropped`, `lost` and `log_at_boot` are history variables: actions
only ever add to them or reset them, and no guard reads them. `dropped` are records
given up on (schema fetch failed, or passed over by `offset_reset: latest`); `lost`
are records in hand when the task or the process ended.

Left out: `was_lagging` (it only chooses a log line), log output, the magnitude of
the lag gauge, counters nobody increments (`updates_received`,
`schema_mismatch_count`), a tombstone with a key that is not UTF-8 (same effect as
no key), Avro decoding, and consumer groups with several members: with
`use_hostname` every instance is alone in its group.

### `WebApi`

A request is `called` until its store has answered, and a GET then `read` until the
schema is looked up: one state per await of mod.rs, in which the consumer, other
handlers or a death may come. `Request` covers the five routes of a store
(`Mounted`: a route whose store is not configured gets none), `NoKeyInBody` the
refusals of the `_by_body` route. `GetMiss`, `GetHit`, `Decode`, `PostInvalid`,
`Post`, `Delete` and `StoreError` are the branches of the handlers, up to the status
that is answered. `ConsumerStep` is any step of `PushConsumer`; a death takes every
request with it. `touched` (cells whose last writer was HTTP) and `newest_read` are
history; an assignment that ends takes `newest_read` back to where the client will
resume (`StillRead`), as what lies behind that will be read, and found, again.

### `Stores` and `AtomicStore`

A cell is a key of a store; it holds a sequence of documents, since a Mongo collection
without a unique index can hold two of one key. `pc[c]` says which statement of its
operation client `c` has reached: `called`, `counting` (the map was changed, the gauge
not), `upserting` (Mongo found no document), `selected` (the old value was read, the
row not deleted), `merging` (Oracle's MERGE chose INSERT), `commit`, `done`. `owner` is
the row lock of a transaction. `Fault` fails any statement of an external store: a single
statement or a commit may have taken effect all the same, a transaction is rolled
back. `ret` is the answer and `held` the history: what the cell held since the call
began.

`AtomicStore` has the same calls with one atomic step between call and answer. Its
cells are those of the backends with operations of one statement (`OneStatement`): the
mapping of `Linearizable` takes the first document as the content of such a cell, maps
`counting` to a call that has taken effect, and leaves out the calls on the others
(both Oracle stores, Mongo, the Redis and Postgres stores of the Java program).

### `KeyListing`

A SQL store lists its keys in one statement (`Select`); the others are walked bucket
by bucket (`Visit`: the shards of a DashMap, the bins of a ConcurrentHashMap, SCAN,
the batches of a cursor), while `InsertKey` and `RemoveKey` go on; Redis may return a
bucket again (`VisitAgain`). `Page` is the filter, the sort and the slice of each
program with its arithmetic: `skip` and `take`, which cannot overflow, in Rust, `offset + limit` in a
`long` in Java, on a word of `MaxWord`. The sorted list is given by places: the key at
place `n` is the one with `n - 1` matching keys before it. `NextPage` is a client that asks for the page
after the last.

### `JavaConsumer` and `JavaWebApi`

`thread` is `polling`, `processing` (between two records), at a blocking call
(`fetching`, `putting`, `removing`), `checking` the lag (until the broker has answered
`endOffsets`), `comparing` the answer `ends` with its positions, `ended` (the catch-all
of the loop), or `off`. `position` is the client's, `read` what of the batch was taken. `Take`
begins a record, `Finish` and `GiveUp` end it: an exception of an update is logged and
the record dropped, one of a tombstone ends the thread (`RemoveErr`, `End`), and the
close of the consumer commits the position of the whole batch; what is skipped by that
is `abandoned`. The client commits inside `poll` (`AutoCommit`) or when partitions are
revoked, where the commit may fail or the session be over already (`Revoke`). Producers
go on between `EndOffsets` and `CheckLag`, which sets the flag. `Destroy` is `CacheFactory.destroy` under the running thread: from then on
every call to an external store fails. `JavaWebApi` adds the handlers as `WebApi` does;
a GET whose schema is not cached fetches it (`FetchKnown`, `FetchRefused`), and requests
are served while the thread is `off` as well, since Netty listens before the startup
checks run.

### Startup: `StartupGate`, `StartupChecks`, `JavaStartup`

`StartupGate` knows items that have to be *seen* (their services answered at one
moment) and the misses each is allowed; it admits when all are seen and refuses only
when one has used up its budget. In `StartupChecks` an item is a startup check or one
of the connections and preloads that follow with a single attempt each;
`Polled` is false while a blocking metadata request holds the task, and `GiveUp` is the
early return of `try_join_all`. In `JavaStartup` an item is the set of connection
pools, a check (in `Workers` threads, each with its own `attemptsRemaining`), or a
preflight URL; `Join` waits for all checks, the failed ones too. The same module has
the commands without web server, and the shutdown URLs of `HamsService.destroy`.

### `Service`, `HealthServer`, `SchemaService`, `CreateSchemas`

`Service` follows lib.rs 189-252 statement by statement (`stage`), with the requests
under way and whether hams may still call back into the state (`scraped`);
`ServiceFails` is every `?` on the way. `HealthServer` has the queue of exchanges and
the handler the dispatcher runs, which reads the lag first and then blocks on one
store after the other; `StopServing` and `ServingStops` are the two ends of
`server.stop(0)`, which takes no new exchange, waits for the dispatcher and drops the
rest. `SchemaService` has a thread at its first look (`Look`), at the
monitor (`Enter`), at the second look, at the fetch, and at its return. `CreateSchemas`
walks the configured stores in their order with the statement each kind uses, for
several commands at once, each of which may fail and be run again. A statement that
fails for the caller (`Fault`) may have made its table all the same. For Flyway
`CutShort` says what may be left: a history without V1 (`begun`), and, where DDL commits
by itself (Oracle), V1 recorded as failed or the table without a record; on Postgres the
table and its record come together or not at all.

## 3. Runs and properties

| Run (cfg) | Properties | Distinct states |
|---|---|---|
| `consumer_resume` (`ConsumerResume`) | `TypeOK`, `ViewFollowsLog`, `ExternalViewDurable`, `CommitCoversHandled`, `InMemorySchemasCached` | about 1 000 000 |
| `consumer_replay` (`ConsumerReplay`) | `ReplayRebuildsView` | about 245 000 |
| `consumer_latest` (`ConsumerLatest`) | `IInv` | about 499 000 |
| `consumer_partitions` (`ConsumerPartitions`) | `ReadyAfterHandled` | about 363 000 |
| `consumer_live` (`ConsumerLive`) | `EveryRecordHandled`, `EventuallyReady` | about 62 000 |
| `web` (`Web`) | `WebTypeOK`, `OnlyTouchedDiffer`, `RecordsDecode`, `ReadsMonotonic`, `RequestsAnswered` | about 632 000 |
| `stores` (`Stores`) | `StoresTypes`, `GaugeCounts`, `AnswersHeld`, `ErrorsAreFaults`, `Linearizable`, `PageIsSlice`, `KeysWeaklyConsistent`, `WalkConsistent` | about 392 000 |
| `java` (`Java`) | `WebTypeOK`, `OnlyTouchedDiffer`, `RecordsReadable`, `CommitCoversHandled`, `DatabasesDurable`, `ReadyWhenCaughtUp`, `KeepsGoing` | about 223 000 |
| `processes` (`Processes`) | `ProcessTypes`, `MyStateGated`, `ApplicationGated`, `EveryPartEnds`, `RetriesPayOff`, `StopsInOrder`, `OkIsHonest`, `FetchedOnce`, `FailureIsOwn`, `SuccessMeansTables` | about 63 000 |
| `ready_too_early`, `insert_error_stops`, `schema_after_restart` | one each, violated | |

**The Rust consumer** (`consumer_*`)

* `ViewFollowsLog`: while partitions are assigned, every cell holds what the
  latest record of this session that has had its effect on that cell says. Holds
  between any two awaits: an old record never overwrites a newer one, a tombstone
  leaves no store behind, no update reaches a foreign store.
* `ExternalViewDurable`: a database is never behind the offsets the group would
  resume after, except for records that were lost or dropped. This ties committed
  offsets, store content and history across deaths, failed writes and replays.
* `ReplayRebuildsView`: with `force_reset_earliest`, having read to the end, every
  store equals the latest record of each key, whatever happened before.
* `CommitCoversHandled`: every committed offset was processed, or was dropped, or
  was the one record in hand at a death.
* `InMemorySchemasCached`: a value in memory has its schema in `schema_cache`.
* `ReadyAfterHandled`: when the report that sets the latch knew every lag, every
  record the topic held at process start has been processed.
* `EveryRecordHandled`, `EventuallyReady`: progress, unless the task has stopped.
* `IInv`: the conjunction that carries the proofs (section 6).

**The Rust web server beside it** (`web`)

* `RecordsDecode`: a GET of an in-memory store that has read a record the consumer
  wrote can decode it, even if the cell is overwritten or deleted between the two
  awaits. A payload somebody POSTed carries no such promise (section 4).
* `OnlyTouchedDiffer`: HTTP writes disturb the cells they name and no other, and
  only until the next record for the cell; elsewhere `ViewFollowsLog` goes on.
* `ReadsMonotonic`: within one process a GET of an in-memory store never finds a record
  older than one a GET has found before, over every revocation and every new session, as
  far as the offsets of the group keep the place. An assignment lost to a timeout, a
  failed commit or `force_reset_earliest` does take a cell back, to where the new session
  begins and not further.
* `RequestsAnswered`: every accepted request is answered, unless the process dies.

**The stores** (`stores`)

* `Linearizable`: the in-memory stores, Redis and Postgres as the Rust program uses
  them implement `AtomicStore`.
* `AnswersHeld`, for all seven backends: what a get or a remove answers was in the cell
  at some moment of that call; contains_key likewise.
* `ErrorsAreFaults`: without a failed call nobody is refused because of the others,
  but for the loser of two MERGEs in Oracle.
* `GaugeCounts`: the gauge is right as soon as every call that changed a map has
  adjusted it, however the calls overlap.
* `KeysWeaklyConsistent`: a list of keys has what was there all the time and nothing
  that was there at no time. It need not be a snapshot (section 4).
* `PageIsSlice`, `WalkConsistent`: a page is the slice it should be; a client that walks
  the pages misses nothing while keys are only inserted, and sees nothing twice while
  they are only removed.

**The Java program** (`java`)

* `CommitCoversHandled`, `DatabasesDurable`: as above, with the records its two error
  paths give up on; here a process death itself loses nothing, since nothing is
  committed before the batch is worked off.
* `ReadyWhenCaughtUp`: the flag goes up only when every record that the topic held as
  `endOffsets` was answered has been dealt with; records produced between that answer and
  the flag may be unread. This is stronger than what the Rust latch gives.
* `RecordsReadable`: a GET that has read a record is refused only where a call has
  failed, after a restart too, and never for an in-memory store.
* `OnlyTouchedDiffer` as in `web`. `KeepsGoing`: records are dealt with, the process
  becomes ready, requests are answered, unless the thread has ended.

**Everything else** (`processes`)

* `MyStateGated`, `ApplicationGated`: both startups implement `StartupGate`.
* `RetriesPayOff`: while every check has an attempt left, services that come up, stay up
  and answer let the Rust process start.
* `StopsInOrder`: a service that returns has answered every request it accepted, and
  nothing can call back into the state it drops.
* `OkIsHonest`: a 200 of /ready or /startup has seen each store up since the exchange
  was taken, and /ready the lag cleared.
* `FetchedOnce`, `FailureIsOwn`: however many threads miss a schema, it is fetched once,
  and a thread is refused only by its own request.
* `SuccessMeansTables`: a create-schemas that succeeds leaves a table for every store of
  its configuration, whatever the others did meanwhile; what Flyway's history excepts is
  written into the property (section 4).
* `EveryPartEnds`: what each part has begun comes to an end. No remote service is assumed
  to answer; where an end depends on one, that is a premise of the part's property:

| Part of `EveryPartEnds` | What ends | Only if |
|---|---|---|
| `StartupEnds` | a Rust startup | attempts and connections are answered or refused, none of which has a timeout |
| | a Rust startup of which a check has spent its budget | the check that blocks the task is answered or refused; the others may be silent |
| `CancelEnds` | a cancelled service | its state is made or refused, and its handlers answer |
| `CommandEnds`, `StopEnds` | a Java command, a Java process told to stop, with no shutdown URL left uncalled but after one that used up its attempts | checks, preflights and shutdown URLs are answered or refused, and the dispatcher that `server.stop(0)` joins ends |
| `ExchangesEnd` | a health exchange (or it is dropped by a stop), a stop of the server | no store keeps silent for ever: a silence that ends must not hold anything up longer |
| `CachedIsServed`, `CallsEnd` | a call for a cached schema; any other | nothing; the registry answers or refuses |
| `RerunSucceeds` | a create-schemas, with success, unless Flyway recorded a failed migration | databases answer or refuse, and it is started again |

`WebTypeOK`, `StoresTypes`, `ProcessTypes` and `TypeOK` are the type invariants.

### Instances that hold several modules

`MCStores` and `MCProcesses` explore several modules that share no state in one run:
a variable `part` picks the module at the start, its steps leave the variables of the
others alone, and these have one initial value. The behaviours are those of the
modules one by one. `MCWebApi` and `MCJavaWebApi` have a variable `scene` that bounds a
behaviour more tightly than the constants, in one of three ways, so that a fault, a
rebalance, a second client (or a second request) and a longer log each occur and only
their product is cut. In the scene of `MCJavaWebApi` that has the thread alone, two of a
fault, a death and a rebalance occur together, in any order. All scenes are part of each run.

### Bounds, and why they are enough

The theorems of section 6 have no bounds; what follows is about the runs.

* `MaxLog` records per partition: three for `consumer_resume`, so that a key can
  be written, moved to another store or deleted, and written again; two are
  enough for a regress and its repair (`consumer_replay`) and for a batch whose first
  record fails (`java`); one per partition where the interplay of two partitions is
  the point.
* `MaxFaults`, `MaxCrashes`, `MaxRebalances`: one each where they matter. One
  failed write followed by a restart, or one restart in the middle of a tombstone,
  already meets every branch of the recovery.
* One outstanding statistics report. Reports come every second and a handler that
  waits longer lets them queue; a later one is newer than the one kept, so the
  oldest, which is the one modelled, is the most out of date.
* Keys, schemas and stores of the consumers: one database and one in-memory store, one
  schema routed to each and one to none; one key, two in `consumer_latest` and
  `consumer_partitions`.
* `MaxRequests`: two. A request beside the consumer, or two requests beside each other,
  in every order of their awaits. `Body` has a payload that is framed, one that is
  not, one that does not decode, and in Java one with an id the registry does not know.
* `Stores`: two clients on one key with two values. Every conflict of the backends is
  one of two operations on one row, and the theorems hold for any number of clients.
  Both in-memory stores are deployed together because they
  share the gauge, every other backend alone. One fault.
* `KeyListing`: four keys in two buckets, one of them not matching the filter, two
  writes, four pages; limits of one, two and none; `MaxWord = 31`, where an offset
  of 31 overflows with every limit and two of the longest lists (four keys, one bucket
  returned again) do not.
* `Processes`: three checks with two attempts, two outages or recoveries; the Java
  command with two workers for its four checks, so that one has to wait, one
  change, and at most two services down at first (`FewDown`); three requests; three
  exchanges, one per path, with two stores of which one may fall silent or speak again, and
  a stop; two preloaded schemas, one of which may be fetched by an attempt that fails at
  the other; three threads
  and two schemas; two create-schemas with two failures over three configurations (the
  five stores of a Rust one, a Java one with both databases, two Java tables in one
  database).

Deadlock checking is off in all runs: with the log full, everything read and every
budget spent, or when a startup or a command has ended, a process may rightly have
nothing left to do. `EveryPartEnds`, `KeepsGoing` and the `consumer_live` properties
say of each part that it does not stop before that.

### Fairness

What the code and its runtime provide, and nothing of producers, failures, deaths or
outages:

* `PushConsumer`: a process that is down is started again (the deployment restarts
  it); the coordinator assigns; librdkafka's threads fetch, commit every five seconds
  and report every second; calls to registry and stores return (a call that is neither
  answered nor refused would hang the real handler too). Taking a record and serving a
  report compete for the same poll of the stream, which serves its queue in order: each
  is strongly fair, as neither can be put off for ever. Nothing is assumed of a task
  that has stopped.
* Handlers (`WebApi`, `JavaWebApi`): the runtime polls a task that is ready, and store
  calls return.
* `JavaConsumer`: the thread runs, a poll returns what there is sooner or later
  (`PollSome`, strongly fair because a poll may always return less), the lag request is
  answered again and again, a process that is told to close is gone in the end.
* `MCProcesses`: tasks and threads run and timers fire, and nothing else. A service that
  is asked may never answer: no attempt of a startup check, preflight or shutdown URL has a
  timeout (startup_tools.rs 59, kafka_utils.rs 60, StartupCheckService.java 120,
  HamsService.java 151 and 164), nor has a schema fetch. The properties that need an answer
  have weak fairness of the answers as their premise (`Answers`, `CallsAnswered`,
  `ChecksReply`, `ShutdownsReply`, `DispatcherEnds`, `RegistryAnswers` and those written
  into `CancelEnds` and `RerunSucceeds`). A Java monitor is not fair and is not assumed to
  be.

## 4. Where the code and its documents differ

Three runs show a disagreement (`findings` in `PROJECT.json`):

1. `NotReadyUntilCaughtUp` (prd-observability.md 23). A report without a single
   known lag sums to zero and makes the process ready. Unlike
   `ReadyAfterHandled` the property does not assume a report that knew anything.
2. `InsertErrorKeepsConsumer` (prd-ingestion.md 100). A failed insert ends the
   consumer task.
3. `SchemasCachedOnPopulation` (comment at webserver/mod.rs 269). After a restart
   over a database the schema of a stored value need not be cached. Restricted to
   in-memory stores the statement holds: `InMemorySchemasCached`.

The following were met while translating. They have no run of their own; the modules
contain the behaviour, and the properties above are stated so as to be true of it.
README.md and the prd files of the Rust program are under `src/rust-container`, those
marked Java and comparison.md under `src/java-container/spec`.

| What a document says | What the code does | Where a property makes room for it |
|---|---|---|
| DELETE returns the deleted data (mod.rs 208); RedisCache.java 106: "the value that was deleted" | the Oracle remove (cache.rs 413) and the Java Redis remove (107) read and delete in two statements, and can answer a value other than the one they took away | `AnswersHeld` promises a value held during the call; these backends are outside `Linearizable` |
| `insert` performs an upsert (prd-cache-core.md 62) | of two concurrent MERGEs of a new key one fails with ORA-00001, which in the consumer ends ingestion | `ErrorsAreFaults` exempts Oracle |
| a tombstone removes the key from all stores (README.md 168) | concurrent upserts in a Mongo collection without a unique index leave two documents, and a remove takes one | `AnswersHeld` speaks of what the remove saw, not of what is left |
| `keys()` returns a snapshot (prd-cache-core.md 32) | `DashMap::iter` locks one shard at a time (cache.rs 65); Redis SCAN may return a key twice, and the list has it twice | `KeysWeaklyConsistent`; `WalkConsistent` without repeated buckets |
| `limit` and `offset` are optional (Java prd-api.md 20) | `offset + limit` with the default limit overflows for every positive offset, and the page is empty (RecordHandler.java 76) | `PageIsSlice` |
| records leave the cache by tombstones only (src/README.md 40) | DELETE removes them as well (mod.rs 214) | `OnlyTouchedDiffer` |
| schemas are always in the cache (mod.rs 269) | POST stores a payload whose schema nobody has fetched (201) | `RecordsDecode` leaves out POSTed values |
| `requests_total` counts API requests (prd-observability.md 44) | it is registered (lib.rs 72) and never incremented | |
| tombstones clear data from all stores (Java prd-ingestion.md 90) | a remove that fails leaves the Java loop; the close commits the whole batch, and the tombstone is never read again (KafkaConsumerService.java 175) | `abandoned` in `CommitCoversHandled` and `DatabasesDurable` |
| messages are processed reliably (Java prd-ingestion.md 17) | nothing stops the thread when the context closes: the stores close under it, the update is logged and dropped, the next poll commits past it (CacheFactory.java 120) | `dropped` in the same |
| web requests are non-blocking (comparison.md 33) | `getSchema` waits for a monitor on the web server's thread, held during a request without a timeout (SchemaService.java 40) | `CallsEnd` assumes a registry that answers |
| `timeout` is the timeout of a check (config.rs 305) | it is slept between two attempts; an attempt itself has none (startup_tools.rs 78) | `CallsAnswered` is a premise of `StartupEnds` and `RetriesPayOff` |
| the startup check fails for a store that is down (StartupCheckServiceTest.java 136) | `checkCaches` drops the Mono of `checkHealth` (177): only a store that works before it returns the Mono is checked | `Contacted`, `Needs` in `JavaStartup` |
| schemas are preloaded on startup (Java prd-ingestion.md 36) | skipped when startup checks are disabled (StartupCheckService.java 51); the Rust program preloads in any case | `Checks`, `Required` |
| config-check passes for a valid file (Java prd-configuration.md 90) | it runs the whole application, opens the pools and calls the preflight URLs (Cli.java 68) | `ApplicationGated` covers every command |
| create-schemas creates the configured tables (Java prd-cache-core.md 74, 115) | Flyway's history is one per database: a second store there gets no table; a migration that failed in Oracle refuses every later run (Cli.java 99, 113) | `Migrated`, `RerunSucceeds` |
| a signal cancels the token and drains the server (README.md 113-114) | nothing connects a signal to the token (lib.rs 189) | `CancelEnds` speaks of a token somebody cancels |
| a critical error ends the system (README.md 108) | the consumer's JoinHandle is dropped (lib.rs 240) | `EndConsumer` changes nothing else |
| /alive answers 200 (Java prd-observability.md 19) | every handler runs on one thread, and /ready blocks it until each store has answered (HamsService.java 132) | `ExchangesEnd` excepts a store that keeps silent for ever |

## 5. Mutants

Each property of a passing run is broken by one mutant of a mapped definition
(`mutants` in `PROJECT.json`): a dropped guard, a missing second look, a statement not
committed, an attempt that is not counted. The mutated operators stand before their
originals, marked `mutant`, and are used by no specification.

## 6. Proofs

Every theorem rests on the named assumptions of its module alone and holds for any
sets of partitions, keys, schemas, stores, clients, checks, threads and requests, any
routing and traffic, and any bounds.

| Theorem (module) | Statement |
|---|---|
| `TypeCorrect` (`PushConsumerProofs`) | `Spec => []TypeOK` |
| `CommitsCovered` (`PushConsumerProofs`) | `Spec => []CommitCoversHandled` |
| `ReadyHandled` (`PushConsumerProofs`) | `Spec => ReadyAfterHandled` |
| `ViewFollows` (`PushConsumerViewProofs`) | `Spec => []ViewFollowsLog` |
| `SchemasCached` (`PushConsumerViewProofs`) | `Spec => []InMemorySchemasCached` |
| `ReplayRebuilds` (`PushConsumerViewProofs`) | `Spec => []ReplayRebuildsView` |
| `ExternalDurable` (`PushConsumerViewProofs`) | `Spec => []ExternalViewDurable` |
| `Invariance` (`PushConsumerViewProofs`) | `Spec => []IInv` |
| `WebTypeCorrect` (`WebApiProofs`) | `WebSpec => []WebTypeOK` |
| `TouchedOnly` (`WebApiProofs`) | `WebSpec => []OnlyTouchedDiffer` |
| `ReadsDecode` (`WebApiProofs`) | `WebSpec => RecordsDecode` |
| `ReadsForward` (`WebApiProofs`) | `WebSpec => ReadsMonotonic` |
| `TypeCorrect` (`StoresProofs`) | `Spec => []TypeInv` |
| `LocksAreReleased` (`StoresProofs`) | `Spec => []LockHolderRuns` |
| `AnswersAreHeld` (`StoresProofs`) | `Spec => []AnswersHeld` |
| `OnlyFaultsFail` (`StoresProofs`) | `Spec => []ErrorsAreFaults` |
| `GaugeIsRight` (`StoresProofs`) | `Spec => []GaugeCounts` |
| `OneStatementIsAtomic` (`StoresProofs`) | `Spec => Linearizable`: the refinement of `AtomicStore` |
| `KeysHonest` (`StoresProofs`) | `ListSpec => []KeysWeaklyConsistent` |
| `ListingIsSorted` (`StoresProofs`) | of any sequence of keys, `Listing` is the matching ones in ascending order, each as often as it occurs |
| `PagesAreSlices` (`StoresProofs`) | `ListSpec => []PageIsSlice` |
| `WalksAreConsistent` (`StoresProofs`) | `ListSpec => []WalkConsistent` |
| `RunTypeCorrect` (`StoresProofs`) | `StoresSpec => []StoresTypes`, of `MCStores` |
| `CommitsAreHandled` (`JavaConsumerProofs`) | `Spec => []CommitCoversHandled` |
| `ReadyIsHonest` (`JavaConsumerProofs`) | `Spec => ReadyWhenCaughtUp` |
| `WebTypeCorrect` (`JavaWebApiProofs`) | `WebSpec => []WebTypeOK` |
| `TouchedOnly` (`JavaWebApiProofs`) | `WebSpec => []OnlyTouchedDiffer` |
| `RecordsAreReadable` (`JavaWebApiProofs`) | `WebSpec => RecordsReadable` |
| `DatabasesLoseNothing` (`JavaWebApiProofs`) | `WebSpec => []DatabasesDurable` |
| `CommitsAreHandledBeside`, `ReadyIsHonestBeside` (`JavaWebApiProofs`) | the two theorems of `JavaConsumerProofs`, of `WebSpec` |
| `StartupTypes` (`StartupChecksProofs`) | `StartupSpec => []StartupInv` |
| `StartupIsGated` (`StartupChecksProofs`) | `StartupSpec => MyStateGated`: the refinement of `StartupGate` |
| `ApplicationIsGated` (`StartupChecksProofs`) | `JavaSpec => ApplicationGated`: the same gate, another mapping |
| `ReturnsStopped` (`ProcessesProofs`) | `ServiceSpec => []StopsInOrder` |
| `HealthIsHonest` (`ProcessesProofs`) | `HealthSpec => []OkIsHonest` |
| `SuccessIsTables` (`ProcessesProofs`) | `CreateSpec => []SuccessMeansTables` |
| `OneFetchEach`, `FailuresAreOwn`, `Monitor` (`ProcessesProofs`) | `SchemaSpec => []FetchedOnce`, `[]FailureIsOwn`, `[](SchemaTypeOK /\ LockInv)` |
| `PartsTypeCorrect` (`ProcessesProofs`) | `Spec => []ProcessTypes`, of `MCProcesses` |

### `PushConsumer`

*Types.* `TypeOK` is not inductive: that an insert writes an offset of the right log
needs that the record in hand is one of the partition it was read from. `Base` adds
`TaskInv` (what each phase has in hand) and `OffsetInv` (start of the session <=
position <= end of the partition, committed <= position while assigned). One lemma
per action, or group of actions that end in `Stop`, shows that it preserves `Base`.

*Commits.* `CommitCoversHandled` needs the same of positions (`ReadInv`), since a
commit publishes positions. Three facts about a step give the result: a handled
record stays handled (`HandledStays`), a new committed offset was a position
(`CommitStep`), and a new position was a committed offset or belongs to a record
this step handles (`ReadStep`).

*Readiness.* A report in flight describes the past. `ReportInv` says what of it
stays true: a lag of zero means that every record up to `log_at_boot` was handled,
because the end of the partition it was computed from is not older than the process
and every committed offset is handled. The callback runs with nothing in hand, which
turns "handled" into "processed, dropped or lost".

*View.* `Settled` is what decides a cell. A step either settles nothing for the cell
and leaves it alone (`SettledKept`, `DecidesKept`), or settles the record in hand and
writes its effect (`InsertDecides`, `RemoveDecides`); the record in hand is the newest
of the session by `SessionInv`, and of the cell's own partition by `PartitionInv`.
`CellInv` (a cell that is not empty holds an update meant for it) gives the schema
cache and the replay theorem.

*Durability.* `Horizon` is how far the client has read or will resume. A step either
writes the record in hand to a cell, which is then up to date whatever it held before
(`Written`), or leaves the cell and turns no excused record into a missing one
(`Kept`); the horizon only moves forward by the record just taken, which is then
pending, or past records that are dropped (`HorizonStep`).

### `WebApi`

*The consumer's invariants.* A handler leaves every variable of the consumer alone but
`stores`, `schema_cache` and the fault counter, and of `stores` it writes one cell
with a payload, or empties it (`Writes`). `WebBase` holds what
survives that: types, offsets, partitions and sessions. `CellInv` of the consumer does
not, and `OnlyTouchedDiffer` takes the place of `ViewFollowsLog`: the proof follows a
cell from the step that took it out of `touched`, which settled a record for it.

*Decoding.* `CellsAtHand`: a value of an in-memory cell that is not a payload is a
record for the cell whose schema is cached. `ReadAtHand` says the same of a value in the
hands of a handler, and is what makes the read survive the await: it does not mention
the cell, and the cache never shrinks while the process lives. A death takes the
handlers with it, so neither has to survive the loss of the cache.

*Reads.* A cell is not older than what was read from it, of what counts as read
(`NotOlder`). By itself that is not inductive: an insert writes the record in hand, which
lies at `Horizon`, so nothing beyond the horizon may count as read. Within an assignment
the horizon only moves forward (`HorizonForward`); when one ends `newest_read` is cut back
to it, whether or not the commit of the revocation took place.

### `Stores`

*Types.* `TypeOK` does not say that a client at `merging` is in an insert on Oracle,
without which an answer might be of another operation. `StageInv` says of every stage
which operations, backends and answers fit it; `TypeInv` is both, and every later
proof stands on it.

*Locks.* `LockHolderRuns` is inductive over `TypeInv`: a row is locked by the step that
goes to `commit`, and unlocked by the one that leaves it. No run checks it, since the
theorem is about the waiting of any number of clients.

*Answers.* `HeldInv` says that the history of a call has what its cell holds now. Then
whatever a statement reads is in the history, and `AnswerOK` carries it from the
statement to the answer: what a remove has in hand (`selected`, `commit`,
`counting`) was held, and an operation that will succeed in emptying a cell has seen
it empty. The history only grows, which every step of another client needs.

*Gauge.* `GaugeCounts` relates cardinalities of three sets: the occupied cells, and the
calls between map and gauge. `GaugeInv` adds that the three are finite. `MapInsert` on
an empty cell adds one element to two of them, `AdjustGauge` moves one from a set to
the gauge, and everything else leaves all three alone.

*Refinement.* A turn of a client on a one-statement backend is its call, its effect and
its answer (`RefinesTurn`, `RefinesStep`, `RefinesFault`); one on any other backend is
a stutter, as its cell and its call are not part of the mapping.

*Lists.* `ScanInv` splits the keys at the bucket the scan has come to: those in an
earlier one were collected if the store held them all along, and whatever was collected
was in the store at some moment. An insert or a remove shrinks "all along" and widens
"at some moment"; a bucket that Redis returns again moves the scan back, which asks for
less. `AsSeqLists` (a set of keys is listed completely, once each) is what the operator
of the community modules gives, by cardinality: an injection between finite sets of one
size is onto.

*Pages.* `PlacesTaken`: of two positions one precedes the other and has the smaller place,
so the places are different numbers below the number of matches, and by cardinality every
one of them is taken. The listing is therefore a permutation of the matching keys, in
order (`ListingIsSorted`). `FoundInv` bounds what a scan has found by the keys behind its
bucket, once more for every repeat, and says that without repeats no key is found twice.
`PageCut` is the arithmetic of both handlers against `Slice`; the sum in Java is the only
one that may not fit. `PagesInv` adds to `PageIsSlice` that no page is longer than
`Longest`, and that a client that goes on has a limit no larger than that, since the last
page was full. `ListingAssumption` has `2 * Longest <= MaxWord`: a `Vec` of strings and a
Java `List` are far shorter than `usize::MAX` and `Long.MAX_VALUE`.

*Walks.* Neither half of `WalkConsistent` is inductive: both are about pages of different
lists. `Sure` is what the list under way will have in any case, `Maybe` what it may
have, and `Ahead` where the next page begins. While keys are only inserted, each key that
is still missing has more than `Ahead` matching keys up to it in `Sure` (`GrowInv`), so it
lies on a later page: inserts raise its place (`PlaceIsCount`: a key's place in a list is
the number of keys up to it), and a page that does not have it is full. While
keys are only removed, each key that was returned has at most `Ahead` keys up to it in
`Maybe` (`ShrinkInv`), and so is on no later page. A page cut off by the overflow of the
Java sum is empty, which ends a walk: `RespondedGrow` shows that this does not
happen to a walk from the first page while it misses a key, as its offset is then
within a list and its limit within another.
TLC agrees with all of `WalkInv` on the instance of `stores`.

*Both parts.* A step of `MCStores` is one of `Stores` or of `KeyListing` and leaves the
other's variables alone (`RunIsBoth`), so the theorems hold of the run's behaviours.

### The others

*Java consumer.* `ReadInv`: what was taken from a batch is over (processed, dropped or
abandoned), and between two batches the position is what was taken. Since the client
commits only between batches, or at the close, which abandons the rest, committed
records are over. The lag check runs between batches, so a position at one of the `ends`
means that everything up to it is over, whatever has been produced since.

*The Java thread beside its handlers.* `ThreadInv` adds to `ReadInv` the types, what the
thread has in hand (`TaskInv`), that a record belongs to the partition of its key
(`PartitionInv`) and where a session has begun (`SessionInv`). `CellInv` and `HandInv`
are the two halves of `RecordsReadable`: a cell, and a handler between its two calls,
have an update for the cell, from memory with its schema cached.

*Databases.* `DatabasesDurable` speaks of the offset at which the group resumes and is not
inductive, since a batch is committed long after its records were written. `DurableInv`
says instead of each cell how far it has been brought (`Brought`): to what the session
has read, the record in hand included once its remove has come to the store. Either a
step writes the record in hand (`HorizonWritten`), or the cell stays and what is passed
over is given up on (`HorizonKept`). The attempt to prove it showed that the property
had been stated too strongly for `force_reset_earliest`: while such a session replays,
a database does go back to older records although a later offset is committed, and TLC
finds it when the constant is TRUE. The offset that counts there is zero, since the
group reads everything again; `ResumesAfter` says so.

*Schema service.* The invariant is the two properties, the monitor, and `AskedOK`: who
fetches has found under the lock that the schema is not cached. Only a thread in the
monitor adds to the cache, so its fetch is the first.

*Startup.* `StartupInv` says what each stage of `MyState::new` has behind it: an attempt
is made only with budget left, and nothing is contacted before every check has passed. The
misses of an item are the budget minus what is left of it, or, for the single calls,
whether this one has failed; each action is mapped to the step of the gate it takes.
`JavaInv` does the same for the Spring application, whose items are of three kinds: the
pools (`PoolsStep`), the checks (`CheckStep`) and the preflights (`PreflightStep`).
`JavaSees` and `JavaMissesOne` are what a step has to show to be one of the gate's.

*Service.* `StopInv` says at every stage of the stop which of the earlier ones it can
rely on.

*Health server.* `HandlerHonest` says what the handler remembers while it serves: if it
still thinks all is well, every store it has asked was seen up by this exchange.

*create-schemas.* `CreateInv`: a command has served every store it has gone past
(`Placed`), and a migration in a history has left a table (`AppliedOnce`), a failed command's
as well (`Recorded`). No step takes a table away (`ServedStays`), so what the other commands
do cannot undo either.

*Side by side.* A step of `MCProcesses` is a step of one part and leaves the variables of
the others alone, so the conjunction of their inductive invariants (`PartsInv`) is one
too; the types of all parts follow.

### What is only model-checked

Liveness (`EveryRecordHandled`, `EventuallyReady`, `RequestsAnswered`, `KeepsGoing`,
`RetriesPayOff`, `EveryPartEnds`), as fairness and ENABLED are outside the prover. Every
invariant and every action property that a passing run checks is proved.

The three violations, which are counterexamples and need no proof.

## 7. Not modelled

* `R/hams.rs` (checks and preflights of the Rust program): nothing calls it.
  `reset_consumer_offsets` in kafka_utils.rs, `with_cancel` in tokio_tools.rs and
  `clear()` of the Java caches have no caller either, nor has
  `KafkaConsumerService.stop` outside tests.
* Counters, their registration and rendering (`metrics.rs`, `MetricsService`, the
  per-store request counters): they are written and never read by the program. The
  lag gauge and the latch it feeds are modelled.
* Deserialization of configuration: what the program branches on is a constant of the
  modules. Avro and JSON conversion: whether a value decodes is part of the model, what
  it decodes to is not. HTTP status wording, logging, tracing.
* In `JavaStartup` a web port that cannot be bound, which ends the command as a spent
  budget does but says nothing of the services; in `Service` it is one of `ServiceFails`.
* Construction of the tokio runtime and the error types; charts, deployment
  descriptors, scripts, benches and examples.

Reasons are also with each entry of `components` in `PROJECT.json`.
