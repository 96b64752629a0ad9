---------------------------- MODULE PushConsumer ----------------------------
(***************************************************************************)
(* One process of push-cache (the Rust container): the Kafka consumer task *)
(* of consumer.rs, the stores it writes, the schema cache it fills, the    *)
(* statistics callback that decides readiness, and what a process start, a *)
(* process death and a dead consumer task do to all of these.              *)
(*                                                                         *)
(* The broker, the registry and the external stores are modelled from how  *)
(* consumer.rs uses them.  One group member: every assignment is for all   *)
(* partitions of the topic.  HTTP writers are not in this module.          *)
(*                                                                         *)
(* Offsets count from 1: offset o of partition p is log[p][o].  A payload  *)
(* is represented by the offset it was published at, so a cell of a store  *)
(* (one key of one store) holds an offset or Absent.                       *)
(***************************************************************************)
EXTENDS Integers, Sequences, FiniteSets

CONSTANTS
  Partition,          \* the partitions of the configured topic
  Key,                \* record keys that are valid UTF-8
  Schema,             \* schema ids of the registry
  Store,              \* names of config.cache.stores
  InMemory,           \* those of type InMemory; the others are external
  NoKey,              \* a null or non-UTF-8 record key
  Unrouted,           \* the answer of schema_to_store for an unlisted schema
  NoPartition,        \* the partition of "no record in flight"
  PartitionOf,        \* the producers' partitioner
  StoreOf,            \* schema id -> full name -> schema_to_store
  Preload,            \* config.kafka.preload_schemas
  ForceResetEarliest, \* config.kafka.force_reset_earliest
  OffsetReset,        \* config.kafka.offset_reset
  Traffic,            \* the messages producers may send
  MaxLog,             \* bound: records per partition
  MaxFaults,          \* bound: failed calls (store, registry, broker)
  MaxCrashes,         \* bound: process deaths
  MaxRebalances       \* bound: revocations of the assignment

(* What a record can look like to the consumer: a Confluent-framed         *)
(* payload, no payload at all, or a payload get_bytes_result refuses.      *)
Message ==
  [kind : {"update"}, key : Key \cup {NoKey}, schema : Schema]
    \cup [kind : {"tombstone"}, key : Key \cup {NoKey}]
    \cup [kind : {"invalid"}, key : Key \cup {NoKey}]

ASSUME DeploymentAssumption ==
  /\ Store # {} /\ InMemory \subseteq Store
  /\ NoKey \notin Key /\ Unrouted \notin Store
  /\ PartitionOf \in [Key -> Partition]
  /\ StoreOf \in [Schema -> Store \cup {Unrouted}]
  /\ Preload \subseteq Schema
  /\ ForceResetEarliest \in BOOLEAN /\ OffsetReset \in {"earliest", "latest"}
  /\ Traffic \subseteq Message
  /\ {MaxLog, MaxFaults, MaxCrashes, MaxRebalances} \subseteq Nat

VARIABLES
  log,                   \* broker: the topic
  committed,             \* broker: the group's offsets, -1 when there is none
  stores,                \* the content of every store
  phase,                 \* where the consumer task is
  cur,                   \* the record it is processing
  todo,                  \* stores a tombstone has still to be applied to
  schema_cache,          \* schema ids with a parsed schema
  assigned,              \* client: partitions assigned
  from, position,        \* client: start of the session, records delivered
  high,                  \* client: end of the partition last fetched, or -1
  known,                 \* client: partitions whose committed offset it knows
  stats,                 \* a statistics event waiting for the callback
  consumer_lag,          \* gauge: is the last lag_total above zero?
  startup_lag_cleared,   \* the readiness latch and its probe
  tombstones_processed, schema_unrouted_count,
  done, applied,         \* history: records processed, ever / this session
  dropped, lost,         \* history: given up on / in flight at a death
  log_at_boot,           \* history: end of the topic when the process started
  faults, crashes, rebalances   \* the budgets used

broker  == <<log, committed>>
task    == <<phase, cur, todo>>
client  == <<assigned, from, position, high, known>>
metrics == <<tombstones_processed, schema_unrouted_count>>
health  == <<stats, consumer_lag, startup_lag_cleared>>
history == <<done, applied, dropped, lost>>
budgets == <<faults, crashes, rebalances>>
vars == <<broker, stores, task, schema_cache, client, metrics, health,
          history, log_at_boot, budgets>>

Absent == 0
NoRecord == [part |-> NoPartition, offset |-> 0]
Offsets == Nat \ {0}
Record == Partition \X Offsets
Busy == {"fetching", "inserting", "removing"}
Running == phase \in {"idle"} \cup Busy

BrokerType ==
  /\ log \in [Partition -> Seq(Message)]
  /\ committed \in [Partition -> Nat \cup {-1}]
StoreType ==
  stores \in [Store -> [Key -> Nat]] /\ schema_cache \subseteq Schema
TaskType ==
  /\ phase \in {"down", "idle", "stopped"} \cup Busy
  /\ cur \in [part : Partition, offset : Offsets] \cup {NoRecord}
  /\ todo \subseteq Store
ClientType ==
  /\ assigned \in BOOLEAN
  /\ from \in [Partition -> Nat] /\ position \in [Partition -> Nat]
  /\ high \in [Partition -> Nat \cup {-1}]
  /\ known \subseteq Partition
HealthType ==
  /\ stats \subseteq [Partition -> Int]
  /\ consumer_lag \in BOOLEAN /\ startup_lag_cleared \in BOOLEAN
MetricsType == tombstones_processed \in Nat /\ schema_unrouted_count \in Nat
HistoryType ==
  /\ done \subseteq Record /\ applied \subseteq Record
  /\ dropped \subseteq Record /\ lost \subseteq Record
  /\ log_at_boot \in [Partition -> Nat]
BudgetType == faults \in Nat /\ crashes \in Nat /\ rebalances \in Nat

TypeOK ==
  /\ BrokerType /\ StoreType /\ TaskType /\ ClientType
  /\ HealthType /\ MetricsType /\ HistoryType /\ BudgetType

----------------------------------------------------------------------------
(* The broker and the producers.                                           *)

Zero == [p \in Partition |-> 0]
NoOffset == [p \in Partition |-> -1]

Init ==
  /\ log = [p \in Partition |-> <<>>] /\ committed = NoOffset
  /\ stores = [s \in Store |-> [k \in Key |-> Absent]]
  /\ phase = "down" /\ cur = NoRecord /\ todo = {}
  /\ schema_cache = {}
  /\ assigned = FALSE /\ from = Zero /\ position = Zero
  /\ high = NoOffset /\ known = {}
  /\ stats = {} /\ consumer_lag = FALSE /\ startup_lag_cleared = FALSE
  /\ tombstones_processed = 0 /\ schema_unrouted_count = 0
  /\ done = {} /\ applied = {} /\ dropped = {} /\ lost = {}
  /\ log_at_boot = Zero
  /\ faults = 0 /\ crashes = 0 /\ rebalances = 0

Produce(p, m) ==
  /\ Len(log[p]) < MaxLog
  /\ m.key # NoKey => PartitionOf[m.key] = p
  /\ log' = [log EXCEPT ![p] = Append(@, m)]
  /\ UNCHANGED <<committed, stores, task, schema_cache, client, metrics,
                 health, history, log_at_boot, budgets>>

(* A call to the registry, the broker or an external store fails.          *)
Fault == faults < MaxFaults /\ faults' = faults + 1

(* librdkafka stores the offset of a record as it hands the record over,   *)
(* before consumer.rs has done anything with it; what auto-commit sends is *)
(* the stored offset, when the session has one.                            *)
Delivered == {p \in Partition : assigned /\ position[p] > from[p]}
CommitFetched ==   \* mutant: commits what was fetched, delivered or not
  committed' = [p \in Partition |->
                  IF assigned /\ high[p] > from[p] THEN high[p]
                                                   ELSE committed[p]]
CommitStored ==
  committed' = [p \in Partition |->
                  IF p \in Delivered THEN position[p] ELSE committed[p]]

AutoCommit ==
  /\ Running /\ Delivered # {}
  /\ CommitStored
  /\ known' = known \cup Delivered
  /\ UNCHANGED <<log, stores, task, schema_cache, assigned, from, position,
                 high, metrics, health, history, log_at_boot, budgets>>

FetchBatch(p) ==
  /\ Running /\ assigned /\ high[p] # Len(log[p])
  /\ high' = [high EXCEPT ![p] = Len(log[p])]
  /\ UNCHANGED <<broker, stores, task, schema_cache, assigned, from, position,
                 known, metrics, health, history, log_at_boot, budgets>>

----------------------------------------------------------------------------
(* Assignment.  Rebalance callbacks run inside the poll of the stream, so  *)
(* only between two records.                                               *)

Unassign ==
  /\ assigned' = FALSE /\ from' = Zero /\ position' = Zero
  /\ high' = NoOffset /\ applied' = {}

StartOfCommitted(p) ==   \* mutant: the group's offset wins over the reset
  IF committed[p] >= 0 THEN committed[p] ELSE 0

StartOfUnchecked(p) ==   \* mutant: no offset_reset where the group has none
  IF ForceResetEarliest THEN 0 ELSE committed[p]

StartOfReset(p) ==   \* mutant: the reset policy wins over the group's offset
  IF ForceResetEarliest \/ OffsetReset = "earliest" THEN 0 ELSE Len(log[p])

StartOfNext(p) ==   \* mutant: takes the offset for the last record read
  IF ForceResetEarliest THEN 0
  ELSE IF committed[p] >= 0 THEN committed[p] + 1
  ELSE IF OffsetReset = "earliest" THEN 0 ELSE Len(log[p])

StartOf(p) ==
  IF ForceResetEarliest THEN 0
  ELSE IF committed[p] >= 0 THEN committed[p]
  ELSE IF OffsetReset = "earliest" THEN 0 ELSE Len(log[p])

(* Records an "offset_reset: latest" start decides never to read.          *)
PassedOver ==
  {r \in Partition \X (1..MaxLog) :
     ~ForceResetEarliest /\ committed[r[1]] = -1 /\ r[2] <= StartOf(r[1])}

Assign ==
  /\ phase = "idle" /\ ~assigned
  /\ assigned' = TRUE
  /\ from' = [p \in Partition |-> StartOf(p)]
  /\ position' = from'
  /\ high' = NoOffset
  /\ known' = IF ForceResetEarliest THEN known
              ELSE known \cup {p \in Partition : committed[p] >= 0}
  /\ dropped' = dropped \cup PassedOver
  /\ UNCHANGED <<broker, stores, task, schema_cache, metrics, health, done,
                 applied, lost, log_at_boot, budgets>>

(* The client commits what it has stored as it gives partitions up, if it  *)
(* still can: an assignment lost to session.timeout.ms (consumer.rs 136)   *)
(* or a commit the broker does not answer leaves the group where it was.   *)
Revoke ==
  /\ phase = "idle" /\ assigned
  /\ rebalances < MaxRebalances /\ rebalances' = rebalances + 1
  /\ \/ CommitStored /\ known' = known \cup Delivered
     \/ UNCHANGED <<committed, known>>
  /\ Unassign
  /\ UNCHANGED <<log, stores, task, schema_cache, metrics, health, done,
                 dropped, lost, log_at_boot, faults, crashes>>

----------------------------------------------------------------------------
(* One record.  try_for_each runs the handler of a record to its end       *)
(* before it takes the next one from the stream.                           *)

Next1(p) == position[p] + 1
Incoming(p) == log[p][Next1(p)]

Receive(p) ==
  /\ phase = "idle" /\ assigned /\ position[p] < high[p]
  /\ position' = [position EXCEPT ![p] = Next1(p)]
  /\ UNCHANGED <<broker, stores, assigned, from, high, known, health, lost,
                 log_at_boot, crashes, rebalances>>

(* The handler waits at an await with record o of p in hand ...            *)
Hold(ph, p, o) ==
  /\ phase' = ph /\ cur' = [part |-> p, offset |-> o]
  /\ UNCHANGED <<done, applied>>

(* ... or returns Ok(()), and the stream may be polled again.              *)
Finish(p, o) ==
  /\ phase' = "idle" /\ cur' = NoRecord
  /\ done' = done \cup {<<p, o>>} /\ applied' = applied \cup {<<p, o>>}

ReceiveInvalid(p) ==
  /\ Receive(p)
  /\ Incoming(p).kind = "invalid"
  /\ Finish(p, Next1(p))
  /\ UNCHANGED <<todo, schema_cache, metrics, dropped, faults>>

ReceiveTombstone(p) ==
  /\ Receive(p)
  /\ Incoming(p).kind = "tombstone"
  /\ \/ /\ Incoming(p).key = NoKey
        /\ Finish(p, Next1(p))
        /\ UNCHANGED <<todo, tombstones_processed>>
     \/ /\ Incoming(p).key # NoKey
        /\ tombstones_processed' = tombstones_processed + 1
        /\ todo' = Store
        /\ Hold("removing", p, Next1(p))
  /\ UNCHANGED <<schema_cache, schema_unrouted_count, dropped, faults>>

(* What follows a schema found in the cache: routing, then the insert.     *)
Route(m, p, o) ==
  /\ \/ /\ StoreOf[m.schema] = Unrouted
        /\ schema_unrouted_count' = schema_unrouted_count + 1
        /\ Finish(p, o)
     \/ /\ StoreOf[m.schema] # Unrouted /\ m.key = NoKey
        /\ Finish(p, o)
        /\ UNCHANGED schema_unrouted_count
     \/ /\ StoreOf[m.schema] # Unrouted /\ m.key # NoKey
        /\ Hold("inserting", p, o)
        /\ UNCHANGED schema_unrouted_count
  /\ UNCHANGED <<todo, tombstones_processed, dropped>>

ReceiveUpdate(p) ==
  /\ Receive(p)
  /\ Incoming(p).kind = "update"
  /\ \/ /\ Incoming(p).schema \notin schema_cache
        /\ Hold("fetching", p, Next1(p))
        /\ UNCHANGED <<todo, metrics, dropped>>
     \/ /\ Incoming(p).schema \in schema_cache
        /\ Route(Incoming(p), p, Next1(p))
  /\ UNCHANGED <<schema_cache, faults>>

InHand == log[cur.part][cur.offset]

FetchSchemaUncached ==   \* mutant: the schema is used, and not kept
  /\ phase = "fetching"
  /\ Route(InHand, cur.part, cur.offset)
  /\ UNCHANGED <<broker, stores, schema_cache, client, health, lost,
                 log_at_boot, budgets>>

FetchSchemaOk ==
  /\ phase = "fetching"
  /\ schema_cache' = schema_cache \cup {InHand.schema}
  /\ Route(InHand, cur.part, cur.offset)
  /\ UNCHANGED <<broker, stores, client, health, lost, log_at_boot, budgets>>

(* The error is logged, the cache lookup that follows finds nothing, and   *)
(* the record is over: its update is not kept anywhere.                    *)
FetchSchemaErr ==
  /\ phase = "fetching"
  /\ Fault
  /\ dropped' = dropped \cup {<<cur.part, cur.offset>>}
  /\ phase' = "idle" /\ cur' = NoRecord
  /\ UNCHANGED <<broker, stores, todo, schema_cache, client, metrics, health,
                 done, applied, lost, log_at_boot, crashes, rebalances>>

Write(s, v) == [stores EXCEPT ![s][InHand.key] = v]
Inserted == Write(StoreOf[InHand.schema], cur.offset)
Removed(s) == Write(s, Absent)

InsertOk ==
  /\ phase = "inserting"
  /\ stores' = Inserted
  /\ Finish(cur.part, cur.offset)
  /\ UNCHANGED <<broker, todo, schema_cache, client, metrics, health, dropped,
                 lost, log_at_boot, budgets>>

RemoveFirst(s) ==   \* mutant: a tombstone ends with the first store
  /\ phase = "removing" /\ s \in todo
  /\ stores' = Removed(s)
  /\ todo' = {}
  /\ Finish(cur.part, cur.offset)
  /\ UNCHANGED <<broker, schema_cache, client, metrics, health, dropped, lost,
                 log_at_boot, budgets>>

RemoveStuck(s) ==   \* mutant: looks for the last store one step late
  /\ phase = "removing" /\ s \in todo
  /\ stores' = Removed(s)
  /\ todo' = todo \ {s}
  /\ IF todo = {} THEN Finish(cur.part, cur.offset)
                  ELSE UNCHANGED <<phase, cur, done, applied>>
  /\ UNCHANGED <<broker, schema_cache, client, metrics, health, dropped, lost,
                 log_at_boot, budgets>>

RemoveOk(s) ==
  /\ phase = "removing" /\ s \in todo
  /\ stores' = Removed(s)
  /\ todo' = todo \ {s}
  /\ IF todo' = {} THEN Finish(cur.part, cur.offset)
                   ELSE UNCHANGED <<phase, cur, done, applied>>
  /\ UNCHANGED <<broker, schema_cache, client, metrics, health, dropped, lost,
                 log_at_boot, budgets>>

----------------------------------------------------------------------------
(* The end of the consumer task: an Err leaves try_for_each, start_consumer*)
(* returns it to a JoinHandle nobody holds, and the stream and its client  *)
(* are dropped.  Closing the client commits the stored offsets if the      *)
(* broker answers.  The web server and the probe are left as they are.     *)

InFlight == IF cur = NoRecord THEN {} ELSE {<<cur.part, cur.offset>>}

Stop ==
  /\ phase' = "stopped" /\ cur' = NoRecord /\ todo' = {}
  /\ CommitStored \/ UNCHANGED committed
  /\ Unassign
  /\ known' = {} /\ stats' = {}
  /\ lost' = lost \cup InFlight
  /\ UNCHANGED <<log, schema_cache, metrics, consumer_lag,
                 startup_lag_cleared, done, dropped, log_at_boot, crashes,
                 rebalances>>

InsertErrLogged ==   \* mutant: the error is logged and the next record taken
  /\ phase = "inserting" /\ StoreOf[InHand.schema] \notin InMemory
  /\ Fault
  /\ stores' \in {stores, Inserted}
  /\ Finish(cur.part, cur.offset)
  /\ UNCHANGED <<broker, todo, schema_cache, client, metrics, health, dropped,
                 lost, log_at_boot, crashes, rebalances>>

(* A failed write may or may not have reached the external store.          *)
InsertErr ==
  /\ phase = "inserting" /\ StoreOf[InHand.schema] \notin InMemory
  /\ Fault
  /\ stores' \in {stores, Inserted}
  /\ Stop

RemoveErr(s) ==
  /\ phase = "removing" /\ s \in todo \ InMemory
  /\ Fault
  /\ stores' \in {stores, Removed(s)}
  /\ Stop

StreamError ==
  /\ phase = "idle"
  /\ Fault
  /\ Stop
  /\ UNCHANGED stores

----------------------------------------------------------------------------
(* Readiness.                                                              *)

(* What librdkafka reports of a partition: the distance between the end of *)
(* the partition and the committed offset, or -1 while it lacks either.    *)
LagOf(p) ==
  IF assigned /\ p \in known /\ high[p] >= 0 THEN high[p] - committed[p] ELSE -1

EmitStats ==
  /\ Running /\ stats = {}
  /\ stats' = {[p \in Partition |-> LagOf(p)]}
  /\ UNCHANGED <<broker, stores, task, schema_cache, client, metrics,
                 consumer_lag, startup_lag_cleared, history, log_at_boot,
                 budgets>>

StatsAnyTime ==   \* mutant: the callback runs on a thread of its own
  /\ \E lag \in stats :
       /\ consumer_lag' = \E p \in Partition : lag[p] > 0
       /\ startup_lag_cleared' = (startup_lag_cleared \/ ~consumer_lag')
  /\ stats' = {}
  /\ UNCHANGED <<broker, stores, task, schema_cache, client, metrics, history,
                 log_at_boot, budgets>>

StatsAfterLag ==   \* mutant: the latch is set only where lag was seen to clear
  /\ phase = "idle"
  /\ \E lag \in stats :
       /\ consumer_lag' = \E p \in Partition : lag[p] > 0
       /\ startup_lag_cleared' =
            (startup_lag_cleared \/ (consumer_lag /\ ~consumer_lag'))
  /\ stats' = {}
  /\ UNCHANGED <<broker, stores, task, schema_cache, client, metrics, history,
                 log_at_boot, budgets>>

(* The callback adds up the positive lags; a sum that is not positive is   *)
(* zero.  Like the rebalance callbacks it is run by a poll of the stream.  *)
Stats ==
  /\ phase = "idle"
  /\ \E lag \in stats :
       /\ consumer_lag' = \E p \in Partition : lag[p] > 0
       /\ startup_lag_cleared' = (startup_lag_cleared \/ ~consumer_lag')
  /\ stats' = {}
  /\ UNCHANGED <<broker, stores, task, schema_cache, client, metrics, history,
                 log_at_boot, budgets>>

----------------------------------------------------------------------------
(* The process.                                                            *)

(* MyState::new with every preload answered, then start_consumer up to     *)
(* subscribe; an error in there ends the consumer task before it has begun.*)
Boot ==
  /\ phase = "down"
  /\ \/ phase' = "idle" /\ UNCHANGED faults
     \/ phase' = "stopped" /\ Fault
  /\ schema_cache' = Preload
  /\ log_at_boot' = [p \in Partition |-> Len(log[p])]
  /\ UNCHANGED <<broker, stores, cur, todo, client, metrics, health, history,
                 crashes, rebalances>>

(* The process dies.  In-memory stores and all process state are gone; a   *)
(* write on its way to an external store arrives or not.                   *)
Crash ==
  /\ phase # "down" /\ crashes < MaxCrashes /\ crashes' = crashes + 1
  /\ \E arrived \in {stores}
              \cup (IF phase = "inserting" THEN {Inserted} ELSE {})
              \cup (IF phase = "removing" THEN {Removed(s) : s \in todo} ELSE {}) :
       stores' = [s \in Store |-> IF s \in InMemory THEN [k \in Key |-> Absent]
                                                    ELSE arrived[s]]
  /\ phase' = "down" /\ cur' = NoRecord /\ todo' = {}
  /\ schema_cache' = {}
  /\ Unassign
  /\ known' = {} /\ stats' = {}
  /\ consumer_lag' = FALSE /\ startup_lag_cleared' = FALSE
  /\ tombstones_processed' = 0 /\ schema_unrouted_count' = 0
  /\ lost' = lost \cup InFlight
  /\ UNCHANGED <<broker, done, dropped, log_at_boot, faults, rebalances>>

----------------------------------------------------------------------------
Next ==
  \/ \E p \in Partition :
       \/ \E m \in Traffic : Produce(p, m)
       \/ FetchBatch(p)
       \/ ReceiveInvalid(p) \/ ReceiveTombstone(p) \/ ReceiveUpdate(p)
  \/ AutoCommit \/ Assign \/ Revoke
  \/ FetchSchemaOk \/ FetchSchemaErr
  \/ InsertOk \/ InsertErr
  \/ \E s \in Store : RemoveOk(s) \/ RemoveErr(s)
  \/ StreamError
  \/ EmitStats \/ Stats
  \/ Boot \/ Crash

Spec == Init /\ [][Next]_vars

(* Fairness.  The stream is polled whenever the handler is idle, registry  *)
(* and store calls return, librdkafka's threads fetch, commit and report   *)
(* on their timers, the group coordinator assigns, and a dead process is   *)
(* started again.  Nothing restarts a consumer task that has stopped, and  *)
(* no producer is bound to send.                                           *)
Fairness ==
  /\ WF_vars(Boot) /\ WF_vars(Assign) /\ WF_vars(AutoCommit)
  /\ WF_vars(EmitStats) /\ SF_vars(Stats)
  /\ WF_vars(FetchSchemaOk) /\ WF_vars(InsertOk)
  /\ \A s \in Store : WF_vars(RemoveOk(s))
  /\ \A p \in Partition :
       /\ WF_vars(FetchBatch(p))
       /\ SF_vars(ReceiveInvalid(p) \/ ReceiveTombstone(p) \/ ReceiveUpdate(p))

FairSpec == Spec /\ Fairness

----------------------------------------------------------------------------
(* What a record is to one cell, and the offsets that matter to the cell.  *)

HasKey(m) == m.key # NoKey

Touches(m, s, k) ==
  /\ m.key = k
  /\ m.kind = "tombstone" \/ (m.kind = "update" /\ StoreOf[m.schema] = s)

Touching(s, k) ==
  {o \in 1..Len(log[PartitionOf[k]]) : Touches(log[PartitionOf[k]][o], s, k)}

Effect(p, o) == IF log[p][o].kind = "tombstone" THEN Absent ELSE o

InHandAt(p, o) == cur = [part |-> p, offset |-> o]

(* The record in hand has not had its effect on store s yet.               *)
Pending(s, p, o) == InHandAt(p, o) /\ (phase = "removing" => s \in todo)

(* Those of this session that have had their effect on the cell.           *)
Settled(s, k) ==
  {o \in Touching(s, k) :
     \/ <<PartitionOf[k], o>> \in applied
     \/ phase = "removing" /\ InHandAt(PartitionOf[k], o) /\ s \notin todo}

(* The latest of the offsets O decides what cell k of s holds.             *)
Decides(O, s, k) ==
  \A o \in O :
    (\A o2 \in O : o2 <= o) => stores[s][k] = Effect(PartitionOf[k], o)

(* While partitions are assigned, every cell holds what the latest record  *)
(* of this session that concerns it says: an older record never overwrites *)
(* a newer one, an update never reaches another key's cell or a store its  *)
(* schema is not routed to, and a tombstone leaves no store behind, at     *)
(* every point between the awaits of the handler (consumer.rs 147-244).    *)
ViewFollowsLog ==
  assigned => \A s \in Store, k \in Key : Decides(Settled(s, k), s, k)

(* How far the client has, or will next have, read a partition.            *)
Horizon(p) ==
  IF assigned THEN position[p]
  ELSE IF ForceResetEarliest \/ committed[p] = -1 THEN 0 ELSE committed[p]

(* Cell k of s holds the effect of record w (of none, if w is 0), and      *)
(* every later record for it up to the horizon is lost, dropped or in hand.*)
UpToDate(s, k, w) ==
  LET p == PartitionOf[k]
  IN  /\ stores[s][k] = IF w = 0 THEN Absent ELSE Effect(p, w)
      /\ \A o \in Touching(s, k) :
           o <= Horizon(p) /\ w < o =>
             <<p, o>> \in dropped \cup lost \/ Pending(s, p, o)

(* A cell of an external store is never older than what the client has     *)
(* read, or will resume after: crashes, repeated records and failed writes *)
(* cannot leave a database behind the offsets that auto-commit publishes   *)
(* (consumer.rs 137), but for the records that died with their process.    *)
ExternalViewDurable ==
  \A s \in Store \ InMemory, k \in Key :
    \E w \in {0} \cup Touching(s, k) : UpToDate(s, k, w)

(* With force_reset_earliest a consumer that has read the topic to its end *)
(* without a failed schema fetch has made every store, in-memory or not,   *)
(* equal to the latest record of each key, whatever crashes, half-applied  *)
(* tombstones and failed writes came before (consumer.rs 87-101).          *)
ReplayRebuildsView ==
  (/\ ForceResetEarliest /\ assigned /\ phase = "idle" /\ dropped = {}
   /\ \A p \in Partition : position[p] = Len(log[p]))
  => \A s \in Store, k \in Key :
       /\ Touching(s, k) = {} => stores[s][k] = Absent
       /\ Decides(Touching(s, k), s, k)

Handled(p, o) == <<p, o>> \in done \cup dropped \cup lost \/ InHandAt(p, o)

(* Auto-commit publishes the offset of a record before the record has been *)
(* processed (consumer.rs 137, 200-202).  What that can skip after a death *)
(* is exactly the record that was in hand: every other committed offset    *)
(* was processed at least once, or given up on for want of its schema.     *)
CommitCoversHandled ==
  \A p \in Partition : \A o \in 1..committed[p] : Handled(p, o)

(* In a store that dies with the process, no value is kept whose schema is *)
(* missing from schema_cache, so a GET of it finds its schema              *)
(* (webserver/mod.rs 269).                                                 *)
InMemorySchemasCached ==
  \A s \in InMemory, k \in Key :
    stores[s][k] # Absent =>
      log[PartitionOf[k]][stores[s][k]].schema \in schema_cache

(* The latch is right whenever statistics knew every lag: it is then set   *)
(* only after every record the topic held at process start was processed,  *)
(* although the report counts committed offsets and is served after a      *)
(* delay during which the assignment may have changed.                     *)
ReadyAfterHandled ==
  [][(/\ ~startup_lag_cleared /\ startup_lag_cleared'
      /\ \A lag \in stats : \A p \in Partition : lag[p] >= 0)
     => \A p \in Partition : \A o \in 1..log_at_boot[p] :
          <<p, o>> \in done \cup dropped \cup lost]_vars

(* No record is waited for in vain: once in the topic it is processed, or  *)
(* given up on, or lost with its process, unless the consumer task ends.   *)
EveryRecordHandled ==
  \A p \in Partition : \A o \in 1..MaxLog :
    o <= Len(log[p]) ~>
      (<<p, o>> \in done \cup dropped \cup lost \/ phase = "stopped")

(* A process whose consumer lives becomes ready, again after each death.   *)
EventuallyReady ==
  []<>(startup_lag_cleared \/ phase = "stopped")

----------------------------------------------------------------------------
(* What the documentation says and the code does not do.                   *)

(* prd-observability.md 23: "Not Ready" until the consumer has caught up   *)
(* with the topic, taken at its weakest: with what the topic held when the *)
(* process started.                                                        *)
NotReadyUntilCaughtUp ==
  [][~startup_lag_cleared /\ startup_lag_cleared'
     => \A p \in Partition : \A o \in 1..log_at_boot[p] :
          <<p, o>> \in done \cup dropped \cup lost]_vars

(* prd-ingestion.md 100: a store error during an insert is logged and does *)
(* not crash the consumer.                                                 *)
InsertErrorKeepsConsumer ==
  [][phase = "inserting" => phase' # "stopped"]_vars

(* webserver/mod.rs 269: a value that a GET finds has its schema in the    *)
(* cache, "as schemas are cached on population".                           *)
SchemasCachedOnPopulation ==
  phase # "down" =>
    \A s \in Store, k \in Key :
      stores[s][k] # Absent =>
        log[PartitionOf[k]][stores[s][k]].schema \in schema_cache

----------------------------------------------------------------------------
(* The inductive invariant the proofs rest on.                             *)

(* Where the handler is fixes what it has in hand.                         *)
TaskInv ==
  /\ phase \in Busy <=> cur # NoRecord
  /\ phase # "removing" => todo = {}
  /\ phase = "down" => schema_cache = {}
  /\ cur # NoRecord =>
       /\ assigned /\ cur.part \in Partition
       /\ cur.offset = position[cur.part] /\ from[cur.part] < cur.offset
  /\ phase = "fetching" => InHand.kind = "update"
  /\ phase = "inserting" =>
       /\ InHand.kind = "update" /\ HasKey(InHand)
       /\ StoreOf[InHand.schema] # Unrouted /\ InHand.schema \in schema_cache
  /\ phase = "removing" =>
       InHand.kind = "tombstone" /\ HasKey(InHand) /\ todo # {}

(* How the client's offsets lie to each other and to the log.              *)
InOrder(p) ==
  /\ Len(log[p]) <= MaxLog /\ log_at_boot[p] <= Len(log[p])
  /\ committed[p] <= Len(log[p]) /\ high[p] <= Len(log[p])
  /\ from[p] <= position[p] /\ position[p] <= Len(log[p])
  /\ assigned =>
       IF ForceResetEarliest THEN from[p] = 0 ELSE committed[p] <= position[p]

OffsetInv ==
  /\ assigned => Running
  /\ ~assigned =>
       from = Zero /\ position = Zero /\ applied = {} /\ high = NoOffset
  /\ \A p \in Partition : InOrder(p)

(* Producers keep a key on its partition.                                  *)
PartitionInv ==
  \A p \in Partition : \A o \in 1..Len(log[p]) :
    HasKey(log[p][o]) => PartitionOf[log[p][o].key] = p

(* Every record delivered in this session has been dealt with, bar the one *)
(* in hand.                                                                *)
ReadInv ==
  \A p \in Partition : \A o \in 1..position[p] : Handled(p, o)

(* The same, told by what this session alone has done.                     *)
SessionInv ==
  /\ \A p \in Partition : \A o \in (from[p] + 1)..position[p] :
       <<p, o>> \in applied \cup dropped \/ InHandAt(p, o)
  /\ \A r \in applied : r[2] <= position[r[1]] /\ ~InHandAt(r[1], r[2])

(* A cell that is not empty holds an update that is for this cell.         *)
CellInv ==
  \A s \in Store, k \in Key :
    stores[s][k] # Absent =>
      /\ stores[s][k] \in Touching(s, k)
      /\ log[PartitionOf[k]][stores[s][k]].kind = "update"

(* A report is not older than the process, knows no end of a partition     *)
(* older than the process, and counts committed offsets.                   *)
ReportInv ==
  /\ phase = "down" => stats = {}
  /\ \A p \in Partition : high[p] >= 0 => log_at_boot[p] <= high[p]
  /\ \A lag \in stats, p \in Partition :
       lag[p] = 0 => \A o \in 1..log_at_boot[p] : Handled(p, o)

IInv ==
  /\ TypeOK /\ TaskInv /\ OffsetInv /\ PartitionInv
  /\ CommitCoversHandled /\ ReadInv /\ SessionInv
  /\ CellInv /\ ViewFollowsLog /\ ExternalViewDurable /\ InMemorySchemasCached
  /\ ReportInv
=============================================================================
