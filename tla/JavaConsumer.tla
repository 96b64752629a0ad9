---------------------------- MODULE JavaConsumer ----------------------------
(***************************************************************************)
(* One process of the Java container: the thread of KafkaConsumerService   *)
(* that polls batches and applies their records to the stores, its lag     *)
(* check, the readiness flag, and what a failed call, a context that is    *)
(* closed under the thread and a process death do to all of these.         *)
(*                                                                         *)
(* kafka-clients and the external stores are modelled from how the service *)
(* uses them.  One group member.  Offsets count from 1; a cell of a store  *)
(* holds the offset its payload was published at, or Absent.               *)
(***************************************************************************)
EXTENDS Integers, Sequences, FiniteSets

CONSTANTS
  Partition, Key, Schema,
  StoreOrder,   \* the stores, in the order of CacheFactory's LinkedHashMap
  InMemory,     \* those of type IN_MEMORY; the others hold connections
  NoKey, Unrouted, NoPartition,
  PartitionOf,  \* the producers' partitioner
  StoreOf,      \* schema id -> full name -> schemaToStore
  Preloaded,    \* schemas the startup checks have fetched
  ForceResetEarliest, OffsetReset,
  Traffic,      \* the messages producers may send
  MaxLog, MaxFaults, MaxCrashes, MaxRebalances   \* bounds

StoreNames == {StoreOrder[i] : i \in DOMAIN StoreOrder}

Message ==
  [kind : {"update"}, key : Key \cup {NoKey}, schema : Schema]
    \cup [kind : {"tombstone", "invalid"}, key : Key \cup {NoKey}]

ASSUME JavaAssumption ==
  /\ StoreOrder \in Seq(StoreNames) /\ StoreOrder # <<>>
  /\ InMemory \subseteq StoreNames /\ Unrouted \notin StoreNames
  /\ NoKey \notin Key /\ NoPartition \notin Partition
  /\ PartitionOf \in [Key -> Partition]
  /\ StoreOf \in [Schema -> StoreNames \cup {Unrouted}]
  /\ Preloaded \subseteq Schema /\ Traffic \subseteq Message
  /\ ForceResetEarliest \in BOOLEAN /\ OffsetReset \in {"earliest", "latest"}
  /\ {MaxLog, MaxFaults, MaxCrashes, MaxRebalances} \subseteq Nat

VARIABLES
  log, committed,  \* broker: the topic, the group's offsets (-1: none)
  stores,
  thread,          \* where the consumer thread is
  cur,             \* partition of the record in hand
  removed,         \* stores a tombstone in hand has been applied to
  schema_cache,
  assigned,
  position,        \* the client's position: the end of the last batch
  read,            \* records of the batch and before that are dealt with
  from,            \* start of the session
  cleared,         \* LagClearedHealthIndicator
  closing,         \* the context is being closed: connections are gone
  ends,            \* what endOffsets has answered to the lag check
  done, applied,   \* history: records processed, ever / this session
  dropped,         \* history: given up on one by one
  abandoned,       \* history: the rest of a batch an exception has left
  faults, crashes, rebalances

vars == <<log, committed, stores, thread, cur, removed, schema_cache, assigned,
          position, read, from, cleared, closing, ends, done, applied, dropped,
          abandoned, faults, crashes, rebalances>>
broker == <<log, committed>>
session == <<assigned, position, from>>
process == <<cleared, closing, ends>>
others == <<log, from, process, abandoned, crashes, rebalances>>

Absent == 0
Busy == {"fetching", "putting", "removing"}
Looping == {"polling", "processing", "checking", "comparing"}
Running == thread \in Looping \cup Busy
Zero == [p \in Partition |-> 0]

TypeOK ==
  /\ log \in [Partition -> Seq(Message)]
  /\ committed \in [Partition -> Nat \cup {-1}]
  /\ stores \in [StoreNames -> [Key -> Nat]]
  /\ thread \in {"off", "ended"} \cup Looping \cup Busy
  /\ cur \in Partition \cup {NoPartition}
  /\ removed \in 0..Len(StoreOrder)
  /\ schema_cache \subseteq Schema
  /\ position \in [Partition -> Nat] /\ read \in [Partition -> Nat]
  /\ from \in [Partition -> Nat] /\ ends \in [Partition -> Nat]
  /\ \A b \in {assigned, cleared, closing} : b \in BOOLEAN
  /\ \A h \in {done, applied, dropped, abandoned} : h \subseteq Partition \X Nat
  /\ {faults, crashes, rebalances} \subseteq Nat

Init ==
  /\ log = [p \in Partition |-> <<>>]
  /\ committed = [p \in Partition |-> -1]
  /\ stores = [s \in StoreNames |-> [k \in Key |-> Absent]]
  /\ thread = "off" /\ cur = NoPartition /\ removed = 0 /\ schema_cache = {}
  /\ assigned = FALSE /\ position = Zero /\ read = Zero /\ from = Zero
  /\ cleared = FALSE /\ closing = FALSE /\ ends = Zero
  /\ done = {} /\ applied = {} /\ dropped = {} /\ abandoned = {}
  /\ faults = 0 /\ crashes = 0 /\ rebalances = 0

Produce(p, m) ==
  /\ Len(log[p]) < MaxLog
  /\ m.key # NoKey => PartitionOf[m.key] = p
  /\ log' = [log EXCEPT ![p] = Append(@, m)]
  /\ UNCHANGED <<committed, stores, thread, cur, removed, schema_cache, session,
                 read, process, done, applied, dropped, abandoned, faults,
                 crashes, rebalances>>

Fault == faults < MaxFaults /\ faults' = faults + 1

----------------------------------------------------------------------------
(* poll: rebalances, the commit of the positions of earlier batches, and   *)
(* the next batch.                                                         *)

StartOfNext(p) ==   \* mutant: commits name the last record processed
  IF ForceResetEarliest THEN 0
  ELSE IF committed[p] >= 0 THEN committed[p] + 1
  ELSE IF OffsetReset = "earliest" THEN 0 ELSE Len(log[p])
StartOf(p) ==
  IF ForceResetEarliest THEN 0
  ELSE IF committed[p] >= 0 THEN committed[p]
  ELSE IF OffsetReset = "earliest" THEN 0 ELSE Len(log[p])

Assign ==
  /\ thread = "polling" /\ ~assigned
  /\ assigned' = TRUE
  /\ from' = [p \in Partition |-> StartOf(p)]
  /\ position' = from' /\ read' = from'
  /\ dropped' = dropped \cup
       {r \in Partition \X (1..MaxLog) :
          ~ForceResetEarliest /\ committed[r[1]] = -1 /\ r[2] <= StartOf(r[1])}
  /\ UNCHANGED <<broker, stores, thread, cur, removed, schema_cache, process,
                 done, applied, abandoned, faults, crashes, rebalances>>

Commit == committed' = IF assigned THEN position ELSE committed
Unassign ==
  /\ assigned' = FALSE /\ applied' = {}
  /\ position' = Zero /\ read' = Zero /\ from' = Zero

(* Positions are committed as partitions are given up; a session that has  *)
(* timed out, or a commit that fails, leaves the group where it was.       *)
Revoke ==
  /\ thread = "polling" /\ assigned
  /\ rebalances < MaxRebalances /\ rebalances' = rebalances + 1
  /\ Commit \/ UNCHANGED committed
  /\ Unassign
  /\ UNCHANGED <<log, stores, thread, cur, removed, schema_cache, process, done,
                 dropped, abandoned, faults, crashes>>

CommitAnywhere ==   \* mutant: a timer of its own commits, as librdkafka does
  /\ Running /\ assigned
  /\ Commit
  /\ UNCHANGED <<log, stores, thread, cur, removed, schema_cache, session, read,
                 process, done, applied, dropped, abandoned, faults, crashes,
                 rebalances>>

AutoCommit ==
  /\ thread = "polling" /\ assigned
  /\ Commit
  /\ UNCHANGED <<log, stores, thread, cur, removed, schema_cache, session, read,
                 process, done, applied, dropped, abandoned, faults, crashes,
                 rebalances>>

PollBelowEnd ==   \* mutant: the last record of a partition is not returned
  /\ thread = "polling" /\ thread' = "processing"
  /\ IF assigned
     THEN \E end \in [Partition -> 0..MaxLog] :
            /\ \A p \in Partition :
                 end[p] = position[p] \/ end[p] \in position[p]..(Len(log[p]) - 1)
            /\ position' = end
     ELSE UNCHANGED position
  /\ UNCHANGED <<broker, stores, cur, removed, schema_cache, assigned, read,
                 from, process, done, applied, dropped, abandoned, faults,
                 crashes, rebalances>>

Poll ==
  /\ thread = "polling" /\ thread' = "processing"
  /\ IF assigned
     THEN \E end \in [Partition -> 0..MaxLog] :
            /\ \A p \in Partition : end[p] \in position[p]..Len(log[p])
            /\ position' = end
     ELSE UNCHANGED position
  /\ UNCHANGED <<broker, stores, cur, removed, schema_cache, assigned, read,
                 from, process, done, applied, dropped, abandoned, faults,
                 crashes, rebalances>>

----------------------------------------------------------------------------
(* processRecord.  Every call to a store or the registry blocks the thread.*)

NextOf(p) == read[p] + 1
Incoming(p) == log[p][NextOf(p)]
InHand == Incoming(cur)
Batch == {r \in Partition \X (1..MaxLog) :
            read[r[1]] < r[2] /\ r[2] <= position[r[1]]}

(* The record of p is dealt with, and the loop goes on.                    *)
Next1(p) ==
  /\ thread' = "processing" /\ cur' = NoPartition /\ removed' = 0
  /\ read' = [read EXCEPT ![p] = NextOf(p)]
Finish(p) ==
  /\ Next1(p)
  /\ done' = done \cup {<<p, NextOf(p)>>}
  /\ applied' = applied \cup {<<p, NextOf(p)>>}
  /\ UNCHANGED dropped
GiveUp(p) ==
  /\ Next1(p)
  /\ dropped' = dropped \cup {<<p, NextOf(p)>>}
  /\ UNCHANGED <<done, applied>>
Block(where, p) ==
  /\ thread' = where /\ cur' = p /\ removed' = 0
  /\ UNCHANGED <<read, done, applied, dropped>>

(* What follows a schema in hand: the store it is routed to, the key.      *)
Route(p) ==
  IF StoreOf[Incoming(p).schema] # Unrouted /\ Incoming(p).key # NoKey
  THEN Block("putting", p) ELSE Finish(p)

Take(p) ==
  /\ thread = "processing" /\ NextOf(p) <= position[p]
  /\ \/ /\ Incoming(p).kind = "invalid"
        /\ Finish(p)
     \/ /\ Incoming(p).kind = "tombstone"
        /\ IF Incoming(p).key = NoKey THEN Finish(p) ELSE Block("removing", p)
     \/ /\ Incoming(p).kind = "update"
        /\ IF Incoming(p).schema \in schema_cache THEN Route(p)
                                                  ELSE Block("fetching", p)
  /\ UNCHANGED <<others, committed, stores, schema_cache, assigned, position,
                 faults>>

FetchOk ==
  /\ thread = "fetching"
  /\ schema_cache' = schema_cache \cup {InHand.schema}
  /\ Route(cur)
  /\ UNCHANGED <<others, committed, stores, assigned, position, faults>>

(* The exception is logged, and the record is over.                        *)
FetchErr ==
  /\ thread = "fetching"
  /\ Fault
  /\ GiveUp(cur)
  /\ UNCHANGED <<others, committed, stores, schema_cache, assigned, position>>

Write(s, v) == [stores EXCEPT ![s][InHand.key] = v]
Target == StoreOf[InHand.schema]
Open(s) == s \in InMemory \/ ~closing

PutOk ==
  /\ thread = "putting" /\ Open(Target)
  /\ stores' = Write(Target, NextOf(cur))
  /\ Finish(cur)
  /\ UNCHANGED <<others, committed, schema_cache, assigned, position, faults>>

(* A call on a closed connection fails; any other failed call may have     *)
(* reached the store.                                                      *)
Failing(s, written) ==
  /\ s \notin InMemory
  /\ IF closing THEN UNCHANGED <<stores, faults>>
                ELSE Fault /\ stores' \in {stores, written}

PutErr ==
  /\ thread = "putting"
  /\ Failing(Target, Write(Target, NextOf(cur)))
  /\ GiveUp(cur)
  /\ UNCHANGED <<others, committed, schema_cache, assigned, position>>

Current == StoreOrder[removed + 1]

RemoveOk ==
  /\ thread = "removing" /\ Open(Current)
  /\ stores' = Write(Current, Absent)
  /\ IF removed + 1 = Len(StoreOrder)
     THEN Finish(cur)
     ELSE /\ removed' = removed + 1
          /\ UNCHANGED <<thread, cur, read, done, applied, dropped>>
  /\ UNCHANGED <<others, committed, schema_cache, assigned, position, faults>>

(* An exception leaves both loops.  Closing the consumer commits its       *)
(* positions, if the broker answers: the whole batch.                      *)
End ==
  /\ thread' = "ended" /\ cur' = NoPartition /\ removed' = 0
  /\ Commit \/ UNCHANGED committed
  /\ abandoned' = abandoned \cup Batch
  /\ Unassign
  /\ UNCHANGED <<log, schema_cache, process, done, dropped, crashes, rebalances>>

RemoveErr ==
  /\ thread = "removing"
  /\ Failing(Current, Write(Current, Absent))
  /\ End

PollErr ==
  /\ thread = "polling"
  /\ Fault
  /\ End
  /\ UNCHANGED stores

----------------------------------------------------------------------------
(* After the batch: checkLag once a second.                                *)

EndBatch ==
  /\ thread = "processing" /\ Batch = {}
  /\ thread' = "checking"
  /\ UNCHANGED <<broker, stores, cur, removed, schema_cache, session, read,
                 process, done, applied, dropped, abandoned, faults, crashes,
                 rebalances>>

Assignment == IF assigned THEN Partition ELSE {}
Ends == [p \in Partition |-> Len(log[p])]

EndOffsetsUnassigned ==   \* mutant: an empty assignment has no lag
  /\ thread = "checking"
  /\ thread' = "comparing" /\ ends' = Ends
  /\ UNCHANGED <<broker, stores, cur, removed, schema_cache, session, read,
                 cleared, closing, done, applied, dropped, abandoned, faults,
                 crashes, rebalances>>

(* The broker answers endOffsets; producers go on while the thread looks   *)
(* at the answer.                                                          *)
EndOffsets ==
  /\ thread = "checking" /\ Assignment # {}
  /\ thread' = "comparing" /\ ends' = Ends
  /\ UNCHANGED <<broker, stores, cur, removed, schema_cache, session, read,
                 cleared, closing, done, applied, dropped, abandoned, faults,
                 crashes, rebalances>>

CheckLag ==
  /\ thread = "comparing" /\ thread' = "polling"
  /\ cleared' = (cleared \/ \A p \in Assignment : ends[p] <= position[p])
  /\ ends' = Zero
  /\ UNCHANGED <<broker, stores, cur, removed, schema_cache, session, read,
                 closing, done, applied, dropped, abandoned, faults, crashes,
                 rebalances>>

(* Less than a second has passed, nothing is assigned, or the broker did   *)
(* not answer.                                                             *)
SkipLag ==
  /\ thread = "checking" /\ thread' = "polling"
  /\ UNCHANGED <<broker, stores, cur, removed, schema_cache, session, read,
                 process, done, applied, dropped, abandoned, faults, crashes,
                 rebalances>>

----------------------------------------------------------------------------
(* The process.                                                            *)

(* start, after the startup checks; a consumer that cannot be made ends    *)
(* the thread.                                                             *)
Boot ==
  /\ thread = "off"
  /\ \/ thread' = "polling" /\ UNCHANGED faults
     \/ thread' = "ended" /\ Fault
  /\ schema_cache' = schema_cache \cup Preloaded
  /\ UNCHANGED <<broker, stores, cur, removed, session, read, process, done,
                 applied, dropped, abandoned, crashes, rebalances>>

(* The context is closed: CacheFactory.destroy closes the stores.  Nothing *)
(* calls stop, so the thread goes on until the process is gone.            *)
Destroy ==
  /\ thread # "off" /\ ~closing
  /\ crashes < MaxCrashes
  /\ closing' = TRUE
  /\ UNCHANGED <<broker, stores, thread, cur, removed, schema_cache, session,
                 read, cleared, ends, done, applied, dropped, abandoned, faults,
                 crashes, rebalances>>

(* A write on its way to an external store arrives or not.                 *)
Crash ==
  /\ thread # "off" /\ crashes < MaxCrashes /\ crashes' = crashes + 1
  /\ \E arrived \in {stores}
       \cup (IF thread = "putting" THEN {Write(Target, NextOf(cur))} ELSE {})
       \cup (IF thread = "removing" THEN {Write(Current, Absent)} ELSE {}) :
       stores' = [s \in StoreNames |-> IF s \in InMemory
                                       THEN [k \in Key |-> Absent]
                                       ELSE arrived[s]]
  /\ thread' = "off" /\ cur' = NoPartition /\ removed' = 0
  /\ schema_cache' = {} /\ cleared' = FALSE /\ closing' = FALSE
  /\ ends' = Zero
  /\ Unassign
  /\ UNCHANGED <<broker, done, dropped, abandoned, faults, rebalances>>

Handle == FetchOk \/ PutOk \/ RemoveOk \/ (closing /\ (PutErr \/ RemoveErr))

Next ==
  \/ \E p \in Partition : (\E m \in Traffic : Produce(p, m)) \/ Take(p)
  \/ Assign \/ Revoke \/ AutoCommit \/ Poll
  \/ FetchOk \/ FetchErr \/ PutOk \/ PutErr \/ RemoveOk \/ RemoveErr \/ PollErr
  \/ EndBatch \/ EndOffsets \/ CheckLag \/ SkipLag
  \/ Boot \/ Destroy \/ Crash

Spec == Init /\ [][Next]_vars

(* The thread is scheduled, calls return, a poll returns what there is     *)
(* sooner or later, the coordinator assigns, a second passes, the lag      *)
(* request is answered again and again, and a dead process is restarted.   *)
PollSome == Poll /\ \A p \in Partition : position'[p] = Len(log[p])
Fairness ==
  /\ WF_vars(Boot) /\ SF_vars(Assign) /\ SF_vars(PollSome)
  /\ WF_vars(Handle) /\ \A p \in Partition : WF_vars(Take(p))
  /\ WF_vars(EndBatch) /\ WF_vars(SkipLag) /\ SF_vars(EndOffsets)
  /\ WF_vars(CheckLag)
  /\ WF_vars(closing /\ Crash)

----------------------------------------------------------------------------
(* Properties.                                                             *)

Touches(m, s, k) ==
  /\ m.key = k
  /\ m.kind = "tombstone" \/ (m.kind = "update" /\ StoreOf[m.schema] = s)
Touching(s, k) ==
  {o \in 1..Len(log[PartitionOf[k]]) : Touches(log[PartitionOf[k]][o], s, k)}
Effect(p, o) == IF log[p][o].kind = "tombstone" THEN Absent ELSE o
Latest(O, o) == o \in O /\ \A o2 \in O : o2 <= o

Over(p, o) == <<p, o>> \in done \cup dropped \cup abandoned

(* A committed offset was processed, or given up on by one of the two      *)
(* error paths: a commit happens only where the batch before it has been   *)
(* worked off, and a process that dies loses nothing.                      *)
CommitCoversHandled ==
  \A p \in Partition : \A o \in 1..committed[p] : Over(p, o)

(* Position of a store in the order tombstones take.                       *)
Cleared(s) == \E i \in 1..removed : StoreOrder[i] = s

(* A cell holds what the latest record of the session that was applied to  *)
(* it says, in the middle of a batch and of a tombstone as well, unless a  *)
(* later update of the session failed half-way and was dropped.            *)
Settled(s, k) ==
  {o \in Touching(s, k) :
     \/ <<PartitionOf[k], o>> \in applied
     \/ thread = "removing" /\ cur = PartitionOf[k] /\ o = NextOf(cur) /\ Cleared(s)}
Doubtful(s, k, o) ==
  \E o2 \in Touching(s, k) : o2 > o /\ <<PartitionOf[k], o2>> \in dropped
Follows(s, k) ==
  \A o \in 1..MaxLog :
    Latest(Settled(s, k), o) =>
      \/ stores[s][k] = Effect(PartitionOf[k], o)
      \/ Doubtful(s, k, o)

(* The group never reads a record up to this one again.                    *)
ResumesAfter(p) == IF ForceResetEarliest THEN 0 ELSE committed[p]

(* Cell k of s holds record w (none if 0), and every later record for it   *)
(* that is not read again is one of those the error paths gave up on.      *)
Behind(s, k, w) ==
  LET p == PartitionOf[k]
  IN  /\ stores[s][k] = IF w = 0 THEN Absent ELSE Effect(p, w)
      /\ \A o \in Touching(s, k) :
           w < o /\ o <= ResumesAfter(p) => <<p, o>> \in dropped \cup abandoned

(* No death, rebalance or redelivery leaves a database behind the offsets  *)
(* the group resumes at.                                                   *)
DatabaseDurable ==
  \A s \in StoreNames \ InMemory, k \in Key :
    \E w \in {0} \cup Touching(s, k) : Behind(s, k, w)

(* The readiness flag is set only when every record the topic held as      *)
(* endOffsets was answered has been dealt with, in the batch before the    *)
(* question or earlier; records produced since then may be unread          *)
(* (KafkaConsumerService.java 140-162).                                    *)
ReadyWhenCaughtUp ==
  [][~cleared /\ cleared'
     => \A p \in Partition : \A o \in 1..ends[p] : Over(p, o)]_vars

(* Every record is dealt with, and every process becomes ready, unless the *)
(* thread ends.                                                            *)
EveryRecordHandled ==
  \A p \in Partition : \A o \in 1..MaxLog :
    o <= Len(log[p]) ~> (Over(p, o) \/ thread = "ended")
EventuallyReady == []<>(cleared \/ closing \/ thread = "ended")

=============================================================================
