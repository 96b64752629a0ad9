------------------------- MODULE PushConsumerProofs -------------------------
(***************************************************************************)
(* Proofs about PushConsumer, for any partitions, keys, schemas, stores,   *)
(* traffic and bounds.  The base invariant (types, what the handler has in *)
(* hand, the order of the offsets) is proved first; everything else is     *)
(* proved on top of it.                                                    *)
(***************************************************************************)
EXTENDS PushConsumer, TLAPS

USE DEF broker, task, client, metrics, health, history, budgets

Base == TypeOK /\ TaskInv /\ OffsetInv

----------------------------------------------------------------------------
(* Facts about single states and single steps.                             *)

(* What the base invariant says of a single partition.                     *)
LEMMA PartitionTypes ==
  ASSUME Base, NEW p \in Partition
  PROVE  /\ log[p] \in Seq(Message) /\ Len(log[p]) \in Nat
         /\ position[p] \in Nat /\ from[p] \in Nat
         /\ committed[p] \in Nat \cup {-1} /\ high[p] \in Nat \cup {-1}
         /\ log_at_boot[p] \in Nat
         /\ InOrder(p)
  BY DEF Base, TypeOK, BrokerType, ClientType, HistoryType, OffsetInv

(* The bounds are numbers.                                                 *)
LEMMA Bounds == {MaxLog, MaxFaults, MaxCrashes, MaxRebalances} \subseteq Nat
  BY DeploymentAssumption

(* The record in hand is a record of the log.                              *)
LEMMA InHandType ==
  ASSUME Base, cur # NoRecord
  PROVE  /\ cur.part \in Partition /\ cur.offset \in Offsets
         /\ cur.offset \in 1..Len(log[cur.part])
         /\ cur.offset = position[cur.part]
         /\ <<cur.part, cur.offset>> \in Record
         /\ cur = [part |-> cur.part, offset |-> cur.offset]
         /\ InHand \in Message
         /\ assigned
<1>1. cur \in [part : Partition, offset : Offsets]
  BY DEF Base, TypeOK, TaskType
<1>2. cur.offset = position[cur.part] /\ assigned
  BY DEF Base, TaskInv
<1>3. log[cur.part] \in Seq(Message) /\ cur.offset <= Len(log[cur.part])
  BY <1>1, <1>2, PartitionTypes DEF InOrder
<1>4. cur.offset \in 1..Len(log[cur.part])
  BY <1>1, <1>3 DEF Offsets
<1>5. InHand \in Message
  BY <1>3, <1>4 DEF InHand
<1> QED BY <1>1, <1>2, <1>4, <1>5 DEF Record

(* Taking a record from the stream.                                        *)
LEMMA ReceiveFacts ==
  ASSUME Base, NEW p \in Partition, Receive(p)
  PROVE  /\ Next1(p) \in 1..Len(log[p]) /\ Next1(p) \in Offsets
         /\ Incoming(p) \in Message
         /\ from[p] < Next1(p)
         /\ position' \in [Partition -> Nat] /\ position'[p] = Next1(p)
         /\ \A q \in Partition \ {p} : position'[q] = position[q]
         /\ \A q \in Partition : InOrder(q)'
<1>1. /\ log[p] \in Seq(Message) /\ position[p] \in Nat /\ from[p] \in Nat
      /\ committed[p] \in Nat \cup {-1} /\ high[p] \in Nat \cup {-1}
      /\ position \in [Partition -> Nat] /\ InOrder(p)
  BY PartitionTypes DEF Base, TypeOK, ClientType
<1>2. /\ position' = [position EXCEPT ![p] = position[p] + 1]
      /\ position[p] < high[p] /\ Next1(p) = position[p] + 1
      /\ UNCHANGED <<log, log_at_boot, committed, from, high, assigned>>
  BY DEF Receive, Next1
<1>3. /\ position' \in [Partition -> Nat] /\ position'[p] = position[p] + 1
      /\ \A q \in Partition \ {p} : position'[q] = position[q]
  BY <1>1, <1>2
<1>4. Next1(p) \in 1..Len(log[p]) /\ Next1(p) \in Offsets /\ from[p] < Next1(p)
  BY <1>1, <1>2 DEF InOrder, Offsets
<1>5. Incoming(p) \in Message
  BY <1>1, <1>4 DEF Incoming
<1>6. ASSUME NEW q \in Partition PROVE InOrder(q)'
  <2>1. InOrder(q)
    BY PartitionTypes
  <2>2. CASE q = p
    BY <1>1, <1>2, <1>3, <2>2 DEF InOrder
  <2>3. CASE q # p
    BY <1>2, <1>3, <2>1, <2>3 DEF InOrder
  <2> QED BY <2>2, <2>3
<1> QED BY <1>2, <1>3, <1>4, <1>5, <1>6

(* Publishing a record leaves the earlier ones as they are.                *)
LEMMA ProduceFacts ==
  ASSUME Base, NEW p \in Partition, NEW m \in Traffic, Produce(p, m)
  PROVE  /\ m \in Message
         /\ log' \in [Partition -> Seq(Message)]
         /\ Len(log[p]) \in Nat /\ Len(log'[p]) = Len(log[p]) + 1
         /\ Len(log'[p]) <= MaxLog /\ log'[p][Len(log[p]) + 1] = m
         /\ \A q \in Partition :
              /\ Len(log[q]) \in Nat /\ Len(log'[q]) \in Nat
              /\ Len(log[q]) <= Len(log'[q]) /\ Len(log'[q]) <= MaxLog
              /\ \A o \in 1..Len(log[q]) : log'[q][o] = log[q][o]
              /\ q # p => log'[q] = log[q]
<1>1. m \in Message /\ MaxLog \in Nat
  BY DeploymentAssumption
<1>2. log[p] \in Seq(Message) /\ log \in [Partition -> Seq(Message)]
  BY DEF Base, TypeOK, BrokerType
<1>3. log' = [log EXCEPT ![p] = Append(log[p], m)] /\ Len(log[p]) < MaxLog
  BY DEF Produce
<1>4. /\ log' \in [Partition -> Seq(Message)] /\ log'[p] = Append(log[p], m)
      /\ \A q \in Partition \ {p} : log'[q] = log[q]
  BY <1>1, <1>2, <1>3
<1>5. /\ Len(log[p]) \in Nat /\ Len(log'[p]) = Len(log[p]) + 1
      /\ log'[p][Len(log[p]) + 1] = m
      /\ \A o \in 1..Len(log[p]) : log'[p][o] = log[p][o]
  BY <1>1, <1>2, <1>4
<1>6. ASSUME NEW q \in Partition
      PROVE  /\ Len(log[q]) \in Nat /\ Len(log'[q]) \in Nat
             /\ Len(log[q]) <= Len(log'[q]) /\ Len(log'[q]) <= MaxLog
             /\ \A o \in 1..Len(log[q]) : log'[q][o] = log[q][o]
             /\ q # p => log'[q] = log[q]
  <2>1. Len(log[q]) \in Nat /\ Len(log[q]) <= MaxLog
    BY PartitionTypes DEF InOrder
  <2> QED BY <1>1, <1>3, <1>4, <1>5, <2>1
<1> QED BY <1>1, <1>3, <1>4, <1>5, <1>6

----------------------------------------------------------------------------
(* The base invariant is inductive: one lemma per group of actions.        *)

(* It holds when the first process has not been started yet.               *)
LEMMA BaseInit == Init => Base
<1> SUFFICES ASSUME Init PROVE Base
  OBVIOUS
<1>1. BrokerType /\ StoreType
  BY DEF Init, BrokerType, StoreType, NoOffset, Absent
<1>2. TaskType /\ ClientType /\ HealthType /\ MetricsType
  BY DEF Init, TaskType, ClientType, HealthType, MetricsType, Zero, NoOffset
<1>3. HistoryType /\ BudgetType
  BY DEF Init, HistoryType, BudgetType, Zero
<1>4. TaskInv
  BY DEF Init, TaskInv, Busy
<1>5. ASSUME NEW p \in Partition PROVE InOrder(p)
  <2>1. /\ Len(log[p]) = 0 /\ log_at_boot[p] = 0 /\ committed[p] = -1
        /\ high[p] = -1 /\ from[p] = 0 /\ position[p] = 0
    BY DEF Init, Zero, NoOffset
  <2> QED BY <2>1, Bounds DEF Init, InOrder
<1>6. OffsetInv
  BY <1>5 DEF Init, OffsetInv
<1> QED BY <1>1, <1>2, <1>3, <1>4, <1>6 DEF Base, TypeOK

(* Producers change nothing but the end of a partition.                    *)
LEMMA BaseProduce ==
  ASSUME Base, NEW p \in Partition, NEW m \in Traffic, Produce(p, m)
  PROVE  Base'
<1>1. TypeOK'
  <2>1. BrokerType'
    BY ProduceFacts DEF Base, TypeOK, BrokerType, Produce
  <2>2. /\ StoreType' /\ TaskType' /\ ClientType' /\ HealthType'
        /\ MetricsType' /\ HistoryType' /\ BudgetType'
    BY DEF Base, TypeOK, StoreType, TaskType, ClientType, HealthType,
           MetricsType, HistoryType, BudgetType, Produce
  <2> QED BY <2>1, <2>2 DEF TypeOK
<1>2. TaskInv'
  <2>1. cur # NoRecord => InHand' = InHand
    BY InHandType, ProduceFacts DEF Produce, InHand
  <2> QED BY <2>1 DEF Base, TaskInv, Produce, Busy
<1>3. OffsetInv'
  <2>1. ASSUME NEW q \in Partition PROVE InOrder(q)'
    <3>1. /\ InOrder(q) /\ Len(log[q]) \in Nat /\ position[q] \in Nat
          /\ committed[q] \in Nat \cup {-1} /\ high[q] \in Nat \cup {-1}
          /\ log_at_boot[q] \in Nat
      BY PartitionTypes
    <3>2. /\ Len(log'[q]) \in Nat /\ Len(log'[q]) <= MaxLog
          /\ Len(log[q]) <= Len(log'[q])
      BY ProduceFacts
    <3> QED BY <3>1, <3>2, Bounds DEF InOrder, Produce
  <2> QED BY <2>1 DEF Base, OffsetInv, Running, Produce
<1> QED BY <1>1, <1>2, <1>3 DEF Base

(* A payload that is not framed is passed over (consumer.rs 217-223).      *)
LEMMA BaseReceiveInvalid ==
  ASSUME Base, NEW p \in Partition, ReceiveInvalid(p)
  PROVE  Base'
<1>1. Receive(p)
  BY DEF ReceiveInvalid
<1>2. /\ Next1(p) \in Offsets /\ Next1(p) \in 1..Len(log[p]) /\ <<p, Next1(p)>> \in Record
      /\ Incoming(p) \in Message /\ from[p] < Next1(p)
      /\ position' \in [Partition -> Nat] /\ position'[p] = Next1(p)
      /\ \A q \in Partition : InOrder(q)'
  BY <1>1, ReceiveFacts DEF Record
<1>3. UNCHANGED <<log, stores, schema_cache, assigned, from>> /\ phase = "idle" /\ assigned
  BY <1>1 DEF Receive, ReceiveInvalid
<1>4. TypeOK'
  <2>1. TaskType'
    BY <1>1, <1>2 DEF Base, TypeOK, TaskType, Receive, ReceiveInvalid, Finish
  <2>2. ClientType'
    BY <1>1, <1>2 DEF Base, TypeOK, ClientType, Receive, ReceiveInvalid
  <2>3. HistoryType'
    BY <1>1, <1>2 DEF Base, TypeOK, HistoryType, Receive, ReceiveInvalid, Finish
  <2>4. BrokerType' /\ StoreType' /\ HealthType' /\ MetricsType' /\ BudgetType'
    BY <1>1, <1>2
    DEF Base, TypeOK, BrokerType, StoreType, HealthType, MetricsType,
        BudgetType, Receive, ReceiveInvalid
  <2> QED BY <2>1, <2>2, <2>3, <2>4 DEF TypeOK
<1>5. TaskInv'
  BY <1>2, <1>3, DeploymentAssumption
  DEF Base, TaskInv, ReceiveInvalid, Finish, Busy
<1>6. OffsetInv'
  BY <1>2, <1>3 DEF Base, OffsetInv, Running, ReceiveInvalid, Finish
<1> QED BY <1>4, <1>5, <1>6 DEF Base

(* A tombstone takes up the removal from every store (consumer.rs 225-242).*)
LEMMA BaseReceiveTombstone ==
  ASSUME Base, NEW p \in Partition, ReceiveTombstone(p)
  PROVE  Base'
<1>1. Receive(p)
  BY DEF ReceiveTombstone
<1>2. /\ Next1(p) \in Offsets /\ Next1(p) \in 1..Len(log[p]) /\ <<p, Next1(p)>> \in Record
      /\ Incoming(p) \in Message /\ from[p] < Next1(p)
      /\ position' \in [Partition -> Nat] /\ position'[p] = Next1(p)
      /\ \A q \in Partition : InOrder(q)'
  BY <1>1, ReceiveFacts DEF Record
<1>3. UNCHANGED <<log, stores, schema_cache, assigned, from>> /\ phase = "idle" /\ assigned
  BY <1>1 DEF Receive, ReceiveTombstone
<1>4. TypeOK'
  <2>1. TaskType'
    BY <1>1, <1>2
    DEF Base, TypeOK, TaskType, Receive, ReceiveTombstone, Finish, Hold, Busy
  <2>2. ClientType'
    BY <1>1, <1>2 DEF Base, TypeOK, ClientType, Receive, ReceiveTombstone
  <2>3. MetricsType'
    BY <1>1, <1>2 DEF Base, TypeOK, MetricsType, Receive, ReceiveTombstone
  <2>4. HistoryType'
    BY <1>1, <1>2
    DEF Base, TypeOK, HistoryType, Receive, ReceiveTombstone, Finish, Hold
  <2>5. BrokerType' /\ StoreType' /\ HealthType' /\ BudgetType'
    BY <1>1, <1>2
    DEF Base, TypeOK, BrokerType, StoreType, HealthType, BudgetType, Receive,
        ReceiveTombstone
  <2> QED BY <2>1, <2>2, <2>3, <2>4, <2>5 DEF TypeOK
<1>5. TaskInv'
  BY <1>2, <1>3, DeploymentAssumption
  DEF Base, TaskInv, ReceiveTombstone, Finish, Hold, Busy, InHand, Incoming,
      HasKey, NoRecord, Offsets
<1>6. OffsetInv'
  BY <1>2, <1>3
  DEF Base, OffsetInv, Running, ReceiveTombstone, Finish, Hold, Busy
<1> QED BY <1>4, <1>5, <1>6 DEF Base

(* An update is held for its schema, held for its insert, or finished.     *)
LEMMA BaseReceiveUpdate ==
  ASSUME Base, NEW p \in Partition, ReceiveUpdate(p)
  PROVE  Base'
<1>1. Receive(p)
  BY DEF ReceiveUpdate
<1>2. /\ Next1(p) \in Offsets /\ Next1(p) \in 1..Len(log[p]) /\ <<p, Next1(p)>> \in Record
      /\ Incoming(p) \in Message /\ from[p] < Next1(p)
      /\ position' \in [Partition -> Nat] /\ position'[p] = Next1(p)
      /\ \A q \in Partition : InOrder(q)'
  BY <1>1, ReceiveFacts DEF Record
<1>3. UNCHANGED <<log, stores, schema_cache, assigned, from>> /\ phase = "idle" /\ assigned
  BY <1>1 DEF Receive, ReceiveUpdate
<1>4. TypeOK'
  <2>1. TaskType'
    BY <1>1, <1>2
    DEF Base, TypeOK, TaskType, Receive, ReceiveUpdate, Route, Finish, Hold,
        Busy
  <2>2. ClientType'
    BY <1>1, <1>2 DEF Base, TypeOK, ClientType, Receive, ReceiveUpdate
  <2>3. MetricsType'
    BY <1>1, <1>2 DEF Base, TypeOK, MetricsType, Receive, ReceiveUpdate, Route
  <2>4. HistoryType'
    BY <1>1, <1>2
    DEF Base, TypeOK, HistoryType, Receive, ReceiveUpdate, Route, Finish, Hold
  <2>5. BrokerType' /\ StoreType' /\ HealthType' /\ BudgetType'
    BY <1>1, <1>2
    DEF Base, TypeOK, BrokerType, StoreType, HealthType, BudgetType, Receive,
        ReceiveUpdate
  <2> QED BY <2>1, <2>2, <2>3, <2>4, <2>5 DEF TypeOK
<1>5. TaskInv'
  BY <1>2, <1>3, DeploymentAssumption
  DEF Base, TaskInv, ReceiveUpdate, Route, Finish, Hold, Busy, InHand,
      Incoming, HasKey, NoRecord, Offsets
<1>6. OffsetInv'
  BY <1>2, <1>3
  DEF Base, OffsetInv, Running, ReceiveUpdate, Route, Finish, Hold, Busy
<1> QED BY <1>4, <1>5, <1>6 DEF Base

(* The registry answered: the update is routed (consumer.rs 171-215).      *)
LEMMA BaseFetchSchemaOk ==
  ASSUME Base, FetchSchemaOk
  PROVE  Base'
<1>1. cur # NoRecord /\ assigned
  BY InHandType DEF Base, TaskInv, Busy, FetchSchemaOk
<1>2. /\ <<cur.part, cur.offset>> \in Record /\ cur.offset \in Offsets
      /\ cur.part \in Partition /\ InHand \in Message
      /\ cur = [part |-> cur.part, offset |-> cur.offset]
  BY <1>1, InHandType
<1>3. \A q \in Partition : InOrder(q)'
  BY PartitionTypes DEF InOrder, FetchSchemaOk
<1>4. TypeOK'
  <2>1. StoreType'
    BY <1>2 DEF Base, TypeOK, StoreType, FetchSchemaOk, TaskInv, Message
  <2>2. TaskType'
    BY <1>2 DEF Base, TypeOK, TaskType, FetchSchemaOk, Route, Finish, Hold, Busy
  <2>3. MetricsType'
    BY <1>2 DEF Base, TypeOK, MetricsType, FetchSchemaOk, Route
  <2>4. HistoryType'
    BY <1>2 DEF Base, TypeOK, HistoryType, FetchSchemaOk, Route, Finish, Hold
  <2>5. BrokerType' /\ ClientType' /\ HealthType' /\ BudgetType'
    BY <1>2
    DEF Base, TypeOK, BrokerType, ClientType, HealthType, BudgetType,
        FetchSchemaOk
  <2> QED BY <2>1, <2>2, <2>3, <2>4, <2>5 DEF TypeOK
<1>5. TaskInv'
  BY <1>1, <1>2
  DEF Base, TaskInv, FetchSchemaOk, Route, Finish, Hold, Busy, InHand, HasKey
<1>6. OffsetInv'
  BY <1>1, <1>3
  DEF Base, OffsetInv, Running, FetchSchemaOk, Route, Finish, Hold, Busy
<1> QED BY <1>4, <1>5, <1>6 DEF Base

(* The registry failed: the update is given up (consumer.rs 175-182).      *)
LEMMA BaseFetchSchemaErr ==
  ASSUME Base, FetchSchemaErr
  PROVE  Base'
<1>1. cur # NoRecord /\ assigned
  BY InHandType DEF Base, TaskInv, Busy, FetchSchemaErr
<1>2. /\ <<cur.part, cur.offset>> \in Record /\ cur.offset \in Offsets
      /\ cur.part \in Partition /\ InHand \in Message
      /\ cur = [part |-> cur.part, offset |-> cur.offset]
  BY <1>1, InHandType
<1>3. \A q \in Partition : InOrder(q)'
  BY PartitionTypes DEF InOrder, FetchSchemaErr
<1>4. TypeOK'
  <2>1. TaskType'
    BY <1>2 DEF Base, TypeOK, TaskType, FetchSchemaErr
  <2>2. HistoryType'
    BY <1>2 DEF Base, TypeOK, HistoryType, FetchSchemaErr
  <2>3. BudgetType'
    BY <1>2 DEF Base, TypeOK, BudgetType, FetchSchemaErr, Fault
  <2>4. BrokerType' /\ StoreType' /\ ClientType' /\ HealthType' /\ MetricsType'
    BY <1>2
    DEF Base, TypeOK, BrokerType, StoreType, ClientType, HealthType,
        MetricsType, FetchSchemaErr
  <2> QED BY <2>1, <2>2, <2>3, <2>4 DEF TypeOK
<1>5. TaskInv'
  BY <1>1, <1>2 DEF Base, TaskInv, FetchSchemaErr, Busy
<1>6. OffsetInv'
  BY <1>1, <1>3 DEF Base, OffsetInv, Running, FetchSchemaErr, Busy
<1> QED BY <1>4, <1>5, <1>6 DEF Base

(* The store took the update (consumer.rs 200-204).                        *)
LEMMA BaseInsertOk ==
  ASSUME Base, InsertOk
  PROVE  Base'
<1>1. cur # NoRecord /\ assigned
  BY InHandType DEF Base, TaskInv, Busy, InsertOk
<1>2. /\ <<cur.part, cur.offset>> \in Record /\ cur.offset \in Offsets
      /\ cur.part \in Partition /\ InHand \in Message
      /\ cur = [part |-> cur.part, offset |-> cur.offset]
  BY <1>1, InHandType
<1>3. \A q \in Partition : InOrder(q)'
  BY PartitionTypes DEF InOrder, InsertOk
<1>4. TypeOK'
  <2>1. StoreType'
    BY <1>2 DEF Base, TypeOK, StoreType, InsertOk, Inserted, Write, Offsets
  <2>2. TaskType'
    BY <1>2 DEF Base, TypeOK, TaskType, InsertOk, Finish
  <2>3. HistoryType'
    BY <1>2 DEF Base, TypeOK, HistoryType, InsertOk, Finish
  <2>4. BrokerType' /\ ClientType' /\ HealthType' /\ MetricsType' /\ BudgetType'
    BY <1>2
    DEF Base, TypeOK, BrokerType, ClientType, HealthType, MetricsType,
        BudgetType, InsertOk
  <2> QED BY <2>1, <2>2, <2>3, <2>4 DEF TypeOK
<1>5. TaskInv'
  BY <1>1, <1>2 DEF Base, TaskInv, InsertOk, Finish, Busy
<1>6. OffsetInv'
  BY <1>1, <1>3 DEF Base, OffsetInv, Running, InsertOk, Finish
<1> QED BY <1>4, <1>5, <1>6 DEF Base

(* One more store is done with the tombstone (consumer.rs 230-232).        *)
LEMMA BaseRemoveOk ==
  ASSUME Base, NEW s \in Store, RemoveOk(s)
  PROVE  Base'
<1>1. cur # NoRecord /\ assigned
  BY InHandType DEF Base, TaskInv, Busy, RemoveOk
<1>2. /\ <<cur.part, cur.offset>> \in Record /\ cur.offset \in Offsets
      /\ cur.part \in Partition /\ InHand \in Message
      /\ cur = [part |-> cur.part, offset |-> cur.offset]
  BY <1>1, InHandType
<1>3. \A q \in Partition : InOrder(q)'
  BY PartitionTypes DEF InOrder, RemoveOk
<1>4. TypeOK'
  <2>1. StoreType'
    BY <1>2 DEF Base, TypeOK, StoreType, RemoveOk, Removed, Write, Absent
  <2>2. TaskType'
    BY <1>2 DEF Base, TypeOK, TaskType, RemoveOk, Finish, Busy
  <2>3. HistoryType'
    BY <1>2 DEF Base, TypeOK, HistoryType, RemoveOk, Finish
  <2>4. BrokerType' /\ ClientType' /\ HealthType' /\ MetricsType' /\ BudgetType'
    BY <1>2
    DEF Base, TypeOK, BrokerType, ClientType, HealthType, MetricsType,
        BudgetType, RemoveOk
  <2> QED BY <2>1, <2>2, <2>3, <2>4 DEF TypeOK
<1>5. TaskInv'
  BY <1>1, <1>2 DEF Base, TaskInv, RemoveOk, Finish, Busy, InHand
<1>6. OffsetInv'
  BY <1>1, <1>3 DEF Base, OffsetInv, Running, RemoveOk, Finish, Busy
<1> QED BY <1>4, <1>5, <1>6 DEF Base

(* What is committed is a number of records the partition has.             *)
LEMMA CommitFacts ==
  ASSUME Base, CommitStored
  PROVE  /\ committed' \in [Partition -> Nat \cup {-1}]
         /\ Delivered \subseteq Partition
         /\ \A q \in Partition :
              /\ committed'[q] \in Nat \cup {-1}
              /\ committed'[q] <= Len(log[q])
              /\ assigned /\ ~ForceResetEarliest => committed'[q] <= position[q]
<1>1. ASSUME NEW q \in Partition
      PROVE  /\ committed'[q] \in Nat \cup {-1}
             /\ committed'[q] <= Len(log[q])
             /\ assigned /\ ~ForceResetEarliest => committed'[q] <= position[q]
  BY PartitionTypes DEF CommitStored, InOrder
<1>2. committed' \in [Partition -> Nat \cup {-1}]
  BY PartitionTypes DEF CommitStored
<1> QED BY <1>1, <1>2 DEF Delivered

(* The commit timer publishes what was delivered (consumer.rs 137).        *)
LEMMA BaseAutoCommit ==
  ASSUME Base, AutoCommit
  PROVE  Base'
<1>1. CommitStored
  BY DEF AutoCommit
<1>2. /\ committed' \in [Partition -> Nat \cup {-1}]
      /\ Delivered \subseteq Partition
  BY <1>1, CommitFacts
<1>3. ASSUME NEW q \in Partition PROVE InOrder(q)'
  BY <1>1, CommitFacts, PartitionTypes DEF InOrder, AutoCommit
<1>4. TypeOK'
  <2>1. BrokerType'
    BY <1>2 DEF Base, TypeOK, BrokerType, AutoCommit
  <2>2. ClientType'
    BY <1>2 DEF Base, TypeOK, ClientType, AutoCommit
  <2>3. /\ StoreType' /\ TaskType' /\ HealthType'
        /\ MetricsType' /\ HistoryType' /\ BudgetType'
    BY <1>2
    DEF Base, TypeOK, StoreType, TaskType, HealthType, MetricsType,
        HistoryType, BudgetType, AutoCommit
  <2> QED BY <2>1, <2>2, <2>3 DEF TypeOK
<1>5. TaskInv'
  BY DEF Base, TaskInv, AutoCommit, Busy, InHand
<1>6. OffsetInv'
  BY <1>3 DEF Base, OffsetInv, AutoCommit, Running
<1> QED BY <1>4, <1>5, <1>6 DEF Base

(* A fetch learns the end of a partition.                                  *)
LEMMA BaseFetchBatch ==
  ASSUME Base, NEW p \in Partition, FetchBatch(p)
  PROVE  Base'
<1>2. high' \in [Partition -> Nat \cup {-1}] /\ high' = [high EXCEPT ![p] = Len(log[p])]
  BY PartitionTypes DEF FetchBatch, Base, TypeOK, ClientType
<1>3. ASSUME NEW q \in Partition PROVE InOrder(q)'
  BY <1>2, PartitionTypes DEF InOrder, FetchBatch, Base, TypeOK, ClientType
<1>4. TypeOK'
  <2>1. ClientType'
    BY <1>2 DEF Base, TypeOK, ClientType, FetchBatch
  <2>2. /\ BrokerType' /\ StoreType' /\ TaskType' /\ HealthType'
        /\ MetricsType' /\ HistoryType' /\ BudgetType'
    BY <1>2
    DEF Base, TypeOK, BrokerType, StoreType, TaskType, HealthType, MetricsType,
        HistoryType, BudgetType, FetchBatch
  <2> QED BY <2>1, <2>2 DEF TypeOK
<1>5. TaskInv'
  BY DEF Base, TaskInv, FetchBatch, Busy, InHand
<1>6. OffsetInv'
  BY <1>3 DEF Base, OffsetInv, FetchBatch, Running
<1> QED BY <1>4, <1>5, <1>6 DEF Base

(* A session starts within the partition.                                  *)
LEMMA StartFacts ==
  ASSUME Base, NEW p \in Partition
  PROVE  /\ StartOf(p) \in Nat /\ StartOf(p) <= Len(log[p])
         /\ ForceResetEarliest => StartOf(p) = 0
         /\ ~ForceResetEarliest => committed[p] <= StartOf(p)
  BY PartitionTypes DEF StartOf, InOrder

(* A session starts (consumer.rs 84-105).                                  *)
LEMMA BaseAssign ==
  ASSUME Base, Assign
  PROVE  Base'
<1>1. /\ from' \in [Partition -> Nat] /\ position' = from'
      /\ \A q \in Partition : from'[q] = StartOf(q)
  BY StartFacts DEF Assign
<1>2. /\ high' \in [Partition -> Nat \cup {-1}]
      /\ \A q \in Partition : high'[q] = -1
      /\ PassedOver \subseteq Record
  BY DEF Assign, NoOffset, PassedOver, Record, Offsets
<1>3. ASSUME NEW q \in Partition PROVE InOrder(q)'
  BY <1>1, <1>2, StartFacts, PartitionTypes DEF InOrder, Assign
<1>4. TypeOK'
  <2>1. ClientType'
    BY <1>1, <1>2 DEF Base, TypeOK, ClientType, Assign
  <2>2. HistoryType'
    BY <1>1, <1>2 DEF Base, TypeOK, HistoryType, Assign
  <2>3. /\ BrokerType' /\ StoreType' /\ TaskType'
        /\ HealthType' /\ MetricsType' /\ BudgetType'
    BY <1>1, <1>2
    DEF Base, TypeOK, BrokerType, StoreType, TaskType, HealthType, MetricsType,
        BudgetType, Assign
  <2> QED BY <2>1, <2>2, <2>3 DEF TypeOK
<1>5. TaskInv'
  BY DEF Base, TaskInv, Assign, Busy, InHand
<1>6. OffsetInv'
  BY <1>3 DEF Base, OffsetInv, Assign, Running
<1> QED BY <1>4, <1>5, <1>6 DEF Base

(* Giving the assignment up resets the client's offsets.                   *)
LEMMA UnassignFacts ==
  ASSUME Base, Unassign, UNCHANGED <<log, log_at_boot>>,
         CommitStored \/ UNCHANGED committed
  PROVE  /\ from' \in [Partition -> Nat] /\ position' \in [Partition -> Nat]
         /\ high' \in [Partition -> Nat \cup {-1}] /\ assigned' = FALSE
         /\ committed' \in [Partition -> Nat \cup {-1}]
         /\ \A q \in Partition : InOrder(q)'
         /\ (~assigned => from = Zero /\ position = Zero /\ applied = {} /\ high = NoOffset)'
<1>1. \A q \in Partition : from'[q] = 0 /\ position'[q] = 0 /\ high'[q] = -1
  BY DEF Unassign, Zero, NoOffset
<1>2. committed' \in [Partition -> Nat \cup {-1}]
  BY CommitFacts DEF Base, TypeOK, BrokerType
<1>3. ASSUME NEW q \in Partition
      PROVE  committed'[q] \in Nat \cup {-1} /\ committed'[q] <= Len(log[q])
  BY CommitFacts, PartitionTypes DEF InOrder
<1>4. ASSUME NEW q \in Partition PROVE InOrder(q)'
  BY <1>1, <1>3, PartitionTypes DEF InOrder, Unassign
<1> QED BY <1>2, <1>4 DEF Unassign, Zero, NoOffset

(* A session ends by a rebalance (consumer.rs 106-111).                    *)
LEMMA BaseRevoke ==
  ASSUME Base, Revoke
  PROVE  Base'
<1>1. /\ CommitStored \/ UNCHANGED committed
      /\ Unassign /\ UNCHANGED <<log, log_at_boot>>
  BY DEF Revoke
<1>2. /\ from' \in [Partition -> Nat] /\ position' \in [Partition -> Nat]
      /\ high' \in [Partition -> Nat \cup {-1}] /\ assigned' = FALSE
      /\ committed' \in [Partition -> Nat \cup {-1}]
      /\ \A q \in Partition : InOrder(q)'
      /\ (~assigned => from = Zero /\ position = Zero /\ applied = {} /\ high = NoOffset)'
  BY <1>1, UnassignFacts
<1>3. Delivered \subseteq Partition
  BY DEF Delivered
<1>4. TypeOK'
  <2>1. BrokerType'
    BY <1>2, <1>3 DEF Base, TypeOK, BrokerType, Revoke
  <2>2. ClientType'
    BY <1>2, <1>3 DEF Base, TypeOK, ClientType, Revoke
  <2>3. HistoryType'
    BY <1>2, <1>3 DEF Base, TypeOK, HistoryType, Revoke, Unassign
  <2>4. BudgetType'
    BY <1>2, <1>3 DEF Base, TypeOK, BudgetType, Revoke
  <2>5. StoreType' /\ TaskType' /\ HealthType' /\ MetricsType'
    BY <1>2, <1>3
    DEF Base, TypeOK, StoreType, TaskType, HealthType, MetricsType, Revoke
  <2> QED BY <2>1, <2>2, <2>3, <2>4, <2>5 DEF TypeOK
<1>5. TaskInv'
  BY DEF Base, TaskInv, Revoke, Busy, InHand
<1>6. OffsetInv'
  BY <1>2 DEF OffsetInv
<1> QED BY <1>4, <1>5, <1>6 DEF Base

(* What an early end of the task does, whatever ended it.                  *)
LEMMA BaseStop ==
  ASSUME Base, Stop, Fault, stores' \in [Store -> [Key -> Nat]]
  PROVE  Base'
<1>1. /\ CommitStored \/ UNCHANGED committed
      /\ Unassign /\ UNCHANGED <<log, log_at_boot>>
  BY DEF Stop
<1>2. /\ from' \in [Partition -> Nat] /\ position' \in [Partition -> Nat]
      /\ high' \in [Partition -> Nat \cup {-1}] /\ assigned' = FALSE
      /\ committed' \in [Partition -> Nat \cup {-1}]
      /\ \A q \in Partition : InOrder(q)'
      /\ (~assigned => from = Zero /\ position = Zero /\ applied = {} /\ high = NoOffset)'
  BY <1>1, UnassignFacts
<1>3. InFlight \subseteq Record
  BY InHandType DEF InFlight
<1>4. TypeOK'
  <2>1. BrokerType'
    BY <1>2, <1>3 DEF Base, TypeOK, BrokerType, Stop
  <2>2. StoreType'
    BY <1>2, <1>3 DEF Base, TypeOK, StoreType, Stop
  <2>3. TaskType'
    BY <1>2, <1>3 DEF Base, TypeOK, TaskType, Stop
  <2>4. ClientType'
    BY <1>2, <1>3 DEF Base, TypeOK, ClientType, Stop
  <2>5. HealthType'
    BY <1>2, <1>3 DEF Base, TypeOK, HealthType, Stop
  <2>6. HistoryType'
    BY <1>2, <1>3 DEF Base, TypeOK, HistoryType, Stop, Unassign
  <2>7. BudgetType'
    BY <1>2, <1>3 DEF Base, TypeOK, BudgetType, Stop, Fault
  <2>8. MetricsType'
    BY <1>2, <1>3 DEF Base, TypeOK, MetricsType, Stop
  <2> QED BY <2>1, <2>2, <2>3, <2>4, <2>5, <2>6, <2>7, <2>8 DEF TypeOK
<1>5. TaskInv'
  BY DEF TaskInv, Stop, Busy
<1>6. OffsetInv'
  BY <1>2 DEF OffsetInv
<1> QED BY <1>4, <1>5, <1>6 DEF Base

(* The three ways the consumer task ends early.                            *)
LEMMA BaseErrors ==
  ASSUME Base, InsertErr \/ StreamError \/ \E s \in Store : RemoveErr(s)
  PROVE  Base'
<1>0. stores \in [Store -> [Key -> Nat]]
  BY DEF Base, TypeOK, StoreType
<1>1. CASE InsertErr
  <2>1. cur.offset \in Nat
    BY <1>1, InHandType DEF InsertErr, Base, TaskInv, Busy, Offsets
  <2>2. stores' \in [Store -> [Key -> Nat]]
    BY <1>0, <1>1, <2>1 DEF InsertErr, Inserted, Write
  <2> QED BY <1>1, <2>2, BaseStop DEF InsertErr
<1>2. CASE StreamError
  BY <1>0, <1>2, BaseStop DEF StreamError
<1>3. ASSUME NEW s \in Store, RemoveErr(s) PROVE Base'
  <2>1. stores' \in [Store -> [Key -> Nat]]
    BY <1>0, <1>3 DEF RemoveErr, Removed, Write, Absent
  <2> QED BY <1>3, <2>1, BaseStop DEF RemoveErr
<1> QED BY <1>1, <1>2, <1>3

(* A report is queued for the callback.                                    *)
LEMMA BaseEmitStats ==
  ASSUME Base, EmitStats
  PROVE  Base'
<1>1. \A p \in Partition : LagOf(p) \in Int
  BY PartitionTypes DEF LagOf
<1>3. ASSUME NEW q \in Partition PROVE InOrder(q)'
  BY PartitionTypes DEF InOrder, EmitStats
<1>4. TypeOK'
  <2>1. HealthType'
    BY <1>1 DEF Base, TypeOK, HealthType, EmitStats
  <2>2. /\ BrokerType' /\ StoreType' /\ TaskType' /\ ClientType'
        /\ MetricsType' /\ HistoryType' /\ BudgetType'
    BY <1>1
    DEF Base, TypeOK, BrokerType, StoreType, TaskType, ClientType, MetricsType,
        HistoryType, BudgetType, EmitStats
  <2> QED BY <2>1, <2>2 DEF TypeOK
<1>5. TaskInv'
  BY DEF Base, TaskInv, EmitStats, Busy, InHand
<1>6. OffsetInv'
  BY <1>3 DEF Base, OffsetInv, EmitStats, Running
<1> QED BY <1>4, <1>5, <1>6 DEF Base

(* The callback sets the gauge and the latch (consumer.rs 30-64).          *)
LEMMA BaseStats ==
  ASSUME Base, Stats
  PROVE  Base'
<1>1. consumer_lag' \in BOOLEAN /\ startup_lag_cleared' \in BOOLEAN
  BY DEF Stats, Base, TypeOK, HealthType
<1>3. ASSUME NEW q \in Partition PROVE InOrder(q)'
  BY PartitionTypes DEF InOrder, Stats
<1>4. TypeOK'
  <2>1. HealthType'
    BY <1>1 DEF Base, TypeOK, HealthType, Stats
  <2>2. /\ BrokerType' /\ StoreType' /\ TaskType' /\ ClientType'
        /\ MetricsType' /\ HistoryType' /\ BudgetType'
    BY <1>1
    DEF Base, TypeOK, BrokerType, StoreType, TaskType, ClientType, MetricsType,
        HistoryType, BudgetType, Stats
  <2> QED BY <2>1, <2>2 DEF TypeOK
<1>5. TaskInv'
  BY DEF Base, TaskInv, Stats, Busy, InHand
<1>6. OffsetInv'
  BY <1>3 DEF Base, OffsetInv, Stats, Running
<1> QED BY <1>4, <1>5, <1>6 DEF Base

(* A process starts (lib.rs 111-240).                                      *)
LEMMA BaseBoot ==
  ASSUME Base, Boot
  PROVE  Base'
<1>1. log_at_boot' \in [Partition -> Nat] /\ \A q \in Partition : log_at_boot'[q] = Len(log[q])
  BY PartitionTypes DEF Boot
<1>2. ~assigned
  BY DEF Boot, Base, OffsetInv, Running, Busy
<1>3. ASSUME NEW q \in Partition PROVE InOrder(q)'
  BY <1>1, PartitionTypes DEF InOrder, Boot
<1>4. TypeOK'
  <2>1. StoreType'
    BY <1>1, DeploymentAssumption DEF Base, TypeOK, StoreType, Boot
  <2>2. TaskType'
    BY <1>1 DEF Base, TypeOK, TaskType, Boot
  <2>3. HistoryType'
    BY <1>1 DEF Base, TypeOK, HistoryType, Boot
  <2>4. BudgetType'
    BY <1>1 DEF Base, TypeOK, BudgetType, Boot, Fault
  <2>5. BrokerType' /\ ClientType' /\ HealthType' /\ MetricsType'
    BY <1>1
    DEF Base, TypeOK, BrokerType, ClientType, HealthType, MetricsType, Boot
  <2> QED BY <2>1, <2>2, <2>3, <2>4, <2>5 DEF TypeOK
<1>5. TaskInv'
  BY DEF Base, TaskInv, Boot, Busy, InHand
<1>6. OffsetInv'
  BY <1>2, <1>3 DEF Base, OffsetInv, Boot, Running
<1> QED BY <1>4, <1>5, <1>6 DEF Base

(* A process dies.                                                         *)
LEMMA BaseCrash ==
  ASSUME Base, Crash
  PROVE  Base'
<1>1. /\ CommitStored \/ UNCHANGED committed
      /\ Unassign /\ UNCHANGED <<log, log_at_boot>>
  BY DEF Crash
<1>2. /\ from' \in [Partition -> Nat] /\ position' \in [Partition -> Nat]
      /\ high' \in [Partition -> Nat \cup {-1}] /\ assigned' = FALSE
      /\ committed' \in [Partition -> Nat \cup {-1}]
      /\ \A q \in Partition : InOrder(q)'
      /\ (~assigned => from = Zero /\ position = Zero /\ applied = {} /\ high = NoOffset)'
  BY <1>1, UnassignFacts
<1>3. /\ InFlight \subseteq Record
      /\ stores' \in [Store -> [Key -> Nat]]
  <2>1. InFlight \subseteq Record
    BY InHandType DEF InFlight
  <2>2. stores \in [Store -> [Key -> Nat]]
    BY DEF Base, TypeOK, StoreType
  <2>3. phase = "inserting" => Inserted \in [Store -> [Key -> Nat]]
    BY <2>2, InHandType DEF Inserted, Write, Base, TaskInv, Busy, Offsets
  <2>4. \A s : Removed(s) \in [Store -> [Key -> Nat]]
    BY <2>2 DEF Removed, Write, Absent
  <2>5. PICK arrived \in [Store -> [Key -> Nat]] :
          stores' = [s \in Store |-> IF s \in InMemory THEN [k \in Key |-> Absent]
                                                       ELSE arrived[s]]
    BY <2>2, <2>3, <2>4 DEF Crash
  <2>6. stores' \in [Store -> [Key -> Nat]]
    BY <2>5 DEF Absent
  <2> QED BY <2>1, <2>6
<1>4. TypeOK'
  <2>1. BrokerType'
    BY <1>2, <1>3 DEF Base, TypeOK, BrokerType, Crash
  <2>2. StoreType'
    BY <1>2, <1>3 DEF Base, TypeOK, StoreType, Crash
  <2>3. TaskType'
    BY <1>2, <1>3 DEF Base, TypeOK, TaskType, Crash
  <2>4. ClientType'
    BY <1>2, <1>3 DEF Base, TypeOK, ClientType, Crash
  <2>5. HealthType'
    BY <1>2, <1>3 DEF Base, TypeOK, HealthType, Crash
  <2>6. MetricsType'
    BY <1>2, <1>3 DEF Base, TypeOK, MetricsType, Crash
  <2>7. HistoryType'
    BY <1>2, <1>3 DEF Base, TypeOK, HistoryType, Crash, Unassign
  <2>8. BudgetType'
    BY <1>2, <1>3 DEF Base, TypeOK, BudgetType, Crash
  <2> QED BY <2>1, <2>2, <2>3, <2>4, <2>5, <2>6, <2>7, <2>8 DEF TypeOK
<1>5. TaskInv'
  BY DEF TaskInv, Crash, Busy
<1>6. OffsetInv'
  BY <1>2 DEF OffsetInv
<1> QED BY <1>4, <1>5, <1>6 DEF Base

(* Nothing happens.                                                        *)
LEMMA BaseStutter == ASSUME Base, UNCHANGED vars PROVE Base'
<1>1. TypeOK'
  BY DEF Base, TypeOK, BrokerType, StoreType, TaskType, ClientType, HealthType,
         MetricsType, HistoryType, BudgetType, vars
<1>2. TaskInv'
  BY DEF Base, TaskInv, InHand, Busy, vars
<1>3. ASSUME NEW q \in Partition PROVE InOrder(q)'
  BY PartitionTypes DEF InOrder, vars
<1>4. OffsetInv'
  BY <1>3 DEF Base, OffsetInv, Running, vars
<1> QED BY <1>1, <1>2, <1>4 DEF Base

(* Every step preserves the base invariant.                                *)
LEMMA BaseNext == Base /\ [Next]_vars => Base'
  BY BaseProduce, BaseReceiveInvalid, BaseReceiveTombstone, BaseReceiveUpdate,
     BaseFetchSchemaOk, BaseFetchSchemaErr, BaseInsertOk, BaseRemoveOk,
     BaseAutoCommit, BaseFetchBatch, BaseAssign, BaseRevoke, BaseErrors,
     BaseEmitStats, BaseStats, BaseBoot, BaseCrash, BaseStutter
  DEF Next

(* In every reachable state the variables have their types.                *)
THEOREM TypeCorrect == Spec => []TypeOK
<1>1. Spec => []Base
  BY BaseInit, BaseNext, PTL DEF Spec
<1>2. Base => TypeOK
  BY DEF Base
<1> QED BY <1>1, <1>2, PTL

----------------------------------------------------------------------------
(* Commits cover only records that were dealt with.                        *)

(* Once dealt with or in hand, a record stays so: what is in hand is       *)
(* finished, dropped, or lost with its process.                            *)
LEMMA HandledStays ==
  ASSUME Base, Next, NEW p \in Partition, NEW o \in Offsets, Handled(p, o)
  PROVE  Handled(p, o)'
<1>1. cur # NoRecord => cur = [part |-> cur.part, offset |-> cur.offset]
  BY InHandType
<1>2. CASE UNCHANGED <<cur, done, dropped, lost>>
  BY <1>2 DEF Handled, InHandAt
<1>3. CASE Stop
  BY <1>1, <1>3 DEF Stop, Handled, InHandAt, InFlight, NoRecord
<1>4. CASE Crash
  BY <1>1, <1>4 DEF Crash, Handled, InHandAt, InFlight, NoRecord
<1>5. CASE Assign
  BY <1>5 DEF Assign, Handled, InHandAt
<1>6. CASE phase = "idle" /\ done \subseteq done' /\ UNCHANGED <<dropped, lost>>
  BY <1>6 DEF Handled, InHandAt, Base, TaskInv, Busy, NoRecord, Offsets
<1>7. CASE FetchSchemaErr
  BY <1>1, <1>7 DEF FetchSchemaErr, Handled, InHandAt
<1>8. CASE FetchSchemaOk
  BY <1>1, <1>8 DEF FetchSchemaOk, Route, Finish, Hold, Handled, InHandAt
<1>9. CASE InsertOk
  BY <1>1, <1>9 DEF InsertOk, Finish, Handled, InHandAt
<1>10. ASSUME NEW s \in Store, RemoveOk(s) PROVE Handled(p, o)'
  BY <1>1, <1>10 DEF RemoveOk, Finish, Handled, InHandAt
<1>11. ASSUME NEW q \in Partition,
              ReceiveInvalid(q) \/ ReceiveTombstone(q) \/ ReceiveUpdate(q)
       PROVE  Handled(p, o)'
  <2>1. /\ phase = "idle" /\ done \subseteq done' /\ UNCHANGED <<dropped, lost>>
    BY <1>11 DEF ReceiveInvalid, ReceiveTombstone, ReceiveUpdate, Receive,
                 Route, Finish, Hold
  <2> QED BY <1>6, <2>1
<1>12. CASE \/ AutoCommit \/ Revoke \/ EmitStats \/ Stats \/ Boot
            \/ \E q \in Partition : FetchBatch(q) \/ \E m \in Traffic : Produce(q, m)
  <2>1. UNCHANGED <<cur, done, dropped, lost>>
    BY <1>12 DEF AutoCommit, Revoke, EmitStats, Stats, Boot, FetchBatch, Produce
  <2> QED BY <1>2, <2>1
<1> QED
  BY <1>3, <1>4, <1>5, <1>7, <1>8, <1>9, <1>10, <1>11, <1>12
  DEF Next, InsertErr, RemoveErr, StreamError

(* The group's offset only moves to where this session has read.           *)
LEMMA CommitStep ==
  ASSUME Base, Next, NEW p \in Partition, NEW o \in 1..committed'[p]
  PROVE  o \in 1..committed[p] \/ o \in 1..position[p]
<1>1. CASE CommitStored
  BY <1>1, PartitionTypes DEF CommitStored
<1>2. CASE UNCHANGED committed
  BY <1>2
<1>3. CommitStored \/ UNCHANGED committed
  BY DEF Next, Produce, FetchBatch, ReceiveInvalid, ReceiveTombstone,
         ReceiveUpdate,
         Receive, AutoCommit, Assign, Revoke, FetchSchemaOk, FetchSchemaErr, InsertOk,
         InsertErr, RemoveOk, RemoveErr, StreamError, Stop, EmitStats, Stats, Boot, Crash
<1> QED BY <1>1, <1>2, <1>3

(* A client reads on by one record, or starts a session: at the beginning, *)
(* where the group had committed, or past records it will never read.      *)
LEMMA ReadStep ==
  ASSUME Base, Next, NEW p \in Partition, NEW o \in 1..position'[p]
  PROVE  o \in 1..position[p] \/ o \in 1..committed[p] \/ Handled(p, o)'
<1>1. ASSUME NEW q \in Partition,
             ReceiveInvalid(q) \/ ReceiveTombstone(q) \/ ReceiveUpdate(q)
      PROVE  o \in 1..position[p] \/ Handled(p, o)'
  <2>1. Receive(q)
    BY <1>1 DEF ReceiveInvalid, ReceiveTombstone, ReceiveUpdate
  <2>2. /\ position'[q] = position[q] + 1 /\ Next1(q) = position[q] + 1
        /\ \A r \in Partition \ {q} : position'[r] = position[r]
    BY <2>1, ReceiveFacts DEF Next1
  <2>3. ASSUME NEW n, n = Next1(q) PROVE Handled(q, n)'
    BY <1>1, <2>3
    DEF ReceiveInvalid, ReceiveTombstone, ReceiveUpdate, Route, Finish, Hold,
                Handled, InHandAt
  <2>4. o \in 1..position[p] \/ (p = q /\ o = Next1(q))
    BY <2>2, PartitionTypes
  <2> QED BY <2>3, <2>4 DEF Next1
<1>2. CASE Assign
  <2>1. position'[p] = StartOf(p) /\ dropped' = dropped \cup PassedOver
    BY <1>2 DEF Assign
  <2>2. CASE StartOf(p) = 0 \/ StartOf(p) = committed[p]
    BY <2>1, <2>2
  <2>3. CASE ~ForceResetEarliest /\ committed[p] = -1
    <3>1. <<p, o>> \in PassedOver
      BY <2>1, <2>3, StartFacts, PartitionTypes, Bounds DEF PassedOver, InOrder
    <3> QED BY <2>1, <3>1 DEF Handled
  <2> QED BY <2>2, <2>3, PartitionTypes DEF StartOf
<1>3. CASE Unassign
  BY <1>3 DEF Unassign, Zero
<1>4. CASE UNCHANGED position
  BY <1>4
<1>5. \/ Assign \/ Unassign \/ UNCHANGED position
      \/ \E q \in Partition :
           ReceiveInvalid(q) \/ ReceiveTombstone(q) \/ ReceiveUpdate(q)
  BY DEF Next, Produce, FetchBatch, AutoCommit, Revoke, FetchSchemaOk,
         FetchSchemaErr,
         InsertOk, InsertErr, RemoveOk, RemoveErr, StreamError, Stop, EmitStats, Stats,
         Boot, Crash
<1> QED BY <1>1, <1>2, <1>3, <1>4, <1>5

Covered == Base /\ CommitCoversHandled /\ ReadInv

(* Nothing is committed or read at the start.                              *)
LEMMA CoveredInit == Init => Covered
  BY BaseInit DEF Init, Covered, CommitCoversHandled, ReadInv, Zero, NoOffset

(* Commits and reads stay covered: a new offset in either was in the other *)
(* before, or belongs to a record handled by this very step.               *)
LEMMA CoveredNext == Covered /\ [Next]_vars => Covered'
<1> SUFFICES ASSUME Covered, [Next]_vars PROVE Covered'
  OBVIOUS
<1>1. Base /\ Base'
  BY BaseNext DEF Covered
<1>2. ASSUME Next PROVE CommitCoversHandled'
  <2>1. ASSUME NEW p \in Partition, NEW o \in 1..committed'[p] PROVE Handled(p, o)'
    <3>1. o \in 1..committed[p] \/ o \in 1..position[p]
      BY <1>1, <1>2, CommitStep
    <3>2. Handled(p, o) /\ o \in Offsets
      BY <3>1, <1>1, PartitionTypes
      DEF Covered, CommitCoversHandled, ReadInv, Offsets
    <3> QED BY <1>1, <1>2, <3>2, HandledStays
  <2> QED BY <2>1 DEF CommitCoversHandled
<1>3. ASSUME Next PROVE ReadInv'
  <2>1. ASSUME NEW p \in Partition, NEW o \in 1..position'[p] PROVE Handled(p, o)'
    <3>1. o \in 1..position[p] \/ o \in 1..committed[p] \/ Handled(p, o)'
      BY <1>1, <1>3, ReadStep
    <3>2. CASE o \in 1..position[p] \/ o \in 1..committed[p]
      <4>1. Handled(p, o) /\ o \in Offsets
        BY <3>2, <1>1, PartitionTypes
        DEF Covered, CommitCoversHandled, ReadInv, Offsets
      <4> QED BY <1>1, <1>3, <4>1, HandledStays
    <3> QED BY <3>1, <3>2
  <2> QED BY <2>1 DEF ReadInv
<1>4. CASE UNCHANGED vars
  BY <1>1, <1>4
  DEF Covered, CommitCoversHandled, ReadInv, Handled, InHandAt, vars
<1> QED BY <1>1, <1>2, <1>3, <1>4 DEF Covered

(* Every committed offset, in every reachable state, belongs to a record   *)
(* that was processed, given up on, or in hand when its process ended (or  *)
(* is in hand now): auto-commit before processing (consumer.rs 137) costs  *)
(* no other record.                                                        *)
THEOREM CommitsCovered == Spec => []CommitCoversHandled
<1>1. Covered => CommitCoversHandled
  BY DEF Covered
<1> QED BY <1>1, CoveredInit, CoveredNext, PTL DEF Spec

----------------------------------------------------------------------------
(* Readiness is set by an informed report only after catching up.          *)

(* Only a start moves log_at_boot, and a start finds no report.            *)
LEMMA BootStep ==
  ASSUME Base, ReportInv, [Next]_vars
  PROVE  \/ UNCHANGED log_at_boot
         \/ Boot /\ stats' = {} /\ high' = NoOffset
<1>1. CASE Boot
  BY <1>1 DEF Boot, ReportInv, Base, OffsetInv, Running, Busy
<1>2. ~Boot => UNCHANGED log_at_boot
  BY DEF Next, Produce, FetchBatch, ReceiveInvalid, ReceiveTombstone,
         ReceiveUpdate, Receive, AutoCommit, Assign, Revoke, FetchSchemaOk,
         FetchSchemaErr, InsertOk, InsertErr, RemoveOk, RemoveErr, StreamError,
         Stop, EmitStats, Stats, Crash, vars
<1> QED BY <1>1, <1>2

(* What the client knows of the end of a partition is from this process.   *)
LEMMA HighNext ==
  ASSUME Base, ReportInv, [Next]_vars, NEW p \in Partition, high'[p] >= 0
  PROVE  log_at_boot'[p] <= high'[p]
<1>1. \/ high'[p] = high[p] \/ high'[p] = -1
      \/ high'[p] = Len(log[p])
  <2>1. ASSUME NEW q \in Partition, FetchBatch(q)
        PROVE  high'[p] = high[p] \/ high'[p] = Len(log[p])
    BY <2>1 DEF FetchBatch, Base, TypeOK, ClientType
  <2>2. \/ UNCHANGED high \/ high' = NoOffset
        \/ \E q \in Partition : FetchBatch(q)
    BY DEF Next, Produce, ReceiveInvalid, ReceiveTombstone, ReceiveUpdate,
           Receive, AutoCommit, Assign, Revoke, Unassign, FetchSchemaOk,
           FetchSchemaErr, InsertOk, InsertErr, RemoveOk, RemoveErr,
           StreamError, Stop, EmitStats, Stats, Boot, Crash, vars
  <2> QED BY <2>1, <2>2 DEF NoOffset
<1>2. log_at_boot[p] <= Len(log[p])
  BY PartitionTypes DEF InOrder
<1>3. UNCHANGED log_at_boot
  BY BootStep DEF NoOffset
<1> QED BY <1>1, <1>2, <1>3 DEF ReportInv

(* A record that was handled when it was reported is still handled.        *)
LEMMA ReportNext ==
  ASSUME Covered, ReportInv, [Next]_vars PROVE ReportInv'
<1>1. Base /\ CommitCoversHandled
  BY DEF Covered
<1>2. (phase = "down" => stats = {})'
  BY DEF ReportInv, Next, Produce, FetchBatch, ReceiveInvalid,
     ReceiveTombstone, ReceiveUpdate, Receive, Route, Finish, Hold, AutoCommit,
     Assign, Revoke, FetchSchemaOk, FetchSchemaErr, InsertOk, InsertErr,
     RemoveOk, RemoveErr, StreamError, Stop, EmitStats, Stats, Boot, Crash,
     Running, Busy, vars
<1>3. ASSUME NEW lag \in stats', NEW p \in Partition, lag[p] = 0,
             NEW o \in 1..log_at_boot'[p]
      PROVE  Handled(p, o)'
  <2>1. UNCHANGED log_at_boot
    BY <1>1, <1>3, BootStep
  <2>2. o \in Offsets
    BY <1>1, <1>3, <2>1, PartitionTypes DEF Offsets
  <2>3. CASE lag \in stats
    <3>1. Handled(p, o)
      BY <1>3, <2>1, <2>3 DEF ReportInv
    <3>2. CASE Next
      BY <1>1, <2>2, <3>1, <3>2, HandledStays
    <3>3. CASE UNCHANGED vars
      BY <3>1, <3>3 DEF Handled, InHandAt, vars
    <3> QED BY <3>2, <3>3
  <2>4. CASE EmitStats
    <3>1. LagOf(p) = 0
      BY <1>3, <2>4 DEF EmitStats
    <3>2. high[p] >= 0 /\ committed[p] = high[p]
      BY <1>1, <3>1, PartitionTypes DEF LagOf
    <3>3. o \in 1..committed[p]
      BY <1>1, <1>3, <2>1, <3>2, PartitionTypes DEF ReportInv
    <3>4. Handled(p, o)
      BY <1>1, <3>3 DEF CommitCoversHandled
    <3> QED BY <2>4, <3>4 DEF EmitStats, Handled, InHandAt
  <2>5. lag \in stats \/ EmitStats
    BY <1>3 DEF Next, Produce, FetchBatch, ReceiveInvalid, ReceiveTombstone,
       ReceiveUpdate, Receive, AutoCommit, Assign, Revoke, FetchSchemaOk,
       FetchSchemaErr, InsertOk, InsertErr, RemoveOk, RemoveErr, StreamError,
       Stop, Stats, Boot, Crash, vars
  <2> QED BY <2>3, <2>4, <2>5
<1>4. ReportInv'
  BY <1>1, <1>2, <1>3, HighNext DEF ReportInv
<1> QED BY <1>4

(* The latch is set by the callback, with no record in hand, and only when *)
(* no lag is positive.                                                     *)
LEMMA ReadyStep ==
  ASSUME Covered, ReportInv, [Next]_vars, ~startup_lag_cleared,
         startup_lag_cleared', \A lag \in stats, p \in Partition : lag[p] >= 0,
         NEW p \in Partition, NEW o \in 1..log_at_boot[p]
  PROVE  <<p, o>> \in done \cup dropped \cup lost
<1>1. Base
  BY DEF Covered
<1>2. Stats
  BY DEF Next, Produce, FetchBatch, ReceiveInvalid, ReceiveTombstone,
     ReceiveUpdate, Receive, AutoCommit, Assign, Revoke, FetchSchemaOk,
     FetchSchemaErr, InsertOk, InsertErr, RemoveOk, RemoveErr, StreamError,
     Stop, EmitStats, Boot, Crash, vars
<1>3. phase = "idle" /\ cur = NoRecord
  BY <1>1, <1>2 DEF Stats, Base, TaskInv, Busy
<1>4. PICK lag \in stats : ~(lag[p] > 0)
  BY <1>2 DEF Stats
<1>5. lag[p] \in Int /\ lag[p] >= 0
  BY <1>1, <1>4 DEF Base, TypeOK, HealthType
<1>6. Handled(p, o) /\ o # 0
  BY <1>1, <1>4, <1>5, PartitionTypes DEF ReportInv
<1> QED BY <1>3, <1>6 DEF Handled, InHandAt, NoRecord

(* If the report that sets the latch knew every lag, every record the      *)
(* topic held when the process started has been processed, dropped or lost *)
(* with an earlier process (consumer.rs 30-64), for any number of          *)
(* partitions, rebalances and deaths.                                      *)
THEOREM ReadyHandled == Spec => ReadyAfterHandled
<1> DEFINE Step ==
      (/\ ~startup_lag_cleared /\ startup_lag_cleared'
       /\ \A lag \in stats : \A p \in Partition : lag[p] >= 0)
      => \A p \in Partition : \A o \in 1..log_at_boot[p] :
           <<p, o>> \in done \cup dropped \cup lost
<1>1. Init => Covered /\ ReportInv
  BY CoveredInit DEF Init, ReportInv, NoOffset
<1>2. Covered /\ ReportInv /\ [Next]_vars => (Covered /\ ReportInv)'
  BY CoveredNext, ReportNext
<1>3. Covered /\ ReportInv /\ [Next]_vars => [Step]_vars
  BY ReadyStep
<1> QED BY <1>1, <1>2, <1>3, PTL DEF Spec, ReadyAfterHandled
=============================================================================
