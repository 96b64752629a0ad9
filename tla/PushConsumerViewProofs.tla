----------------------- MODULE PushConsumerViewProofs -----------------------
(***************************************************************************)
(* Proofs about what the stores hold: the cells follow the records of the  *)
(* session, a forced replay rebuilds them, values in memory have their     *)
(* schema at hand, and a database is never behind the offsets its group    *)
(* resumes after, but for records that were dropped or lost.               *)
(***************************************************************************)
EXTENDS PushConsumerProofs

USE DEF broker, task, client, metrics, health, history, budgets

(* A record taken from the stream, whatever it is.                         *)
Take(p) == ReceiveInvalid(p) \/ ReceiveTombstone(p) \/ ReceiveUpdate(p)

----------------------------------------------------------------------------
(* What a session has done.                                                *)

(* What was applied are records.                                           *)
LEMMA AppliedType ==
  ASSUME Base, NEW r \in applied
  PROVE  r[1] \in Partition /\ r[2] \in Offsets /\ r = <<r[1], r[2]>>
BY DEF Base, TypeOK, HistoryType, Record

(* An idle task has nothing in hand.                                       *)
LEMMA IdleHands ==
  ASSUME Base, phase = "idle" PROVE cur = NoRecord
BY DEF Base, TaskInv, Busy

(* Finishing the record in hand.                                           *)
LEMMA SessionFinish ==
  ASSUME Base, SessionInv, cur # NoRecord, UNCHANGED <<from, position>>,
         dropped \subseteq dropped',
         \/ Finish(cur.part, cur.offset)
         \/ /\ cur' = NoRecord /\ UNCHANGED applied
            /\ <<cur.part, cur.offset>> \in dropped'
  PROVE  SessionInv'
<1>1. /\ cur.part \in Partition /\ cur.offset \in Offsets
      /\ cur.offset = position[cur.part]
      /\ cur = [part |-> cur.part, offset |-> cur.offset]
  BY InHandType
<1>2. /\ cur' = NoRecord /\ applied \subseteq applied'
      /\ <<cur.part, cur.offset>> \in applied' \cup dropped'
      /\ applied' \subseteq applied \cup {<<cur.part, cur.offset>>}
  BY DEF Finish
<1>3. ASSUME NEW p \in Partition, NEW o \in (from[p] + 1)..position[p]
      PROVE  <<p, o>> \in applied' \cup dropped'
  <2>1. <<p, o>> \in applied \cup dropped \/ InHandAt(p, o)
    BY <1>3 DEF SessionInv
  <2>2. InHandAt(p, o) => p = cur.part /\ o = cur.offset
    BY DEF InHandAt
  <2> QED BY <1>2, <2>1, <2>2
<1>4. ASSUME NEW r \in applied' PROVE r[2] <= position[r[1]] /\ r[2] # 0
  <2>1. CASE r \in applied
    BY <2>1, AppliedType DEF SessionInv, Offsets
  <2>2. CASE r = <<cur.part, cur.offset>>
    BY <1>1, <2>2, PartitionTypes DEF Offsets
  <2> QED BY <1>2, <2>1, <2>2
<1>5. \A r : r[2] # 0 => ~InHandAt(r[1], r[2])'
  BY <1>2 DEF InHandAt, NoRecord
<1> QED BY <1>3, <1>4, <1>5 DEF SessionInv

(* Taking the next record.                                                 *)
LEMMA SessionTake ==
  ASSUME Base, SessionInv, NEW p \in Partition, Take(p)
  PROVE  SessionInv'
<1>1. Receive(p) /\ UNCHANGED <<from, dropped>> /\ cur = NoRecord
  BY IdleHands DEF Take, ReceiveInvalid, ReceiveTombstone, ReceiveUpdate, Route,
                   Receive
<1>2. /\ Next1(p) \in Offsets /\ Next1(p) = position[p] + 1
      /\ position'[p] = position[p] + 1
      /\ \A q \in Partition \ {p} : position'[q] = position[q]
  BY <1>1, ReceiveFacts DEF Next1
<1>3. PICK n \in Offsets :
        /\ n = position[p] + 1
        /\ \/ cur' = NoRecord /\ applied' = applied \cup {<<p, n>>}
           \/ cur' = [part |-> p, offset |-> n] /\ applied' = applied
  <2>1. ASSUME NEW n, n = Next1(p)
        PROVE  \/ cur' = NoRecord /\ applied' = applied \cup {<<p, n>>}
               \/ cur' = [part |-> p, offset |-> n] /\ applied' = applied
    BY <2>1 DEF Take, ReceiveInvalid, ReceiveTombstone, ReceiveUpdate, Route,
                Finish, Hold
  <2> QED BY <1>2, <2>1
<1>4. ASSUME NEW q \in Partition, NEW o \in (from[q] + 1)..position'[q]
      PROVE  <<q, o>> \in applied' \cup dropped \/ InHandAt(q, o)'
  <2>1. o \in (from[q] + 1)..position[q] \/ (q = p /\ o = n)
    BY <1>2, <1>3, PartitionTypes
  <2>2. CASE o \in (from[q] + 1)..position[q]
    <3>1. <<q, o>> \in applied \cup dropped \/ InHandAt(q, o)
      BY <2>2 DEF SessionInv
    <3>2. o # 0
      BY <2>2, PartitionTypes
    <3> QED BY <1>1, <1>3, <3>1, <3>2 DEF InHandAt, NoRecord
  <2> QED BY <1>3, <2>1, <2>2 DEF InHandAt
<1>5. ASSUME NEW r \in applied'
      PROVE  r[2] <= position'[r[1]] /\ ~InHandAt(r[1], r[2])'
  <2>1. CASE r \in applied
    <3>1. /\ r[1] \in Partition /\ r[2] \in Offsets /\ r[2] <= position[r[1]]
          /\ position[r[1]] \in Nat
      BY <2>1, AppliedType, PartitionTypes DEF SessionInv
    <3> QED BY <1>2, <1>3, <3>1 DEF InHandAt, NoRecord, Offsets
  <2>2. CASE r = <<p, n>> /\ cur' = NoRecord
    BY <1>2, <1>3, <2>2, PartitionTypes DEF InHandAt, NoRecord, Offsets
  <2> QED BY <1>3, <2>1, <2>2
<1> QED BY <1>1, <1>4, <1>5 DEF SessionInv

(* Every step preserves what is said of the session.                       *)
LEMMA SessionNext ==
  ASSUME Base, SessionInv, [Next]_vars PROVE SessionInv'
<1>1. ASSUME NEW p \in Partition, Take(p) PROVE SessionInv'
  BY <1>1, SessionTake
<1>2. CASE FetchSchemaOk \/ FetchSchemaErr \/ InsertOk
           \/ \E s \in Store : RemoveOk(s)
  <2>1. /\ cur # NoRecord /\ UNCHANGED <<from, position>>
        /\ dropped \subseteq dropped'
    BY <1>2 DEF FetchSchemaOk, FetchSchemaErr, InsertOk, RemoveOk, Route, Base,
                TaskInv, Busy
  <2>2. cur = [part |-> cur.part, offset |-> cur.offset]
    BY <2>1, InHandType
  <2>3. \/ Finish(cur.part, cur.offset)
        \/ /\ cur' = NoRecord /\ UNCHANGED applied
           /\ <<cur.part, cur.offset>> \in dropped'
        \/ UNCHANGED <<cur, applied>>
    BY <1>2, <2>2 DEF FetchSchemaOk, FetchSchemaErr, InsertOk, RemoveOk, Route,
                      Hold
  <2>4. CASE UNCHANGED <<cur, applied>>
    BY <2>1, <2>4 DEF SessionInv, InHandAt
  <2> QED BY <2>1, <2>3, <2>4, SessionFinish
<1>3. CASE Assign
  <2>1. applied' = {} /\ position' = from'
    BY <1>3 DEF Assign, Base, OffsetInv
  <2>2. \A q \in Partition : from'[q] \in Nat
    BY <1>3, StartFacts DEF Assign
  <2> QED BY <2>1, <2>2 DEF SessionInv
<1>4. CASE Unassign
  BY <1>4 DEF Unassign, SessionInv, Zero
<1>5. CASE UNCHANGED <<from, position, applied, dropped, cur>>
  BY <1>5 DEF SessionInv, InHandAt
<1>6. \/ Unassign \/ UNCHANGED <<from, position, applied, dropped, cur>>
      \/ Assign \/ \E p \in Partition : Take(p)
      \/ FetchSchemaOk \/ FetchSchemaErr \/ InsertOk
      \/ \E s \in Store : RemoveOk(s)
  BY DEF Next, Take, Produce, FetchBatch, AutoCommit, Revoke, InsertErr,
         RemoveErr, StreamError, Stop, EmitStats, Stats, Boot, Crash, vars
<1> QED BY <1>1, <1>2, <1>3, <1>4, <1>5, <1>6

----------------------------------------------------------------------------
(* What the log says of a cell.                                            *)

(* The topic only grows.                                                   *)
LEMMA LogGrows ==
  ASSUME Base, [Next]_vars, NEW q \in Partition
  PROVE  /\ Len(log[q]) \in Nat /\ Len(log'[q]) \in Nat
         /\ Len(log[q]) <= Len(log'[q])
         /\ \A o \in 1..Len(log[q]) : log'[q][o] = log[q][o]
<1>1. CASE UNCHANGED log
  BY <1>1, PartitionTypes
<1>2. ASSUME NEW p \in Partition, NEW m \in Traffic, Produce(p, m)
      PROVE  /\ Len(log[q]) \in Nat /\ Len(log'[q]) \in Nat
             /\ Len(log[q]) <= Len(log'[q])
             /\ \A o \in 1..Len(log[q]) : log'[q][o] = log[q][o]
  BY <1>2, ProduceFacts
<1>3. \/ UNCHANGED log
      \/ \E p \in Partition, m \in Traffic : Produce(p, m)
  BY DEF Next, FetchBatch, ReceiveInvalid, ReceiveTombstone, ReceiveUpdate,
         Receive, AutoCommit, Assign, Revoke, FetchSchemaOk, FetchSchemaErr,
         InsertOk, InsertErr, RemoveOk, RemoveErr, StreamError, Stop,
         EmitStats, Stats, Boot, Crash, vars
<1> QED BY <1>1, <1>2, <1>3

(* So the records for a cell, and their effect, stay what they are.        *)
LEMMA TouchingGrows ==
  ASSUME Base, [Next]_vars, NEW s \in Store, NEW k \in Key
  PROVE  /\ Touching(s, k) \subseteq Touching(s, k)'
         /\ \A o \in Touching(s, k)' :
              o <= Len(log[PartitionOf[k]]) => o \in Touching(s, k)
         /\ \A o \in Touching(s, k) :
              /\ o \in 1..Len(log[PartitionOf[k]])
              /\ Effect(PartitionOf[k], o)' = Effect(PartitionOf[k], o)
<1> DEFINE p == PartitionOf[k]
<1>1. /\ p \in Partition /\ Len(log[p]) \in Nat /\ Len(log'[p]) \in Nat
      /\ Len(log[p]) <= Len(log'[p])
      /\ \A o \in 1..Len(log[p]) : log'[p][o] = log[p][o]
  BY LogGrows, DeploymentAssumption
<1>2. \A o \in 1..Len(log[p]) :
        /\ o \in 1..Len(log'[p])
        /\ Touches(log[p][o], s, k) <=> Touches(log'[p][o], s, k)
        /\ Effect(p, o)' = Effect(p, o)
  BY <1>1 DEF Effect
<1>3. Touching(s, k)' = {o \in 1..Len(log'[p]) : Touches(log'[p][o], s, k)}
  BY DEF Touching, Touches
<1> QED BY <1>1, <1>2, <1>3 DEF Touching

(* The topic keeps its keys on their partitions.                           *)
LEMMA PartitionNext ==
  ASSUME Base, PartitionInv, [Next]_vars PROVE PartitionInv'
<1>1. CASE UNCHANGED log
  BY <1>1 DEF PartitionInv
<1>2. ASSUME NEW p \in Partition, NEW m \in Traffic, Produce(p, m)
      PROVE  PartitionInv'
  <2>1. ASSUME NEW q \in Partition, NEW o \in 1..Len(log'[q]), HasKey(log'[q][o])
        PROVE  PartitionOf[log'[q][o].key] = q
    <3>1. CASE o \in 1..Len(log[q])
      BY <1>2, <2>1, <3>1, ProduceFacts DEF PartitionInv
    <3>2. CASE q = p /\ o = Len(log[p]) + 1
      BY <1>2, <2>1, <3>2, ProduceFacts DEF Produce, HasKey
    <3> QED BY <1>2, <2>1, <3>1, <3>2, ProduceFacts
  <2> QED BY <2>1 DEF PartitionInv, HasKey
<1>3. \/ UNCHANGED log
      \/ \E p \in Partition, m \in Traffic : Produce(p, m)
  BY DEF Next, FetchBatch, ReceiveInvalid, ReceiveTombstone, ReceiveUpdate,
         Receive, AutoCommit, Assign, Revoke, FetchSchemaOk, FetchSchemaErr,
         InsertOk, InsertErr, RemoveOk, RemoveErr, StreamError, Stop,
         EmitStats, Stats, Boot, Crash, vars
<1> QED BY <1>1, <1>2, <1>3

(* The record being written is for the partition of its key.               *)
LEMMA InHandKey ==
  ASSUME Base, PartitionInv, phase \in {"inserting", "removing"}
  PROVE  /\ cur # NoRecord
         /\ InHand.key \in Key /\ PartitionOf[InHand.key] = cur.part
         /\ \A s \in Store, k \in Key :
              cur.offset \in Touching(s, k) /\ cur.part = PartitionOf[k] =>
                k = InHand.key
<1>1. cur # NoRecord /\ HasKey(InHand) /\ InHand.kind \in {"update", "tombstone"}
  BY DEF Base, TaskInv, Busy
<1>2. cur.part \in Partition /\ cur.offset \in 1..Len(log[cur.part]) /\ InHand \in Message
  BY <1>1, InHandType
<1>3. InHand.key \in Key
  BY <1>1, <1>2 DEF HasKey, Message
<1>4. PartitionOf[InHand.key] = cur.part
  BY <1>1, <1>2 DEF PartitionInv, InHand
<1> QED BY <1>1, <1>3, <1>4 DEF Touching, Touches, InHand

(* A cell changes by being emptied, or to the record being inserted.       *)
LEMMA CellStep ==
  ASSUME Base, PartitionInv, [Next]_vars, NEW s \in Store, NEW k \in Key
  PROVE  \/ stores'[s][k] = stores[s][k] \/ stores'[s][k] = Absent
         \/ /\ phase = "inserting" /\ s = StoreOf[InHand.schema]
            /\ k = InHand.key /\ stores'[s][k] = cur.offset
<1> DEFINE Same(t) == t[s][k] = stores[s][k]
           Gone(t) == t[s][k] = Absent
           Into(t) == /\ phase = "inserting" /\ s = StoreOf[InHand.schema]
                      /\ k = InHand.key /\ t[s][k] = cur.offset
<1>1. stores \in [Store -> [Key -> Nat]]
  BY DEF Base, TypeOK, StoreType
<1>2. phase = "inserting" => Same(Inserted) \/ Into(Inserted)
  BY <1>1 DEF Inserted, Write
<1>3. \A s1 \in Store : Same(Removed(s1)) \/ Gone(Removed(s1))
  BY <1>1 DEF Removed, Write
<1>4. CASE InsertOk
  BY <1>2, <1>4 DEF InsertOk
<1>5. CASE InsertErr
  BY <1>2, <1>5 DEF InsertErr, Stop
<1>6. ASSUME NEW s1 \in Store, RemoveOk(s1) \/ RemoveErr(s1)
      PROVE  Same(stores') \/ Gone(stores')
  BY <1>3, <1>6 DEF RemoveOk, RemoveErr
<1>7. CASE Crash
  <2>1. PICK t : /\ \/ t = stores \/ (phase = "inserting" /\ t = Inserted)
                    \/ \E s1 \in todo : t = Removed(s1)
                 /\ stores' = [s1 \in Store |->
                      IF s1 \in InMemory THEN [k1 \in Key |-> Absent] ELSE t[s1]]
    BY <1>7 DEF Crash
  <2>2. Same(t) \/ Gone(t) \/ Into(t)
    BY <1>2, <1>3, <2>1 DEF Base, TypeOK, TaskType
  <2> QED BY <1>7, <2>1, <2>2
<1>8. \/ UNCHANGED stores \/ InsertOk \/ InsertErr \/ Crash
      \/ \E s1 \in Store : RemoveOk(s1) \/ RemoveErr(s1)
  BY DEF Next, Produce, FetchBatch, ReceiveInvalid, ReceiveTombstone,
         ReceiveUpdate, Receive, AutoCommit, Assign, Revoke, FetchSchemaOk,
         FetchSchemaErr, StreamError, EmitStats, Stats, Boot, vars
<1> QED BY <1>4, <1>5, <1>6, <1>7, <1>8

(* A cell that is not empty goes on holding an update that is for it.      *)
LEMMA CellNext ==
  ASSUME Base, PartitionInv, CellInv, [Next]_vars PROVE CellInv'
<1> SUFFICES ASSUME NEW s \in Store, NEW k \in Key, stores'[s][k] # Absent
             PROVE  /\ stores'[s][k] \in Touching(s, k)'
                    /\ log'[PartitionOf[k]][stores'[s][k]].kind = "update"
  BY DEF CellInv
<1>1. PICK o \in Touching(s, k) :
        stores'[s][k] = o /\ log[PartitionOf[k]][o].kind = "update"
  <2>1. CASE stores'[s][k] = stores[s][k]
    BY <2>1 DEF CellInv
  <2>2. CASE /\ phase = "inserting" /\ s = StoreOf[InHand.schema]
             /\ k = InHand.key /\ stores'[s][k] = cur.offset
    <3>1. /\ InHand.kind = "update" /\ cur.part = PartitionOf[k]
          /\ cur.offset \in 1..Len(log[cur.part])
      BY <2>2, InHandKey, InHandType DEF Base, TaskInv
    <3> QED BY <2>2, <3>1 DEF Touching, Touches, InHand
  <2> QED BY <2>1, <2>2, CellStep
<1>2. o \in Touching(s, k)' /\ o \in 1..Len(log[PartitionOf[k]])
  BY <1>1, TouchingGrows
<1>3. log'[PartitionOf[k]][o] = log[PartitionOf[k]][o]
  BY <1>2, LogGrows, DeploymentAssumption
<1> QED BY <1>1, <1>2, <1>3

(* A value in memory keeps its schema at hand.                             *)
LEMMA CachedNext ==
  ASSUME Base, PartitionInv, CellInv, InMemorySchemasCached, [Next]_vars
  PROVE  InMemorySchemasCached'
<1> SUFFICES ASSUME NEW s \in InMemory, NEW k \in Key, stores'[s][k] # Absent
             PROVE  log'[PartitionOf[k]][stores'[s][k]].schema \in schema_cache'
  BY DEF InMemorySchemasCached
<1>1. s \in Store
  BY DeploymentAssumption
<1>2. ~Crash
  BY <1>1 DEF Crash
<1>3. schema_cache \subseteq schema_cache' \/ (Boot /\ schema_cache = {})
  BY <1>2 DEF Next, Produce, FetchBatch, ReceiveInvalid, ReceiveTombstone,
     ReceiveUpdate, Receive, AutoCommit, Assign, Revoke, FetchSchemaOk,
     FetchSchemaErr, InsertOk, InsertErr, RemoveOk, RemoveErr, StreamError,
     Stop, EmitStats, Stats, Boot, vars, Base, TaskInv
<1>4. PICK o \in Touching(s, k) :
        stores'[s][k] = o /\ log[PartitionOf[k]][o].schema \in schema_cache
  <2>1. CASE stores'[s][k] = stores[s][k]
    BY <1>1, <2>1 DEF CellInv, InMemorySchemasCached
  <2>2. CASE /\ phase = "inserting" /\ s = StoreOf[InHand.schema]
             /\ k = InHand.key /\ stores'[s][k] = cur.offset
    <3>1. /\ InHand.kind = "update" /\ cur.part = PartitionOf[k]
          /\ cur.offset \in 1..Len(log[cur.part])
          /\ InHand.schema \in schema_cache
      BY <2>2, InHandKey, InHandType DEF Base, TaskInv
    <3> QED BY <2>2, <3>1 DEF Touching, Touches, InHand
  <2> QED BY <1>1, <2>1, <2>2, CellStep
<1>5. log'[PartitionOf[k]][o] = log[PartitionOf[k]][o]
  BY <1>1, <1>4, TouchingGrows, LogGrows, DeploymentAssumption
<1> QED BY <1>3, <1>4, <1>5

----------------------------------------------------------------------------
(* The view.                                                               *)

(* Nothing that is settled lies beyond what the client has read.           *)
LEMMA SettledRead ==
  ASSUME Base, SessionInv, NEW s \in Store, NEW k \in Key, NEW o \in Settled(s, k)
  PROVE  o \in Touching(s, k) /\ o \in Nat /\ o <= position[PartitionOf[k]]
<1>1. PartitionOf[k] \in Partition
  BY DeploymentAssumption
<1>2. o \in Touching(s, k) /\ o \in Nat
  BY <1>1, PartitionTypes DEF Settled, Touching
<1>3. CASE <<PartitionOf[k], o>> \in applied
  BY <1>2, <1>3 DEF SessionInv
<1>4. CASE phase = "removing" /\ InHandAt(PartitionOf[k], o)
  BY <1>1, <1>2, <1>4, InHandType, PartitionTypes DEF InHandAt, Base, TaskInv, Busy
<1> QED BY <1>2, <1>3, <1>4 DEF Settled

(* A cell that is left alone, and settles nothing, still decides.          *)
LEMMA DecidesKept ==
  ASSUME Base, [Next]_vars, NEW s \in Store, NEW k \in Key,
         Decides(Settled(s, k), s, k), stores'[s][k] = stores[s][k],
         Settled(s, k)' = Settled(s, k)
  PROVE  Decides(Settled(s, k), s, k)'
BY TouchingGrows DEF Decides, Settled

(* A record that finishes without touching the cell settles nothing.       *)
LEMMA SettledKept ==
  ASSUME Base, SessionInv, NEW p \in Partition, NEW n \in 1..Len(log[p]),
         NEW s \in Store, NEW k \in Key, UNCHANGED <<log>>, phase # "removing",
         \/ /\ Finish(p, n)
            /\ ~Touches(log[p][n], s, k)
         \/ Hold("fetching", p, n) \/ Hold("inserting", p, n)
         \/ Hold("removing", p, n) /\ todo' = Store
         \/ phase' = "idle" /\ cur' = NoRecord /\ UNCHANGED applied
  PROVE  Settled(s, k)' = Settled(s, k)
<1>1. Touching(s, k)' = Touching(s, k)
  BY DEF Touching, Touches
<1>2. Settled(s, k) = {o \in Touching(s, k) : <<PartitionOf[k], o>> \in applied}
  BY DEF Settled
<1>3. Settled(s, k)' = {o \in Touching(s, k) : <<PartitionOf[k], o>> \in applied'}
  BY <1>1 DEF Settled, Finish, Hold
<1>4. CASE Finish(p, n) /\ ~Touches(log[p][n], s, k)
  <2>1. applied' = applied \cup {<<p, n>>}
    BY <1>4 DEF Finish
  <2>2. p = PartitionOf[k] => n \notin Touching(s, k)
    BY <1>4 DEF Touching
  <2> QED BY <1>2, <1>3, <2>1, <2>2
<1>5. CASE UNCHANGED applied
  BY <1>2, <1>3, <1>5
<1> QED BY <1>4, <1>5 DEF Hold

(* What the stretch of the handler before a write does to the view.        *)
LEMMA RouteSettles ==
  ASSUME Base, SessionInv, NEW p \in Partition, NEW n \in 1..Len(log[p]),
         NEW s \in Store, NEW k \in Key, UNCHANGED <<log>>, phase # "removing",
         log[p][n].kind = "update", Route(log[p][n], p, n)
  PROVE  Settled(s, k)' = Settled(s, k)
<1>1. \/ Finish(p, n) /\ ~Touches(log[p][n], s, k)
      \/ Hold("inserting", p, n)
  BY DeploymentAssumption DEF Route, Touches
<1> QED BY <1>1, SettledKept

(* Taking a record settles nothing.                                        *)
LEMMA TakeSettles ==
  ASSUME Base, SessionInv, NEW p \in Partition, Take(p),
         NEW s \in Store, NEW k \in Key
  PROVE  Settled(s, k)' = Settled(s, k)
<1>1. Receive(p) /\ UNCHANGED <<log>> /\ phase = "idle"
  BY DEF Take, ReceiveInvalid, ReceiveTombstone, ReceiveUpdate, Receive
<1>2. PICK n \in 1..Len(log[p]) : n = Next1(p) /\ Incoming(p) = log[p][n]
  BY <1>1, ReceiveFacts DEF Incoming
<1>3. CASE ReceiveInvalid(p)
  <2>1. Finish(p, n) /\ ~Touches(log[p][n], s, k)
    BY <1>2, <1>3 DEF ReceiveInvalid, Touches
  <2> QED BY <1>1, <2>1, SettledKept
<1>4. CASE ReceiveTombstone(p)
  <2>1. \/ Finish(p, n) /\ ~Touches(log[p][n], s, k)
        \/ Hold("removing", p, n) /\ todo' = Store
    BY <1>2, <1>4, DeploymentAssumption DEF ReceiveTombstone, Touches
  <2> QED BY <1>1, <2>1, SettledKept
<1>5. CASE ReceiveUpdate(p)
  <2>1. /\ log[p][n].kind = "update"
        /\ Hold("fetching", p, n) \/ Route(log[p][n], p, n)
    BY <1>2, <1>5 DEF ReceiveUpdate
  <2> QED BY <1>1, <2>1, SettledKept, RouteSettles
<1> QED BY <1>3, <1>4, <1>5 DEF Take

(* An insert settles its record at one cell, the newest of the session:    *)
(* this cell is right again whatever it held ...                           *)
LEMMA InsertWrites ==
  ASSUME Base, PartitionInv, SessionInv, InsertOk,
         NEW s \in Store, NEW k \in Key,
         s = StoreOf[InHand.schema], k = InHand.key
  PROVE  Decides(Settled(s, k), s, k)'
<1> DEFINE p == cur.part
           n == cur.offset
<1>1. /\ phase = "inserting" /\ InHand.kind = "update" /\ InHand = log[p][n]
      /\ UNCHANGED <<log>> /\ Finish(p, n) /\ stores' = Inserted
      /\ stores \in [Store -> [Key -> Nat]]
  BY DEF InsertOk, InHand, Base, TaskInv, TypeOK, StoreType
<1>2. /\ p \in Partition /\ n \in 1..Len(log[p]) /\ n = position[p]
      /\ InHand.key \in Key /\ PartitionOf[InHand.key] = p /\ position[p] \in Nat
  BY <1>1, InHandKey, InHandType, PartitionTypes
<1>3. stores'[s][k] = n
  BY <1>1 DEF Inserted, Write
<1>4. n \in Touching(s, k) /\ Touching(s, k)' = Touching(s, k)
  BY <1>1, <1>2 DEF Touching, Touches
<1>5. Settled(s, k)' \subseteq Settled(s, k) \cup {n} /\ n \in Settled(s, k)'
  BY <1>1, <1>2, <1>4 DEF Settled, Finish
<1>6. ASSUME NEW o \in Settled(s, k)' PROVE o \in Nat /\ o <= n
  <2>1. CASE o \in Settled(s, k)
    BY <1>2, <2>1, SettledRead
  <2>2. CASE o = n
    BY <1>2, <2>2
  <2> QED BY <1>5, <2>1, <2>2
<1>7. log'[p][n].kind = "update" /\ PartitionOf[k] = p
  BY <1>1, <1>2
<1>8. ASSUME NEW o \in Settled(s, k)', \A o2 \in Settled(s, k)' : o2 <= o
      PROVE  stores'[s][k] = Effect(PartitionOf[k], o)'
  <2>1. o = n
    BY <1>2, <1>5, <1>6, <1>8
  <2> QED BY <1>3, <1>7, <2>1 DEF Effect
<1> QED BY <1>8 DEF Decides

(* ... and the others are left as they were.                               *)
LEMMA InsertDecides ==
  ASSUME Base, PartitionInv, SessionInv, InsertOk,
         NEW s \in Store, NEW k \in Key, Decides(Settled(s, k), s, k)
  PROVE  Decides(Settled(s, k), s, k)'
<1> DEFINE p == cur.part
           n == cur.offset
<1>1. /\ phase = "inserting" /\ InHand.kind = "update" /\ InHand = log[p][n]
      /\ UNCHANGED <<log>> /\ Finish(p, n) /\ stores' = Inserted /\ Next
      /\ stores \in [Store -> [Key -> Nat]]
  BY DEF InsertOk, InHand, Base, TaskInv, Next, TypeOK, StoreType
<1>2. /\ p \in Partition /\ n \in 1..Len(log[p]) /\ n = position[p]
      /\ InHand.key \in Key /\ PartitionOf[InHand.key] = p /\ position[p] \in Nat
  BY <1>1, InHandKey, InHandType, PartitionTypes
<1>3. CASE s = StoreOf[InHand.schema] /\ k = InHand.key
  BY <1>3, InsertWrites
<1>4. CASE ~(s = StoreOf[InHand.schema] /\ k = InHand.key)
  <2>1. stores'[s][k] = stores[s][k]
    BY <1>1, <1>4 DEF Inserted, Write
  <2>2. Finish(p, n) /\ ~Touches(log[p][n], s, k)
    BY <1>1, <1>4 DEF Touches
  <2>3. Settled(s, k)' = Settled(s, k)
    BY <1>1, <1>2, <2>2, SettledKept
  <2> QED BY <1>1, <2>1, <2>3, DecidesKept
<1> QED BY <1>3, <1>4

(* A removal settles the tombstone at one store: what is settled at a cell *)
(* before the step, and after it.                                          *)
LEMMA RemoveSettles ==
  ASSUME Base, PartitionInv, SessionInv, NEW s0 \in Store, RemoveOk(s0),
         NEW s \in Store, NEW k \in Key
  PROVE  /\ Settled(s, k) \subseteq Touching(s, k)
         /\ Settled(s, k)' \subseteq Touching(s, k)
         /\ \A o \in Touching(s, k) :
              /\ o \in Settled(s, k)' <=>
                   \/ <<PartitionOf[k], o>> \in applied
                   \/ cur.part = PartitionOf[k] /\ o = cur.offset
                      /\ s \notin todo \ {s0}
              /\ o \in Settled(s, k) <=>
                   \/ <<PartitionOf[k], o>> \in applied
                   \/ cur.part = PartitionOf[k] /\ o = cur.offset
                      /\ s \notin todo
<1> DEFINE p == cur.part
           n == cur.offset
<1>1. /\ phase = "removing" /\ InHand.kind = "tombstone" /\ InHand = log[p][n]
      /\ UNCHANGED <<log>> /\ stores' = Removed(s0) /\ s0 \in todo
      /\ todo' = todo \ {s0} /\ Next
      /\ stores \in [Store -> [Key -> Nat]]
  BY DEF RemoveOk, InHand, Base, TaskInv, Next, TypeOK, StoreType
<1>2. /\ p \in Partition /\ n \in 1..Len(log[p]) /\ n = position[p]
      /\ InHand.key \in Key /\ PartitionOf[InHand.key] = p /\ position[p] \in Nat
      /\ cur = [part |-> p, offset |-> n]
  BY <1>1, InHandKey, InHandType, PartitionTypes
<1>3. Touching(s, k)' = Touching(s, k)
  BY <1>1 DEF Touching, Touches
<1>4. \A o : InHandAt(PartitionOf[k], o) <=> (p = PartitionOf[k] /\ o = n)
  BY <1>2 DEF InHandAt
<1>5. \A o \in Touching(s, k) :
        o \in Settled(s, k)' <=>
          \/ <<PartitionOf[k], o>> \in applied
          \/ p = PartitionOf[k] /\ o = n /\ s \notin todo \ {s0}
  <2>1. CASE todo' = {}
    <3>1. phase' = "idle" /\ applied' = applied \cup {<<p, n>>}
      BY <2>1 DEF RemoveOk, Finish
    <3> QED BY <1>1, <1>3, <2>1, <3>1 DEF Settled
  <2>2. CASE todo' # {}
    <3>1. UNCHANGED <<phase, cur, applied>>
      BY <2>2 DEF RemoveOk
    <3>2. \A o : InHandAt(PartitionOf[k], o)' <=> InHandAt(PartitionOf[k], o)
      BY <3>1 DEF InHandAt
    <3> QED BY <1>1, <1>3, <1>4, <3>1, <3>2 DEF Settled
  <2> QED BY <2>1, <2>2
<1>6. \A o \in Touching(s, k) :
        o \in Settled(s, k) <=>
          \/ <<PartitionOf[k], o>> \in applied
          \/ p = PartitionOf[k] /\ o = n /\ s \notin todo
  BY <1>1, <1>4 DEF Settled
<1>7. Settled(s, k) \subseteq Touching(s, k) /\ Settled(s, k)' \subseteq Touching(s, k)
  BY <1>3 DEF Settled
<1> QED BY <1>5, <1>6, <1>7

(* The cell it empties is right again whatever it held ...                 *)
LEMMA RemoveWrites ==
  ASSUME Base, PartitionInv, SessionInv, NEW s \in Store, RemoveOk(s),
         NEW k \in Key, k = InHand.key
  PROVE  Decides(Settled(s, k), s, k)'
<1> DEFINE p == cur.part
           n == cur.offset
<1>1. /\ phase = "removing" /\ InHand.kind = "tombstone" /\ InHand = log[p][n]
      /\ UNCHANGED <<log>> /\ stores' = Removed(s)
      /\ stores \in [Store -> [Key -> Nat]]
  BY DEF RemoveOk, InHand, Base, TaskInv, TypeOK, StoreType
<1>2. /\ p \in Partition /\ n \in 1..Len(log[p]) /\ n = position[p]
      /\ InHand.key \in Key /\ PartitionOf[InHand.key] = p /\ position[p] \in Nat
  BY <1>1, InHandKey, InHandType, PartitionTypes
<1>3. stores'[s][k] = Absent
  BY <1>1 DEF Removed, Write
<1>4. n \in Touching(s, k)
  BY <1>1, <1>2 DEF Touching, Touches
<1>5. Settled(s, k)' \subseteq Settled(s, k) \cup {n} /\ n \in Settled(s, k)'
  BY <1>2, <1>4, RemoveSettles
<1>6. ASSUME NEW o \in Settled(s, k)' PROVE o \in Nat /\ o <= n
  <2>1. CASE o \in Settled(s, k)
    BY <1>2, <2>1, SettledRead
  <2>2. CASE o = n
    BY <1>2, <2>2
  <2> QED BY <1>5, <2>1, <2>2
<1>7. log'[p][n].kind = "tombstone" /\ PartitionOf[k] = p
  BY <1>1, <1>2
<1>8. ASSUME NEW o \in Settled(s, k)', \A o2 \in Settled(s, k)' : o2 <= o
      PROVE  stores'[s][k] = Effect(PartitionOf[k], o)'
  <2>1. o = n
    BY <1>2, <1>5, <1>6, <1>8
  <2> QED BY <1>3, <1>7, <2>1 DEF Effect
<1> QED BY <1>8 DEF Decides

(* ... and the others are left as they were.                               *)
LEMMA RemoveDecides ==
  ASSUME Base, PartitionInv, SessionInv, NEW s0 \in Store, RemoveOk(s0),
         NEW s \in Store, NEW k \in Key, Decides(Settled(s, k), s, k)
  PROVE  Decides(Settled(s, k), s, k)'
<1>1. /\ phase = "removing" /\ UNCHANGED <<log>> /\ stores' = Removed(s0) /\ Next
      /\ stores \in [Store -> [Key -> Nat]]
  BY DEF RemoveOk, Base, Next, TypeOK, StoreType
<1>2. CASE s = s0 /\ k = InHand.key
  BY <1>2, RemoveWrites
<1>3. CASE ~(s = s0 /\ k = InHand.key)
  <2>1. stores'[s][k] = stores[s][k]
    BY <1>1, <1>3 DEF Removed, Write
  <2>2. s = s0 => (cur.part = PartitionOf[k] => cur.offset \notin Touching(s, k))
    BY <1>1, <1>3, InHandKey
  <2>3. \A o \in Touching(s, k) : o \in Settled(s, k)' <=> o \in Settled(s, k)
    BY <2>2, RemoveSettles
  <2>4. Settled(s, k) \subseteq Touching(s, k) /\ Settled(s, k)' \subseteq Touching(s, k)
    BY RemoveSettles
  <2>5. Settled(s, k)' = Settled(s, k)
    BY <2>3, <2>4
  <2> QED BY <1>1, <2>1, <2>5, DecidesKept
<1> QED BY <1>2, <1>3

(* A record published beyond what was read settles nothing.                *)
LEMMA ProduceDecides ==
  ASSUME Base, SessionInv, NEW p \in Partition, NEW m \in Traffic, Produce(p, m),
         NEW s \in Store, NEW k \in Key, Decides(Settled(s, k), s, k)
  PROVE  Decides(Settled(s, k), s, k)'
<1> DEFINE q == PartitionOf[k]
<1>1. /\ Next /\ UNCHANGED <<stores, phase, cur, todo, applied, position>>
      /\ q \in Partition
  BY DeploymentAssumption DEF Next, Produce
<1>2. ASSUME NEW o \in Settled(s, k)' PROVE o \in Settled(s, k)
  <2>1. /\ o \in Touching(s, k)'
        /\ <<q, o>> \in applied \/ (phase = "removing" /\ InHandAt(q, o) /\ s \notin todo)
    BY <1>1, <1>2 DEF Settled, InHandAt
  <2>2. o <= position[q]
    <3>1. CASE <<q, o>> \in applied
      BY <3>1 DEF SessionInv
    <3>2. CASE InHandAt(q, o) /\ phase = "removing"
      BY <1>1, <3>2, InHandType, PartitionTypes
      DEF InHandAt, Base, TaskInv, Busy
    <3> QED BY <2>1, <3>1, <3>2
  <2>3. position[q] <= Len(log[q]) /\ position[q] \in Nat /\ Len(log[q]) \in Nat
    BY <1>1, PartitionTypes DEF InOrder
  <2>4. o \in Nat
    BY <1>1, <2>1, LogGrows DEF Touching
  <2>5. o \in Touching(s, k)
    BY <1>1, <2>1, <2>2, <2>3, <2>4, TouchingGrows
  <2> QED BY <2>1, <2>5 DEF Settled
<1>3. ASSUME NEW o \in Settled(s, k) PROVE o \in Settled(s, k)'
  BY <1>1, <1>3, TouchingGrows DEF Settled, InHandAt
<1>4. Settled(s, k)' = Settled(s, k)
  BY <1>2, <1>3
<1> QED BY <1>1, <1>4, DecidesKept

(* Every step preserves the view of a cell that is right where a session   *)
(* has begun.                                                              *)
LEMMA CellViewNext ==
  ASSUME Base, PartitionInv, SessionInv, [Next]_vars, assigned',
         NEW s \in Store, NEW k \in Key,
         assigned => Decides(Settled(s, k), s, k)
  PROVE  Decides(Settled(s, k), s, k)'
<1>1. ASSUME assigned PROVE Decides(Settled(s, k), s, k)
  BY <1>1
<1>2. CASE UNCHANGED <<log, stores, phase, cur, todo, applied, assigned>>
  <2>1. Settled(s, k)' = Settled(s, k)
    BY <1>2 DEF Settled, Touching, Touches, InHandAt
  <2> QED BY <1>1, <1>2, <2>1, DecidesKept
<1>3. ASSUME NEW p \in Partition, NEW m \in Traffic, Produce(p, m)
      PROVE  Decides(Settled(s, k), s, k)'
  <2>1. CASE assigned
    BY <1>1, <1>3, <2>1, ProduceDecides
  <2>2. CASE ~assigned
    BY <1>3, <2>2 DEF Produce
  <2> QED BY <2>1, <2>2
<1>4. CASE Assign
  <2>1. applied' = {} /\ phase' = "idle"
    BY <1>4 DEF Assign, Base, OffsetInv
  <2>2. Settled(s, k)' = {}
    BY <2>1 DEF Settled
  <2> QED BY <2>2 DEF Decides
<1>5. ASSUME NEW p \in Partition, Take(p) PROVE Decides(Settled(s, k), s, k)'
  <2>1. assigned /\ UNCHANGED stores
    BY <1>5 DEF Take, ReceiveInvalid, ReceiveTombstone, ReceiveUpdate, Receive
  <2> QED BY <1>1, <1>5, <2>1, TakeSettles, DecidesKept
<1>6. CASE FetchSchemaOk \/ FetchSchemaErr
  <2>1. /\ phase = "fetching" /\ cur # NoRecord /\ InHand.kind = "update"
        /\ UNCHANGED <<log>> /\ UNCHANGED stores
    BY <1>6 DEF FetchSchemaOk, FetchSchemaErr, Base, TaskInv, Busy
  <2>2. /\ cur.part \in Partition /\ cur.offset \in 1..Len(log[cur.part])
        /\ InHand = log[cur.part][cur.offset] /\ assigned
    BY <2>1, InHandType DEF InHand
  <2>3. \/ Route(log[cur.part][cur.offset], cur.part, cur.offset)
        \/ phase' = "idle" /\ cur' = NoRecord /\ UNCHANGED applied
    BY <1>6, <2>2 DEF FetchSchemaOk, FetchSchemaErr
  <2>4. Settled(s, k)' = Settled(s, k)
    BY <2>1, <2>2, <2>3, RouteSettles, SettledKept
  <2> QED BY <1>1, <2>1, <2>2, <2>4, DecidesKept
<1>7. CASE InsertOk
  <2>1. assigned
    BY <1>7, InHandType DEF InsertOk, Base, TaskInv, Busy
  <2> QED BY <1>1, <1>7, <2>1, InsertDecides
<1>8. ASSUME NEW s0 \in Store, RemoveOk(s0) PROVE Decides(Settled(s, k), s, k)'
  <2>1. assigned
    BY <1>8, InHandType DEF RemoveOk, Base, TaskInv, Busy
  <2> QED BY <1>1, <1>8, <2>1, RemoveDecides
<1>9. CASE Unassign
  BY <1>9 DEF Unassign
<1>10. CASE Boot
  BY <1>10 DEF Boot, Base, OffsetInv, Running, Busy
<1> QED
  BY <1>2, <1>3, <1>4, <1>5, <1>6, <1>7, <1>8, <1>9, <1>10
  DEF Next, Take, FetchBatch, AutoCommit, Revoke, InsertErr, RemoveErr,
      StreamError, Stop, EmitStats, Stats, Crash, vars

(* Every step preserves the view.                                          *)
LEMMA ViewNext ==
  ASSUME Base, PartitionInv, SessionInv, ViewFollowsLog, [Next]_vars
  PROVE  ViewFollowsLog'
BY CellViewNext DEF ViewFollowsLog

----------------------------------------------------------------------------
(* The theorems.                                                           *)

ViewInv ==
  /\ Base /\ PartitionInv /\ SessionInv
  /\ CellInv /\ InMemorySchemasCached /\ ViewFollowsLog

(* It holds at the start, where nothing has been published.                *)
LEMMA ViewInvInit == Init => ViewInv
<1> SUFFICES ASSUME Init PROVE ViewInv
  OBVIOUS
<1>1. Base
  BY BaseInit
<1>2. PartitionInv /\ SessionInv
  BY DEF Init, PartitionInv, SessionInv, Zero
<1>3. \A s \in Store, k \in Key : stores[s][k] = Absent
  BY DEF Init
<1>4. CellInv /\ InMemorySchemasCached
  BY <1>3, DeploymentAssumption DEF CellInv, InMemorySchemasCached
<1>5. ViewFollowsLog
  BY DEF Init, ViewFollowsLog
<1> QED BY <1>1, <1>2, <1>4, <1>5 DEF ViewInv

(* Every step preserves it.                                                *)
LEMMA ViewInvNext == ViewInv /\ [Next]_vars => ViewInv'
BY BaseNext, PartitionNext, SessionNext, CellNext, CachedNext, ViewNext
DEF ViewInv

(* While partitions are assigned every cell holds what the latest record   *)
(* of the session that concerns it says, between any two awaits of the     *)
(* handler (consumer.rs 147-244).                                          *)
THEOREM ViewFollows == Spec => []ViewFollowsLog
<1>1. ViewInv => ViewFollowsLog
  BY DEF ViewInv
<1> QED BY <1>1, ViewInvInit, ViewInvNext, PTL DEF Spec

(* A value an in-memory store serves has its schema in schema_cache        *)
(* (webserver/mod.rs 269-274).                                             *)
THEOREM SchemasCached == Spec => []InMemorySchemasCached
<1>1. ViewInv => InMemorySchemasCached
  BY DEF ViewInv
<1> QED BY <1>1, ViewInvInit, ViewInvNext, PTL DEF Spec

(* A session that began at the start of the topic, dropped nothing and has *)
(* read to the end has applied every record.                               *)
LEMMA ReplayComplete == ViewInv => ReplayRebuildsView
<1> SUFFICES ASSUME ViewInv, ForceResetEarliest, assigned, phase = "idle",
                    dropped = {}, \A p \in Partition : position[p] = Len(log[p]),
                    NEW s \in Store, NEW k \in Key
             PROVE  /\ Touching(s, k) = {} => stores[s][k] = Absent
                    /\ Decides(Touching(s, k), s, k)
  BY DEF ReplayRebuildsView
<1>1. Base /\ SessionInv /\ CellInv /\ ViewFollowsLog /\ cur = NoRecord
  BY IdleHands DEF ViewInv
<1>2. ASSUME NEW o \in Touching(s, k) PROVE o \in Settled(s, k)
  <2>1. /\ PartitionOf[k] \in Partition /\ o \in 1..position[PartitionOf[k]]
        /\ from[PartitionOf[k]] = 0
    BY <1>1, DeploymentAssumption, PartitionTypes DEF Touching, InOrder
  <2>2. <<PartitionOf[k], o>> \in applied \/ InHandAt(PartitionOf[k], o)
    BY <1>1, <2>1 DEF SessionInv
  <2>3. ~InHandAt(PartitionOf[k], o)
    BY <1>1, <2>1 DEF InHandAt, NoRecord
  <2> QED BY <2>2, <2>3 DEF Settled
<1>3. Touching(s, k) = Settled(s, k)
  BY <1>2 DEF Settled
<1>4. Decides(Touching(s, k), s, k)
  BY <1>1, <1>3 DEF ViewFollowsLog
<1> QED BY <1>1, <1>4 DEF CellInv

(* With force_reset_earliest a consumer that has read to the end without a *)
(* failed schema fetch has made every store equal to the latest record of  *)
(* each key, whatever happened before (consumer.rs 87-101).                *)
THEOREM ReplayRebuilds == Spec => []ReplayRebuildsView
BY ReplayComplete, ViewInvInit, ViewInvNext, PTL DEF Spec

----------------------------------------------------------------------------
(* Databases.  A step either writes the record in hand to a cell, which    *)
(* brings the cell up to date, or leaves the cell and turns no record from *)
(* excused to missing.                                                     *)

(* How far a partition has been, or will be, read.                         *)

(* The horizon lies within the partition.                                  *)
LEMMA HorizonType ==
  ASSUME Base, NEW p \in Partition
  PROVE  /\ Horizon(p) \in Nat /\ Horizon(p) <= Len(log[p])
         /\ Len(log[p]) \in Nat
BY PartitionTypes DEF Horizon, InOrder

(* Giving up the assignment never moves the horizon forward.               *)
LEMMA HorizonUnassign ==
  ASSUME Base, Unassign, CommitStored \/ UNCHANGED committed, NEW p \in Partition
  PROVE  Horizon(p)' \in Nat /\ Horizon(p)' <= Horizon(p)
<1>1. /\ position[p] \in Nat /\ from[p] \in Nat
      /\ committed[p] \in Nat \cup {-1} /\ InOrder(p) /\ ~assigned'
  BY PartitionTypes DEF Unassign
<1>2. \/ committed'[p] = committed[p]
      \/ assigned /\ committed'[p] = position[p]
  BY DEF CommitStored, Delivered
<1>3. CASE assigned
  BY <1>1, <1>2, <1>3 DEF Horizon, InOrder
<1>4. CASE ~assigned
  BY <1>1, <1>2, <1>4 DEF Horizon
<1> QED BY <1>3, <1>4

(* What comes within the horizon was passed over, or has just been taken.  *)
LEMMA HorizonStep ==
  ASSUME Base, [Next]_vars, NEW p \in Partition, NEW o \in Nat, o <= Horizon(p)'
  PROVE  \/ o <= Horizon(p)
         \/ Assign /\ <<p, o>> \in dropped'
         \/ o = 0
         \/ Take(p) /\ o = Next1(p)
<1>1. CASE UNCHANGED <<assigned, position, committed>>
  BY <1>1 DEF Horizon
<1>2. CASE AutoCommit
  BY <1>2 DEF AutoCommit, Delivered, Horizon
<1>3. CASE Unassign /\ (CommitStored \/ UNCHANGED committed)
  BY <1>3, HorizonUnassign, HorizonType
<1>4. CASE Assign
  <2>1. /\ Horizon(p)' = StartOf(p) /\ ~assigned
        /\ dropped' = dropped \cup PassedOver
    BY <1>4 DEF Assign, Horizon
  <2>2. CASE ForceResetEarliest \/ committed[p] # -1
    BY <2>1, <2>2, PartitionTypes DEF StartOf, Horizon
  <2>3. CASE ~ForceResetEarliest /\ committed[p] = -1 /\ o # 0
    <3>1. o \in 1..MaxLog
      BY <2>1, <2>3, StartFacts, PartitionTypes, Bounds DEF InOrder
    <3>2. <<p, o>> \in PassedOver
      BY <2>1, <2>3, <3>1 DEF PassedOver
    <3> QED BY <1>4, <2>1, <3>2
  <2> QED BY <2>2, <2>3
<1>5. ASSUME NEW q \in Partition, Take(q)
      PROVE  o <= Horizon(p) \/ (Take(p) /\ o = Next1(p))
  <2>1. Receive(q)
    BY <1>5 DEF Take, ReceiveInvalid, ReceiveTombstone, ReceiveUpdate
  <2>2. /\ assigned /\ assigned' /\ position'[q] = Next1(q)
        /\ \A r \in Partition \ {q} : position'[r] = position[r]
    BY <2>1, ReceiveFacts DEF Receive
  <2>3. CASE p = q
    <3>1. position[p] \in Nat /\ Horizon(p) = position[p] /\ o <= position[p] + 1
      BY <2>2, <2>3, PartitionTypes DEF Horizon, Next1
    <3> QED BY <1>5, <2>3, <3>1 DEF Next1
  <2>4. CASE p # q
    BY <2>2, <2>4 DEF Horizon
  <2> QED BY <2>3, <2>4
<1> QED
  BY <1>1, <1>2, <1>3, <1>4, <1>5
  DEF Next, Take, Produce, FetchBatch, Revoke, FetchSchemaOk, FetchSchemaErr,
      InsertOk, InsertErr, RemoveOk, RemoveErr, StreamError, Stop, EmitStats,
      Stats, Boot, Crash, vars

----------------------------------------------------------------------------
(* What a step does to a cell.                                             *)

(* The record in hand has been written to the cell, ...                    *)
Written(s, k) ==
  /\ cur # NoRecord /\ Touches(InHand, s, k) /\ UNCHANGED log
  /\ stores'[s][k] = Effect(cur.part, cur.offset)
  /\ \A p \in {cur.part} : Horizon(p)' <= cur.offset

(* ... or the cell is as it was, and a pending record is still excused.    *)
Kept(s, k) ==
  /\ stores'[s][k] = stores[s][k]
  /\ \A o \in Touching(s, k) :
       Pending(s, PartitionOf[k], o) =>
         \/ <<PartitionOf[k], o>> \in dropped' \cup lost'
         \/ Pending(s, PartitionOf[k], o)'

(* A step that starts with nothing in hand has nothing to excuse.          *)
LEMMA KeptIdle ==
  ASSUME Base, NEW s \in Store, NEW k \in Key, stores'[s][k] = stores[s][k],
         cur = NoRecord
  PROVE  Kept(s, k)
BY PartitionTypes, DeploymentAssumption
DEF Kept, Pending, InHandAt, NoRecord, Touching

(* When the task or the process ends, what was pending is lost.            *)
LEMMA KeptLost ==
  ASSUME NEW s \in Store, NEW k \in Key, stores'[s][k] = stores[s][k],
         lost' = lost \cup InFlight, Base
  PROVE  Kept(s, k)
<1>1. CASE cur = NoRecord
  BY <1>1, KeptIdle
<1>2. CASE cur # NoRecord
  BY <1>2 DEF Kept, Pending, InHandAt, InFlight
<1> QED BY <1>1, <1>2

(* While a record is in hand the horizon is at that record.                *)
LEMMA HorizonInHand ==
  ASSUME Base, cur # NoRecord
  PROVE  Horizon(cur.part) = cur.offset
BY InHandType DEF Horizon

(* A write of the record in hand to its cell.                              *)
LEMMA WriteCell ==
  ASSUME Base, PartitionInv, UNCHANGED log, NEW s \in Store, NEW k \in Key,
         \A p \in Partition : Horizon(p)' <= Horizon(p),
         \/ /\ phase = "inserting" /\ stores'[s] = Inserted[s]
            /\ s = StoreOf[InHand.schema]
         \/ /\ phase = "removing" /\ stores'[s] = Removed(s)[s],
         k = InHand.key
  PROVE  Written(s, k)
<1>1. /\ cur # NoRecord /\ stores \in [Store -> [Key -> Nat]]
      /\ cur.part \in Partition /\ InHand = log[cur.part][cur.offset]
      /\ phase = "inserting" => InHand.kind = "update"
      /\ phase = "removing" => InHand.kind = "tombstone"
  BY InHandType DEF Base, TypeOK, StoreType, TaskInv, Busy, InHand
<1>2. \A p \in {cur.part} : Horizon(p)' <= cur.offset
  BY <1>1, HorizonInHand
<1>3. Touches(InHand, s, k)
  BY <1>1 DEF Touches
<1>4. stores'[s][k] = Effect(cur.part, cur.offset)
  <2>1. /\ phase = "inserting" /\ s = StoreOf[InHand.schema] =>
              Inserted[s][k] = cur.offset
        /\ Removed(s)[s][k] = Absent
    <3>1. \A v : Write(s, v)[s][k] = v
      BY <1>1 DEF Write
    <3> QED BY <3>1 DEF Inserted, Removed
  <2>2. /\ phase = "inserting" => Effect(cur.part, cur.offset) = cur.offset
        /\ phase = "removing" => Effect(cur.part, cur.offset) = Absent
    BY <1>1 DEF Effect
  <2> QED BY <2>1, <2>2
<1> QED BY <1>1, <1>2, <1>3, <1>4 DEF Written

(* The cells a write is not for stay as they are.                          *)
LEMMA OtherCell ==
  ASSUME Base, NEW s \in Store, NEW k \in Key
  PROVE  /\ ~(s = StoreOf[InHand.schema] /\ k = InHand.key) =>
              Inserted[s][k] = stores[s][k]
         /\ \A s0 \in Store : ~(s = s0 /\ k = InHand.key) =>
              Removed(s0)[s][k] = stores[s][k]
BY DEF Base, TypeOK, StoreType, Inserted, Removed, Write

(* An answer of the registry.                                              *)
LEMMA FetchCell ==
  ASSUME Base, FetchSchemaOk \/ FetchSchemaErr, NEW s \in Store, NEW k \in Key
  PROVE  Kept(s, k)
<1>1. /\ phase = "fetching" /\ cur # NoRecord /\ InHand.kind = "update"
      /\ stores'[s][k] = stores[s][k]
  BY DEF FetchSchemaOk, FetchSchemaErr, Base, TaskInv, Busy
<1>2. cur = [part |-> cur.part, offset |-> cur.offset]
  BY <1>1, InHandType
<1>3. CASE FetchSchemaErr
  BY <1>1, <1>2, <1>3 DEF FetchSchemaErr, Kept, Pending, InHandAt
<1>4. CASE FetchSchemaOk
  <2>1. Route(InHand, cur.part, cur.offset)
    BY <1>4 DEF FetchSchemaOk
  <2>2. CASE Hold("inserting", cur.part, cur.offset)
    BY <1>1, <1>2, <2>2 DEF Hold, Kept, Pending, InHandAt
  <2>3. CASE ~Touches(InHand, s, k)
    BY <1>1, <1>2, <2>3 DEF Kept, Pending, InHandAt, Touching, InHand
  <2>4. Hold("inserting", cur.part, cur.offset) \/ ~Touches(InHand, s, k)
    BY <1>1, <2>1, DeploymentAssumption DEF Route, Touches
  <2> QED BY <2>2, <2>3, <2>4
<1> QED BY <1>3, <1>4

(* An insert that was answered.                                            *)
LEMMA InsertCell ==
  ASSUME Base, PartitionInv, InsertOk, NEW s \in Store, NEW k \in Key
  PROVE  Written(s, k) \/ Kept(s, k)
<1>1. /\ phase = "inserting" /\ stores' = Inserted
      /\ UNCHANGED <<log, assigned, position, committed>>
      /\ InHand.kind = "update" /\ cur # NoRecord
  BY DEF InsertOk, Base, TaskInv, Busy
<1>2. CASE s = StoreOf[InHand.schema] /\ k = InHand.key
  <2>1. \A p \in Partition : Horizon(p)' <= Horizon(p)
    BY <1>1, HorizonType DEF Horizon
  <2> QED BY <1>1, <1>2, <2>1, WriteCell
<1>3. CASE ~(s = StoreOf[InHand.schema] /\ k = InHand.key)
  <2>1. stores'[s][k] = stores[s][k]
    BY <1>1, <1>3, OtherCell
  <2>2. ~Touches(InHand, s, k)
    BY <1>1, <1>3 DEF Touches
  <2>3. cur = [part |-> cur.part, offset |-> cur.offset]
    BY <1>1, InHandType
  <2> QED BY <2>1, <2>2, <2>3 DEF Kept, Pending, InHandAt, Touching, InHand
<1> QED BY <1>2, <1>3

(* A removal that was answered.                                            *)
LEMMA RemoveCell ==
  ASSUME Base, PartitionInv, NEW s0 \in Store, RemoveOk(s0),
         NEW s \in Store, NEW k \in Key
  PROVE  Written(s, k) \/ Kept(s, k)
<1>1. /\ phase = "removing" /\ stores' = Removed(s0) /\ todo' = todo \ {s0}
      /\ UNCHANGED <<log, assigned, position, committed>>
      /\ InHand.kind = "tombstone" /\ cur # NoRecord
  BY DEF RemoveOk, Base, TaskInv, Busy
<1>2. CASE s = s0 /\ k = InHand.key
  <2>1. \A p \in Partition : Horizon(p)' <= Horizon(p)
    BY <1>1, HorizonType DEF Horizon
  <2> QED BY <1>1, <1>2, <2>1, WriteCell
<1>3. CASE ~(s = s0 /\ k = InHand.key)
  <2>1. stores'[s][k] = stores[s][k]
    BY <1>1, <1>3, OtherCell
  <2>2. cur = [part |-> cur.part, offset |-> cur.offset]
    BY <1>1, InHandType
  <2>3. CASE k # InHand.key
    <3>1. ~Touches(InHand, s, k)
      BY <2>3 DEF Touches
    <3> QED BY <2>1, <2>2, <3>1 DEF Kept, Pending, InHandAt, Touching, InHand
  <2>4. CASE s # s0
    <3>1. ASSUME s \in todo PROVE UNCHANGED <<phase, cur>> /\ s \in todo'
      BY <1>1, <2>4, <3>1 DEF RemoveOk
    <3> QED BY <1>1, <2>1, <3>1 DEF Kept, Pending, InHandAt
  <2> QED BY <1>3, <2>3, <2>4
<1> QED BY <1>2, <1>3

(* A call that failed ends the task; its write may have arrived.           *)
LEMMA StopCell ==
  ASSUME Base, PartitionInv, NEW s \in Store, NEW k \in Key,
         \/ InsertErr \/ StreamError
         \/ \E s0 \in Store : RemoveErr(s0)
  PROVE  Written(s, k) \/ Kept(s, k)
<1>1. Stop
  BY DEF InsertErr, StreamError, RemoveErr
<1>2. /\ UNCHANGED log /\ lost' = lost \cup InFlight
      /\ \A p \in Partition : Horizon(p)' <= Horizon(p)
  BY <1>1, HorizonUnassign DEF Stop
<1>3. stores'[s][k] = stores[s][k] => Kept(s, k)
  BY <1>2, KeptLost
<1>4. CASE UNCHANGED stores
  BY <1>3, <1>4
<1>5. CASE phase = "inserting" /\ stores' = Inserted
  BY <1>2, <1>3, <1>5, WriteCell, OtherCell
<1>6. ASSUME NEW s0 \in Store, phase = "removing", stores' = Removed(s0)
      PROVE  Written(s, k) \/ Kept(s, k)
  BY <1>2, <1>3, <1>6, WriteCell, OtherCell
<1> QED BY <1>4, <1>5, <1>6 DEF InsertErr, StreamError, RemoveErr

(* The same where the process died.                                        *)
LEMMA CrashCell ==
  ASSUME Base, PartitionInv, Crash, NEW s \in Store \ InMemory, NEW k \in Key
  PROVE  Written(s, k) \/ Kept(s, k)
<1>1. /\ UNCHANGED log /\ lost' = lost \cup InFlight
      /\ \A p \in Partition : Horizon(p)' <= Horizon(p)
  BY HorizonUnassign DEF Crash
<1>2. stores'[s][k] = stores[s][k] => Kept(s, k)
  BY <1>1, KeptLost
<1>3. PICK arrived :
        /\ \/ arrived = stores
           \/ phase = "inserting" /\ arrived = Inserted
           \/ phase = "removing" /\ \E s0 \in todo : arrived = Removed(s0)
        /\ stores'[s] = arrived[s]
  BY DEF Crash
<1>4. CASE arrived = stores
  BY <1>2, <1>3, <1>4
<1>5. CASE phase = "inserting" /\ arrived = Inserted
  BY <1>1, <1>2, <1>3, <1>5, WriteCell, OtherCell
<1>6. ASSUME NEW s0 \in todo, phase = "removing", arrived = Removed(s0)
      PROVE  Written(s, k) \/ Kept(s, k)
  <2>1. s0 \in Store
    BY DEF Base, TypeOK, TaskType
  <2> QED BY <1>1, <1>2, <1>3, <1>6, <2>1, WriteCell, OtherCell
<1> QED BY <1>3, <1>4, <1>5, <1>6

(* Every step writes a cell of an external store or keeps it excused.      *)
LEMMA CellMoves ==
  ASSUME Base, PartitionInv, [Next]_vars, NEW s \in Store \ InMemory, NEW k \in Key
  PROVE  Written(s, k) \/ Kept(s, k)
<1>1. CASE UNCHANGED <<stores, cur, phase, todo>>
  BY <1>1 DEF Kept, Pending, InHandAt
<1>2. CASE phase \in {"idle", "down"} /\ UNCHANGED stores
  BY <1>2, KeptIdle DEF Base, TaskInv, Busy
<1>3. CASE InsertErr \/ StreamError \/ \E s0 \in Store : RemoveErr(s0)
  BY <1>3, StopCell
<1>4. \/ UNCHANGED <<stores, cur, phase, todo>>
      \/ phase \in {"idle", "down"} /\ UNCHANGED stores
      \/ InsertErr \/ StreamError \/ \E s0 \in Store : RemoveErr(s0)
      \/ FetchSchemaOk \/ FetchSchemaErr \/ InsertOk
      \/ \E s0 \in Store : RemoveOk(s0)
      \/ Crash
  BY DEF Next, Produce, FetchBatch, ReceiveInvalid, ReceiveTombstone,
         ReceiveUpdate, Receive, AutoCommit, Assign, Revoke, EmitStats, Stats,
         Boot, vars
<1> QED BY <1>1, <1>2, <1>3, <1>4, FetchCell, InsertCell, RemoveCell, CrashCell

(* A record just taken is pending for the cells it touches.                *)
LEMMA TakenPending ==
  ASSUME Base, NEW p \in Partition, Take(p), NEW n, n = Next1(p),
         NEW s \in Store, NEW k \in Key, PartitionOf[k] = p, n \in Touching(s, k)
  PROVE  Pending(s, p, n)'
<1>1. Touches(Incoming(p), s, k)
  BY DEF Touching, Incoming
<1>2. \/ Hold("fetching", p, n) \/ Hold("inserting", p, n)
      \/ Hold("removing", p, n) /\ todo' = Store
  BY <1>1, DeploymentAssumption
  DEF Take, ReceiveInvalid, ReceiveTombstone, ReceiveUpdate, Route, Touches
<1> QED BY <1>2 DEF Hold, Pending, InHandAt

(* A written cell is up to date with the record that was in hand.          *)
LEMMA WrittenUpToDate ==
  ASSUME Base, PartitionInv, [Next]_vars, NEW s \in Store, NEW k \in Key,
         Written(s, k)
  PROVE  \E w \in ({0} \cup Touching(s, k))' : UpToDate(s, k, w)'
<1> DEFINE p == PartitionOf[k]
<1>1. PICK n \in Offsets : n = cur.offset /\ n \in 1..Len(log[cur.part])
  BY InHandType DEF Written
<1>2. /\ cur.part \in Partition /\ InHand.key = k /\ k # NoKey
      /\ InHand = log[cur.part][n] /\ UNCHANGED log
      /\ stores'[s][k] = Effect(cur.part, n)
  BY <1>1, InHandType, DeploymentAssumption DEF Written, Touches, InHand
<1>3. cur.part = p
  BY <1>1, <1>2 DEF PartitionInv, HasKey
<1>4. n \in Touching(s, k)' /\ n \in Nat /\ n # 0 /\ stores'[s][k] = Effect(p, n)'
  BY <1>1, <1>2, <1>3 DEF Touching, Written, Touches, Offsets, Effect, InHand
<1>5. p \in Partition /\ Horizon(p)' <= n
  BY <1>1, <1>2, <1>3 DEF Written
<1>6. Base'
  BY BaseNext
<1>7. Horizon(p)' \in Nat /\ \A o \in Touching(s, k)' : o \in Nat
  <2>1. Horizon(p)' \in Nat
    BY <1>5, <1>6 DEF Base, TypeOK, ClientType, BrokerType, Horizon
  <2>2. \A o \in Touching(s, k)' : o \in Nat
    BY <1>5, LogGrows DEF Touching
  <2> QED BY <2>1, <2>2
<1>8. UpToDate(s, k, n)'
  BY <1>4, <1>5, <1>7 DEF UpToDate
<1> QED BY <1>4, <1>8

(* A cell that was up to date and is kept is up to date.                   *)
LEMMA KeptUpToDate ==
  ASSUME Base, [Next]_vars, NEW s \in Store, NEW k \in Key, Kept(s, k),
         NEW w \in {0} \cup Touching(s, k), UpToDate(s, k, w)
  PROVE  w \in ({0} \cup Touching(s, k))' /\ UpToDate(s, k, w)'
<1> DEFINE p == PartitionOf[k]
<1>1. /\ p \in Partition /\ Base' /\ Horizon(p) \in Nat
      /\ Horizon(p) <= Len(log[p]) /\ Len(log[p]) \in Nat
  BY BaseNext, HorizonType, DeploymentAssumption
<1>2. /\ w \in ({0} \cup Touching(s, k))'
      /\ stores'[s][k] = IF w = 0 THEN Absent ELSE Effect(p, w)'
  BY TouchingGrows DEF Kept, UpToDate
<1>3. dropped \subseteq dropped' /\ lost \subseteq lost'
  BY DEF Next, Produce, FetchBatch, ReceiveInvalid, ReceiveTombstone,
     ReceiveUpdate, Receive, Route, AutoCommit, Assign, Revoke, FetchSchemaOk,
     FetchSchemaErr, InsertOk, InsertErr, RemoveOk, RemoveErr, StreamError,
     Stop, EmitStats, Stats, Boot, Crash, vars
<1>4. ASSUME NEW o \in Touching(s, k)', o <= Horizon(p)', w < o
      PROVE  <<p, o>> \in dropped' \cup lost' \/ Pending(s, p, o)'
  <2>1. o \in Nat /\ o # 0
    BY <1>1, LogGrows DEF Touching
  <2>2. CASE o <= Horizon(p)
    <3>1. o \in Touching(s, k)
      BY <1>1, <2>1, <2>2, TouchingGrows
    <3>2. <<p, o>> \in dropped \cup lost \/ Pending(s, p, o)
      BY <1>4, <2>2, <3>1 DEF UpToDate
    <3> QED BY <1>3, <3>1, <3>2 DEF Kept
  <2>3. CASE Take(p) /\ o = Next1(p)
    <3>1. o \in Touching(s, k)
      <4>1. Next1(p) \in 1..Len(log[p])
        BY <1>1, <2>3, ReceiveFacts
        DEF Take, ReceiveInvalid, ReceiveTombstone, ReceiveUpdate
      <4> QED BY <1>1, <2>1, <2>3, <4>1, TouchingGrows
    <3> QED BY <1>1, <2>3, <3>1, TakenPending
  <2> QED BY <1>1, <1>4, <2>1, <2>2, <2>3, HorizonStep
<1> QED BY <1>2, <1>4 DEF UpToDate

----------------------------------------------------------------------------
(* The theorem.                                                            *)

DurableInv == Base /\ PartitionInv /\ ExternalViewDurable

(* At the start every cell is empty and nothing has been published.        *)
LEMMA DurableInit == Init => DurableInv
<1> SUFFICES ASSUME Init PROVE DurableInv
  OBVIOUS
<1>1. Base /\ PartitionInv
  BY BaseInit, ViewInvInit DEF ViewInv
<1>2. ASSUME NEW s \in Store, NEW k \in Key PROVE UpToDate(s, k, 0)
  <2>1. Touching(s, k) = {} /\ stores[s][k] = Absent
    BY DeploymentAssumption DEF Init, Touching
  <2> QED BY <2>1 DEF UpToDate
<1> QED BY <1>1, <1>2 DEF DurableInv, ExternalViewDurable

(* Every step preserves it.                                                *)
LEMMA DurableNext == DurableInv /\ [Next]_vars => DurableInv'
<1> SUFFICES ASSUME DurableInv, [Next]_vars PROVE DurableInv'
  OBVIOUS
<1>1. Base /\ PartitionInv /\ ExternalViewDurable
  BY DEF DurableInv
<1>2. Base' /\ PartitionInv'
  BY <1>1, BaseNext, PartitionNext
<1>3. ASSUME NEW s \in Store \ InMemory, NEW k \in Key
      PROVE  \E w \in ({0} \cup Touching(s, k))' : UpToDate(s, k, w)'
  <2>1. CASE Written(s, k)
    BY <1>1, <2>1, WrittenUpToDate
  <2>2. CASE Kept(s, k)
    <3>1. PICK w \in {0} \cup Touching(s, k) : UpToDate(s, k, w)
      BY <1>1 DEF ExternalViewDurable
    <3> QED BY <1>1, <2>2, <3>1, KeptUpToDate
  <2> QED BY <1>1, <2>1, <2>2, CellMoves
<1>4. ExternalViewDurable'
  BY <1>3 DEF ExternalViewDurable
<1> QED BY <1>2, <1>4 DEF DurableInv

(* However often the process dies, writes fail or the group is rebalanced, *)
(* no cell of a database is behind the offsets that auto-commit publishes  *)
(* (consumer.rs 137), except by records that were dropped, or in hand when *)
(* the task or the process ended.                                          *)
THEOREM ExternalDurable == Spec => []ExternalViewDurable
<1>1. DurableInv => ExternalViewDurable
  BY DEF DurableInv
<1> QED BY <1>1, DurableInit, DurableNext, PTL DEF Spec

(* The invariant that TLC checks in full holds for every instance.         *)
THEOREM Invariance == Spec => []IInv
<1>1. Init => Covered /\ ReportInv /\ ViewInv /\ DurableInv
  BY CoveredInit, ViewInvInit, DurableInit DEF Init, ReportInv, NoOffset
<1>2. Covered /\ ReportInv /\ ViewInv /\ DurableInv /\ [Next]_vars
        => (Covered /\ ReportInv /\ ViewInv /\ DurableInv)'
  BY CoveredNext, ReportNext, ViewInvNext, DurableNext
<1>3. Covered /\ ReportInv /\ ViewInv /\ DurableInv => IInv
  BY DEF Covered, ViewInv, DurableInv, Base, IInv
<1> QED BY <1>1, <1>2, <1>3, PTL DEF Spec
=============================================================================
