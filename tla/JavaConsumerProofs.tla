-------------------------- MODULE JavaConsumerProofs --------------------------
(***************************************************************************)
(* Proofs about JavaConsumer for any topic, traffic and bounds.  The       *)
(* invariant behind the first two theorems: whatever is read is dealt with,*)
(* and between two batches the position is what has been read.  The third  *)
(* adds what the thread has in hand and what a session has applied, which  *)
(* the proofs about the handlers rest on.                                  *)
(***************************************************************************)
EXTENDS JavaConsumer, TLAPS

(* The part of the types the argument needs.                               *)
OffsetTypes ==
  /\ log \in [Partition -> Seq(Message)]
  /\ committed \in [Partition -> Nat \cup {-1}]
  /\ position \in [Partition -> Nat] /\ read \in [Partition -> Nat]
  /\ cur \in Partition \cup {NoPartition}

Between == {"off", "polling", "checking", "comparing"}
InHandOK == thread \in Busy => cur \in Partition /\ NextOf(cur) <= position[cur]
PartitionOK(p) ==
  /\ Len(log[p]) <= MaxLog /\ committed[p] <= Len(log[p])
  /\ read[p] <= position[p] /\ position[p] <= Len(log[p])
  /\ thread \in Between => read[p] = position[p]
  /\ thread = "comparing" => assigned
  /\ ~assigned => read[p] = 0 /\ position[p] = 0
ReadIsOver(p) == \A o \in 1..read[p] : Over(p, o)
CommitIsOver(p) == \A o \in 1..committed[p] : Over(p, o)
ReadInv ==
  /\ OffsetTypes /\ InHandOK
  /\ \A p \in Partition : PartitionOK(p) /\ ReadIsOver(p) /\ CommitIsOver(p)

USE JavaAssumption

LEMMA ReadInit == Init => ReadInv
<1> SUFFICES ASSUME Init PROVE ReadInv
  OBVIOUS
<1>1. MaxLog \in Nat OBVIOUS
<1>2. \A p \in Partition : /\ log[p] = <<>> /\ Len(log[p]) = 0
                            /\ committed[p] = -1 /\ read[p] = 0 /\ position[p] = 0
  BY DEF Init, Zero
<1>3. OffsetTypes BY DEF Init, OffsetTypes, Zero
<1>4. thread = "off" BY DEF Init
<1>5. ASSUME NEW p \in Partition
      PROVE  PartitionOK(p) /\ ReadIsOver(p) /\ CommitIsOver(p)
  <2>1. PartitionOK(p) BY <1>1, <1>2, <1>4 DEF PartitionOK, Between
  <2>2. ReadIsOver(p) BY <1>2 DEF ReadIsOver
  <2>3. CommitIsOver(p) BY <1>2 DEF CommitIsOver
  <2> QED BY <2>1, <2>2, <2>3
<1> QED BY <1>3, <1>4, <1>5 DEF ReadInv, InHandOK, Busy

(* What has been dealt with stays so, and so does what was read or         *)
(* committed if that does not change.                                      *)
LEMMA OverKept ==
  ASSUME done \subseteq done', dropped \subseteq dropped', abandoned \subseteq abandoned'
  PROVE  /\ \A p, o : Over(p, o) => Over(p, o)'
         /\ \A p \in Partition : read'[p] = read[p] /\ ReadIsOver(p) => ReadIsOver(p)'
         /\ \A p \in Partition :
              committed'[p] = committed[p] /\ CommitIsOver(p) => CommitIsOver(p)'
BY DEF Over, ReadIsOver, CommitIsOver

LEMMA OffsetsAreNat ==
  ASSUME OffsetTypes, NEW p \in Partition
  PROVE  /\ log[p] \in Seq(Message) /\ Len(log[p]) \in Nat
         /\ committed[p] \in Int /\ position[p] \in Nat /\ read[p] \in Nat
         /\ MaxLog \in Nat
BY DEF OffsetTypes

LEMMA ProduceRead ==
  ASSUME ReadInv, NEW p \in Partition, NEW m \in Traffic, Produce(p, m)
  PROVE  ReadInv'
<1>1. m \in Message OBVIOUS
<1>2. UNCHANGED <<committed, position, read, cur, assigned, thread, done, dropped,
                  abandoned>>
  BY DEF Produce, session
<1>3. log' = [log EXCEPT ![p] = Append(@, m)] /\ Len(log[p]) < MaxLog
  BY DEF Produce
<1>4. OffsetTypes'
  BY <1>1, <1>2, <1>3 DEF ReadInv, OffsetTypes
<1>5. \A q \in Partition : Len(log[q]) <= Len(log'[q]) /\ Len(log'[q]) <= MaxLog
  BY <1>1, <1>3, OffsetsAreNat DEF ReadInv, OffsetTypes, PartitionOK
<1>6. \A q \in Partition : PartitionOK(q)'
  <2> SUFFICES ASSUME NEW q \in Partition PROVE PartitionOK(q)'
    OBVIOUS
  <2>1. PartitionOK(q) BY DEF ReadInv
  <2>2. /\ Len(log[q]) \in Nat /\ Len(log'[q]) \in Nat
        /\ committed[q] \in Int /\ position[q] \in Nat /\ MaxLog \in Nat
    <3>1. log[q] \in Seq(Message) /\ log'[q] \in Seq(Message)
      BY <1>4 DEF ReadInv, OffsetTypes
    <3> QED BY <3>1, OffsetsAreNat DEF ReadInv
  <2> QED BY <1>2, <1>5, <2>1, <2>2 DEF PartitionOK
<1> QED BY <1>2, <1>4, <1>6, OverKept DEF ReadInv, InHandOK, NextOf

LEMMA AssignRead == ASSUME ReadInv, Assign PROVE ReadInv'
<1>1. /\ UNCHANGED <<log, committed, cur, thread, done, abandoned>>
      /\ assigned' /\ thread = "polling"
      /\ position' = [p \in Partition |-> StartOf(p)] /\ read' = position'
      /\ dropped \subseteq dropped'
  BY DEF Assign, broker
<1>2. ASSUME NEW p \in Partition
      PROVE  /\ StartOf(p) \in Nat /\ StartOf(p) <= Len(log[p])
             /\ \A o \in 1..StartOf(p) : Over(p, o)'
  <2>1. /\ Len(log[p]) \in Nat /\ Len(log[p]) <= MaxLog /\ MaxLog \in Nat
        /\ committed[p] \in Nat \cup {-1} /\ committed[p] <= Len(log[p])
    BY DEF ReadInv, OffsetTypes, PartitionOK
  <2>2. StartOf(p) \in Nat /\ StartOf(p) <= Len(log[p])
    BY <2>1 DEF StartOf
  <2>3. ASSUME NEW o \in 1..StartOf(p) PROVE Over(p, o)'
    <3>1. ~ForceResetEarliest BY <2>3, <2>2 DEF StartOf
    <3>2. CASE committed[p] = -1
      <4>1. o \in 1..MaxLog BY <2>1, <2>2
      <4>2. <<p, o>> \in dropped'
        BY <3>1, <3>2, <2>2, <4>1 DEF Assign
      <4> QED BY <4>2 DEF Over
    <3>3. CASE committed[p] # -1
      <4>1. o \in 1..committed[p] BY <2>1, <3>1, <3>3 DEF StartOf
      <4>2. Over(p, o) BY <4>1 DEF ReadInv, CommitIsOver
      <4> QED BY <1>1, <4>2, OverKept
    <3> QED BY <3>2, <3>3
  <2> QED BY <2>2, <2>3
<1>3. OffsetTypes' BY <1>1, <1>2 DEF ReadInv, OffsetTypes
<1>4. ASSUME NEW p \in Partition
      PROVE  PartitionOK(p)' /\ ReadIsOver(p)' /\ CommitIsOver(p)'
  <2>1. PartitionOK(p)'
    BY <1>1, <1>2 DEF ReadInv, PartitionOK, OffsetTypes
  <2>2. ReadIsOver(p)' BY <1>1, <1>2 DEF ReadIsOver
  <2>3. CommitIsOver(p)' BY <1>1, OverKept DEF ReadInv
  <2> QED BY <2>1, <2>2, <2>3
<1> QED BY <1>1, <1>3, <1>4 DEF ReadInv, InHandOK, Busy

(* A commit of the positions, where every record read has been dealt with. *)
LEMMA CommitRead ==
  ASSUME ReadInv, thread = "polling", Commit \/ UNCHANGED committed
  PROVE  /\ committed' \in [Partition -> Nat \cup {-1}]
         /\ \A p \in Partition :
              committed'[p] <= Len(log[p]) /\ \A o \in 1..committed'[p] : Over(p, o)
BY DEF ReadInv, OffsetTypes, PartitionOK, ReadIsOver, CommitIsOver, Commit, Between

(* The group takes the partitions away, or the timer of poll commits.      *)
LEMMA CommitStep == ASSUME ReadInv, Revoke \/ AutoCommit PROVE ReadInv'
<1>1. /\ thread = "polling" /\ UNCHANGED <<log, cur, thread, done, dropped, abandoned>>
      /\ Commit \/ UNCHANGED committed
      /\ \/ UNCHANGED <<assigned, position, read>>
         \/ ~assigned' /\ position' = Zero /\ read' = Zero
  BY DEF Revoke, AutoCommit, Unassign, session
<1>2. /\ committed' \in [Partition -> Nat \cup {-1}]
      /\ \A p \in Partition :
           committed'[p] <= Len(log[p]) /\ \A o \in 1..committed'[p] : Over(p, o)
  BY <1>1, CommitRead
<1>3. OffsetTypes'
  <2>1. Zero \in [Partition -> Nat]
    BY DEF Zero
  <2>2. position' \in [Partition -> Nat] /\ read' \in [Partition -> Nat]
    <3>1. position \in [Partition -> Nat] /\ read \in [Partition -> Nat]
      BY DEF ReadInv, OffsetTypes
    <3> QED BY <1>1, <2>1, <3>1
  <2> QED BY <1>1, <1>2, <2>2 DEF ReadInv, OffsetTypes
<1>4. ASSUME NEW p \in Partition
      PROVE  PartitionOK(p)' /\ ReadIsOver(p)' /\ CommitIsOver(p)'
  <2>1. \/ read'[p] = read[p] /\ position'[p] = position[p] /\ assigned' = assigned
        \/ read'[p] = 0 /\ position'[p] = 0
    BY <1>1 DEF Zero
  <2>2. PartitionOK(p)'
    BY <1>1, <1>2, <2>1, OffsetsAreNat DEF ReadInv, PartitionOK
  <2>3. ReadIsOver(p)'
    BY <1>1, <2>1, OverKept DEF ReadInv, ReadIsOver
  <2>4. CommitIsOver(p)'
    BY <1>1, <1>2, OverKept DEF CommitIsOver
  <2> QED BY <2>2, <2>3, <2>4
<1> QED BY <1>1, <1>3, <1>4 DEF ReadInv, InHandOK, Busy

LEMMA PollRead == ASSUME ReadInv, Poll PROVE ReadInv'
<1>1. /\ thread = "polling" /\ thread' = "processing"
      /\ UNCHANGED <<log, committed, cur, read, done, dropped, abandoned, assigned>>
  BY DEF Poll, broker
<1>2. /\ position' \in [Partition -> Nat]
      /\ \A p \in Partition : /\ position[p] <= position'[p]
                              /\ position'[p] <= Len(log[p])
                              /\ ~assigned => position'[p] = position[p]
  <2>1. CASE ~assigned
    <3>1. position' = position BY <2>1 DEF Poll
    <3> QED BY <2>1, <3>1 DEF ReadInv, OffsetTypes, PartitionOK
  <2>2. CASE assigned
    <3>1. PICK end \in [Partition -> 0..MaxLog] :
            /\ \A p \in Partition : end[p] \in position[p]..Len(log[p])
            /\ position' = end
      BY <2>2 DEF Poll
    <3> QED BY <2>2, <3>1, OffsetsAreNat DEF ReadInv
  <2> QED BY <2>1, <2>2
<1>3. OffsetTypes' BY <1>1, <1>2 DEF ReadInv, OffsetTypes
<1>4. ASSUME NEW p \in Partition PROVE PartitionOK(p)'
  BY <1>1, <1>2, OffsetsAreNat DEF ReadInv, PartitionOK, Between
<1> QED BY <1>1, <1>3, <1>4, OverKept DEF ReadInv, InHandOK, Busy

(* A record comes into hand, or is dealt with.                             *)
Dealt(p) ==
  /\ Next1(p)
  /\ done \subseteq done' /\ dropped \subseteq dropped'
  /\ <<p, NextOf(p)>> \in done' \cup dropped'

LEMMA DealtCases ==
  /\ \A p : Finish(p) \/ GiveUp(p) => Dealt(p)
BY DEF Finish, GiveUp, Dealt

LEMMA DealtRead ==
  ASSUME ReadInv, NEW p \in Partition, Dealt(p), NextOf(p) <= position[p],
         UNCHANGED <<log, committed, position, assigned, abandoned>>,
         thread \notin Between
  PROVE  ReadInv'
<1>1. /\ thread' = "processing" /\ cur' = NoPartition
      /\ read' = [read EXCEPT ![p] = read[p] + 1]
  BY DEF Dealt, Next1, NextOf
<1>2. OffsetTypes'
  <2>1. read \in [Partition -> Nat] /\ read[p] + 1 \in Nat
    BY DEF ReadInv, OffsetTypes
  <2>2. read' \in [Partition -> Nat]
    BY <1>1, <2>1
  <2> QED BY <1>1, <2>2 DEF ReadInv, OffsetTypes
<1>3. ASSUME NEW q \in Partition
      PROVE  PartitionOK(q)' /\ ReadIsOver(q)' /\ CommitIsOver(q)'
  <2>1. /\ PartitionOK(q) /\ ReadIsOver(q) /\ CommitIsOver(q)
        /\ read[q] \in Nat /\ position[q] \in Nat
    BY OffsetsAreNat DEF ReadInv
  <2>2. read'[q] = IF q = p THEN read[q] + 1 ELSE read[q]
    BY <1>1 DEF ReadInv, OffsetTypes
  <2>3. PartitionOK(q)'
    BY <1>1, <2>1, <2>2 DEF PartitionOK, NextOf, Between
  <2>4. CommitIsOver(q)' BY <2>1, OverKept DEF Dealt
  <2>5. ASSUME NEW o, o = read[p] + 1 PROVE Over(p, o)'
    BY <2>5 DEF Over, Dealt, NextOf
  <2>6. \A o : Over(q, o) => Over(q, o)' BY OverKept DEF Dealt
  <2>7. ASSUME NEW o \in 1..read'[q] PROVE Over(q, o)'
    <3>1. o \in 1..read[q] \/ (q = p /\ o = read[p] + 1)
      BY <2>1, <2>2
    <3> QED BY <2>1, <2>5, <2>6, <3>1 DEF ReadIsOver
  <2> QED BY <2>3, <2>4, <2>7 DEF ReadIsOver
<1> QED BY <1>1, <1>2, <1>3 DEF ReadInv, InHandOK, Busy

LEMMA BlockRead ==
  ASSUME ReadInv, NEW p \in Partition, NEW where \in Busy, Block(where, p),
         NextOf(p) <= position[p],
         UNCHANGED <<log, committed, position, assigned, abandoned>>
  PROVE  ReadInv'
<1>1. UNCHANGED <<read, done, dropped>> /\ thread' = where /\ cur' = p
  BY DEF Block
<1>2. OffsetTypes' BY <1>1 DEF ReadInv, OffsetTypes
<1>3. \A q \in Partition : PartitionOK(q)'
  BY <1>1 DEF ReadInv, PartitionOK, Busy, Between
<1> QED BY <1>1, <1>2, <1>3, OverKept DEF ReadInv, InHandOK, NextOf

LEMMA RecordRead ==
  ASSUME ReadInv,
         \/ \E p \in Partition : Take(p)
         \/ FetchOk \/ FetchErr \/ PutOk \/ PutErr \/ RemoveOk
  PROVE  ReadInv'
<1>1. UNCHANGED <<log, committed, position, assigned, abandoned>>
  BY DEF Take, FetchOk, FetchErr, PutOk, PutErr, RemoveOk, others
<1>2. thread \in {"processing"} \cup Busy /\ thread \notin Between
  BY DEF Take, FetchOk, FetchErr, PutOk, PutErr, RemoveOk, Busy, Between
<1>3. \A p : Route(p) => Dealt(p) \/ Block("putting", p)
  BY DealtCases DEF Route
<1>4. ASSUME NEW p \in Partition, Take(p) PROVE ReadInv'
  <2>1. NextOf(p) <= position[p] BY <1>4 DEF Take
  <2>2. Dealt(p) \/ \E where \in Busy : Block(where, p)
    BY <1>3, <1>4, DealtCases DEF Take, Busy
  <2> QED BY <1>1, <1>2, <2>1, <2>2, DealtRead, BlockRead
<1>5. CASE FetchOk \/ FetchErr \/ PutOk \/ PutErr \/ RemoveOk
  <2>1. cur \in Partition /\ NextOf(cur) <= position[cur]
    BY <1>5 DEF FetchOk, FetchErr, PutOk, PutErr, RemoveOk, ReadInv, InHandOK, Busy
  <2>2. CASE Dealt(cur)
    BY <1>1, <1>2, <2>1, <2>2, DealtRead
  <2>3. CASE \E where \in Busy : Block(where, cur)
    BY <1>1, <2>1, <2>3, BlockRead
  <2>4. CASE UNCHANGED <<thread, cur, read, done, dropped>>
    BY <1>1, <2>4, OverKept DEF ReadInv, InHandOK, PartitionOK, OffsetTypes, NextOf
  <2> QED BY <1>3, <1>5, <2>2, <2>3, <2>4, DealtCases
          DEF FetchOk, FetchErr, PutOk, PutErr, RemoveOk, Busy
<1> QED BY <1>4, <1>5

(* An exception leaves the loop: what the close commits is read, or in the *)
(* rest of the batch that it abandons.                                     *)
LEMMA EndRead == ASSUME ReadInv, RemoveErr \/ PollErr PROVE ReadInv'
<1>1. End BY DEF RemoveErr, PollErr
<1>2. /\ thread' = "ended" /\ cur' = NoPartition /\ UNCHANGED <<log, done, dropped>>
      /\ read' = Zero /\ position' = Zero
      /\ abandoned' = abandoned \cup Batch
      /\ Commit \/ UNCHANGED committed
  BY <1>1 DEF End, Unassign
<1>3. ASSUME NEW p \in Partition, NEW o \in 1..position[p] PROVE Over(p, o)'
  <2>1. /\ PartitionOK(p) /\ ReadIsOver(p) /\ read[p] \in Nat /\ position[p] \in Nat
        /\ MaxLog \in Nat /\ Len(log[p]) \in Nat
    BY OffsetsAreNat DEF ReadInv
  <2>2. CASE o \in 1..read[p]
    <3>1. Over(p, o) BY <2>1, <2>2 DEF ReadIsOver
    <3> QED BY <1>2, <3>1, OverKept
  <2>3. CASE ~(o \in 1..read[p])
    <3>1. <<p, o>> \in Batch BY <2>1, <2>3 DEF Batch, PartitionOK
    <3> QED BY <1>2, <3>1 DEF Over
  <2> QED BY <2>2, <2>3
<1>4. OffsetTypes'
  BY <1>2 DEF ReadInv, OffsetTypes, Zero, Commit
<1>5. ASSUME NEW p \in Partition
      PROVE  PartitionOK(p)' /\ ReadIsOver(p)' /\ CommitIsOver(p)'
  <2>1. committed'[p] \in {committed[p], position[p]}
    BY <1>2 DEF Commit
  <2>2. PartitionOK(p) /\ CommitIsOver(p) BY DEF ReadInv
  <2>3. read'[p] = 0 /\ position'[p] = 0 BY <1>2 DEF Zero
  <2>4. PartitionOK(p)'
    BY <1>2, <2>1, <2>2, <2>3, OffsetsAreNat DEF ReadInv, PartitionOK, Between
  <2>5. ReadIsOver(p)' BY <2>3 DEF ReadIsOver
  <2>6. CommitIsOver(p)'
    BY <1>2, <1>3, <2>1, <2>2, OverKept DEF CommitIsOver
  <2> QED BY <2>4, <2>5, <2>6
<1> QED BY <1>2, <1>4, <1>5 DEF ReadInv, InHandOK, Busy

(* The batch is worked off: everything up to the position has been read.   *)
LEMMA EndBatchRead ==
  ASSUME ReadInv, EndBatch \/ EndOffsets \/ CheckLag \/ SkipLag
  PROVE  ReadInv'
<1>1. UNCHANGED <<log, committed, position, read, cur, assigned, done, dropped, abandoned>>
  BY DEF EndBatch, EndOffsets, CheckLag, SkipLag, broker, session
<1>2. /\ EndBatch \/ thread \in Between
      /\ thread' \notin Busy
  BY DEF EndBatch, EndOffsets, CheckLag, SkipLag, Between, Busy
<1>3. OffsetTypes' BY <1>1 DEF ReadInv, OffsetTypes
<1>4. ASSUME NEW p \in Partition PROVE PartitionOK(p)'
  <2>1. /\ PartitionOK(p) /\ read[p] \in Nat /\ position[p] \in Nat
        /\ MaxLog \in Nat /\ Len(log[p]) \in Nat
    BY OffsetsAreNat DEF ReadInv
  <2>2. read[p] = position[p]
    <3>1. CASE thread \in Between BY <2>1, <3>1 DEF PartitionOK
    <3>2. CASE EndBatch
      <4>1. <<p, position[p]>> \notin Batch BY <3>2 DEF EndBatch
      <4> QED BY <2>1, <4>1 DEF Batch, PartitionOK
    <3> QED BY <1>2, <3>1, <3>2
  <2>3. thread' = "comparing" => assigned
    BY DEF EndBatch, EndOffsets, CheckLag, SkipLag, Assignment
  <2> QED BY <1>1, <2>1, <2>2, <2>3 DEF PartitionOK
<1> QED BY <1>1, <1>2, <1>3, <1>4, OverKept DEF ReadInv, InHandOK

LEMMA ProcessRead ==
  ASSUME ReadInv, Boot \/ Destroy \/ Crash
  PROVE  ReadInv'
<1>1. UNCHANGED <<log, committed, done, dropped, abandoned>>
  BY DEF Boot, Destroy, Crash, broker
<1>2. CASE Destroy
  BY <1>1, <1>2, OverKept
     DEF Destroy, session, ReadInv, OffsetTypes, InHandOK, PartitionOK, NextOf
<1>3. CASE Crash
  <2>1. /\ thread' = "off" /\ cur' = NoPartition
        /\ read' = Zero /\ position' = Zero
    BY <1>3 DEF Crash, Unassign
  <2>2. OffsetTypes' BY <1>1, <2>1 DEF ReadInv, OffsetTypes, Zero
  <2>3. ASSUME NEW p \in Partition
        PROVE  PartitionOK(p)' /\ ReadIsOver(p)' /\ CommitIsOver(p)'
    <3>1. read'[p] = 0 /\ position'[p] = 0 BY <2>1 DEF Zero
    <3>2. PartitionOK(p)'
      BY <1>1, <2>1, <3>1, OffsetsAreNat DEF ReadInv, PartitionOK, Between
    <3>3. ReadIsOver(p)' BY <3>1 DEF ReadIsOver
    <3>4. CommitIsOver(p)' BY <1>1, OverKept DEF ReadInv
    <3> QED BY <3>2, <3>3, <3>4
  <2> QED BY <2>1, <2>2, <2>3 DEF ReadInv, InHandOK, Busy
<1>4. CASE Boot
  <2>1. UNCHANGED <<position, read, cur, assigned>>
        /\ thread = "off" /\ thread' \in {"polling", "ended"}
    BY <1>4 DEF Boot, session
  <2>2. OffsetTypes' BY <1>1, <2>1 DEF ReadInv, OffsetTypes
  <2>3. \A p \in Partition : PartitionOK(p)'
    BY <1>1, <2>1 DEF ReadInv, PartitionOK, Between
  <2> QED BY <1>1, <2>1, <2>2, <2>3, OverKept DEF ReadInv, InHandOK, Busy
<1> QED BY <1>2, <1>3, <1>4

LEMMA ReadStep ==
  ASSUME ReadInv, [Next]_vars
  PROVE  ReadInv'
<1>1. CASE UNCHANGED vars
  BY <1>1, OverKept
     DEF vars, ReadInv, OffsetTypes, InHandOK, PartitionOK, NextOf
<1>2. CASE Next
  BY <1>2, ProduceRead, AssignRead, CommitStep, PollRead, RecordRead, EndRead,
     EndBatchRead, ProcessRead
     DEF Next
<1> QED BY <1>1, <1>2

LEMMA ReadAlways == Spec => []ReadInv
BY ReadInit, ReadStep, PTL DEF Spec

(* The thread commits only between batches, so that whatever dies or is    *)
(* closed, no committed record was neither processed nor given up on.      *)
THEOREM CommitsAreHandled == Spec => []CommitCoversHandled
<1>1. ReadInv => CommitCoversHandled
  BY DEF ReadInv, CommitIsOver, CommitCoversHandled
<1> QED BY <1>1, ReadAlways, PTL

----------------------------------------------------------------------------
(* Types, and what the thread is about.                                    *)

USE DEF broker, session, process, others

(* TypeOK in parts, its quantified conjuncts written out.                  *)
ThreadTypes ==
  /\ thread \in {"off", "ended"} \cup Looping \cup Busy
  /\ assigned \in BOOLEAN /\ cleared \in BOOLEAN /\ closing \in BOOLEAN
StoreTypes ==
  /\ stores \in [StoreNames -> [Key -> Nat]]
  /\ schema_cache \subseteq Schema
  /\ faults \in Nat /\ crashes \in Nat /\ rebalances \in Nat
HistoryTypes ==
  /\ from \in [Partition -> Nat] /\ ends \in [Partition -> Nat]
  /\ done \subseteq Partition \X Nat /\ applied \subseteq Partition \X Nat
  /\ dropped \subseteq Partition \X Nat /\ abandoned \subseteq Partition \X Nat
Types ==
  /\ OffsetTypes /\ ThreadTypes /\ StoreTypes /\ HistoryTypes
  /\ removed \in 0..Len(StoreOrder)

LEMMA TypesAreTypeOK == Types <=> TypeOK
<1>1. {faults, crashes, rebalances} \subseteq Nat
        <=> faults \in Nat /\ crashes \in Nat /\ rebalances \in Nat
  OBVIOUS
<1>2. (\A b \in {assigned, cleared, closing} : b \in BOOLEAN)
        <=> assigned \in BOOLEAN /\ cleared \in BOOLEAN /\ closing \in BOOLEAN
  OBVIOUS
<1>3. (\A h \in {done, applied, dropped, abandoned} : h \subseteq Partition \X Nat)
        <=> /\ done \subseteq Partition \X Nat /\ applied \subseteq Partition \X Nat
            /\ dropped \subseteq Partition \X Nat
            /\ abandoned \subseteq Partition \X Nat
  OBVIOUS
<1> QED
  BY <1>1, <1>2, <1>3
  DEF Types, TypeOK, OffsetTypes, ThreadTypes, StoreTypes, HistoryTypes

HasKey(m) == m.key # NoKey

(* Where the thread is fixes what it has in hand.                          *)
TaskInv ==
  /\ thread \notin Busy => cur = NoPartition
  /\ thread # "removing" => removed = 0
  /\ thread \in {"off", "ended"} => ~assigned
  /\ thread \in {"fetching", "putting"} => InHand.kind = "update"
  /\ thread = "putting" =>
       HasKey(InHand) /\ Target # Unrouted /\ InHand.schema \in schema_cache
  /\ thread = "removing" =>
       /\ InHand.kind = "tombstone" /\ HasKey(InHand)
       /\ removed < Len(StoreOrder)

(* Producers keep a key on its partition.                                  *)
PartitionInv ==
  \A p \in Partition : \A o \in 1..Len(log[p]) :
    HasKey(log[p][o]) => PartitionOf[log[p][o].key] = p

(* What a session has applied it has read, and its offsets run on from     *)
(* the group's.                                                            *)
SessionInv ==
  /\ \A r \in applied : r[2] <= read[r[1]]
  /\ ~assigned => applied = {}
  /\ assigned /\ ~ForceResetEarliest =>
       \A p \in Partition : committed[p] <= read[p]

ThreadInv == ReadInv /\ Types /\ TaskInv /\ PartitionInv /\ SessionInv

(* The record that follows what was read, where the batch has one.         *)
LEMMA NextFacts ==
  ASSUME ReadInv, NEW p \in Partition, NextOf(p) <= position[p]
  PROVE  /\ NextOf(p) \in 1..Len(log[p]) /\ NextOf(p) \in 1..MaxLog
         /\ read[p] \in Nat /\ NextOf(p) = read[p] + 1
         /\ Incoming(p) = log[p][NextOf(p)] /\ Incoming(p) \in Message
         /\ Incoming(p).key \in Key \cup {NoKey}
         /\ Incoming(p).kind = "update" => Incoming(p).schema \in Schema
         /\ assigned
<1>1. /\ log[p] \in Seq(Message) /\ Len(log[p]) \in Nat /\ position[p] \in Nat
      /\ read[p] \in Nat /\ MaxLog \in Nat /\ PartitionOK(p)
  BY OffsetsAreNat DEF ReadInv
<1>2. /\ NextOf(p) \in 1..Len(log[p]) /\ NextOf(p) \in 1..MaxLog /\ assigned
      /\ NextOf(p) = read[p] + 1
  <2>1. NextOf(p) = read[p] + 1
    BY DEF NextOf
  <2>2. /\ Len(log[p]) <= MaxLog /\ position[p] <= Len(log[p])
        /\ ~assigned => read[p] = 0 /\ position[p] = 0
    BY <1>1 DEF PartitionOK
  <2>3. read[p] + 1 <= position[p]
    BY <2>1
  <2>4. read[p] + 1 \in 1..Len(log[p])
    BY <1>1, <2>2, <2>3
  <2>5. read[p] + 1 \in 1..MaxLog
    BY <1>1, <2>2, <2>3
  <2>6. assigned
    BY <1>1, <2>2, <2>3
  <2> QED BY <2>1, <2>4, <2>5, <2>6
<1>3. Incoming(p) = log[p][NextOf(p)] /\ Incoming(p) \in Message
  BY <1>1, <1>2 DEF Incoming
<1> QED BY <1>1, <1>2, <1>3 DEF Message

(* The record in hand.                                                     *)
LEMMA HandFacts ==
  ASSUME ThreadInv, thread \in Busy
  PROVE  /\ cur \in Partition /\ NextOf(cur) <= position[cur]
         /\ NextOf(cur) \in 1..Len(log[cur]) /\ NextOf(cur) \in 1..MaxLog
         /\ read[cur] \in Nat /\ NextOf(cur) = read[cur] + 1
         /\ InHand = log[cur][NextOf(cur)] /\ InHand \in Message
         /\ InHand.key \in Key \cup {NoKey}
         /\ InHand.kind = "update" => InHand.schema \in Schema
         /\ HasKey(InHand) => InHand.key \in Key /\ PartitionOf[InHand.key] = cur
         /\ assigned
<1>1. ReadInv /\ PartitionInv /\ cur \in Partition /\ NextOf(cur) <= position[cur]
  BY DEF ThreadInv, ReadInv, InHandOK
<1>2. InHand = Incoming(cur)
  BY DEF InHand
<1> QED BY <1>1, <1>2, NextFacts DEF PartitionInv, HasKey

(* Every place of StoreOrder names a store, and every store has a place.   *)
LEMMA StorePlaces ==
  /\ Len(StoreOrder) \in Nat /\ Len(StoreOrder) > 0
  /\ \A i \in 1..Len(StoreOrder) : StoreOrder[i] \in StoreNames
  /\ \A s \in StoreNames : \E i \in 1..Len(StoreOrder) : StoreOrder[i] = s
BY DEF StoreNames

(* A remove that has come to its next store has cleared that one, too, and *)
(* at the last store it has cleared all others.                            *)
LEMMA ClearedNext ==
  ASSUME ThreadInv, removed' = removed + 1, NEW s \in StoreNames
  PROVE  Cleared(s)' <=> Cleared(s) \/ s = Current
<1>1. removed \in Nat
  BY StorePlaces DEF ThreadInv, Types
<1>2. \A i : i \in 1..(removed + 1) <=> i \in 1..removed \/ i = removed + 1
  BY <1>1
<1> QED BY <1>2 DEF Cleared, Current

LEMMA ClearedAtLast ==
  ASSUME ThreadInv, removed + 1 = Len(StoreOrder), NEW s \in StoreNames, s # Current
  PROVE  Cleared(s)
<1>1. removed \in Nat
  BY StorePlaces DEF ThreadInv, Types
<1>2. PICK i \in 1..Len(StoreOrder) : StoreOrder[i] = s
  BY StorePlaces
<1>3. i # removed + 1
  BY <1>2 DEF Current
<1>4. i \in 1..removed
  BY <1>1, <1>2, <1>3
<1> QED BY <1>2, <1>4 DEF Cleared

(* A write changes one cell.                                               *)
LEMMA WriteFacts ==
  ASSUME StoreTypes, NEW s \in StoreNames, NEW v \in Nat, InHand.key \in Key
  PROVE  /\ Write(s, v) \in [StoreNames -> [Key -> Nat]]
         /\ \A s1 \in StoreNames, k1 \in Key :
              Write(s, v)[s1][k1] =
                IF s1 = s /\ k1 = InHand.key THEN v ELSE stores[s1][k1]
BY DEF Write, StoreTypes

(* The stores a put and a remove go to.                                    *)
LEMMA WhereTo ==
  ASSUME ThreadInv
  PROVE  /\ thread = "putting" =>
              Target \in StoreNames /\ InHand.key \in Key /\ NextOf(cur) \in Nat
         /\ thread = "removing" =>
              /\ Current \in StoreNames /\ InHand.key \in Key
              /\ removed + 1 \in 1..Len(StoreOrder)
<1>1. thread = "putting" =>
        Target \in StoreNames /\ InHand.key \in Key /\ NextOf(cur) \in Nat
  BY HandFacts DEF ThreadInv, TaskInv, Target, Busy
<1>2. thread = "removing" => InHand.key \in Key
  BY HandFacts DEF ThreadInv, TaskInv, Busy
<1>3. thread = "removing" => removed + 1 \in 1..Len(StoreOrder)
  <2>1. Len(StoreOrder) \in Nat
    BY StorePlaces
  <2>2. removed \in 0..Len(StoreOrder)
    BY DEF ThreadInv, Types
  <2>3. thread = "removing" => removed < Len(StoreOrder)
    BY DEF ThreadInv, TaskInv
  <2> QED BY <2>1, <2>2, <2>3
<1> QED BY <1>1, <1>2, <1>3, StorePlaces DEF Current

(* What a put and a remove write keeps the stores typed.                   *)
LEMMA WriteTypes ==
  ASSUME ThreadInv
  PROVE  /\ thread = "putting" =>
              Write(Target, NextOf(cur)) \in [StoreNames -> [Key -> Nat]]
         /\ thread = "removing" =>
              Write(Current, Absent) \in [StoreNames -> [Key -> Nat]]
<1>1. StoreTypes /\ Absent \in Nat
  BY DEF ThreadInv, Types, Absent
<1>2. ASSUME thread = "putting"
      PROVE  Write(Target, NextOf(cur)) \in [StoreNames -> [Key -> Nat]]
  <2>1. Target \in StoreNames /\ InHand.key \in Key /\ NextOf(cur) \in Nat
    BY <1>2, WhereTo
  <2> QED BY <1>1, <2>1, WriteFacts
<1>3. ASSUME thread = "removing"
      PROVE  Write(Current, Absent) \in [StoreNames -> [Key -> Nat]]
  <2>1. Current \in StoreNames /\ InHand.key \in Key
    BY <1>3, WhereTo
  <2> QED BY <1>1, <2>1, WriteFacts
<1> QED BY <1>2, <1>3

----------------------------------------------------------------------------
(* Types are kept.                                                         *)

(* A step goes on to the next record, keeps one in hand, or is none of a   *)
(* record's.                                                               *)
RecordStep ==
  FetchOk \/ FetchErr \/ PutOk \/ PutErr \/ RemoveOk \/ \E p \in Partition : Take(p)

LEMMA RecordCases ==
  /\ \A p : Take(p) => Finish(p) \/ Block("putting", p) \/ Block("removing", p)
                         \/ Block("fetching", p)
  /\ FetchOk => Finish(cur) \/ Block("putting", cur)
  /\ FetchErr \/ PutErr => GiveUp(cur)
  /\ PutOk => Finish(cur)
  /\ RemoveOk =>
       \/ Finish(cur)
       \/ removed' = removed + 1 /\ UNCHANGED <<thread, cur, read, done, applied, dropped>>
BY DEF Take, Route, FetchOk, FetchErr, PutErr, PutOk, RemoveOk

LEMMA ThreadTypesNext == ASSUME ThreadTypes, [Next]_vars PROVE ThreadTypes'
<1>1. CASE RecordStep
  <2>1. thread' \in {"processing", thread} \cup Busy
    BY <1>1, RecordCases DEF RecordStep, Finish, GiveUp, Next1, Block, Busy
  <2>2. UNCHANGED <<assigned, cleared, closing>>
    BY <1>1 DEF RecordStep, Take, FetchOk, FetchErr, PutOk, PutErr, RemoveOk
  <2> QED BY <2>1, <2>2 DEF ThreadTypes, Looping
<1>2. CASE \E p \in Partition, m \in Traffic : Produce(p, m)
  BY <1>2 DEF ThreadTypes, Produce
<1>3. CASE Assign \/ Revoke \/ AutoCommit \/ Poll
  BY <1>3 DEF ThreadTypes, Looping, Assign, Revoke, AutoCommit, Poll, Unassign
<1>4. CASE RemoveErr \/ PollErr
  BY <1>4 DEF ThreadTypes, RemoveErr, PollErr, End, Unassign
<1>5. CASE EndBatch \/ EndOffsets \/ CheckLag \/ SkipLag
  BY <1>5 DEF ThreadTypes, Looping, EndBatch, EndOffsets, CheckLag, SkipLag
<1>6. CASE Boot \/ Destroy \/ Crash
  BY <1>6 DEF ThreadTypes, Looping, Boot, Destroy, Crash, Unassign
<1>7. CASE UNCHANGED vars
  BY <1>7 DEF ThreadTypes, vars
<1> QED BY <1>1, <1>2, <1>3, <1>4, <1>5, <1>6, <1>7 DEF Next, RecordStep

LEMMA StoreTypesNext == ASSUME ThreadInv, [Next]_vars PROVE StoreTypes'
<1>0. StoreTypes
  BY DEF ThreadInv, Types
<1>1. stores' \in [StoreNames -> [Key -> Nat]]
  <2>1. CASE UNCHANGED stores
    BY <1>0, <2>1 DEF StoreTypes
  <2>2. CASE PutOk \/ PutErr
    BY <1>0, <2>2, WriteTypes DEF StoreTypes, PutOk, PutErr, Failing
  <2>3. CASE RemoveOk \/ RemoveErr
    BY <1>0, <2>3, WriteTypes DEF StoreTypes, RemoveOk, RemoveErr, Failing
  <2>4. CASE Crash
    <3>1. PICK arrived \in [StoreNames -> [Key -> Nat]] :
            stores' = [s \in StoreNames |-> IF s \in InMemory
                                            THEN [k \in Key |-> Absent]
                                            ELSE arrived[s]]
      <4>1. PICK arrived : /\ \/ arrived = stores
                              \/ thread = "putting" /\ arrived = Write(Target, NextOf(cur))
                              \/ thread = "removing" /\ arrived = Write(Current, Absent)
                           /\ stores' = [s \in StoreNames |-> IF s \in InMemory
                                                              THEN [k \in Key |-> Absent]
                                                              ELSE arrived[s]]
        BY <2>4 DEF Crash
      <4>2. arrived \in [StoreNames -> [Key -> Nat]]
        BY <1>0, <4>1, WriteTypes DEF StoreTypes
      <4> QED BY <4>1, <4>2
    <3> QED BY <3>1 DEF Absent
  <2> QED
    BY <2>1, <2>2, <2>3, <2>4
    DEF Next, vars, Produce, Take, Assign, Revoke, AutoCommit, Poll, FetchOk,
        FetchErr, PollErr, EndBatch, EndOffsets, CheckLag, SkipLag, Boot, Destroy
<1>2. schema_cache' \subseteq Schema
  <2>1. CASE FetchOk
    <3>1. InHand.kind = "update" /\ thread \in Busy
      BY <2>1 DEF FetchOk, ThreadInv, TaskInv, Busy
    <3> QED BY <1>0, <2>1, <3>1, HandFacts DEF FetchOk, StoreTypes
  <2>2. CASE Boot \/ Crash
    BY <1>0, <2>2 DEF Boot, Crash, StoreTypes
  <2>3. CASE UNCHANGED schema_cache
    BY <1>0, <2>3 DEF StoreTypes
  <2> QED
    BY <2>1, <2>2, <2>3
    DEF Next, vars, Produce, Take, Assign, Revoke, AutoCommit, Poll, FetchErr,
        PutOk, PutErr, RemoveOk, RemoveErr, PollErr, End, EndBatch, EndOffsets, CheckLag,
        SkipLag, Destroy
<1>3. faults' \in {faults, faults + 1} /\ crashes' \in {crashes, crashes + 1}
      /\ rebalances' \in {rebalances, rebalances + 1}
  BY DEF Next, vars, Produce, Take, Assign, Revoke, AutoCommit, Poll, FetchOk,
         FetchErr, PutOk, PutErr, RemoveOk, RemoveErr, PollErr, End, EndBatch, EndOffsets,
         CheckLag, SkipLag, Boot, Destroy, Crash, Fault, Failing
<1> QED BY <1>0, <1>1, <1>2, <1>3 DEF StoreTypes

LEMMA HistoryTypesNext == ASSUME ThreadInv, [Next]_vars PROVE HistoryTypes'
<1>0. HistoryTypes /\ ReadInv'
  BY ReadStep DEF ThreadInv, Types
<1>1. CASE RecordStep
  <2>1. PICK p \in Partition :
          /\ NextOf(p) \in Nat
          /\ \/ Finish(p) \/ GiveUp(p)
             \/ UNCHANGED <<done, applied, dropped>>
    <3>1. CASE \E p \in Partition : Take(p)
      BY <3>1, RecordCases, NextFacts DEF Take, Block, ThreadInv
    <3>2. CASE FetchOk \/ FetchErr \/ PutOk \/ PutErr \/ RemoveOk
      <4>1. thread \in Busy
        BY <3>2 DEF FetchOk, FetchErr, PutOk, PutErr, RemoveOk, Busy
      <4> QED BY <3>2, <4>1, HandFacts, RecordCases DEF Block
    <3> QED BY <1>1, <3>1, <3>2 DEF RecordStep
  <2>2. UNCHANGED <<from, abandoned, ends>>
    BY <1>1 DEF RecordStep, Take, FetchOk, FetchErr, PutOk, PutErr, RemoveOk
  <2>3. <<p, NextOf(p)>> \in Partition \X Nat
    BY <2>1
  <2> QED BY <1>0, <2>1, <2>2, <2>3 DEF HistoryTypes, Finish, GiveUp
<1>2. CASE \E p \in Partition, m \in Traffic : Produce(p, m)
  BY <1>0, <1>2 DEF HistoryTypes, Produce
<1>3. CASE Assign
  <2>1. from' \in [Partition -> Nat]
    BY <1>0, <1>3 DEF Assign, ReadInv, OffsetTypes
  <2>2. dropped' \subseteq Partition \X Nat
    BY <1>0, <1>3 DEF Assign, HistoryTypes
  <2> QED BY <1>0, <1>3, <2>1, <2>2 DEF Assign, HistoryTypes
<1>4. CASE Revoke \/ AutoCommit \/ Poll
  BY <1>0, <1>4 DEF HistoryTypes, Revoke, AutoCommit, Poll, Unassign, Zero
<1>5. CASE RemoveErr \/ PollErr
  <2>1. End
    BY <1>5 DEF RemoveErr, PollErr
  <2>2. abandoned' \subseteq Partition \X Nat
    BY <1>0, <2>1 DEF End, Batch, HistoryTypes
  <2> QED BY <1>0, <2>1, <2>2 DEF HistoryTypes, End, Unassign, Zero
<1>6. CASE EndBatch \/ EndOffsets \/ CheckLag \/ SkipLag
  <2>1. ends' \in {ends, Zero, Ends} /\ UNCHANGED <<from, done, applied, dropped, abandoned>>
    BY <1>6 DEF EndBatch, EndOffsets, CheckLag, SkipLag
  <2>2. Zero \in [Partition -> Nat] /\ Ends \in [Partition -> Nat]
    BY OffsetsAreNat DEF Zero, Ends, ThreadInv
  <2> QED BY <1>0, <2>1, <2>2 DEF HistoryTypes
<1>7. CASE Boot \/ Destroy \/ Crash
  <2>1. UNCHANGED <<done, dropped, abandoned>> /\ applied' \in {applied, {}}
    BY <1>7 DEF Boot, Destroy, Crash, Unassign
  <2>2. from' \in {from, Zero} /\ ends' \in {ends, Zero}
    BY <1>7 DEF Boot, Destroy, Crash, Unassign, process
  <2>3. Zero \in [Partition -> Nat]
    BY DEF Zero
  <2> QED BY <1>0, <2>1, <2>2, <2>3 DEF HistoryTypes
<1>8. CASE UNCHANGED vars
  BY <1>0, <1>8 DEF HistoryTypes, vars
<1> QED BY <1>1, <1>2, <1>3, <1>4, <1>5, <1>6, <1>7, <1>8 DEF Next, RecordStep

LEMMA TypesNext == ASSUME ThreadInv, [Next]_vars PROVE Types'
<1>1. OffsetTypes' /\ ThreadTypes' /\ StoreTypes' /\ HistoryTypes'
  BY ReadStep, ThreadTypesNext, StoreTypesNext, HistoryTypesNext
  DEF ThreadInv, Types, ReadInv
<1>2. \/ removed' \in {0, removed}
      \/ RemoveOk /\ removed' = removed + 1
  BY RecordCases
  DEF Next, vars, Produce, Take, Assign, Revoke, AutoCommit, Poll, FetchOk, FetchErr,
      PutOk, PutErr, RemoveOk, RemoveErr, PollErr, End, EndBatch, EndOffsets,
      CheckLag, SkipLag, Boot, Destroy, Crash, Finish, GiveUp, Next1, Block
<1>3. removed \in 0..Len(StoreOrder) /\ Len(StoreOrder) \in Nat
  BY StorePlaces DEF ThreadInv, Types
<1>4. RemoveOk => removed + 1 \in 1..Len(StoreOrder)
  BY WhereTo DEF RemoveOk
<1>5. removed' \in 0..Len(StoreOrder)
  BY <1>2, <1>3, <1>4
<1> QED BY <1>1, <1>5 DEF Types

----------------------------------------------------------------------------
(* What the thread has in hand, and what a session has applied.            *)

(* A topic only grows.                                                     *)
LEMMA LogKept ==
  ASSUME ThreadInv, [Next]_vars, NEW p \in Partition
  PROVE  /\ Len(log[p]) \in Nat /\ Len(log'[p]) \in Nat
         /\ Len(log[p]) <= Len(log'[p])
         /\ \A o \in 1..Len(log[p]) : log'[p][o] = log[p][o]
<1>0. /\ log \in [Partition -> Seq(Message)] /\ log[p] \in Seq(Message)
      /\ Len(log[p]) \in Nat
  BY DEF ThreadInv, Types, OffsetTypes
<1>1. CASE UNCHANGED log
  BY <1>0, <1>1
<1>2. ASSUME NEW q \in Partition, NEW m \in Traffic, Produce(q, m)
      PROVE  /\ Len(log'[p]) \in Nat /\ Len(log[p]) <= Len(log'[p])
             /\ \A o \in 1..Len(log[p]) : log'[p][o] = log[p][o]
  <2>1. m \in Message
    OBVIOUS
  <2>2. log'[p] = IF p = q THEN Append(log[p], m) ELSE log[p]
    BY <1>0, <1>2 DEF Produce
  <2>3. /\ Len(Append(log[p], m)) = Len(log[p]) + 1
        /\ \A o \in 1..Len(log[p]) : Append(log[p], m)[o] = log[p][o]
    BY <1>0, <2>1
  <2> QED BY <1>0, <2>2, <2>3
<1> QED
  BY <1>0, <1>1, <1>2
  DEF Next, vars, Take, Assign, Revoke, AutoCommit, Poll, FetchOk, FetchErr, PutOk,
      PutErr, RemoveOk, RemoveErr, PollErr, End, EndBatch, EndOffsets, CheckLag, SkipLag, Boot,
      Destroy, Crash

LEMMA InHandKept ==
  ASSUME ThreadInv, [Next]_vars, thread \in Busy, UNCHANGED <<cur, read>>
  PROVE  InHand' = InHand /\ NextOf(cur)' = NextOf(cur)
<1>1. NextOf(cur) \in 1..Len(log[cur]) /\ cur \in Partition
  BY HandFacts
<1>2. NextOf(cur)' = NextOf(cur)
  BY DEF NextOf
<1>3. log'[cur][NextOf(cur)] = log[cur][NextOf(cur)]
  BY <1>1, LogKept
<1> QED BY <1>2, <1>3 DEF InHand, Incoming

LEMMA TaskNext == ASSUME ThreadInv, [Next]_vars PROVE TaskInv'
<1>0. TaskInv
  BY DEF ThreadInv
<1>1. ASSUME NEW p \in Partition, Finish(p) \/ GiveUp(p), UNCHANGED assigned
      PROVE  TaskInv'
  BY <1>1 DEF TaskInv, Finish, GiveUp, Next1, Busy
<1>2. ASSUME NEW p \in Partition, NEW where \in Busy, Block(where, p),
             UNCHANGED <<log, assigned>>,
             where \in {"fetching", "putting"} => Incoming(p).kind = "update",
             where = "putting" =>
               /\ HasKey(Incoming(p)) /\ StoreOf[Incoming(p).schema] # Unrouted
               /\ Incoming(p).schema \in schema_cache',
             where = "removing" =>
               Incoming(p).kind = "tombstone" /\ HasKey(Incoming(p))
      PROVE  TaskInv'
  <2>1. thread' = where /\ cur' = p /\ removed' = 0 /\ UNCHANGED read
    BY <1>2 DEF Block
  <2>2. InHand' = Incoming(p)
    BY <1>2, <2>1 DEF InHand, Incoming, NextOf
  <2> QED BY <1>2, <2>1, <2>2, StorePlaces DEF TaskInv, Target, Busy
<1>3. ASSUME NEW p \in Partition, Take(p) PROVE TaskInv'
  <2>1. CASE Finish(p)
    BY <1>1, <1>3, <2>1 DEF Take
  <2>2. CASE \E where \in Busy : Block(where, p)
    <3>1. PICK where \in Busy : Block(where, p)
      BY <2>2
    <3>2. thread' = where
      BY <3>1 DEF Block
    <3>3. /\ where \in {"fetching", "putting"} => Incoming(p).kind = "update"
          /\ where = "putting" =>
               /\ HasKey(Incoming(p)) /\ StoreOf[Incoming(p).schema] # Unrouted
               /\ Incoming(p).schema \in schema_cache'
          /\ where = "removing" =>
               Incoming(p).kind = "tombstone" /\ HasKey(Incoming(p))
      BY <1>3, <3>2 DEF Take, Route, Finish, Next1, Block, HasKey, Busy
    <3> QED BY <1>2, <1>3, <3>1, <3>3 DEF Take
  <2> QED BY <1>3, <2>1, <2>2, RecordCases DEF Busy
<1>4. CASE FetchOk \/ FetchErr \/ PutOk \/ PutErr \/ RemoveOk
  <2>1. /\ thread \in Busy /\ UNCHANGED <<log, assigned>>
        /\ FetchOk => thread = "fetching"
    BY <1>4 DEF FetchOk, FetchErr, PutOk, PutErr, RemoveOk, Busy
  <2>2. cur \in Partition /\ InHand = Incoming(cur)
    BY <2>1, HandFacts DEF InHand
  <2>3. CASE Finish(cur) \/ GiveUp(cur)
    BY <1>1, <2>1, <2>2, <2>3
  <2>4. CASE FetchOk /\ Block("putting", cur)
    <3>1. /\ Incoming(cur).kind = "update" /\ Incoming(cur).schema \in schema_cache'
          /\ Route(cur)
      BY <1>0, <2>1, <2>2, <2>4 DEF TaskInv, FetchOk
    <3>2. HasKey(Incoming(cur)) /\ StoreOf[Incoming(cur).schema] # Unrouted
      BY <2>4, <3>1 DEF Route, Finish, Next1, Block, HasKey
    <3> QED BY <1>2, <2>1, <2>2, <2>4, <3>1, <3>2 DEF Busy
  <2>5. CASE RemoveOk /\ removed' = removed + 1
             /\ UNCHANGED <<thread, cur, read, done, applied, dropped>>
    <3>1. thread = "removing" /\ removed' = removed + 1 /\ UNCHANGED <<thread, cur>>
      BY <2>5 DEF RemoveOk
    <3>2. InHand' = InHand
      BY <2>1, <2>5, InHandKept
    <3>3. removed + 1 # Len(StoreOrder)
      BY <2>5, <3>1 DEF RemoveOk, Finish, Next1
    <3>4. removed' < Len(StoreOrder)
      BY <3>1, <3>3, WhereTo, StorePlaces
    <3> QED BY <1>0, <2>1, <3>1, <3>2, <3>4 DEF TaskInv, Busy
  <2> QED BY <1>4, <2>3, <2>4, <2>5, RecordCases
<1>5. CASE RemoveErr \/ PollErr \/ Crash
  BY <1>5 DEF TaskInv, RemoveErr, PollErr, End, Crash, Unassign, Busy
<1>6. CASE Assign \/ Revoke \/ Poll \/ EndBatch \/ EndOffsets \/ CheckLag \/ SkipLag
  BY <1>0, <1>6
  DEF TaskInv, Assign, Revoke, Poll, EndBatch, EndOffsets, CheckLag, SkipLag, Unassign, Busy
<1>7. CASE Boot
  BY <1>0, <1>7 DEF TaskInv, Boot, Busy
<1>8. CASE AutoCommit
  BY <1>0, <1>8 DEF TaskInv, AutoCommit, Busy
<1>9. CASE \/ \E p \in Partition, m \in Traffic : Produce(p, m)
           \/ Destroy \/ UNCHANGED vars
  <2>1. UNCHANGED <<thread, cur, removed, schema_cache, read, assigned>>
    BY <1>9 DEF Produce, Destroy, vars
  <2>2. thread \in Busy => InHand' = InHand
    BY <2>1, InHandKept
  <2>3. thread \in Busy => Target' = Target
    BY <2>2 DEF Target
  <2> QED BY <1>0, <2>1, <2>2, <2>3 DEF TaskInv, Busy
<1> QED
  BY <1>3, <1>4, <1>5, <1>6, <1>7, <1>8, <1>9 DEF Next

LEMMA PartitionNext == ASSUME ThreadInv, [Next]_vars PROVE PartitionInv'
<1>0. PartitionInv
  BY DEF ThreadInv
<1>1. CASE UNCHANGED log
  BY <1>0, <1>1 DEF PartitionInv
<1>2. ASSUME NEW q \in Partition, NEW m \in Traffic, Produce(q, m)
      PROVE  PartitionInv'
  <2>1. log \in [Partition -> Seq(Message)] /\ m \in Message
    BY DEF ThreadInv, Types, OffsetTypes
  <2> SUFFICES ASSUME NEW p \in Partition, NEW o \in 1..Len(log'[p]),
                      HasKey(log'[p][o])
               PROVE  PartitionOf[log'[p][o].key] = p
    BY DEF PartitionInv, HasKey
  <2>2. log'[p] = IF p = q THEN Append(log[p], m) ELSE log[p]
    BY <1>2, <2>1 DEF Produce
  <2>3. o \in 1..Len(log[p]) \/ (p = q /\ log'[p][o] = m)
    BY <2>1, <2>2
  <2>4. o \in 1..Len(log[p]) => log'[p][o] = log[p][o]
    BY <2>1, <2>2
  <2> QED BY <1>0, <1>2, <2>3, <2>4 DEF PartitionInv, HasKey, Produce
<1> QED
  BY <1>1, <1>2
  DEF Next, vars, Take, Assign, Revoke, AutoCommit, Poll, FetchOk, FetchErr, PutOk,
      PutErr, RemoveOk, RemoveErr, PollErr, End, EndBatch, EndOffsets, CheckLag, SkipLag, Boot,
      Destroy, Crash

LEMMA SessionNext == ASSUME ThreadInv, [Next]_vars PROVE SessionInv'
<1>0. SessionInv /\ ReadInv /\ applied \subseteq Partition \X Nat
  BY DEF ThreadInv, Types, HistoryTypes
<1>1. CASE RecordStep
  <2>1. UNCHANGED <<assigned, committed>>
    BY <1>1 DEF RecordStep, Take, FetchOk, FetchErr, PutOk, PutErr, RemoveOk
  <2>2. CASE UNCHANGED <<read, applied>>
    BY <1>0, <2>1, <2>2 DEF SessionInv
  <2>3. CASE \E p \in Partition : assigned /\ (Finish(p) \/ GiveUp(p))
    <3>1. PICK p \in Partition : assigned /\ (Finish(p) \/ GiveUp(p))
      BY <2>3
    <3>2. \A q \in Partition :
            /\ read[q] \in Nat /\ committed[q] \in Int
            /\ read'[q] = IF q = p THEN read[q] + 1 ELSE read[q]
      <4>1. read' = [read EXCEPT ![p] = read[p] + 1]
        BY <3>1 DEF Finish, GiveUp, Next1, NextOf
      <4>2. /\ read \in [Partition -> Nat]
            /\ committed \in [Partition -> Nat \cup {-1}]
        BY <1>0 DEF ReadInv, OffsetTypes
      <4> QED BY <4>1, <4>2
    <3>3. \A r \in applied' : r \in applied \/ r = <<p, read[p] + 1>>
      BY <3>1 DEF Finish, GiveUp, NextOf
    <3>4. ASSUME NEW r \in applied' PROVE r[2] <= read'[r[1]]
      <4>1. CASE r \in applied
        <5>1. r[1] \in Partition /\ r[2] \in Nat /\ r[2] <= read[r[1]]
          BY <1>0, <4>1 DEF SessionInv
        <5> QED BY <3>2, <5>1
      <4>2. CASE r = <<p, read[p] + 1>>
        BY <3>2, <4>2
      <4> QED BY <3>3, <4>1, <4>2
    <3>5. assigned' /\ (~ForceResetEarliest =>
            \A q \in Partition : committed'[q] <= read'[q])
      BY <1>0, <2>1, <3>1, <3>2 DEF SessionInv
    <3> QED BY <3>4, <3>5 DEF SessionInv
  <2>4. (\E p \in Partition : Finish(p) \/ GiveUp(p)) => assigned
    <3>1. CASE \E p \in Partition : Take(p)
      BY <1>0, <3>1, NextFacts DEF Take
    <3>2. CASE FetchOk \/ FetchErr \/ PutOk \/ PutErr \/ RemoveOk
      BY <3>2, HandFacts DEF FetchOk, FetchErr, PutOk, PutErr, RemoveOk, Busy
    <3> QED BY <1>1, <3>1, <3>2 DEF RecordStep
  <2>5. \/ \E p \in Partition : Finish(p) \/ GiveUp(p)
        \/ UNCHANGED <<read, applied>>
    <3>1. CASE \E p \in Partition : Take(p)
      BY <3>1, RecordCases DEF Block
    <3>2. CASE FetchOk \/ FetchErr \/ PutOk \/ PutErr \/ RemoveOk
      <4>1. cur \in Partition
        BY <3>2, HandFacts DEF FetchOk, FetchErr, PutOk, PutErr, RemoveOk, Busy
      <4> QED BY <3>2, <4>1, RecordCases DEF Block
    <3> QED BY <1>1, <3>1, <3>2 DEF RecordStep
  <2> QED BY <2>2, <2>3, <2>4, <2>5
<1>2. CASE Assign
  <2>1. ~assigned /\ applied' = {} /\ UNCHANGED committed
    BY <1>0, <1>2 DEF Assign, SessionInv
  <2>2. ASSUME ~ForceResetEarliest, NEW p \in Partition
        PROVE  committed'[p] <= read'[p]
    <3>1. /\ read'[p] = StartOf(p) /\ committed[p] \in Nat \cup {-1}
          /\ Len(log[p]) \in Nat
      BY <1>0, <1>2 DEF Assign, ReadInv, OffsetTypes
    <3> QED BY <2>1, <2>2, <3>1 DEF StartOf
  <2> QED BY <2>1, <2>2 DEF SessionInv
<1>3. CASE Revoke \/ RemoveErr \/ PollErr \/ Crash
  <2>1. applied' = {} /\ ~assigned'
    BY <1>3 DEF Revoke, RemoveErr, PollErr, End, Crash, Unassign
  <2> QED BY <2>1 DEF SessionInv
<1>4. CASE AutoCommit
  <2>1. UNCHANGED <<applied, read, assigned>> /\ committed' = position /\ assigned
        /\ thread = "polling"
    BY <1>4 DEF AutoCommit, Commit
  <2>2. \A p \in Partition : read[p] = position[p] /\ read[p] \in Nat
    BY <1>0, <2>1 DEF ReadInv, PartitionOK, Between, OffsetTypes
  <2> QED BY <1>0, <2>1, <2>2 DEF SessionInv
<1>5. CASE \/ \E p \in Partition, m \in Traffic : Produce(p, m)
           \/ Poll \/ EndBatch \/ EndOffsets \/ CheckLag \/ SkipLag \/ Boot \/ Destroy
           \/ UNCHANGED vars
  <2>1. UNCHANGED <<applied, read, assigned, committed>>
    BY <1>5 DEF Produce, Poll, EndBatch, EndOffsets, CheckLag, SkipLag, Boot, Destroy, vars
  <2> QED BY <1>0, <2>1 DEF SessionInv
<1> QED BY <1>1, <1>2, <1>3, <1>4, <1>5 DEF Next, RecordStep

LEMMA ThreadInit == Init => ThreadInv
<1> SUFFICES ASSUME Init PROVE ThreadInv
  OBVIOUS
<1>1. ReadInv /\ OffsetTypes
  BY ReadInit DEF ReadInv
<1>2. ThreadTypes /\ HistoryTypes /\ TaskInv
  BY DEF Init, ThreadTypes, HistoryTypes, TaskInv, Zero, Busy
<1>3. StoreTypes
  BY DEF Init, StoreTypes, Absent
<1>4. removed \in 0..Len(StoreOrder)
  BY StorePlaces DEF Init
<1>5. PartitionInv /\ SessionInv
  BY DEF Init, PartitionInv, SessionInv, Zero
<1> QED BY <1>1, <1>2, <1>3, <1>4, <1>5 DEF ThreadInv, Types

LEMMA ThreadNext == ASSUME ThreadInv, [Next]_vars PROVE ThreadInv'
BY ReadStep, TypesNext, TaskNext, PartitionNext, SessionNext DEF ThreadInv

----------------------------------------------------------------------------
(* Readiness.                                                              *)

LEMMA ReadyStep ==
  ASSUME ThreadInv, [Next]_vars
  PROVE  [~cleared /\ cleared'
           => \A p \in Partition : \A o \in 1..ends[p] : Over(p, o)]_vars
<1> SUFFICES ASSUME Next, ~cleared, cleared',
                    NEW p \in Partition, NEW o \in 1..ends[p]
             PROVE  Over(p, o)
  OBVIOUS
<1>1. CheckLag
  BY DEF Next, Produce, Take, Assign, Revoke, AutoCommit, Poll, FetchOk, FetchErr,
         PutOk, PutErr, RemoveOk, RemoveErr, PollErr, End, EndBatch, EndOffsets,
         SkipLag, Boot, Destroy, Crash, process, others
<1>2. thread = "comparing"
  BY <1>1 DEF CheckLag
<1>3. assigned /\ read[p] = position[p]
  BY <1>2 DEF ThreadInv, ReadInv, PartitionOK, Between
<1>4. ends[p] <= position[p]
  BY <1>1, <1>3 DEF CheckLag, Assignment
<1>5. ReadInv /\ ends[p] \in Nat
  BY DEF ThreadInv, Types, HistoryTypes
<1>6. o \in 1..read[p]
  BY <1>3, <1>4, <1>5, OffsetsAreNat DEF ReadInv
<1> QED BY <1>5, <1>6 DEF ReadInv, ReadIsOver

(* The readiness flag goes up only when each record the topic held as the  *)
(* broker answered endOffsets has been dealt with, on any number of        *)
(* partitions and through any rebalances.                                  *)
THEOREM ReadyIsHonest == Spec => ReadyWhenCaughtUp
BY ReadyStep, ThreadInit, ThreadNext, PTL DEF Spec, ReadyWhenCaughtUp

----------------------------------------------------------------------------
(* Cells and the records that are settled in them.                         *)

(* The records of a cell's past are the ones they were.                    *)
LEMMA PastKept ==
  ASSUME ThreadInv, [Next]_vars, NEW s \in StoreNames, NEW k \in Key
  PROVE  /\ PartitionOf[k] \in Partition
         /\ Touching(s, k) \subseteq 1..Len(log[PartitionOf[k]])
         /\ Touching(s, k)' \subseteq Nat
         /\ Touching(s, k) \subseteq Touching(s, k)'
         /\ \A o \in 1..Len(log[PartitionOf[k]]) :
              /\ o \in Touching(s, k)' <=> o \in Touching(s, k)
              /\ Effect(PartitionOf[k], o)' = Effect(PartitionOf[k], o)
         /\ dropped \subseteq dropped'
<1>1. PartitionOf[k] \in Partition
  OBVIOUS
<1>2. dropped \subseteq dropped'
  BY DEF Next, vars, Produce, Take, Assign, Revoke, AutoCommit, Poll, FetchOk,
         FetchErr, PutOk, PutErr, RemoveOk, RemoveErr, PollErr, End, EndBatch, EndOffsets,
         CheckLag, SkipLag, Boot, Destroy, Crash, Finish, GiveUp, Block, Route
<1>3. Touching(s, k) \subseteq 1..Len(log[PartitionOf[k]])
      /\ Touching(s, k)' \subseteq Nat
  BY <1>1, LogKept DEF Touching
<1>4. ASSUME NEW o \in 1..Len(log[PartitionOf[k]])
      PROVE  /\ o \in Touching(s, k)' <=> o \in Touching(s, k)
             /\ Effect(PartitionOf[k], o)' = Effect(PartitionOf[k], o)
  <2>1. log'[PartitionOf[k]][o] = log[PartitionOf[k]][o]
    BY <1>1, LogKept
  <2>2. o \in 1..Len(log'[PartitionOf[k]])
    <3>1. /\ Len(log[PartitionOf[k]]) \in Nat /\ Len(log'[PartitionOf[k]]) \in Nat
          /\ Len(log[PartitionOf[k]]) <= Len(log'[PartitionOf[k]])
      BY <1>1, LogKept
    <3> QED BY <3>1
  <2> QED BY <2>1, <2>2 DEF Touching, Touches, Effect
<1> QED BY <1>1, <1>2, <1>3, <1>4

(* What is settled has been read, or is the tombstone in hand.             *)
LEMMA SettledFacts ==
  ASSUME ThreadInv, NEW s \in StoreNames, NEW k \in Key, NEW o \in Settled(s, k)
  PROVE  /\ o \in Touching(s, k) /\ o \in Nat
         /\ \/ o <= read[PartitionOf[k]]
            \/ thread = "removing" /\ cur = PartitionOf[k] /\ o = NextOf(cur)
<1>1. o \in Touching(s, k) /\ o \in Nat
  BY DEF Settled, Touching
<1>2. <<PartitionOf[k], o>> \in applied => o <= read[PartitionOf[k]]
  BY DEF ThreadInv, SessionInv
<1> QED BY <1>1, <1>2 DEF Settled

(* The session goes on without another record settled.                     *)
SameSettled(s, k) == \A o : o \in Settled(s, k)' <=> o \in Settled(s, k)

LEMMA SettledKept ==
  ASSUME ThreadInv, [Next]_vars, NEW s \in StoreNames, NEW k \in Key,
         UNCHANGED applied,
         \/ thread # "removing" /\ (thread' # "removing" \/ removed' = 0)
         \/ UNCHANGED <<thread, cur, removed, read>>
  PROVE  SameSettled(s, k)
<1> DEFINE p == PartitionOf[k]
<1>1. /\ p \in Partition /\ read[p] \in Nat /\ read[p] <= Len(log[p])
      /\ Len(log[p]) \in Nat
  <2>1. p \in Partition
    OBVIOUS
  <2> QED BY <2>1, OffsetsAreNat DEF ThreadInv, ReadInv, PartitionOK
<1>2. ASSUME NEW o, <<p, o>> \in applied
      PROVE  o \in Touching(s, k)' <=> o \in Touching(s, k)
  <2>1. o <= read[p] /\ o \in Nat
    BY <1>2 DEF ThreadInv, SessionInv, Types, HistoryTypes
  <2>2. (o \in Touching(s, k)' \/ o \in Touching(s, k)) => o \in 1..Len(log[p])
    BY <1>1, <2>1 DEF Touching
  <2> QED BY <2>2, PastKept
<1>3. ASSUME thread # "removing", thread' # "removing" \/ removed' = 0
      PROVE  SameSettled(s, k)
  <2>1. ~(thread' = "removing" /\ Cleared(s)')
    BY <1>3 DEF Cleared
  <2> QED BY <1>2, <1>3, <2>1 DEF SameSettled, Settled
<1>4. ASSUME UNCHANGED <<thread, cur, removed, read>> PROVE SameSettled(s, k)
  <2>1. CASE thread # "removing"
    BY <1>2, <1>4, <2>1 DEF SameSettled, Settled
  <2>2. CASE thread = "removing"
    <3>1. NextOf(cur)' = NextOf(cur) /\ NextOf(cur) \in 1..Len(log[cur])
      BY <2>2, <1>4, HandFacts DEF NextOf, Busy
    <3>2. cur = p => (NextOf(cur) \in Touching(s, k)' <=> NextOf(cur) \in Touching(s, k))
      BY <3>1, PastKept
    <3> QED BY <1>2, <1>4, <2>2, <3>1, <3>2 DEF SameSettled, Settled, Cleared
  <2> QED BY <2>1, <2>2
<1> QED BY <1>3, <1>4

(* A record that touches no cell is finished, or one that does.            *)
LEMMA SettledFinish ==
  ASSUME ThreadInv, NEW p \in Partition, UNCHANGED log, Finish(p),
         thread # "removing", NEW s \in StoreNames, NEW k \in Key
  PROVE  \A o : o \in Settled(s, k)' <=>
           \/ o \in Settled(s, k)
           \/ PartitionOf[k] = p /\ o = NextOf(p) /\ o \in Touching(s, k)
<1>1. Touching(s, k)' = Touching(s, k)
  BY DEF Touching
<1>2. thread' # "removing" /\ applied' = applied \cup {<<p, NextOf(p)>>}
  BY DEF Finish, Next1
<1>3. \A o : <<PartitionOf[k], o>> \in applied' <=>
        \/ <<PartitionOf[k], o>> \in applied
        \/ PartitionOf[k] = p /\ o = NextOf(p)
  BY <1>2
<1> QED BY <1>1, <1>2, <1>3 DEF Settled

LEMMA KeptFollows ==
  ASSUME ThreadInv, [Next]_vars, NEW s \in StoreNames, NEW k \in Key,
         SameSettled(s, k), stores'[s][k] = stores[s][k], Follows(s, k)
  PROVE  Follows(s, k)'
<1> SUFFICES ASSUME NEW o \in 1..MaxLog, Latest(Settled(s, k)', o)
             PROVE  \/ stores'[s][k] = Effect(PartitionOf[k], o)'
                    \/ Doubtful(s, k, o)'
  BY DEF Follows, Latest
<1>1. Latest(Settled(s, k), o)
  BY DEF SameSettled, Latest
<1>2. o \in Touching(s, k)
  BY <1>1, SettledFacts DEF Latest
<1>3. Effect(PartitionOf[k], o)' = Effect(PartitionOf[k], o)
  BY <1>2, PastKept
<1>4. Doubtful(s, k, o) => Doubtful(s, k, o)'
  BY PastKept DEF Doubtful
<1>5. stores[s][k] = Effect(PartitionOf[k], o) \/ Doubtful(s, k, o)
  BY <1>1 DEF Follows
<1> QED BY <1>3, <1>4, <1>5

(* The newest record settled says what the cell holds.                     *)
LEMMA NewestFollows ==
  ASSUME NEW s \in StoreNames, NEW k \in Key, NEW n \in Nat,
         n \in Settled(s, k)', \A o \in Settled(s, k)' : o \in Nat /\ o <= n,
         stores'[s][k] = Effect(PartitionOf[k], n)'
  PROVE  Follows(s, k)'
<1> SUFFICES ASSUME NEW o \in 1..MaxLog, Latest(Settled(s, k)', o)
             PROVE  stores'[s][k] = Effect(PartitionOf[k], o)'
  BY DEF Follows, Latest
<1>1. o = n
  BY DEF Latest
<1> QED BY <1>1

(* A later record that was given up on puts the cell in doubt.             *)
LEMMA DroppedFollows ==
  ASSUME NEW s \in StoreNames, NEW k \in Key, NEW n \in Nat,
         n \in Touching(s, k)', <<PartitionOf[k], n>> \in dropped',
         \A o \in Settled(s, k)' : o < n
  PROVE  Follows(s, k)'
BY DEF Follows, Latest, Doubtful

----------------------------------------------------------------------------
(* What a step does to a cell.                                             *)

PutsIn(s, k) ==
  /\ PutOk \/ PutErr \/ Crash
  /\ thread = "putting" /\ s = Target /\ k = InHand.key
  /\ stores'[s][k] = NextOf(cur)
RemovesFrom(s, k) ==
  /\ RemoveOk \/ RemoveErr \/ Crash
  /\ thread = "removing" /\ s = Current /\ k = InHand.key
  /\ stores'[s][k] = Absent

LEMMA CellSteps ==
  ASSUME ThreadInv, [Next]_vars, NEW s \in StoreNames, NEW k \in Key
  PROVE  /\ Crash /\ s \in InMemory => stores'[s][k] = Absent
         /\ \/ stores'[s][k] = stores[s][k]
            \/ PutsIn(s, k) \/ RemovesFrom(s, k)
            \/ Crash /\ s \in InMemory
<1>1. PICK n \in Nat : thread \in {"putting", "removing"} => n = NextOf(cur)
  <2>1. CASE thread \in {"putting", "removing"}
    BY <2>1, HandFacts DEF Busy
  <2>2. CASE thread \notin {"putting", "removing"}
    BY <2>2
  <2> QED BY <2>1, <2>2
<1>2. ASSUME thread = "putting"
      PROVE  Write(Target, n)[s][k] =
               IF s = Target /\ k = InHand.key THEN n ELSE stores[s][k]
  <2>1. /\ Target \in StoreNames /\ InHand.key \in Key /\ StoreTypes
        /\ n \in Nat
    BY <1>1, <1>2, WhereTo DEF ThreadInv, Types
  <2>2. \A s1 \in StoreNames, k1 \in Key :
          Write(Target, n)[s1][k1] =
            IF s1 = Target /\ k1 = InHand.key THEN n ELSE stores[s1][k1]
    BY <2>1, WriteFacts
  <2> QED BY <2>2
<1>3. ASSUME thread = "removing"
      PROVE  Write(Current, Absent)[s][k] =
               IF s = Current /\ k = InHand.key THEN Absent ELSE stores[s][k]
  <2>1. Current \in StoreNames /\ InHand.key \in Key /\ StoreTypes /\ Absent \in Nat
    BY <1>3, WhereTo DEF ThreadInv, Types, Absent
  <2>2. \A s1 \in StoreNames, k1 \in Key :
          Write(Current, Absent)[s1][k1] =
            IF s1 = Current /\ k1 = InHand.key THEN Absent ELSE stores[s1][k1]
    BY <2>1, WriteFacts
  <2> QED BY <2>2
<1>4. CASE PutOk \/ PutErr
  <2>1. thread = "putting" /\ stores' \in {stores, Write(Target, n)} /\ ~Crash
    BY <1>1, <1>4 DEF PutOk, PutErr, Failing, Finish, GiveUp, Next1, Crash
  <2> QED BY <1>1, <1>2, <1>4, <2>1 DEF PutsIn
<1>5. CASE RemoveOk \/ RemoveErr
  <2>1. thread = "removing" /\ stores' \in {stores, Write(Current, Absent)} /\ ~Crash
    <3>1. thread = "removing" /\ stores' \in {stores, Write(Current, Absent)}
      BY <1>5 DEF RemoveOk, RemoveErr, Failing
    <3>2. crashes \in Nat /\ UNCHANGED crashes
      BY <1>5 DEF RemoveOk, RemoveErr, End, ThreadInv, Types, StoreTypes
    <3> QED BY <3>1, <3>2 DEF Crash
  <2> QED BY <1>3, <1>5, <2>1 DEF RemovesFrom
<1>6. CASE Crash
  <2>1. PICK arrived : /\ \/ arrived = stores
                          \/ thread = "putting" /\ arrived = Write(Target, n)
                          \/ thread = "removing" /\ arrived = Write(Current, Absent)
                       /\ stores' = [s1 \in StoreNames |-> IF s1 \in InMemory
                                                          THEN [k1 \in Key |-> Absent]
                                                          ELSE arrived[s1]]
    BY <1>1, <1>6 DEF Crash
  <2>2. stores'[s][k] = IF s \in InMemory THEN Absent ELSE arrived[s][k]
    BY <2>1
  <2> QED BY <1>1, <1>2, <1>3, <1>6, <2>1, <2>2 DEF PutsIn, RemovesFrom
<1>7. CASE ~(PutOk \/ PutErr \/ RemoveOk \/ RemoveErr \/ Crash)
  BY <1>7
  DEF Next, vars, Produce, Take, Assign, Revoke, AutoCommit, Poll, FetchOk, FetchErr,
      PollErr, EndBatch, EndOffsets, CheckLag, SkipLag, Boot, Destroy
<1> QED BY <1>4, <1>5, <1>6, <1>7

(* Only a death empties the schema cache.                                  *)
LEMMA CacheKept ==
  ASSUME ThreadInv, [Next]_vars
  PROVE  schema_cache \subseteq schema_cache' \/ (Crash /\ crashes' # crashes)
<1>1. CASE Crash
  BY <1>1 DEF Crash, ThreadInv, Types, StoreTypes
<1> QED
  BY <1>1
  DEF Next, vars, Produce, Take, Assign, Revoke, AutoCommit, Poll, FetchOk, FetchErr,
      PutOk, PutErr, RemoveOk, RemoveErr, PollErr, End, EndBatch, EndOffsets,
      CheckLag, SkipLag, Boot, Destroy
=============================================================================
