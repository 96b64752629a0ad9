-------------------------- MODULE JavaWebApiProofs --------------------------
(***************************************************************************)
(* Proofs about JavaWebApi, for any clients, routes, payloads and stores:  *)
(* the consumer thread's invariants beside the handlers, and what they say *)
(* of the cells, of the answers and of the databases.                      *)
(***************************************************************************)
EXTENDS JavaWebApi, JavaConsumerProofs

USE JavaAssumption, WebAssumption DEF broker, session, process, others, consumer

----------------------------------------------------------------------------
(* The invariants.                                                         *)

JavaBase == ThreadInv /\ WebTypeOK

(* A value that is not a payload is an update for the cell.                *)
IsRecord(s, k, v) ==
  v \in Touching(s, k) /\ log[PartitionOf[k]][v].kind = "update"
Cached(k, v) == log[PartitionOf[k]][v].schema \in schema_cache

CellInv ==
  \A s \in StoreNames, k \in Key :
    stores[s][k] \notin Body \cup {Absent} =>
      /\ IsRecord(s, k, stores[s][k])
      /\ s \in InMemory => Cached(k, stores[s][k])

(* What a handler has read is one too, and from memory it is decoded       *)
(* without a fetch.                                                        *)
Holds(c) ==
  /\ req[c].op = "get" /\ req[c].stage \in {"read", "fetching"}
  /\ req[c].value \notin Body
HandInv ==
  \A c \in Client : Holds(c) =>
    /\ IsRecord(req[c].store, req[c].key, req[c].value)
    /\ req[c].store \in InMemory =>
         req[c].stage = "read" /\ Cached(req[c].key, req[c].value)

(* How far cell k of s has been brought: to where the session has read,    *)
(* the record in hand included once its remove has come to s.              *)
Brought(s, k) ==
  LET p == PartitionOf[k]
  IN  IF ~assigned THEN ResumesAfter(p)
      ELSE IF thread = "removing" /\ cur = p /\ InHand.key = k /\ Cleared(s)
      THEN read[p] + 1 ELSE read[p]

(* The cell holds record w (none if 0), and every later record up to there *)
(* was given up on.                                                        *)
UpToDate(s, k, w) ==
  LET p == PartitionOf[k]
  IN  /\ stores[s][k] = IF w = 0 THEN Absent ELSE Effect(p, w)
      /\ \A o \in Touching(s, k) :
           w < o /\ o <= Brought(s, k) => <<p, o>> \in dropped \cup abandoned
DurableInv ==
  served = 0 =>
    /\ \A c \in Client : req[c] = NoRequest
    /\ \A s \in StoreNames \ InMemory, k \in Key :
         \E w \in {0} \cup Touching(s, k) : UpToDate(s, k, w)

----------------------------------------------------------------------------
(* What a step of a handler is.                                            *)

Webs == Requests \cup Answered \cup {NoRequest}

(* A request in flight is told from an answer and from none.               *)
LEMMA InFlightRequest ==
  ASSUME WebTypeOK, NEW c \in Client, req[c].op \in Operation
  PROVE  /\ req[c] \in Requests /\ <<req[c].store, req[c].key>> \in Cells
         /\ req[c].store \in StoreNames /\ req[c].key \in Key
         /\ req[c].body \in Body \cup {Absent} /\ req[c].value \in Nat
<1>1. req[c] \in Webs
  BY DEF WebTypeOK, Webs
<1>2. req[c] \notin Answered /\ req[c] # NoRequest
  BY DEF Operation, Answered, NoRequest
<1>3. req[c] \in Requests
  BY <1>1, <1>2 DEF Webs
<1> QED BY <1>3 DEF Requests, Cells

(* The request of one client changes, from one that is served to another.  *)
Moves(c) ==
  /\ req' \in [Client -> Webs]
  /\ \A d \in Client \ {c} : req'[d] = req[d]

(* A handler writes one cell, or none.                                     *)
Writes(c) ==
  /\ req[c].op \in {"post", "delete"}
  /\ \E v \in Body \cup {Absent} : Set(c, v)

(* What a handler leaves of the consumer, and what it does to the rest.    *)
Beside ==
  /\ UNCHANGED consumer
  /\ schema_cache \subseteq schema_cache' /\ schema_cache' \subseteq Schema
  /\ faults' \in Nat /\ faults' >= faults
  /\ served' \in Nat /\ served' >= served
Shape(c) ==
  /\ Beside /\ Moves(c)
  /\ UNCHANGED <<stores, touched>> \/ Writes(c)

LEMMA AnswerMoves ==
  ASSUME WebTypeOK, NEW c \in Client, NEW a \in Answers, Answer(c, a)
  PROVE  Moves(c) /\ req'[c] = [op |-> "answered", answer |-> a]
BY DEF WebTypeOK, Answer, Moves, Webs, Answered

LEMMA RequestMoves ==
  ASSUME WebTypeOK, NEW c \in Client, NEW r \in Routes, NEW op \in Operation,
         NEW k \in Key, NEW b \in Body \cup {Absent}, Request(c, r, op, k, b)
  PROVE  /\ Moves(c) /\ req'[c].stage = "called"
         /\ UNCHANGED <<vars, touched>>
         /\ served' = served + 1 /\ req[c] = NoRequest
<1>1. RouteStore[r] \in StoreNames /\ Absent \in Nat
  BY DEF Request, Accept, Mounted, Absent
<1>2. DEFINE new == [op |-> op, store |-> RouteStore[r], key |-> k, body |-> b,
                     stage |-> "called", value |-> Absent]
<1>3. new \in Requests
  BY <1>1 DEF Requests
<1>4. req' = [req EXCEPT ![c] = new] /\ Accept(c, r)
  BY DEF Request
<1>5. req' \in [Client -> Webs] /\ req'[c] = new
      /\ \A d \in Client \ {c} : req'[d] = req[d]
  BY <1>3, <1>4 DEF WebTypeOK, Webs
<1> QED BY <1>4, <1>5 DEF Moves, Accept, WebTypeOK

LEMMA HitMoves ==
  ASSUME JavaBase, NEW c \in Client, GetHit(c)
  PROVE  /\ Moves(c) /\ Cell(c) \in Nat
         /\ req'[c] = [req[c] EXCEPT !.stage = "read", !.value = Cell(c)]
<1>1. req[c] \in Requests /\ <<req[c].store, req[c].key>> \in Cells
  BY InFlightRequest DEF JavaBase, GetHit, In, Operation
<1>2. Cell(c) \in Nat
  BY <1>1 DEF JavaBase, ThreadInv, Types, StoreTypes, Cell, Cells
<1>3. [req[c] EXCEPT !.stage = "read", !.value = Cell(c)] \in Requests
  BY <1>1, <1>2 DEF Requests
<1>4. Moves(c) /\ req'[c] = [req[c] EXCEPT !.stage = "read", !.value = Cell(c)]
  BY <1>3 DEF GetHit, Moves, Webs, JavaBase, WebTypeOK
<1> QED BY <1>2, <1>4

LEMMA StageMoves ==
  ASSUME WebTypeOK, NEW c \in Client, In(c, "get", "read"), Stage(c, "fetching")
  PROVE  /\ Moves(c) /\ req'[c] = [req[c] EXCEPT !.stage = "fetching"]
<1>1. req[c] \in Requests
  BY InFlightRequest DEF In, Operation
<1>2. [req[c] EXCEPT !.stage = "fetching"] \in Requests
  BY <1>1 DEF Requests
<1> QED BY <1>2 DEF Stage, Moves, Webs, WebTypeOK

(* Every step of a handler leaves the consumer alone and writes one cell   *)
(* at most.                                                                *)
LEMMA WebStepShape ==
  ASSUME JavaBase, NEW c \in Client, WebStep(c)
  PROVE  Shape(c)
<1>0. /\ faults \in Nat /\ served \in Nat /\ WebTypeOK /\ schema_cache \subseteq Schema
  BY DEF JavaBase, ThreadInv, Types, StoreTypes, WebTypeOK
<1>1. UNCHANGED <<vars, served>> => Beside
  BY <1>0 DEF Beside, vars
<1>2. ASSUME NEW r \in Routes, NEW op \in Operation, NEW k \in Key,
             NEW b \in Body \cup {Absent}, Request(c, r, op, k, b)
      PROVE  Shape(c)
  BY <1>0, <1>2, RequestMoves DEF Shape, Beside, vars
<1>3. ASSUME NEW r \in Routes, NoKeyInBody(c, r) PROVE Shape(c)
  <2>1. Answer(c, "bad_request") /\ Accept(c, r)
    BY <1>3 DEF NoKeyInBody
  <2>2. Moves(c)
    BY <1>0, <2>1, AnswerMoves DEF Answers
  <2> QED BY <1>0, <2>1, <2>2 DEF Shape, Beside, Accept, vars
<1>4. CASE GetMiss(c) \/ PostInvalid(c)
  <2>1. \E a \in Answers : Answer(c, a)
    BY <1>4 DEF GetMiss, PostInvalid, Answers
  <2>2. Moves(c)
    BY <1>0, <2>1, AnswerMoves
  <2>3. UNCHANGED <<vars, served, touched>>
    BY <1>4 DEF GetMiss, PostInvalid
  <2> QED BY <1>1, <2>2, <2>3 DEF Shape, vars
<1>5. CASE GetHit(c)
  <2>1. Moves(c)
    BY <1>5, HitMoves
  <2> QED BY <1>1, <1>5, <2>1 DEF GetHit, Shape, vars
<1>6. CASE Lookup(c)
  <2>1. (\E a \in Answers : Answer(c, a)) \/ Stage(c, "fetching")
    BY <1>6 DEF Lookup, Decoded, Answers
  <2>2. In(c, "get", "read") /\ UNCHANGED <<vars, served, touched>>
    BY <1>6 DEF Lookup
  <2>3. Moves(c)
    BY <1>0, <2>1, <2>2, AnswerMoves, StageMoves
  <2> QED BY <1>1, <2>2, <2>3 DEF Shape, vars
<1>7. CASE FetchKnown(c)
  <2>1. \E a \in Answers : Answer(c, a)
    BY <1>7 DEF FetchKnown, Decoded, Answers
  <2>2. Moves(c)
    BY <1>0, <2>1, AnswerMoves
  <2> QED BY <1>0, <1>7, <2>2 DEF FetchKnown, Shape, Beside
<1>8. CASE FetchRefused(c)
  <2>1. Moves(c)
    BY <1>0, <1>8, AnswerMoves DEF FetchRefused, Answers
  <2> QED BY <1>0, <1>8, <2>1 DEF FetchRefused, Fault, Shape, Beside
<1>9. CASE Post(c) \/ Delete(c) \/ StoreError(c)
  <2>1. (\E a \in Answers : Answer(c, a)) /\ req[c].op \in Operation
    BY <1>9 DEF Post, Delete, StoreError, In, Answers, Operation
  <2>2. Moves(c)
    BY <1>0, <2>1, AnswerMoves
  <2>3. req[c].body \in Body \cup {Absent}
    BY <1>0, <2>1, InFlightRequest
  <2>4. UNCHANGED <<stores, touched>> \/ Writes(c)
    BY <1>9, <2>3 DEF Post, Delete, StoreError, In, Writes
  <2>5. UNCHANGED <<consumer, schema_cache, served>> /\ faults' \in {faults, faults + 1}
    BY <1>9 DEF Post, Delete, StoreError, Fault
  <2> QED BY <1>0, <2>2, <2>4, <2>5 DEF Shape, Beside
<1>10. CASE Receipt(c)
  <2>1. Moves(c)
    BY <1>0, <1>10 DEF Receipt, WebTypeOK, Moves, Webs
  <2> QED BY <1>1, <1>10, <2>1 DEF Receipt, Shape, vars
<1> QED BY <1>2, <1>3, <1>4, <1>5, <1>6, <1>7, <1>8, <1>9, <1>10 DEF WebStep

(* A written cell is one of the request's, and the only one.               *)
LEMMA WriteOne ==
  ASSUME JavaBase, NEW c \in Client, Writes(c)
  PROVE  /\ <<req[c].store, req[c].key>> \in Cells /\ touched' \subseteq Cells
         /\ stores' \in [StoreNames -> [Key -> Nat]]
         /\ touched' = touched \cup {<<req[c].store, req[c].key>>}
         /\ \E v \in Body \cup {Absent} : \A s \in StoreNames, k \in Key :
              stores'[s][k] = IF s = req[c].store /\ k = req[c].key THEN v
                                                                  ELSE stores[s][k]
<1>1. /\ <<req[c].store, req[c].key>> \in Cells
      /\ req[c].store \in StoreNames /\ req[c].key \in Key
  BY InFlightRequest DEF JavaBase, Writes, Operation
<1>2. PICK v \in Body \cup {Absent} : Set(c, v)
  BY DEF Writes
<1>3. v \in Nat /\ stores \in [StoreNames -> [Key -> Nat]] /\ touched \subseteq Cells
  BY DEF JavaBase, ThreadInv, Types, StoreTypes, WebTypeOK, Absent
<1> QED BY <1>1, <1>2, <1>3 DEF Set

LEMMA ShapeWrites ==
  ASSUME JavaBase, NEW c \in Client, Shape(c), NEW s \in StoreNames, NEW k \in Key
  PROVE  /\ touched \subseteq touched'
         /\ <<s, k>> \notin touched' => stores'[s][k] = stores[s][k]
         /\ stores'[s][k] \in {stores[s][k]} \cup Body \cup {Absent}
<1>1. CASE UNCHANGED <<stores, touched>> BY <1>1
<1>2. CASE Writes(c)
  <2>1. touched' = touched \cup {<<req[c].store, req[c].key>>}
    BY <1>2, WriteOne
  <2>2. PICK v \in Body \cup {Absent} : \A a \in StoreNames, b \in Key :
          stores'[a][b] = IF a = req[c].store /\ b = req[c].key THEN v
                                                               ELSE stores[a][b]
    BY <1>2, WriteOne
  <2>3. CASE s = req[c].store /\ k = req[c].key
    <3>1. stores'[s][k] = v /\ <<s, k>> \in touched'
      BY <2>1, <2>2, <2>3
    <3> QED BY <2>1, <3>1
  <2>4. CASE ~(s = req[c].store /\ k = req[c].key)
    <3>1. stores'[s][k] = stores[s][k]
      BY <2>2, <2>4
    <3> QED BY <2>1, <3>1
  <2> QED BY <2>3, <2>4
<1> QED BY <1>1, <1>2 DEF Shape

----------------------------------------------------------------------------
(* The consumer's invariants hold beside the handlers.                     *)

LEMMA BesideKeeps ==
  ASSUME ThreadInv, Beside, stores' \in [StoreNames -> [Key -> Nat]]
  PROVE  ThreadInv'
<1>1. UNCHANGED <<log, committed, thread, cur, removed, assigned, position, from, read,
                  cleared, closing, ends, done, applied, dropped, abandoned, crashes,
                  rebalances>>
  BY DEF Beside
<1>2. Types'
  BY <1>1
  DEF ThreadInv, Types, OffsetTypes, ThreadTypes, StoreTypes, HistoryTypes, Beside
<1>3. \A p : PartitionOK(p)' <=> PartitionOK(p)
  BY <1>1 DEF PartitionOK
<1>4. \A p : (ReadIsOver(p)' <=> ReadIsOver(p)) /\ (CommitIsOver(p)' <=> CommitIsOver(p))
  BY <1>1 DEF ReadIsOver, CommitIsOver, Over
<1>5. ReadInv'
  BY <1>1, <1>3, <1>4 DEF ThreadInv, ReadInv, OffsetTypes, InHandOK, NextOf
<1>6. InHand' = InHand /\ Target' = Target
  BY <1>1 DEF InHand, Incoming, NextOf, Target
<1>7. TaskInv'
  BY <1>1, <1>6 DEF ThreadInv, TaskInv, Beside
<1>8. PartitionInv' /\ SessionInv'
  BY <1>1 DEF ThreadInv, PartitionInv, SessionInv
<1> QED BY <1>2, <1>5, <1>7, <1>8 DEF ThreadInv

LEMMA StoresTyped ==
  ASSUME JavaBase, NEW c \in Client, Shape(c)
  PROVE  stores' \in [StoreNames -> [Key -> Nat]] /\ touched' \subseteq Cells
<1>1. stores \in [StoreNames -> [Key -> Nat]] /\ touched \subseteq Cells
  BY DEF JavaBase, WebTypeOK, TypeOK
<1> QED BY <1>1, WriteOne DEF Shape

LEMMA BaseNext == ASSUME JavaBase, [WebNext]_webVars PROVE JavaBase'
<1>1. CASE ConsumerStep
  <2>1. ThreadInv'
    BY <1>1, ThreadNext DEF ConsumerStep, JavaBase
  <2>2. /\ req' \in [Client -> Webs] /\ served' \in Nat /\ touched' \subseteq Cells
    BY <1>1 DEF ConsumerStep, JavaBase, WebTypeOK, Webs
  <2>3. TypeOK'
    BY <2>1, TypesAreTypeOK, PTL DEF ThreadInv
  <2> QED BY <2>1, <2>2, <2>3 DEF JavaBase, WebTypeOK, Webs
<1>2. ASSUME NEW c \in Client, WebStep(c) PROVE JavaBase'
  <2>1. Shape(c)
    BY <1>2, WebStepShape
  <2>2. ThreadInv'
    BY <2>1, StoresTyped, BesideKeeps DEF JavaBase, Shape
  <2>3. TypeOK'
    BY <2>2, TypesAreTypeOK, PTL DEF ThreadInv
  <2> QED BY <2>1, <2>2, <2>3, StoresTyped
          DEF JavaBase, WebTypeOK, Shape, Beside, Moves, Webs
<1>3. CASE UNCHANGED webVars
  <2>1. ThreadInv'
    BY <1>3, ThreadNext DEF webVars, JavaBase
  <2>2. TypeOK'
    BY <2>1, TypesAreTypeOK, PTL DEF ThreadInv
  <2> QED BY <1>3, <2>1, <2>2 DEF JavaBase, WebTypeOK, webVars
<1> QED BY <1>1, <1>2, <1>3 DEF WebNext

LEMMA BaseInit == WebInit => JavaBase
<1> SUFFICES ASSUME WebInit PROVE JavaBase
  OBVIOUS
<1>1. ThreadInv
  BY ThreadInit DEF WebInit
<1>2. TypeOK
  BY <1>1, TypesAreTypeOK DEF ThreadInv
<1> QED BY <1>1, <1>2 DEF JavaBase, WebTypeOK, WebInit

LEMMA BaseAlways == WebSpec => []JavaBase
BY BaseInit, BaseNext, PTL DEF WebSpec

(* Nothing the handlers write, read or answer leaves its type, whatever    *)
(* the consumer thread and the process do meanwhile.                       *)
THEOREM WebTypeCorrect == WebSpec => []WebTypeOK
<1>1. JavaBase => WebTypeOK
  BY DEF JavaBase
<1> QED BY <1>1, BaseAlways, PTL

----------------------------------------------------------------------------
(* Cells that no handler has written follow the topic.                     *)

(* The cell a step of the consumer writes is the one of its record.        *)
LEMMA WroteOne ==
  ASSUME ThreadInv, Next, NEW s \in StoreNames, NEW k \in Key,
         <<s, k>> \in ConsumerWrote
  PROVE  /\ PutOk \/ RemoveOk
         /\ PutOk => s = Target /\ k = InHand.key
         /\ RemoveOk => s = Current /\ k = InHand.key
<1>1. removed \in Nat
  BY StorePlaces DEF ThreadInv, Types
<1>2. CASE thread = "putting" /\ thread' = "processing" /\ applied' # applied
           /\ s = Target /\ k = InHand.key
  <2>1. PutOk
    BY <1>2
    DEF Next, Produce, Take, Assign, Revoke, AutoCommit, Poll, FetchOk, FetchErr,
        PutErr, GiveUp, RemoveOk, RemoveErr, PollErr, End, EndBatch,
         EndOffsets, CheckLag,
        SkipLag, Boot, Destroy, Crash
  <2>2. ~RemoveOk
    BY <1>2 DEF RemoveOk
  <2> QED BY <1>2, <2>1, <2>2
<1>3. CASE thread = "removing" /\ (removed' > removed \/ thread' = "processing")
           /\ s = Current /\ k = InHand.key
  <2>1. removed' # removed \/ thread' # thread
    BY <1>1, <1>3
  <2>2. ~(removed' = 0 /\ thread' # "processing")
    BY <1>1, <1>3
  <2>3. RemoveOk
    BY <1>3, <2>1, <2>2
    DEF Next, Produce, Take, Assign, Revoke, AutoCommit, Poll, FetchOk, FetchErr,
        PutOk, PutErr, RemoveErr, PollErr, End, EndBatch,
         EndOffsets, CheckLag,
        SkipLag, Boot, Destroy, Crash
  <2>4. ~PutOk
    BY <1>3 DEF PutOk
  <2> QED BY <1>3, <2>3, <2>4
<1> QED BY <1>2, <1>3 DEF ConsumerWrote

(* The record of a put touches one cell, that of a remove one of each      *)
(* store, and a record that is finished without either touches none.       *)
LEMMA HandTouches ==
  ASSUME ThreadInv, thread \in {"putting", "removing"},
         NEW s \in StoreNames, NEW k \in Key, PartitionOf[k] = cur
  PROVE  NextOf(cur) \in Touching(s, k) <=>
           /\ k = InHand.key
           /\ thread = "putting" => s = Target
<1>1. /\ NextOf(cur) \in 1..Len(log[cur]) /\ InHand = log[cur][NextOf(cur)]
      /\ HasKey(InHand)
  BY HandFacts DEF ThreadInv, TaskInv, Busy
<1>2. /\ thread = "putting" => InHand.kind = "update"
      /\ thread = "removing" => InHand.kind = "tombstone"
  BY DEF ThreadInv, TaskInv
<1> QED BY <1>1, <1>2 DEF Touching, Touches, Target

LEMMA PassedTouches ==
  ASSUME ThreadInv, NEW p \in Partition, NextOf(p) <= position[p], Finish(p),
         Take(p) \/ (FetchOk /\ p = cur),
         NEW s \in StoreNames, NEW k \in Key, PartitionOf[k] = p
  PROVE  NextOf(p) \notin Touching(s, k)
<1>1. /\ NextOf(p) \in 1..Len(log[p]) /\ Incoming(p) = log[p][NextOf(p)]
      /\ k # NoKey /\ s # Unrouted
  BY NextFacts DEF ThreadInv
<1>2. thread' = "processing"
  BY DEF Finish, Next1
<1>3. Route(p) => StoreOf[Incoming(p).schema] = Unrouted \/ Incoming(p).key = NoKey
  BY <1>2 DEF Route, Block
<1>4. CASE Take(p)
  BY <1>1, <1>2, <1>3, <1>4 DEF Take, Block, Touching, Touches
<1>5. CASE FetchOk /\ p = cur
  <2>1. InHand = Incoming(p) /\ InHand.kind = "update" /\ Route(p)
    BY <1>5 DEF FetchOk, ThreadInv, TaskInv, InHand
  <2> QED BY <1>1, <1>3, <2>1 DEF Touching, Touches
<1> QED BY <1>4, <1>5

(* Every cell follows the topic after a step of the consumer, if it did    *)
(* before or the step has written it.                                      *)
LEMMA FollowsNext ==
  ASSUME ThreadInv, Next, assigned', NEW s \in StoreNames, NEW k \in Key,
         (assigned => Follows(s, k)) \/ <<s, k>> \in ConsumerWrote
  PROVE  Follows(s, k)'
<1> DEFINE p == PartitionOf[k]
<1>0. /\ [Next]_vars /\ p \in Partition /\ stores \in [StoreNames -> [Key -> Nat]]
      /\ StoreTypes /\ ReadInv
  BY DEF ThreadInv, Types, StoreTypes
<1>1. \A o \in Settled(s, k) : thread # "removing" => o <= read[p]
  BY SettledFacts
<1>2. ~(PutOk \/ RemoveOk) => (assigned => Follows(s, k))
  BY WroteOne
<1>3. CASE Assign
  <2>1. applied' = {} /\ thread' # "removing"
    BY <1>3 DEF Assign, ThreadInv, SessionInv
  <2>2. Settled(s, k)' = {}
    BY <2>1 DEF Settled
  <2> QED BY <2>2 DEF Follows, Latest
<1>4. CASE Revoke \/ RemoveErr \/ PollErr \/ Crash
  <2>1. ~assigned'
    BY <1>4 DEF Revoke, RemoveErr, PollErr, End, Crash, Unassign
  <2> QED BY <2>1
<1>5. CASE \/ \E q \in Partition, m \in Traffic : Produce(q, m)
           \/ AutoCommit \/ Poll \/ EndBatch \/ EndOffsets \/ CheckLag \/ SkipLag \/ Boot
           \/ Destroy
  <2>1. /\ UNCHANGED <<applied, stores, assigned>> /\ ~(PutOk \/ RemoveOk)
        /\ \/ thread # "removing" /\ thread' # "removing"
           \/ UNCHANGED <<thread, cur, removed, read>>
    <3>1. UNCHANGED <<applied, stores, assigned>>
      BY <1>5 DEF Produce, AutoCommit, Poll, EndBatch, EndOffsets, CheckLag, SkipLag, Boot, Destroy
    <3>2. \/ thread # "removing" /\ thread' # "removing"
          \/ UNCHANGED <<thread, cur, removed, read>>
      BY <1>5 DEF Produce, AutoCommit, Poll, EndBatch, EndOffsets, CheckLag, SkipLag, Boot, Destroy
    <3>3. ~PutOk /\ ~RemoveOk
      <4>1. PutOk => thread = "putting" /\ thread' = "processing"
        BY DEF PutOk, Finish, Next1
      <4>2. RemoveOk => thread = "removing" /\ (removed' # removed \/ thread' # thread)
        <5>1. RemoveOk => thread = "removing"
          BY DEF RemoveOk
        <5>2. RemoveOk => thread' = "processing" \/ removed' = removed + 1
          BY DEF RemoveOk, Finish, Next1
        <5>3. removed + 1 # removed
          BY StorePlaces DEF ThreadInv, Types
        <5> QED BY <5>1, <5>2, <5>3
      <4> QED BY <1>5, <4>1, <4>2
              DEF Produce, AutoCommit, Poll, EndBatch, EndOffsets, CheckLag, SkipLag, Boot, Destroy
    <3> QED BY <3>1, <3>2, <3>3
  <2>2. SameSettled(s, k)
    BY <1>0, <2>1, SettledKept
  <2> QED BY <1>0, <1>2, <2>1, <2>2, KeptFollows
<1>6. ASSUME NEW q \in Partition, NextOf(q) <= position[q], UNCHANGED <<stores, log, assigned>>,
             Take(q) \/ (FetchOk /\ q = cur)
      PROVE  Follows(s, k)'
  <2>1. thread # "removing" /\ ~(PutOk \/ RemoveOk)
    BY <1>6 DEF Take, FetchOk, PutOk, RemoveOk
  <2>2. CASE Finish(q)
    <3>1. SameSettled(s, k)
      BY <1>6, <2>1, <2>2, SettledFinish, PassedTouches DEF SameSettled
    <3> QED BY <1>0, <1>2, <1>6, <2>1, <3>1, KeptFollows
  <2>3. CASE \E where \in Busy : Block(where, q)
    <3>1. UNCHANGED applied /\ removed' = 0
      BY <2>3 DEF Block
    <3>2. SameSettled(s, k)
      BY <1>0, <2>1, <3>1, SettledKept
    <3> QED BY <1>0, <1>2, <1>6, <2>1, <3>2, KeptFollows
  <2> QED BY <1>6, <2>2, <2>3, RecordCases DEF Busy
<1>7. CASE \E q \in Partition : Take(q)
  BY <1>6, <1>7 DEF Take
<1>8. CASE FetchOk
  <2>1. cur \in Partition /\ NextOf(cur) <= position[cur]
    BY <1>8, HandFacts DEF FetchOk, Busy
  <2> QED BY <1>6, <1>8, <2>1 DEF FetchOk
<1>9. CASE FetchErr
  <2>1. /\ UNCHANGED <<applied, stores, assigned>> /\ ~(PutOk \/ RemoveOk)
        /\ thread # "removing" /\ thread' # "removing"
    BY <1>9 DEF FetchErr, GiveUp, Next1, PutOk, RemoveOk
  <2>2. SameSettled(s, k)
    BY <1>0, <2>1, SettledKept
  <2> QED BY <1>0, <1>2, <2>1, <2>2, KeptFollows
<1>10. CASE PutOk \/ PutErr \/ RemoveOk
  <2>1. /\ thread \in {"putting", "removing"} /\ thread \in Busy
        /\ UNCHANGED <<log, assigned>> /\ assigned
    BY <1>10, HandFacts DEF PutOk, PutErr, RemoveOk, Busy
  <2>2. PICK n \in Nat :
          /\ n = NextOf(cur) /\ cur \in Partition /\ n \in 1..Len(log[cur])
          /\ read[cur] \in Nat /\ n = read[cur] + 1 /\ InHand = log[cur][n]
    BY <2>1, HandFacts
  <2>3. /\ thread = "putting" => InHand.kind = "update"
        /\ thread = "removing" => InHand.kind = "tombstone"
        /\ HasKey(InHand) /\ InHand.key \in Key /\ PartitionOf[InHand.key] = cur
    BY <2>1, HandFacts DEF ThreadInv, TaskInv
  <2>4. /\ Touching(s, k)' = Touching(s, k)
        /\ Effect(p, n)' = Effect(p, n)
    BY <2>1 DEF Touching, Effect
  <2>5. \A o \in Settled(s, k) : o \in Nat /\ (p = cur => o <= n)
    <3>1. ASSUME NEW o \in Settled(s, k), p = cur PROVE o <= n
      <4>1. o <= read[cur] \/ o = NextOf(cur)
        BY <3>1, SettledFacts
      <4>2. o \in Nat
        BY SettledFacts
      <4> QED BY <2>2, <4>1, <4>2
    <3> QED BY <3>1, SettledFacts
  <2>6. /\ thread = "putting" => Effect(cur, n) = n
        /\ thread = "removing" => Effect(cur, n) = Absent
    BY <2>2, <2>3 DEF Effect
  <2>7. <<s, k>> \notin ConsumerWrote => Follows(s, k)
    BY <2>1
  <2>8. p = cur => (n \in Touching(s, k) <=>
                      k = InHand.key /\ (thread = "putting" => s = Target))
    <3>1. thread \in {"putting", "removing"} BY <2>1
    <3>2. n = NextOf(cur) BY <2>2
    <3> QED BY <3>1, <3>2, HandTouches
  <2>9. /\ thread = "putting" => Target \in StoreNames
        /\ thread = "removing" => Current \in StoreNames
    BY WhereTo
  <2>10. /\ s \in StoreNames /\ k \in Key /\ Absent \in Nat
         /\ thread = "putting" => Write(Target, n)[s][k] =
              IF s = Target /\ k = InHand.key THEN n ELSE stores[s][k]
         /\ thread = "removing" => Write(Current, Absent)[s][k] =
              IF s = Current /\ k = InHand.key THEN Absent ELSE stores[s][k]
    <3>1. Absent \in Nat
      BY DEF Absent
    <3>2. ASSUME thread = "putting"
          PROVE  Write(Target, n)[s][k] =
                   IF s = Target /\ k = InHand.key THEN n ELSE stores[s][k]
      <4>1. Target \in StoreNames /\ InHand.key \in Key
        BY <2>3, <2>9, <3>2
      <4>2. StoreTypes /\ n \in Nat
        BY <1>0, <2>2
      <4>3. \A s1 \in StoreNames, k1 \in Key :
              Write(Target, n)[s1][k1] =
                IF s1 = Target /\ k1 = InHand.key THEN n ELSE stores[s1][k1]
        BY <4>1, <4>2, WriteFacts
      <4> QED BY <4>3
    <3>3. ASSUME thread = "removing"
          PROVE  Write(Current, Absent)[s][k] =
                   IF s = Current /\ k = InHand.key THEN Absent ELSE stores[s][k]
      <4>1. Current \in StoreNames /\ InHand.key \in Key
        BY <2>3, <2>9, <3>3
      <4> QED BY <1>0, <3>1, <4>1, WriteFacts
    <3> QED BY <3>1, <3>2, <3>3
  <2>11. ASSUME n \in Settled(s, k)', n \in Touching(s, k), p = cur,
                stores'[s][k] = Effect(p, n),
                \A o \in Settled(s, k)' : o = n \/ o \in Settled(s, k)
         PROVE  Follows(s, k)'
    <3>1. \A o \in Settled(s, k)' : o \in Nat /\ o <= n
      BY <2>2, <2>5, <2>11
    <3> QED BY <2>4, <2>11, <3>1, NewestFollows
  <2>12. CASE PutErr
    <3>1. /\ thread = "putting" /\ GiveUp(cur) /\ thread' # "removing"
          /\ UNCHANGED applied
          /\ stores' \in {stores, Write(Target, n)}
      BY <2>2, <2>12 DEF PutErr, GiveUp, Next1, Failing
    <3>2. SameSettled(s, k)
      BY <1>0, <3>1, SettledKept
    <3>3. CASE stores'[s][k] = stores[s][k]
      <4>1. <<s, k>> \notin ConsumerWrote
        BY <3>1 DEF ConsumerWrote
      <4> QED BY <1>0, <2>7, <3>2, <3>3, <4>1, KeptFollows
    <3>4. CASE stores'[s][k] # stores[s][k]
      <4>1. s = Target /\ k = InHand.key
        BY <2>10, <3>1, <3>4
      <4>2. n \in Touching(s, k)' /\ p = cur
        BY <2>3, <2>4, <2>8, <4>1
      <4>3. <<p, n>> \in dropped'
        BY <2>2, <3>1, <4>2 DEF GiveUp
      <4>4. \A o \in Settled(s, k)' : o < n
        <5>1. \A o \in Settled(s, k) : o \in Nat /\ o <= read[cur]
          BY <1>1, <3>1, <4>2, SettledFacts
        <5> QED BY <2>2, <3>2, <5>1 DEF SameSettled
      <4> QED BY <4>2, <4>3, <4>4, DroppedFollows
    <3> QED BY <3>3, <3>4
  <2>13. CASE PutOk
    <3>1. /\ thread = "putting" /\ Finish(cur) /\ thread # "removing"
          /\ stores' = Write(Target, n)
      BY <2>2, <2>13 DEF PutOk
    <3>2. \A o : o \in Settled(s, k)' <=>
            o \in Settled(s, k) \/ (p = cur /\ o = n /\ o \in Touching(s, k))
      BY <2>1, <2>2, <3>1, SettledFinish
    <3>3. CASE s = Target /\ k = InHand.key
      BY <2>3, <2>6, <2>8, <2>10, <2>11, <3>1, <3>2, <3>3
    <3>4. CASE ~(s = Target /\ k = InHand.key)
      <4>1. SameSettled(s, k)
        BY <2>8, <3>1, <3>2, <3>4 DEF SameSettled
      <4>2. Follows(s, k)
        BY <2>7, <2>13, <3>4, WroteOne
      <4> QED BY <1>0, <2>10, <3>1, <3>4, <4>1, <4>2, KeptFollows
    <3> QED BY <3>3, <3>4
  <2>14. CASE RemoveOk
    <3>1. thread = "removing" /\ stores' = Write(Current, Absent)
      BY <2>14 DEF RemoveOk
    <3>2. CASE k # InHand.key
      <4>1. ASSUME NEW o PROVE o \in Settled(s, k)' <=> o \in Settled(s, k)
        <5>1. p = cur => n \notin Touching(s, k)
          BY <2>8, <3>2
        <5>2. \/ applied' = applied /\ UNCHANGED <<thread, cur, read>>
              \/ applied' = applied \cup {<<cur, n>>} /\ thread' = "processing"
          BY <2>2, <2>14 DEF RemoveOk, Finish, Next1
        <5>3. CASE applied' = applied /\ UNCHANGED <<thread, cur, read>>
          BY <2>2, <2>4, <3>1, <5>1, <5>3 DEF Settled, NextOf
        <5>4. CASE applied' = applied \cup {<<cur, n>>} /\ thread' = "processing"
          BY <2>2, <2>4, <3>1, <5>1, <5>4 DEF Settled
        <5> QED BY <5>2, <5>3, <5>4
      <4>2. Follows(s, k)
        BY <2>7, <2>14, <3>2, WroteOne
      <4> QED BY <1>0, <2>10, <3>1, <3>2, <4>1, <4>2, KeptFollows DEF SameSettled
    <3>3. CASE k = InHand.key
      <4>1. p = cur /\ n \in Touching(s, k)
        BY <2>3, <2>8, <3>1, <3>3
      <4>2. CASE Finish(cur)
        <5>1. applied' = applied \cup {<<cur, n>>} /\ thread' = "processing"
          BY <2>2, <4>2 DEF Finish, Next1
        <5>2. \A o : o \in Settled(s, k)' <=>
                o \in Touching(s, k) /\ (<<p, o>> \in applied \/ o = n)
          BY <2>4, <4>1, <5>1 DEF Settled
        <5>3. \A o \in Settled(s, k)' : o = n \/ o \in Settled(s, k)
          BY <5>2 DEF Settled
        <5>4. CASE s = Current
          BY <2>6, <2>10, <2>11, <3>1, <3>3, <4>1, <5>2, <5>3, <5>4
        <5>5. CASE s # Current
          <6>1. Cleared(s)
            <7>1. removed + 1 = Len(StoreOrder) /\ removed \in Nat
              <8>1. removed + 1 = Len(StoreOrder) \/ thread' = thread
                BY <2>14 DEF RemoveOk
              <8> QED BY <3>1, <5>1, <8>1, StorePlaces DEF ThreadInv, Types
            <7> QED BY <5>5, <7>1, ClearedAtLast
          <6>2. n \in Settled(s, k)
            BY <2>2, <3>1, <4>1, <6>1 DEF Settled
          <6>3. \A o \in Settled(s, k) : o \in Touching(s, k) /\ (<<p, o>> \in applied \/ o = n)
            BY <2>2, <4>1 DEF Settled
          <6>4. SameSettled(s, k)
            BY <5>2, <5>3, <6>2, <6>3 DEF SameSettled
          <6>5. Follows(s, k)
            BY <2>7, <2>14, <5>5, WroteOne
          <6> QED BY <1>0, <2>10, <3>1, <5>5, <6>4, <6>5, KeptFollows
        <5> QED BY <5>4, <5>5
      <4>3. CASE removed' = removed + 1 /\ UNCHANGED <<thread, cur, read, applied>>
        <5>1. NextOf(cur)' = n
          BY <2>2, <4>3 DEF NextOf
        <5>3. Cleared(s)' <=> Cleared(s) \/ s = Current
          BY <4>3, ClearedNext
        <5>4. \A o : o \in Settled(s, k)' <=>
                o \in Touching(s, k) /\ (<<p, o>> \in applied \/ (o = n /\ Cleared(s)'))
          BY <2>4, <3>1, <4>1, <4>3, <5>1 DEF Settled
        <5>5. \A o : o \in Settled(s, k) <=>
                o \in Touching(s, k) /\ (<<p, o>> \in applied \/ (o = n /\ Cleared(s)))
          BY <2>2, <3>1, <4>1 DEF Settled
        <5>6. CASE s = Current
          BY <2>6, <2>10, <2>11, <3>1, <3>3, <4>1, <5>3, <5>4, <5>5, <5>6
        <5>7. CASE s # Current
          <6>1. SameSettled(s, k)
            BY <5>3, <5>4, <5>5, <5>7 DEF SameSettled
          <6>2. Follows(s, k)
            BY <2>7, <2>14, <5>7, WroteOne
          <6> QED BY <1>0, <2>10, <3>1, <5>7, <6>1, <6>2, KeptFollows
        <5> QED BY <5>6, <5>7
      <4> QED BY <2>14, <4>2, <4>3, RecordCases
    <3> QED BY <3>2, <3>3
  <2> QED BY <1>10, <2>12, <2>13, <2>14
<1> QED
  BY <1>3, <1>4, <1>5, <1>7, <1>8, <1>9, <1>10 DEF Next

(* The handlers leave the session and every other cell as they are.        *)
LEMMA BesideFollows ==
  ASSUME Beside, NEW s \in StoreNames, NEW k \in Key,
         stores'[s][k] = stores[s][k], Follows(s, k)
  PROVE  Follows(s, k)'
<1>1. UNCHANGED <<log, thread, cur, removed, read, applied, dropped>>
  BY DEF Beside
<1>2. Settled(s, k)' = Settled(s, k)
  BY <1>1 DEF Settled, Touching, NextOf, Cleared
<1>3. \A o : /\ Effect(PartitionOf[k], o)' = Effect(PartitionOf[k], o)
             /\ Doubtful(s, k, o)' <=> Doubtful(s, k, o)
  BY <1>1 DEF Effect, Doubtful, Touching
<1> QED BY <1>2, <1>3 DEF Follows, Latest

LEMMA TouchedInit == WebInit => OnlyTouchedDiffer
BY DEF WebInit, Init, OnlyTouchedDiffer

LEMMA TouchedNext ==
  ASSUME JavaBase, OnlyTouchedDiffer, [WebNext]_webVars
  PROVE  OnlyTouchedDiffer'
<1> SUFFICES ASSUME assigned', NEW s \in StoreNames, NEW k \in Key,
                    <<s, k>> \notin touched'
             PROVE  Follows(s, k)'
  BY DEF OnlyTouchedDiffer
<1>1. CASE ConsumerStep
  <2>1. ThreadInv /\ Next /\ touched' = touched \ ConsumerWrote
    BY <1>1 DEF ConsumerStep, JavaBase
  <2>2. (assigned => Follows(s, k)) \/ <<s, k>> \in ConsumerWrote
    BY <2>1 DEF OnlyTouchedDiffer
  <2> QED BY <2>1, <2>2, FollowsNext
<1>2. ASSUME NEW c \in Client, WebStep(c) PROVE Follows(s, k)'
  <2>1. Shape(c)
    BY <1>2, WebStepShape
  <2>2. touched \subseteq touched' /\ stores'[s][k] = stores[s][k]
    BY <2>1, ShapeWrites
  <2>3. Follows(s, k)
    BY <2>1, <2>2 DEF Shape, Beside, OnlyTouchedDiffer
  <2> QED BY <2>1, <2>2, <2>3, BesideFollows DEF Shape
<1>3. CASE UNCHANGED webVars
  <2>1. /\ ThreadInv /\ [Next]_vars /\ UNCHANGED <<applied, thread, cur, removed, read>>
        /\ stores' = stores /\ Follows(s, k)
    BY <1>3 DEF webVars, vars, JavaBase, OnlyTouchedDiffer
  <2>2. SameSettled(s, k)
    BY <2>1, SettledKept
  <2> QED BY <2>1, <2>2, KeptFollows
<1> QED BY <1>1, <1>2, <1>3 DEF WebNext

(* A cell that no handler has written since the consumer last did holds    *)
(* what the latest record of the session applied to it says, in the middle *)
(* of a tombstone's round through the stores as well, unless a later       *)
(* record failed half-way: for any stores, topics, clients and failures.   *)
THEOREM TouchedOnly == WebSpec => []OnlyTouchedDiffer
<1>1. WebInit => OnlyTouchedDiffer
  BY TouchedInit
<1>2. JavaBase /\ OnlyTouchedDiffer /\ [WebNext]_webVars => OnlyTouchedDiffer'
  BY TouchedNext
<1> QED BY <1>1, <1>2, BaseAlways, PTL DEF WebSpec

----------------------------------------------------------------------------
(* What a handler reads is a record whose schema it gets.                  *)

(* A record of the topic stays one.                                        *)
LEMMA RecordKept ==
  ASSUME ThreadInv, [Next]_vars, NEW s \in StoreNames, NEW k \in Key, NEW v,
         IsRecord(s, k, v)
  PROVE  /\ IsRecord(s, k, v)'
         /\ schema_cache \subseteq schema_cache' /\ Cached(k, v) => Cached(k, v)'
         /\ log[PartitionOf[k]][v].schema \in Schema
<1>1. v \in 1..Len(log[PartitionOf[k]]) /\ PartitionOf[k] \in Partition
  BY PastKept DEF IsRecord
<1>2. log'[PartitionOf[k]][v] = log[PartitionOf[k]][v]
  BY <1>1, LogKept
<1>3. log[PartitionOf[k]] \in Seq(Message)
  BY <1>1 DEF ThreadInv, Types, OffsetTypes
<1>4. log[PartitionOf[k]][v] \in Message
  BY <1>1, <1>3
<1>5. log[PartitionOf[k]][v].schema \in Schema
  BY <1>4 DEF IsRecord, Message
<1> QED BY <1>1, <1>2, <1>5, PastKept DEF IsRecord, Cached

LEMMA RecordBeside ==
  ASSUME Beside, NEW s, NEW k, NEW v, IsRecord(s, k, v)
  PROVE  IsRecord(s, k, v)' /\ (Cached(k, v) => Cached(k, v)')
BY DEF Beside, IsRecord, Touching, Cached

(* The record of a put is one, and its schema is cached.                   *)
LEMMA PutIsRecord ==
  ASSUME ThreadInv, thread = "putting"
  PROVE  /\ IsRecord(Target, InHand.key, NextOf(cur))
         /\ Cached(InHand.key, NextOf(cur))
<1>1. /\ NextOf(cur) \in 1..Len(log[cur]) /\ InHand = log[cur][NextOf(cur)]
      /\ HasKey(InHand) => InHand.key \in Key /\ PartitionOf[InHand.key] = cur
  BY HandFacts DEF Busy
<1>2. /\ InHand.kind = "update" /\ HasKey(InHand) /\ InHand.schema \in schema_cache
      /\ Target \in StoreNames
  BY WhereTo DEF ThreadInv, TaskInv
<1> QED BY <1>1, <1>2, HandTouches DEF IsRecord, Cached

(* CellInv of one cell and HandInv of one client.                          *)
CellOK(s, k, v) ==
  v \notin Body \cup {Absent} => IsRecord(s, k, v) /\ (s \in InMemory => Cached(k, v))
HandOK(c) ==
  Holds(c) => /\ IsRecord(req[c].store, req[c].key, req[c].value)
              /\ req[c].store \in InMemory =>
                   req[c].stage = "read" /\ Cached(req[c].key, req[c].value)

LEMMA CellNext ==
  ASSUME ThreadInv, [Next]_vars, NEW s \in StoreNames, NEW k \in Key, NEW w, w = stores'[s][k],
         CellOK(s, k, stores[s][k])
  PROVE  CellOK(s, k, w)'
<1> SUFFICES ASSUME w \notin Body \cup {Absent}
             PROVE  IsRecord(s, k, w)' /\ (s \in InMemory => Cached(k, w)')
  BY DEF CellOK
<1>1. w = stores[s][k] \/ PutsIn(s, k)
  BY CellSteps DEF RemovesFrom
<1>2. IsRecord(s, k, w) /\ (s \in InMemory => Cached(k, w))
  <2>1. CASE w = stores[s][k]
    BY <2>1 DEF CellOK
  <2>2. CASE PutsIn(s, k)
    BY <2>2, PutIsRecord DEF PutsIn
  <2> QED BY <1>1, <2>1, <2>2
<1>3. s \in InMemory => schema_cache \subseteq schema_cache'
  BY CacheKept, CellSteps
<1> QED BY <1>2, <1>3, RecordKept

(* A handler that holds a value after a step of its own has just read it,  *)
(* or has just found that its schema is not cached.                        *)
LEMMA HoldsAfter ==
  ASSUME JavaBase, NEW c \in Client, WebStep(c), Holds(c)'
  PROVE  \/ /\ GetHit(c)
            /\ req'[c] = [req[c] EXCEPT !.stage = "read", !.value = Cell(c)]
         \/ /\ Lookup(c) /\ In(c, "get", "read") /\ SchemaOf(c) \notin schema_cache
            /\ req'[c] = [req[c] EXCEPT !.stage = "fetching"]
<1>0. WebTypeOK /\ req'[c].op = "get" /\ req'[c].stage # "called"
  BY DEF JavaBase, Holds
<1>1. ASSUME NEW a \in Answers, Answer(c, a) PROVE FALSE
  <2>1. req'[c] = [op |-> "answered", answer |-> a]
    BY <1>0, <1>1, AnswerMoves
  <2> QED BY <1>0, <2>1
<1>2. ASSUME NEW r \in Routes, NEW op \in Operation, NEW k \in Key,
             NEW b \in Body \cup {Absent}, Request(c, r, op, k, b)
      PROVE  FALSE
  BY <1>0, <1>2, RequestMoves
<1>3. ASSUME NEW r \in Routes, NoKeyInBody(c, r) PROVE FALSE
  BY <1>1, <1>3 DEF NoKeyInBody, Answers
<1>4. ASSUME GetMiss(c) \/ FetchKnown(c) \/ FetchRefused(c) \/ PostInvalid(c)
             \/ Post(c) \/ Delete(c) \/ StoreError(c)
      PROVE  FALSE
  <2>1. \E a \in Answers : Answer(c, a)
    BY <1>4 DEF GetMiss, FetchKnown, FetchRefused, PostInvalid, Post, Delete,
                StoreError, Decoded, Answers
  <2> QED BY <1>1, <2>1
<1>5. ~Receipt(c)
  BY <1>0 DEF Receipt, WebTypeOK, NoRequest
<1>6. CASE GetHit(c)
  BY <1>6, HitMoves
<1>7. CASE Lookup(c)
  <2>1. ASSUME SchemaOf(c) \in schema_cache PROVE FALSE
    <3>1. \E a \in Answers : Answer(c, a)
      BY <1>7, <2>1 DEF Lookup, Decoded, Answers
    <3> QED BY <1>1, <3>1
  <2>2. Stage(c, "fetching") /\ In(c, "get", "read")
    BY <1>7, <2>1 DEF Lookup
  <2> QED BY <1>0, <1>7, <2>1, <2>2, StageMoves
<1> QED BY <1>2, <1>3, <1>4, <1>5, <1>6, <1>7 DEF WebStep

ReadableInv == CellInv /\ HandInv

LEMMA CellsAreOK ==
  /\ CellInv <=> \A s \in StoreNames, k \in Key : CellOK(s, k, stores[s][k])
  /\ HandInv <=> \A c \in Client : HandOK(c)
BY DEF CellInv, CellOK, HandInv, HandOK

LEMMA HandRecord ==
  ASSUME JavaBase, HandInv, NEW c \in Client, Holds(c)
  PROVE  /\ req[c].store \in StoreNames /\ req[c].key \in Key
         /\ IsRecord(req[c].store, req[c].key, req[c].value)
         /\ SchemaOf(c) = log[PartitionOf[req[c].key]][req[c].value].schema
         /\ SchemaOf(c) \in Schema
         /\ req[c].store \in InMemory =>
              req[c].stage = "read" /\ SchemaOf(c) \in schema_cache
<1>1. req[c].store \in StoreNames /\ req[c].key \in Key
  BY InFlightRequest DEF JavaBase, Holds, Operation
<1>2. /\ IsRecord(req[c].store, req[c].key, req[c].value)
      /\ req[c].store \in InMemory =>
           req[c].stage = "read" /\ Cached(req[c].key, req[c].value)
  BY DEF HandInv
<1>3. SchemaOf(c) = log[PartitionOf[req[c].key]][req[c].value].schema
  BY DEF SchemaOf, Holds
<1>4. SchemaOf(c) \in Schema
  <2>1. PICK k, v : k = req[c].key /\ v = req[c].value
    BY <1>1
  <2>2. PartitionOf[k] \in Partition /\ v \in 1..Len(log[PartitionOf[k]])
    BY <1>1, <1>2, <2>1 DEF IsRecord, Touching
  <2>3. log[PartitionOf[k]] \in Seq(Message)
    BY <2>2 DEF JavaBase, ThreadInv, Types, OffsetTypes
  <2>4. log[PartitionOf[k]][v] \in Message /\ log[PartitionOf[k]][v].kind = "update"
    BY <1>2, <2>1, <2>2, <2>3 DEF IsRecord
  <2> QED BY <1>3, <2>1, <2>4 DEF Message
<1> QED BY <1>1, <1>2, <1>3, <1>4 DEF Cached

LEMMA ReadableNext ==
  ASSUME JavaBase, ReadableInv, [WebNext]_webVars
  PROVE  ReadableInv'
<1>0. /\ ThreadInv
      /\ \A s \in StoreNames, k \in Key : CellOK(s, k, stores[s][k])
      /\ \A c \in Client : HandOK(c)
  BY CellsAreOK DEF JavaBase, ReadableInv
<1>1. ASSUME NEW c \in Client, [Next]_vars, req'[c] = req[c], UNCHANGED crashes
      PROVE  HandOK(c)'
  <2> SUFFICES ASSUME Holds(c)'
               PROVE  /\ IsRecord(req[c].store, req[c].key, req[c].value)'
                      /\ req[c].store \in InMemory =>
                           req[c].stage = "read" /\ Cached(req[c].key, req[c].value)'
    BY <1>1 DEF HandOK
  <2>1. Holds(c)
    BY <1>1 DEF Holds
  <2>2. PICK s, k, v :
          /\ s = req[c].store /\ k = req[c].key /\ v = req[c].value
          /\ s \in StoreNames /\ k \in Key
    BY <2>1, HandRecord DEF ReadableInv
  <2>3. IsRecord(s, k, v) /\ (s \in InMemory => req[c].stage = "read" /\ Cached(k, v))
    BY <1>0, <2>1, <2>2 DEF HandOK
  <2>4. schema_cache \subseteq schema_cache'
    BY <1>0, <1>1, CacheKept
  <2>5. IsRecord(s, k, v)' /\ (s \in InMemory => Cached(k, v)')
    BY <1>0, <1>1, <2>2, <2>3, <2>4, RecordKept
  <2> QED BY <1>1, <2>2, <2>3, <2>5
<1>2. CASE ConsumerStep
  <2>1. \A s \in StoreNames, k \in Key : CellOK(s, k, stores[s][k])'
    BY <1>0, <1>2, CellNext DEF ConsumerStep
  <2>2. ASSUME NEW c \in Client PROVE HandOK(c)'
    <3>1. CASE crashes' # crashes
      BY <1>2, <3>1 DEF ConsumerStep, HandOK, Holds, NoRequest
    <3>2. CASE crashes' = crashes
      BY <1>1, <1>2, <3>2 DEF ConsumerStep
    <3> QED BY <3>1, <3>2
  <2> QED BY <2>1, <2>2 DEF ReadableInv, CellInv, HandInv, CellOK, HandOK
<1>3. ASSUME NEW d \in Client, WebStep(d) PROVE ReadableInv'
  <2>1. Shape(d) /\ Beside
    BY <1>3, WebStepShape DEF Shape
  <2>2. ASSUME NEW s \in StoreNames, NEW k \in Key PROVE CellOK(s, k, stores[s][k])'
    <3>1. stores'[s][k] \in {stores[s][k]} \cup Body \cup {Absent}
      BY <1>0, <2>1, ShapeWrites
    <3>2. PICK v : v = stores'[s][k]
      OBVIOUS
    <3>3. CellOK(s, k, v)'
      BY <1>0, <2>1, <3>1, <3>2, RecordBeside DEF CellOK
    <3> QED BY <3>2, <3>3 DEF CellOK
  <2>3. ASSUME NEW c \in Client \ {d} PROVE HandOK(c)'
    <3>1. req'[c] = req[c]
      BY <2>1 DEF Shape, Moves
    <3>2. PICK s, k, v : s = req[c].store /\ k = req[c].key /\ v = req[c].value
      OBVIOUS
    <3>3. Holds(c) => IsRecord(s, k, v) /\ (s \in InMemory => req[c].stage = "read" /\ Cached(k, v))
      BY <1>0, <3>2 DEF HandOK
    <3>4. Holds(c) => IsRecord(s, k, v)' /\ (s \in InMemory => Cached(k, v)')
      BY <2>1, <3>3, RecordBeside
    <3> QED BY <3>1, <3>2, <3>3, <3>4 DEF HandOK, Holds
  <2>4. HandOK(d)'
    <3> SUFFICES ASSUME Holds(d)'
                 PROVE  /\ IsRecord(req[d].store, req[d].key, req[d].value)'
                        /\ req'[d].store \in InMemory =>
                             req'[d].stage = "read" /\ Cached(req[d].key, req[d].value)'
      BY DEF HandOK
    <3>1. req[d] \in Requests
      BY <1>3, HoldsAfter, InFlightRequest DEF JavaBase, GetHit, In, Operation
    <3>2. PICK s \in StoreNames, k \in Key : s = req[d].store /\ k = req[d].key
      BY <3>1 DEF Requests
    <3>3. CASE GetHit(d) /\ req'[d] = [req[d] EXCEPT !.stage = "read", !.value = Cell(d)]
      <4>1. PICK v : v = Cell(d)
        OBVIOUS
      <4>2. req'[d].store = s /\ req'[d].key = k /\ req'[d].value = v /\ req'[d].stage = "read"
        BY <3>1, <3>2, <3>3, <4>1 DEF Requests
      <4>3. v # Absent /\ v \notin Body /\ v = stores[s][k]
        BY <3>2, <3>3, <4>1, <4>2 DEF GetHit, Holds, Cell
      <4>4. IsRecord(s, k, v) /\ (s \in InMemory => Cached(k, v))
        BY <1>0, <4>3 DEF CellOK
      <4>5. IsRecord(s, k, v)' /\ (s \in InMemory => Cached(k, v)')
        BY <2>1, <4>4, RecordBeside
      <4> QED BY <4>2, <4>5
    <3>4. CASE /\ Lookup(d) /\ In(d, "get", "read") /\ SchemaOf(d) \notin schema_cache
               /\ req'[d] = [req[d] EXCEPT !.stage = "fetching"]
      <4>1. PICK v : v = req[d].value
        OBVIOUS
      <4>2. req'[d].store = s /\ req'[d].key = k /\ req'[d].value = v
        BY <3>1, <3>2, <3>4, <4>1 DEF Requests
      <4>3. Holds(d)
        BY <3>4, <4>1, <4>2 DEF In, Holds
      <4>4. IsRecord(s, k, v) /\ s \notin InMemory
        BY <3>2, <3>4, <4>1, <4>3, HandRecord DEF ReadableInv
      <4>5. IsRecord(s, k, v)'
        BY <2>1, <4>4, RecordBeside
      <4> QED BY <4>2, <4>4, <4>5
    <3> QED BY <1>3, <3>3, <3>4, HoldsAfter
  <2> QED BY <2>2, <2>3, <2>4 DEF ReadableInv, CellInv, HandInv, CellOK, HandOK
<1>4. CASE UNCHANGED webVars
  <2>1. [Next]_vars /\ UNCHANGED <<stores, req, crashes>>
    BY <1>4 DEF webVars, vars
  <2>2. \A s \in StoreNames, k \in Key : CellOK(s, k, stores[s][k])'
    BY <1>0, <2>1, CellNext
  <2>3. \A c \in Client : HandOK(c)'
    BY <1>1, <2>1
  <2> QED BY <2>2, <2>3 DEF ReadableInv, CellInv, HandInv, CellOK, HandOK
<1> QED BY <1>2, <1>3, <1>4 DEF WebNext

LEMMA ReadableInit == WebInit => ReadableInv
BY DEF WebInit, Init, ReadableInv, CellInv, HandInv, Holds, NoRequest

(* A GET that has read a record is refused only after a call has failed,   *)
(* and never if its store is in memory: for any schemas, clients and       *)
(* stores, whatever the process and the thread do between its two reads.   *)
THEOREM RecordsAreReadable == WebSpec => RecordsReadable
<1>1. ASSUME JavaBase, HandInv, [WebNext]_webVars
      PROVE  [\A c \in Client :
                Refusing(c) => faults' > 0 /\ req[c].store \notin InMemory]_webVars
  <2> SUFFICES ASSUME WebNext, NEW c \in Client, Refusing(c)
               PROVE  faults' > 0 /\ req[c].store \notin InMemory
    BY <1>1
  <2>0. /\ WebTypeOK /\ req[c].op = "get" /\ req[c].stage # "called"
        /\ req'[c].op = "answered" /\ req'[c].answer = "no_schema"
        /\ req[c].value \notin Body
    BY <1>1 DEF JavaBase, Refusing
  <2>1. Holds(c)
    <3>1. req[c] \in Requests
      BY <2>0, InFlightRequest DEF Operation
    <3> QED BY <2>0, <3>1 DEF Holds, Requests
  <2>2. ASSUME ConsumerStep PROVE FALSE
    BY <2>0, <2>2 DEF ConsumerStep, NoRequest
  <2>3. ASSUME NEW d \in Client \ {c}, WebStep(d) PROVE FALSE
    <3>1. req'[c] = req[c]
      BY <1>1, <2>3, WebStepShape DEF Shape, Moves
    <3> QED BY <2>0, <3>1
  <2>4. ASSUME NEW a \in {"ok", "error"}, Answer(c, a) PROVE FALSE
    BY <2>0, <2>4, AnswerMoves DEF Answers
  <2>5. CASE WebStep(c)
    <3>1. ~GetMiss(c) /\ ~GetHit(c) /\ ~PostInvalid(c) /\ ~Post(c) /\ ~Delete(c)
          /\ ~StoreError(c) /\ ~Receipt(c)
      BY <2>0 DEF GetMiss, GetHit, PostInvalid, Post, Delete, StoreError, Receipt, In
    <3>2. ASSUME NEW r \in Routes, Accept(c, r) PROVE FALSE
      BY <2>0, <3>2 DEF Accept, NoRequest
    <3>3. ~Lookup(c)
      <4>1. ASSUME Stage(c, "fetching"), In(c, "get", "read") PROVE FALSE
        <5>1. req'[c] = [req[c] EXCEPT !.stage = "fetching"] /\ req[c] \in Requests
          BY <2>0, <4>1, StageMoves, InFlightRequest DEF Operation
        <5> QED BY <2>0, <5>1 DEF Requests
      <4> QED BY <2>4, <4>1 DEF Lookup, Decoded
    <3>4. ~FetchKnown(c)
      BY <2>4 DEF FetchKnown, Decoded
    <3>5. FetchRefused(c)
      BY <2>5, <3>1, <3>2, <3>3, <3>4 DEF WebStep, Request, NoKeyInBody
    <3>6. SchemaOf(c) \notin Unknown /\ req[c].store \notin InMemory
      BY <1>1, <2>1, <3>5, HandRecord DEF FetchRefused, In
    <3>7. faults \in Nat /\ faults' = faults + 1
      BY <1>1, <3>5, <3>6
      DEF FetchRefused, Fault, JavaBase, ThreadInv, Types, StoreTypes
    <3> QED BY <3>6, <3>7
  <2> QED BY <2>2, <2>3, <2>5 DEF WebNext
<1>2. WebSpec => []HandInv
  <2>1. JavaBase /\ ReadableInv /\ [WebNext]_webVars => ReadableInv'
    BY ReadableNext
  <2>2. ReadableInv => HandInv
    BY DEF ReadableInv
  <2> QED BY <2>1, <2>2, ReadableInit, BaseAlways, PTL DEF WebSpec
<1> QED BY <1>1, <1>2, BaseAlways, PTL DEF WebSpec, RecordsReadable

----------------------------------------------------------------------------
(* The databases are behind the group's offsets by dropped and abandoned   *)
(* records only.                                                           *)

LEMMA BroughtBounds ==
  ASSUME ThreadInv, NEW s \in StoreNames, NEW k \in Key
  PROVE  /\ Brought(s, k) \in Int /\ Brought(s, k) <= Len(log[PartitionOf[k]])
         /\ ResumesAfter(PartitionOf[k]) \in Int
         /\ ResumesAfter(PartitionOf[k]) <= Brought(s, k)
         /\ ~assigned => Brought(s, k) = ResumesAfter(PartitionOf[k])
         /\ assigned => /\ read[PartitionOf[k]] <= Brought(s, k)
                        /\ Brought(s, k) <= read[PartitionOf[k]] + 1
         /\ assigned /\ ~(thread = "removing" /\ cur = PartitionOf[k])
              => Brought(s, k) = read[PartitionOf[k]]
<1> DEFINE p == PartitionOf[k]
<1>1. /\ p \in Partition /\ Len(log[p]) \in Nat /\ read[p] \in Nat /\ read[p] <= Len(log[p])
      /\ committed[p] \in Int /\ committed[p] <= Len(log[p])
  <2>1. p \in Partition
    OBVIOUS
  <2> QED BY <2>1, OffsetsAreNat DEF ThreadInv, ReadInv, PartitionOK
<1>2. assigned /\ ~ForceResetEarliest => committed[p] <= read[p]
  BY <1>1 DEF ThreadInv, SessionInv
<1>3. thread = "removing" /\ cur = p => read[p] + 1 <= Len(log[p])
  BY <1>1, HandFacts DEF Busy
<1> QED BY <1>1, <1>2, <1>3 DEF Brought, ResumesAfter

(* The cell is brought no further than records that do not touch it, or    *)
(* that are given up on.                                                   *)
GivenUp(k, o) == <<PartitionOf[k], o>> \in dropped \cup abandoned
StaysUp(s, k) ==
  \A o \in Touching(s, k)' :
    o <= Brought(s, k)' => o <= Brought(s, k) \/ GivenUp(k, o)'

LEMMA StillUp ==
  ASSUME ThreadInv, [Next]_vars, NEW s \in StoreNames, NEW k \in Key,
         NEW w \in {0} \cup Touching(s, k), UpToDate(s, k, w),
         stores'[s][k] = stores[s][k], StaysUp(s, k)
  PROVE  w \in {0} \cup Touching(s, k)' /\ UpToDate(s, k, w)'
<1>1. abandoned \subseteq abandoned'
  BY DEF Next, vars, Produce, Take, Assign, Revoke, AutoCommit, Poll, FetchOk, FetchErr,
         PutOk, PutErr, RemoveOk, RemoveErr, PollErr, End, EndBatch,
         EndOffsets, CheckLag,
         SkipLag, Boot, Destroy, Crash
<1>2. \A o : GivenUp(k, o) => GivenUp(k, o)'
  BY <1>1, PastKept DEF GivenUp
<1>3. stores'[s][k] = IF w = 0 THEN Absent ELSE Effect(PartitionOf[k], w)'
  <2>1. w \in Touching(s, k) => Effect(PartitionOf[k], w)' = Effect(PartitionOf[k], w)
    BY PastKept
  <2> QED BY <2>1 DEF UpToDate
<1>4. ASSUME NEW o \in Touching(s, k)', w < o, o <= Brought(s, k)'
      PROVE  GivenUp(k, o)'
  <2>1. CASE o <= Brought(s, k)
    <3>1. o \in Touching(s, k)
      <4>1. o \in 1..Len(log'[PartitionOf[k]])
        BY DEF Touching
      <4>2. o \in 1..Len(log[PartitionOf[k]])
        BY <2>1, <4>1, BroughtBounds, LogKept
      <4> QED BY <4>2, PastKept
    <3>2. GivenUp(k, o)
      BY <1>4, <2>1, <3>1 DEF UpToDate, GivenUp
    <3> QED BY <1>2, <3>2
  <2> QED BY <1>4, <2>1 DEF StaysUp
<1>5. w \in {0} \cup Touching(s, k)'
  BY PastKept
<1> QED BY <1>3, <1>4, <1>5 DEF UpToDate, GivenUp

(* A cell that a record in hand is written to is brought up to it.         *)
LEMMA WrittenUp ==
  ASSUME ThreadInv, [Next]_vars, NEW s \in StoreNames, NEW k \in Key, NEW n \in Nat,
         PartitionOf[k] = cur, thread \in {"putting", "removing"}, n = NextOf(cur),
         k = InHand.key, thread = "putting" => s = Target,
         stores'[s][k] = IF thread = "putting" THEN n ELSE Absent,
         \A o \in Touching(s, k)' : o <= Brought(s, k)' => o <= n \/ GivenUp(k, o)'
  PROVE  n \in {0} \cup Touching(s, k)' /\ UpToDate(s, k, n)'
<1>1. n \in Touching(s, k) /\ n # 0
  BY HandFacts, HandTouches DEF Busy
<1>2. /\ n \in Touching(s, k)' /\ Effect(PartitionOf[k], n)' = Effect(PartitionOf[k], n)
      /\ Touching(s, k)' \subseteq Nat
  BY <1>1, PastKept
<1>3. Effect(PartitionOf[k], n) = IF thread = "putting" THEN n ELSE Absent
  BY HandFacts DEF Effect, ThreadInv, TaskInv, Busy
<1> QED BY <1>1, <1>2, <1>3 DEF UpToDate, GivenUp

(* A step that finishes no write.                                          *)
LEMMA HorizonKept ==
  ASSUME ThreadInv, Next, NEW s \in StoreNames, NEW k \in Key, ~PutOk, ~RemoveOk
  PROVE  StaysUp(s, k)
<1> DEFINE p == PartitionOf[k]
<1>0. /\ [Next]_vars /\ p \in Partition /\ ReadInv
      /\ Brought(s, k) \in Int /\ ResumesAfter(p) \in Int
      /\ ResumesAfter(p) <= Brought(s, k)
      /\ read[p] \in Nat /\ position[p] \in Nat /\ committed[p] \in Int
      /\ Len(log[p]) \in Nat /\ MaxLog \in Nat /\ Len(log[p]) <= MaxLog
      /\ read[p] <= position[p] /\ position[p] <= Len(log[p])
  <2>1. p \in Partition /\ ReadInv
    BY DEF ThreadInv
  <2> QED BY <2>1, BroughtBounds, OffsetsAreNat DEF ReadInv, PartitionOK
<1> SUFFICES ASSUME NEW o \in Touching(s, k)', o \in Nat, 0 < o,
                    o <= Brought(s, k)', ~(o <= Brought(s, k))
             PROVE  GivenUp(k, o)'
  BY DEF StaysUp, Touching
<1>1. Brought(s, k)' # Brought(s, k)
  OBVIOUS
<1>2. CASE \/ \E q \in Partition, m \in Traffic : Produce(q, m)
           \/ Destroy
  <2>1. UNCHANGED <<committed, thread, cur, removed, read, assigned>>
    BY <1>2 DEF Produce, Destroy
  <2>2. thread = "removing" => InHand' = InHand
    BY <1>0, <2>1, InHandKept DEF Busy
  <2>3. Brought(s, k)' = Brought(s, k)
    BY <2>1, <2>2 DEF Brought, ResumesAfter, Cleared
  <2> QED BY <1>1, <2>3
<1>3. CASE AutoCommit \/ Poll \/ EndBatch \/ EndOffsets \/ CheckLag \/ SkipLag \/ Boot
  <2>1. /\ UNCHANGED <<read, assigned>> /\ thread # "removing" /\ thread' # "removing"
        /\ assigned \/ UNCHANGED committed
    BY <1>3 DEF AutoCommit, Poll, EndBatch, EndOffsets, CheckLag, SkipLag, Boot
  <2>2. Brought(s, k)' = Brought(s, k)
    BY <2>1 DEF Brought, ResumesAfter
  <2> QED BY <1>1, <2>2
<1>4. ASSUME NEW q \in Partition, NEW n, n = NextOf(q), Finish(q) \/ GiveUp(q),
             n <= position[q], thread # "removing", UNCHANGED <<log, assigned>>,
             PartitionOf[k] = q => n \notin Touching(s, k) \/ GivenUp(k, n)'
      PROVE  GivenUp(k, o)'
  <2>1. assigned /\ assigned' /\ thread' # "removing"
    BY <1>0, <1>4, NextFacts DEF Finish, GiveUp, Next1
  <2>2. Brought(s, k)' = read'[p] /\ Brought(s, k) = read[p]
    BY <1>4, <2>1 DEF Brought
  <2>3. read'[p] = IF p = q THEN read[p] + 1 ELSE read[p]
    BY <1>0, <1>4 DEF Finish, GiveUp, Next1, NextOf, ReadInv, OffsetTypes
  <2>4. p = q /\ o = n
    BY <1>0, <1>4, <2>2, <2>3 DEF NextOf
  <2>5. Touching(s, k)' = Touching(s, k)
    BY <1>4 DEF Touching
  <2> QED BY <1>4, <2>4, <2>5
<1>5. ASSUME NEW q \in Partition, NEW where \in Busy, Block(where, q), thread # "removing",
             UNCHANGED assigned, assigned
      PROVE  FALSE
  <2>1. UNCHANGED read /\ removed' = 0 /\ ~Cleared(s)'
    BY <1>5 DEF Block, Cleared
  <2>2. Brought(s, k)' = Brought(s, k)
    BY <1>5, <2>1 DEF Brought
  <2> QED BY <1>1, <2>2
<1>6. ASSUME NEW q \in Partition, Take(q) \/ (FetchOk /\ q = cur)
      PROVE  GivenUp(k, o)'
  <2>1. /\ NextOf(q) <= position[q] /\ thread # "removing"
        /\ UNCHANGED <<log, assigned>>
    BY <1>6, HandFacts DEF Take, FetchOk, Busy
  <2>2. assigned
    BY <1>0, <2>1, NextFacts
  <2>3. CASE Finish(q)
    <3>1. PartitionOf[k] = q => NextOf(q) \notin Touching(s, k)
      BY <1>6, <2>1, <2>3, PassedTouches
    <3> QED BY <1>4, <2>1, <2>3, <3>1
  <2>4. CASE \E where \in Busy : Block(where, q)
    BY <1>5, <2>1, <2>2, <2>4
  <2> QED BY <1>6, <2>3, <2>4, RecordCases DEF Busy
<1>7. CASE FetchOk
  <2>1. cur \in Partition
    BY <1>7, HandFacts DEF FetchOk, Busy
  <2> QED BY <1>6, <1>7, <2>1
<1>8. CASE FetchErr \/ PutErr
  <2>1. /\ GiveUp(cur) /\ thread # "removing" /\ UNCHANGED <<log, assigned>>
        /\ thread \in Busy
    BY <1>8 DEF FetchErr, PutErr, Busy
  <2>2. cur \in Partition /\ NextOf(cur) <= position[cur]
    BY <2>1, HandFacts
  <2>3. PICK n : n = NextOf(cur)
    OBVIOUS
  <2>4. PartitionOf[k] = cur => GivenUp(k, n)'
    BY <2>1, <2>3 DEF GiveUp, GivenUp
  <2> QED BY <1>4, <2>1, <2>2, <2>3, <2>4
<1>9. CASE RemoveErr \/ PollErr
  <2>1. End
    BY <1>9 DEF RemoveErr, PollErr
  <2>2. /\ ~assigned' /\ abandoned' = abandoned \cup Batch
        /\ committed'[p] \in {committed[p], position[p]}
        /\ committed'[p] # committed[p] => assigned
    BY <2>1 DEF End, Unassign, Commit
  <2>3. Brought(s, k)' = IF ForceResetEarliest THEN 0 ELSE committed'[p]
    BY <2>2 DEF Brought, ResumesAfter
  <2>4. ~ForceResetEarliest /\ committed'[p] = position[p] /\ committed'[p] # committed[p]
    BY <1>0, <2>2, <2>3 DEF ResumesAfter
  <2>5. read[p] <= Brought(s, k)
    BY <2>2, <2>4, BroughtBounds
  <2>6. read[p] < o /\ o <= position[p]
    BY <1>0, <2>3, <2>4, <2>5
  <2>7. <<p, o>> \in Batch
    <3>1. p \in Partition /\ o \in 1..MaxLog
      BY <1>0, <2>6
    <3> QED BY <2>6, <3>1 DEF Batch
  <2> QED BY <2>2, <2>7 DEF GivenUp
<1>10. CASE Assign
  <2>1. /\ ~assigned /\ assigned' /\ thread' # "removing" /\ read'[p] = StartOf(p)
    BY <1>0, <1>10 DEF Assign
  <2>2. Brought(s, k) = ResumesAfter(p) /\ Brought(s, k)' = StartOf(p)
    BY <2>1 DEF Brought
  <2>3. /\ ~ForceResetEarliest /\ committed[p] = -1 /\ o <= StartOf(p)
        /\ StartOf(p) \in {0, Len(log[p])}
    BY <1>0, <2>2 DEF StartOf, ResumesAfter, ReadInv, OffsetTypes
  <2>4. o \in 1..MaxLog
    BY <1>0, <2>3
  <2>5. <<p, o>> \in dropped'
    BY <1>0, <1>10, <2>3, <2>4 DEF Assign
  <2> QED BY <2>5 DEF GivenUp
<1>11. CASE Revoke
  <2>1. /\ ~assigned' /\ assigned /\ thread = "polling"
        /\ committed'[p] \in {committed[p], position[p]} /\ read[p] = position[p]
    BY <1>0, <1>11 DEF Revoke, Unassign, Commit, ReadInv, PartitionOK, Between
  <2>2. Brought(s, k)' = IF ForceResetEarliest THEN 0 ELSE committed'[p]
    BY <2>1 DEF Brought, ResumesAfter
  <2>3. Brought(s, k) = read[p]
    BY <2>1, BroughtBounds
  <2> QED BY <1>0, <2>1, <2>2, <2>3 DEF ResumesAfter
<1>12. CASE Crash
  <2>1. ~assigned' /\ UNCHANGED committed
    BY <1>12 DEF Crash, Unassign
  <2>2. Brought(s, k)' = ResumesAfter(p)
    BY <2>1 DEF Brought, ResumesAfter
  <2> QED BY <1>0, <2>2
<1> QED
  BY <1>2, <1>3, <1>6, <1>7, <1>8, <1>9, <1>10, <1>11, <1>12 DEF Next

(* A write that succeeds brings one cell up to the record in hand, and the *)
(* others are no further behind than before.                               *)
LEMMA HorizonWritten ==
  ASSUME ThreadInv, PutOk \/ RemoveOk, NEW s \in StoreNames, NEW k \in Key
  PROVE  LET written == k = InHand.key /\ s = IF thread = "putting" THEN Target ELSE Current
         IN  /\ written => PartitionOf[k] = cur /\ Brought(s, k)' <= NextOf(cur)
             /\ ~written => StaysUp(s, k)
<1> DEFINE p == PartitionOf[k]
           written == k = InHand.key /\ s = IF thread = "putting" THEN Target ELSE Current
<1>1. /\ thread \in {"putting", "removing"} /\ thread \in Busy
      /\ UNCHANGED <<log, assigned>> /\ assigned /\ assigned'
      /\ (PutOk => thread = "putting") /\ (RemoveOk => thread = "removing")
  BY HandFacts DEF PutOk, RemoveOk, Busy
<1>2. PICK n \in Nat :
        /\ n = NextOf(cur) /\ cur \in Partition /\ n \in 1..Len(log[cur])
        /\ read[cur] \in Nat /\ n = read[cur] + 1 /\ p \in Partition /\ read[p] \in Nat
  BY <1>1, HandFacts, OffsetsAreNat DEF ThreadInv, ReadInv
<1>3. HasKey(InHand) /\ InHand.key \in Key /\ PartitionOf[InHand.key] = cur
  BY <1>1, HandFacts DEF ThreadInv, TaskInv
<1>4. /\ Touching(s, k)' = Touching(s, k) /\ Touching(s, k) \subseteq Nat
      /\ p = cur => (n \in Touching(s, k) <=>
                        k = InHand.key /\ (thread = "putting" => s = Target))
      /\ Brought(s, k) \in Int /\ read[p] <= Brought(s, k)
  <2>1. Touching(s, k)' = Touching(s, k) /\ Touching(s, k) \subseteq Nat
    BY <1>1 DEF Touching
  <2>2. p = cur => (n \in Touching(s, k) <=>
                      k = InHand.key /\ (thread = "putting" => s = Target))
    BY <1>1, <1>2, HandTouches
  <2> QED BY <1>1, <2>1, <2>2, BroughtBounds
<1>5. CASE Finish(cur)
  <2>1. /\ thread' = "processing"
        /\ read'[p] = IF p = cur THEN n ELSE read[p]
    BY <1>2, <1>5 DEF Finish, Next1, ThreadInv, ReadInv, OffsetTypes
  <2>2. Brought(s, k)' = read'[p]
    BY <1>1, <2>1 DEF Brought
  <2>3. CASE written
    BY <1>2, <1>3, <2>1, <2>2, <2>3
  <2>4. CASE ~written
    <3> SUFFICES ASSUME NEW o \in Touching(s, k), o <= Brought(s, k)'
                 PROVE  o <= Brought(s, k)
      BY <1>4, <2>4 DEF StaysUp
    <3>1. CASE p = cur /\ o = n
      <4>1. k = InHand.key /\ thread = "removing" /\ s # Current
        BY <1>1, <1>4, <2>4, <3>1
      <4>2. Cleared(s)
        <5>1. RemoveOk /\ removed + 1 = Len(StoreOrder)
          <6>1. RemoveOk
            BY <1>1, <4>1 DEF PutOk
          <6>2. removed + 1 = Len(StoreOrder) \/ thread' = thread
            BY <6>1 DEF RemoveOk
          <6> QED BY <2>1, <4>1, <6>1, <6>2
        <5> QED BY <4>1, <5>1, ClearedAtLast
      <4>3. Brought(s, k) = read[p] + 1
        BY <1>1, <3>1, <4>1, <4>2 DEF Brought
      <4> QED BY <1>2, <3>1, <4>3
    <3>2. CASE ~(p = cur /\ o = n)
      BY <1>2, <1>4, <2>1, <2>2, <3>2
    <3> QED BY <3>1, <3>2
  <2> QED BY <2>3, <2>4
<1>6. CASE RemoveOk /\ removed' = removed + 1
           /\ UNCHANGED <<thread, cur, read, done, applied, dropped>>
  <2>1. InHand' = InHand /\ thread = "removing" /\ [Next]_vars
    <3>1. [Next]_vars
      BY <1>6 DEF Next
    <3> QED BY <1>1, <1>6, <3>1, InHandKept DEF RemoveOk
  <2>2. Cleared(s)' <=> Cleared(s) \/ s = Current
    BY <1>6, ClearedNext
  <2>3. written => Brought(s, k)' = n /\ p = cur
    BY <1>1, <1>2, <1>3, <1>6, <2>1, <2>2 DEF Brought
  <2>4. ~written => Brought(s, k)' = Brought(s, k)
    BY <1>1, <1>6, <2>1, <2>2 DEF Brought
  <2> QED BY <1>2, <2>3, <2>4 DEF StaysUp
<1> QED BY <1>5, <1>6, RecordCases

CellUp(s, k) == \E w \in {0} \cup Touching(s, k) : UpToDate(s, k, w)

LEMMA UpNext ==
  ASSUME ThreadInv, [Next]_vars, NEW s \in StoreNames \ InMemory, NEW k \in Key,
         CellUp(s, k)
  PROVE  CellUp(s, k)'
<1>1. PICK w \in {0} \cup Touching(s, k) : UpToDate(s, k, w)
  BY DEF CellUp
<1>2. ASSUME stores'[s][k] = stores[s][k], StaysUp(s, k) PROVE CellUp(s, k)'
  BY <1>1, <1>2, StillUp DEF CellUp
<1>3. ASSUME NEW n \in Nat, PartitionOf[k] = cur, thread \in {"putting", "removing"},
             n = NextOf(cur), k = InHand.key, thread = "putting" => s = Target,
             stores'[s][k] = IF thread = "putting" THEN n ELSE Absent,
             \A o \in Touching(s, k)' : o <= Brought(s, k)' => o <= n \/ GivenUp(k, o)'
      PROVE  CellUp(s, k)'
  BY <1>3, WrittenUp DEF CellUp
<1>4. CASE UNCHANGED vars
  <2>1. Brought(s, k)' = Brought(s, k) /\ stores'[s][k] = stores[s][k]
    BY <1>4 DEF vars, Brought, ResumesAfter, InHand, Incoming, NextOf, Cleared
  <2> QED BY <1>2, <2>1 DEF StaysUp
<1>5. CASE Next /\ ~PutOk /\ ~RemoveOk
  <2>1. StaysUp(s, k)
    BY <1>5, HorizonKept
  <2>2. CASE PutsIn(s, k) \/ RemovesFrom(s, k)
    <3>1. /\ thread \in {"putting", "removing"} /\ k = InHand.key
          /\ thread = "putting" => s = Target
          /\ stores'[s][k] = IF thread = "putting" THEN NextOf(cur) ELSE Absent
      BY <2>2 DEF PutsIn, RemovesFrom
    <3>2. PICK n \in Nat : n = NextOf(cur) /\ n = read[cur] + 1
      BY <3>1, HandFacts DEF Busy
    <3>3. PartitionOf[k] = cur /\ assigned
      BY <3>1, HandFacts DEF ThreadInv, TaskInv, Busy
    <3>4. Brought(s, k) \in Int /\ Brought(s, k) <= n
      BY <3>2, <3>3, BroughtBounds
    <3>5. \A o \in Touching(s, k)' : o <= Brought(s, k)' => o <= n \/ GivenUp(k, o)'
      <4>1. Touching(s, k)' \subseteq Nat
        BY PastKept
      <4> QED BY <2>1, <3>4, <4>1 DEF StaysUp
    <3> QED BY <1>3, <3>1, <3>2, <3>3, <3>5
  <2>3. CASE stores'[s][k] = stores[s][k]
    BY <1>2, <2>1, <2>3
  <2> QED BY <2>2, <2>3, CellSteps
<1>6. CASE PutOk \/ RemoveOk
  <2>1. /\ thread \in {"putting", "removing"} /\ thread \in Busy
        /\ (PutOk => thread = "putting") /\ (RemoveOk => thread = "removing")
    BY <1>6 DEF PutOk, RemoveOk, Busy
  <2>2. PICK n \in Nat : n = NextOf(cur) /\ n = read[cur] + 1 /\ read[cur] \in Nat
    BY <2>1, HandFacts
  <2>3. /\ n = NextOf(cur) /\ InHand.key \in Key /\ StoreTypes /\ Absent \in Nat
        /\ thread = "putting" => Target \in StoreNames
        /\ thread = "removing" => Current \in StoreNames
    BY <2>1, <2>2, WhereTo DEF ThreadInv, Types, Absent
  <2>4. /\ PutOk => stores' = Write(Target, n)
        /\ RemoveOk => stores' = Write(Current, Absent)
    BY <2>3 DEF PutOk, RemoveOk
  <2>5. PICK t \in StoreNames, v \in Nat :
          /\ t = IF thread = "putting" THEN Target ELSE Current
          /\ v = IF thread = "putting" THEN n ELSE Absent
          /\ stores' = Write(t, v)
    <3>1. CASE PutOk
      <4>1. /\ Target \in StoreNames /\ thread = "putting"
            /\ stores' = Write(Target, n)
        BY <2>1, <2>3, <2>4, <3>1
      <4> QED BY <2>2, <4>1
    <3>2. CASE RemoveOk
      <4>1. /\ Current \in StoreNames /\ thread # "putting"
            /\ stores' = Write(Current, Absent)
        BY <2>1, <2>3, <2>4, <3>2
      <4> QED BY <2>3, <4>1
    <3> QED BY <1>6, <3>1, <3>2
  <2>6. \A s1 \in StoreNames, k1 \in Key :
          Write(t, v)[s1][k1] = IF s1 = t /\ k1 = InHand.key THEN v ELSE stores[s1][k1]
    <3>1. StoreTypes /\ InHand.key \in Key
      BY <2>3
    <3> QED BY <3>1, WriteFacts
  <2>7. /\ s = t /\ k = InHand.key => PartitionOf[k] = cur /\ Brought(s, k)' <= n
        /\ ~(s = t /\ k = InHand.key) => StaysUp(s, k)
    BY <1>6, <2>2, <2>5, HorizonWritten
  <2>8. CASE s = t /\ k = InHand.key
    <3>1. stores'[s][k] = v
      BY <2>5, <2>6, <2>8
    <3>2. \A o \in Touching(s, k)' : o <= Brought(s, k)' => o <= n
      <4>1. ThreadInv' /\ Touching(s, k)' \subseteq Nat
        BY ThreadNext, PastKept
      <4>2. Brought(s, k)' \in Int
        <5>1. Finish(cur) \/ (removed' = removed + 1 /\ UNCHANGED read)
          BY <1>6, RecordCases
        <5>2. \A q \in Partition : read'[q] \in Nat /\ committed'[q] \in Int
          BY <4>1 DEF ThreadInv, Types, OffsetTypes
        <5> QED BY <5>2 DEF Brought, ResumesAfter
      <4> QED BY <2>2, <2>7, <2>8, <4>1, <4>2
    <3> QED BY <1>3, <2>1, <2>2, <2>5, <2>7, <2>8, <3>1, <3>2
  <2>9. CASE ~(s = t /\ k = InHand.key)
    <3>1. stores'[s][k] = stores[s][k]
      BY <2>5, <2>6, <2>9
    <3> QED BY <1>2, <2>7, <2>9, <3>1
  <2> QED BY <2>8, <2>9
<1> QED BY <1>4, <1>5, <1>6

LEMMA DurableNext ==
  ASSUME JavaBase, DurableInv, [WebNext]_webVars
  PROVE  DurableInv'
<1> SUFFICES ASSUME served' = 0
             PROVE  /\ \A c \in Client : req'[c] = NoRequest
                    /\ \A s \in StoreNames \ InMemory, k \in Key : CellUp(s, k)'
  BY DEF DurableInv, CellUp
<1>0. ThreadInv /\ served \in Nat /\ WebTypeOK
  BY DEF JavaBase, WebTypeOK
<1>1. (served = 0) => /\ \A c \in Client : req[c] = NoRequest
                      /\ \A s \in StoreNames \ InMemory, k \in Key : CellUp(s, k)
  BY DEF DurableInv, CellUp
<1>2. CASE ConsumerStep
  BY <1>0, <1>1, <1>2, UpNext DEF ConsumerStep
<1>3. CASE UNCHANGED webVars
  BY <1>0, <1>1, <1>3, UpNext DEF webVars
<1>4. ASSUME NEW c \in Client, WebStep(c) PROVE FALSE
  <2>1. served = 0
    BY <1>0, <1>4, WebStepShape DEF Shape, Beside
  <2>2. req[c].op = "none"
    BY <1>1, <2>1 DEF NoRequest
  <2>3. ASSUME NEW r \in Routes, Accept(c, r) PROVE FALSE
    BY <2>1, <2>3 DEF Accept
  <2> QED
    BY <1>4, <2>2, <2>3
    DEF WebStep, Request, NoKeyInBody, GetMiss, GetHit, Lookup, FetchKnown,
        FetchRefused, PostInvalid, Post, Delete, StoreError, Receipt, In, Operation
<1> QED BY <1>2, <1>3, <1>4 DEF WebNext

LEMMA DurableInit == WebInit => DurableInv
<1> SUFFICES ASSUME WebInit, NEW s \in StoreNames \ InMemory, NEW k \in Key
             PROVE  UpToDate(s, k, 0)
  BY DEF DurableInv, WebInit, Init
<1>1. stores[s][k] = Absent /\ log[PartitionOf[k]] = <<>>
  BY DEF WebInit, Init
<1>2. Touching(s, k) = {}
  BY <1>1 DEF Touching
<1> QED BY <1>1, <1>2 DEF UpToDate

LEMMA UpIsBehind ==
  ASSUME JavaBase, DurableInv
  PROVE  DatabasesDurable
<1> SUFFICES ASSUME served = 0, NEW s \in StoreNames \ InMemory, NEW k \in Key
             PROVE  \E w \in {0} \cup Touching(s, k) : Behind(s, k, w)
  BY DEF DatabasesDurable, DatabaseDurable
<1>1. PICK w \in {0} \cup Touching(s, k) : UpToDate(s, k, w)
  BY DEF DurableInv
<1>2. /\ Brought(s, k) \in Int /\ ResumesAfter(PartitionOf[k]) \in Int
      /\ ResumesAfter(PartitionOf[k]) <= Brought(s, k) /\ Touching(s, k) \subseteq Nat
  BY BroughtBounds DEF JavaBase, Touching
<1>3. Behind(s, k, w)
  BY <1>1, <1>2 DEF UpToDate, Behind
<1> QED BY <1>3

(* While nobody writes over HTTP, a database is behind the offsets its     *)
(* group resumes at by records the two error paths gave up on, and by no   *)
(* other: whatever deaths, closing contexts, rebalances and half-applied   *)
(* batches there are, for any stores and topics.                           *)
THEOREM DatabasesLoseNothing == WebSpec => []DatabasesDurable
<1>1. JavaBase /\ DurableInv /\ [WebNext]_webVars => DurableInv'
  BY DurableNext
<1>2. JavaBase /\ DurableInv => DatabasesDurable
  BY UpIsBehind
<1> QED BY <1>1, <1>2, DurableInit, BaseAlways, PTL DEF WebSpec

----------------------------------------------------------------------------
(* The two properties of the thread alone, with the web server beside it.  *)

LEMMA WebSteps ==
  ASSUME JavaBase, [WebNext]_webVars
  PROVE  [Next]_vars \/ UNCHANGED consumer
BY WebStepShape DEF WebNext, ConsumerStep, Shape, Beside, webVars

(* No request, answered or under way at a death, makes the thread commit a *)
(* record that was neither processed nor given up on.                      *)
THEOREM CommitsAreHandledBeside == WebSpec => []CommitCoversHandled
<1>1. JavaBase => CommitCoversHandled
  BY DEF JavaBase, ThreadInv, ReadInv, CommitIsOver, CommitCoversHandled
<1> QED BY <1>1, BaseAlways, PTL

(* Nor does one make the process ready before what the topic held at the   *)
(* answer of endOffsets is dealt with.                                     *)
THEOREM ReadyIsHonestBeside == WebSpec => ReadyWhenCaughtUp
<1>1. ASSUME JavaBase, [WebNext]_webVars
      PROVE  [~cleared /\ cleared'
              => \A p \in Partition : \A o \in 1..ends[p] : Over(p, o)]_vars
  <2>1. ThreadInv
    BY <1>1 DEF JavaBase
  <2>2. CASE UNCHANGED consumer
    BY <2>2
  <2>3. CASE [Next]_vars
    BY <2>1, <2>3, ReadyStep
  <2> QED BY <1>1, <2>2, <2>3, WebSteps
<1> QED BY <1>1, BaseAlways, PTL DEF WebSpec, ReadyWhenCaughtUp
=============================================================================
