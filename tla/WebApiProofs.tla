---------------------------- MODULE WebApiProofs ----------------------------
(***************************************************************************)
(* Proofs about WebApi, for any clients, routes, payloads and stores: the  *)
(* consumer's invariants hold beside the handlers, and with them the three *)
(* properties of what a handler writes and reads.                          *)
(***************************************************************************)
EXTENDS WebApi, PushConsumerViewProofs

USE DEF broker, task, client, metrics, health, history, budgets, rest, web

----------------------------------------------------------------------------
(* The invariants.                                                         *)

(* What the consumer guarantees in spite of the handlers, and that a dead  *)
(* process serves nobody.                                                  *)
WebBase ==
  /\ Base /\ PartitionInv /\ SessionInv /\ WebTypeOK
  /\ phase = "down" => \A c \in Client : req[c] = NoRequest

(* A value that is not a payload is a record for the cell, and its schema  *)
(* is at hand: in the cells of an in-memory store ...                      *)
AtHand(s, k, v) ==
  v \in Touching(s, k) /\ log[PartitionOf[k]][v].schema \in schema_cache
CellsAtHand ==
  \A s \in InMemory, k \in Key :
    stores[s][k] \notin Body \cup {Absent} => AtHand(s, k, stores[s][k])

(* ... and in the hands of a handler, whatever became of the cell.         *)
ReadAtHand ==
  \A c \in Client :
    (/\ req[c].op = "get" /\ req[c].stage = "read"
     /\ req[c].store \in InMemory /\ req[c].value \notin Body)
    => AtHand(req[c].store, req[c].key, req[c].value)

(* The cells of an in-memory store are not older than what was read, and   *)
(* nothing counts as read that the client will be given again.             *)
NotOlder(s, k) ==
  /\ stores[s][k] \notin Body \cup {Absent} =>
       stores[s][k] >= newest_read[<<s, k>>]
  /\ newest_read[<<s, k>>] <= Horizon(PartitionOf[k])
ReadsInv == \A s \in InMemory, k \in Key : NotOlder(s, k)

----------------------------------------------------------------------------
(* What a step of a handler is.                                            *)

Webs == Requests \cup Answered \cup {NoRequest}

(* A request in flight is told from an answer and from none.               *)
LEMMA InFlightRequest ==
  ASSUME WebTypeOK, NEW c \in Client, req[c].op \in Operation
  PROVE  req[c] \in Requests /\ <<req[c].store, req[c].key>> \in Cells
<1>1. req[c] \in Webs
  BY DEF WebTypeOK, Webs
<1>2. req[c] \notin Answered /\ req[c] # NoRequest
  BY DEF Operation, Answered, NoRequest
<1>3. req[c] \in Requests
  BY <1>1, <1>2 DEF Webs
<1> QED BY <1>3 DEF Requests, Cells

(* The request of one client changes, from one that is served to another.  *)
Moves(c) ==
  /\ req' \in [Client -> Webs]
  /\ \A d \in Client \ {c} : req'[d] = req[d]

(* A handler writes one cell, or none.                                     *)
Writes(c) ==
  /\ req[c].op \in {"post", "delete"}
  /\ \E v \in Body \cup {Absent} : Set(c, v)

LEMMA AnswerMoves ==
  ASSUME WebTypeOK, NEW c \in Client, NEW a \in Answers, Answer(c, a)
  PROVE  Moves(c) /\ req'[c] = [op |-> "answered", answer |-> a]
BY DEF WebTypeOK, Answer, Moves, Webs, Answered

LEMMA RequestMoves ==
  ASSUME WebTypeOK, NEW c \in Client, NEW r \in Routes, NEW op \in Operation,
         NEW k \in Key, NEW b \in Body \cup {Absent}, Request(c, r, op, k, b)
  PROVE  /\ Moves(c) /\ req'[c].stage = "called" /\ phase # "down"
         /\ UNCHANGED <<vars, requests_miss, touched, newest_read>>
         /\ served' \in Nat /\ req[c] = NoRequest
<1>1. RouteStore[r] \in Store /\ Absent \in Nat
  BY DEF Request, Accept, Mounted, Absent
<1>2. DEFINE new == [op |-> op, store |-> RouteStore[r], key |-> k, body |-> b,
                     stage |-> "called", value |-> Absent]
<1>3. new \in Requests
  BY <1>1 DEF Requests
<1>4. req' = [req EXCEPT ![c] = new] /\ Accept(c, r)
  BY DEF Request
<1>5. req' \in [Client -> Webs] /\ req'[c] = new
      /\ \A d \in Client \ {c} : req'[d] = req[d]
  BY <1>3, <1>4 DEF WebTypeOK, Webs
<1> QED BY <1>4, <1>5 DEF Moves, Accept, WebTypeOK

LEMMA HitMoves ==
  ASSUME WebBase, NEW c \in Client, GetHit(c)
  PROVE  /\ Moves(c) /\ req[c] \in Requests /\ Cell(c) \in Nat
         /\ req'[c] = [req[c] EXCEPT !.stage = "read", !.value = Cell(c)]
         /\ newest_read' \in [Cells -> Nat]
<1>1. req[c] \in Requests /\ <<req[c].store, req[c].key>> \in Cells
  BY InFlightRequest DEF WebBase, GetHit, Called, Operation
<1>2. Cell(c) \in Nat
  BY <1>1 DEF WebBase, Base, TypeOK, StoreType, Cell, Cells
<1>3. [req[c] EXCEPT !.stage = "read", !.value = Cell(c)] \in Requests
  BY <1>1, <1>2 DEF Requests
<1>4. Moves(c) /\ req'[c] = [req[c] EXCEPT !.stage = "read", !.value = Cell(c)]
  BY <1>3 DEF GetHit, Moves, Webs, WebBase, WebTypeOK
<1>5. newest_read' \in [Cells -> Nat]
  BY <1>1, <1>2 DEF GetHit, WebBase, WebTypeOK
<1> QED BY <1>1, <1>2, <1>4, <1>5

(* Every step of a handler leaves the consumer alone and writes one cell   *)
(* at most, and no in-memory store fails.                                  *)
LEMMA WebStepShape ==
  ASSUME WebBase, NEW c \in Client, WebStep(c)
  PROVE  /\ UNCHANGED rest /\ faults' \in Nat /\ Moves(c)
         /\ requests_miss' \in Nat /\ served' \in Nat
         /\ UNCHANGED <<stores, touched>> \/ Writes(c)
         /\ UNCHANGED newest_read \/ GetHit(c)
         /\ phase # "down"
<1> DEFINE Shape ==
         /\ UNCHANGED rest /\ faults' \in Nat /\ Moves(c)
         /\ requests_miss' \in Nat /\ served' \in Nat
         /\ UNCHANGED <<stores, touched>> \/ Writes(c)
         /\ UNCHANGED newest_read \/ GetHit(c)
         /\ phase # "down"
<1>0. /\ faults \in Nat /\ requests_miss \in Nat /\ served \in Nat /\ WebTypeOK
      /\ req[c] # NoRequest => phase # "down"
  BY DEF WebBase, Base, TypeOK, BudgetType, WebTypeOK
<1>1. ASSUME NEW r \in Routes, NEW op \in Operation, NEW k \in Key,
             NEW b \in Body \cup {Absent}, Request(c, r, op, k, b)
      PROVE  Shape
  BY <1>0, <1>1, RequestMoves DEF vars
<1>2. ASSUME NEW r \in Routes, NoKeyInBody(c, r) PROVE Shape
  <2>1. Answer(c, "bad_request") /\ Accept(c, r)
    BY <1>2 DEF NoKeyInBody
  <2>2. Moves(c)
    BY <1>0, <2>1, AnswerMoves DEF Answers
  <2> QED BY <1>0, <2>1, <2>2 DEF Accept, vars
<1>3. CASE GetMiss(c)
  <2>1. Moves(c) /\ phase # "down"
    BY <1>0, <1>3, AnswerMoves DEF GetMiss, Answers, Called, NoRequest
  <2> QED BY <1>0, <1>3, <2>1 DEF GetMiss, vars
<1>4. CASE GetHit(c)
  <2>1. Moves(c)
    BY <1>4, HitMoves
  <2>2. phase # "down"
    BY <1>0, <1>4 DEF GetHit, Called, NoRequest
  <2> QED BY <1>0, <1>4, <2>1, <2>2 DEF GetHit, vars
<1>5. CASE Decode(c)
  <2>1. /\ \E a \in Answers : Answer(c, a)
        /\ req[c] # NoRequest
    BY <1>5 DEF Decode, Answers, NoRequest
  <2>2. Moves(c)
    BY <1>0, <2>1, AnswerMoves
  <2> QED BY <1>0, <1>5, <2>1, <2>2 DEF Decode, vars
<1>6. CASE PostInvalid(c)
  <2>1. Moves(c) /\ phase # "down"
    BY <1>0, <1>6, AnswerMoves DEF PostInvalid, Answers, Called, NoRequest
  <2> QED BY <1>0, <1>6, <2>1 DEF PostInvalid, vars
<1>7. CASE Post(c) \/ Delete(c) \/ StoreError(c)
  <2>1. /\ \E a \in Answers : Answer(c, a)
        /\ req[c].op \in Operation /\ req[c] # NoRequest
    BY <1>7 DEF Post, Delete, StoreError, Called, Answers, Operation, NoRequest
  <2>2. Moves(c)
    BY <1>0, <2>1, AnswerMoves
  <2>3. req[c].op = "post" /\ BodySchema[req[c].body] # NoSchema => req[c].body \in Body \cup {Absent}
    BY <1>0, <2>1, InFlightRequest DEF Requests
  <2>4. UNCHANGED <<stores, touched>> \/ Writes(c)
    BY <1>7, <2>3 DEF Post, Delete, StoreError, Called, Writes
  <2>5. UNCHANGED <<rest, newest_read, served, requests_miss>> /\ faults' \in Nat
    BY <1>0, <1>7 DEF Post, Delete, StoreError, Fault
  <2> QED BY <1>0, <2>1, <2>2, <2>4, <2>5
<1>8. CASE Receipt(c)
  <2>1. Moves(c) /\ req[c] # NoRequest
    BY <1>0, <1>8 DEF Receipt, WebTypeOK, Moves, Webs, NoRequest
  <2> QED BY <1>0, <1>8, <2>1 DEF Receipt, vars
<1> QED BY <1>1, <1>2, <1>3, <1>4, <1>5, <1>6, <1>7, <1>8 DEF WebStep, Handle
----------------------------------------------------------------------------
(* The consumer's invariants hold beside the handlers.                     *)

(* A step that changes nothing of the consumer but stores and faults, and  *)
(* these within their types.                                               *)
LEMMA RestKept ==
  ASSUME Base, PartitionInv, SessionInv, UNCHANGED rest, StoreType', faults' \in Nat
  PROVE  /\ Base' /\ PartitionInv' /\ SessionInv'
         /\ \A s \in Store, k \in Key :
              /\ Settled(s, k)' = Settled(s, k) /\ Touching(s, k)' = Touching(s, k)
              /\ \A o : Effect(PartitionOf[k], o)' = Effect(PartitionOf[k], o)
<1>1. TypeOK'
  BY DEF Base, TypeOK, BrokerType, TaskType, ClientType, HealthType, MetricsType,
         HistoryType, BudgetType
<1>2. TaskInv' /\ OffsetInv'
  BY DEF Base, TaskInv, OffsetInv, InOrder, InHand, HasKey, Running, Busy
<1>3. PartitionInv' /\ SessionInv'
  BY DEF PartitionInv, SessionInv, InHandAt, HasKey
<1>4. \A s \in Store, k \in Key :
        /\ Settled(s, k)' = Settled(s, k) /\ Touching(s, k)' = Touching(s, k)
        /\ \A o : Effect(PartitionOf[k], o)' = Effect(PartitionOf[k], o)
  BY DEF Settled, Touching, Touches, InHandAt, Effect
<1> QED BY <1>1, <1>2, <1>3, <1>4 DEF Base

(* The cell a handler writes, and the others.                              *)
LEMMA WriteShape ==
  ASSUME WebBase, NEW c \in Client, Writes(c), UNCHANGED schema_cache
  PROVE  /\ StoreType'
         /\ touched' = touched \cup {<<req[c].store, req[c].key>>}
         /\ touched' \subseteq Cells
         /\ req[c].store \in Store /\ req[c].key \in Key
         /\ stores'[req[c].store][req[c].key] \in Body \cup {Absent}
         /\ \A s \in Store, k \in Key :
              <<s, k>> # <<req[c].store, req[c].key>> =>
                stores'[s][k] = stores[s][k]
<1>1. PICK v \in Body \cup {Absent} : Set(c, v)
  BY DEF Writes
<1>2. /\ req[c].store \in Store /\ req[c].key \in Key
      /\ stores \in [Store -> [Key -> Nat]] /\ schema_cache \subseteq Schema
      /\ touched \subseteq Cells /\ v \in Nat
  <2>1. req[c] \in Requests
    BY InFlightRequest DEF Writes, WebBase, Operation
  <2>2. v \in Nat
    BY WebAssumption DEF Absent
  <2> QED BY <2>1, <2>2 DEF WebBase, Base, TypeOK, StoreType, WebTypeOK, Requests
<1>3. stores' = [stores EXCEPT ![req[c].store][req[c].key] = v]
      /\ touched' = touched \cup {<<req[c].store, req[c].key>>}
  BY <1>1 DEF Set
<1>4. stores' \in [Store -> [Key -> Nat]]
  BY <1>2, <1>3
<1> QED BY <1>1, <1>2, <1>3, <1>4 DEF StoreType, Cells

(* A handler's step keeps all of that.                                     *)
LEMMA WebStepBase ==
  ASSUME WebBase, NEW c \in Client, WebStep(c)
  PROVE  WebBase' /\ StoreType' /\ UNCHANGED rest /\ faults' \in Nat
<1>1. /\ UNCHANGED rest /\ faults' \in Nat /\ Moves(c)
      /\ requests_miss' \in Nat /\ served' \in Nat
      /\ UNCHANGED <<stores, touched>> \/ Writes(c)
      /\ UNCHANGED newest_read \/ GetHit(c)
      /\ phase # "down"
  BY WebStepShape
<1>2. StoreType' /\ touched' \subseteq Cells
  <2>1. CASE UNCHANGED <<stores, touched>>
    BY <1>1, <2>1 DEF WebBase, Base, TypeOK, StoreType, WebTypeOK
  <2>2. CASE Writes(c)
    BY <1>1, <2>2, WriteShape
  <2> QED BY <1>1, <2>1, <2>2
<1>3. newest_read' \in [Cells -> Nat]
  BY <1>1, HitMoves DEF WebBase, WebTypeOK
<1>4. Base' /\ PartitionInv' /\ SessionInv'
  BY <1>1, <1>2, RestKept DEF WebBase
<1>5. WebTypeOK'
  BY <1>1, <1>2, <1>3, <1>4 DEF WebTypeOK, Base, Moves, Webs
<1>6. phase' # "down"
  BY <1>1
<1> QED BY <1>1, <1>2, <1>4, <1>5, <1>6 DEF WebBase

(* A step of the consumer leaves the handlers alone, or is a death.        *)
LEMMA ConsumerStepBase ==
  ASSUME WebBase, ConsumerStep
  PROVE  WebBase'
<1>1. Next /\ touched' \subseteq touched /\ served' = served
  BY DEF ConsumerStep
<1>2. Base' /\ PartitionInv' /\ SessionInv'
  BY <1>1, BaseNext, PartitionNext, SessionNext DEF WebBase
<1>3. \A q \in Partition : Horizon(q)' \in Nat
  BY <1>2 DEF Base, TypeOK, ClientType, BrokerType, Horizon
<1>4. WebTypeOK' /\ (phase' = "down" => \A c \in Client : req'[c] = NoRequest)
  <2>1. CASE phase' = "down"
    <3>1. /\ req' = [c \in Client |-> NoRequest]
          /\ requests_miss' = 0 /\ newest_read' = [x \in Cells |-> 0]
      BY <2>1 DEF ConsumerStep
    <3> QED BY <1>1, <1>2, <3>1 DEF WebBase, WebTypeOK, Base
  <2>2. CASE phase' # "down"
    <3>1. \A x \in Cells : StillRead(x) \in Nat
      BY <1>3, DeploymentAssumption DEF StillRead, Cells, WebBase, WebTypeOK
    <3>2. UNCHANGED <<req, requests_miss>> /\ newest_read' \in [Cells -> Nat]
      BY <2>2, <3>1 DEF ConsumerStep
    <3> QED BY <1>1, <1>2, <2>2, <3>2 DEF WebBase, WebTypeOK, Base
  <2> QED BY <2>1, <2>2
<1> QED BY <1>2, <1>4 DEF WebBase

LEMMA WebBaseInit == WebInit => WebBase
<1> SUFFICES ASSUME WebInit PROVE WebBase
  OBVIOUS
<1>1. Base /\ Init
  BY BaseInit DEF WebInit
<1>2. PartitionInv /\ SessionInv
  BY <1>1 DEF Init, PartitionInv, SessionInv, Zero
<1> QED BY <1>1, <1>2 DEF WebInit, WebBase, WebTypeOK, Base

LEMMA WebBaseNext == WebBase /\ [WebNext]_webVars => WebBase'
<1> SUFFICES ASSUME WebBase, [WebNext]_webVars PROVE WebBase'
  OBVIOUS
<1>1. CASE UNCHANGED webVars
  <2>1. UNCHANGED vars /\ UNCHANGED rest /\ UNCHANGED web
        /\ UNCHANGED <<stores, faults>>
    BY <1>1 DEF webVars, vars
  <2>2. Base' /\ PartitionInv' /\ SessionInv'
    BY <2>1, RestKept DEF WebBase, Base, TypeOK, StoreType, BudgetType
  <2> QED BY <2>1, <2>2 DEF WebBase, WebTypeOK, Base
<1> QED BY <1>1, ConsumerStepBase, WebStepBase DEF WebNext

(* Types are kept by the handlers and the consumer together.               *)
THEOREM WebTypeCorrect == WebSpec => []WebTypeOK
<1>1. WebBase => WebTypeOK
  BY DEF WebBase
<1> QED BY <1>1, WebBaseInit, WebBaseNext, PTL DEF WebSpec
----------------------------------------------------------------------------
(* What the handlers do to the view.                                       *)

(* A cell the consumer has written in this step is right, whatever it held.*)
LEMMA WrittenDecides ==
  ASSUME WebBase, Next, assigned',
         NEW s \in Store, NEW k \in Key, <<s, k>> \in ConsumerWrote
  PROVE  Decides(Settled(s, k), s, k)'
<1>1. Base /\ PartitionInv /\ SessionInv
  BY DEF WebBase
<1>2. \/ /\ phase = "inserting" /\ phase' = "idle"
         /\ s = StoreOf[InHand.schema] /\ k = InHand.key
      \/ /\ phase = "removing" /\ phase' \in {"removing", "idle"}
         /\ s \in todo \ todo' /\ k = InHand.key
  BY DEF ConsumerWrote
<1>3. CASE /\ phase = "inserting" /\ phase' = "idle"
           /\ s = StoreOf[InHand.schema] /\ k = InHand.key
  <2>1. InsertOk
    BY <1>3 DEF Next, Produce, FetchBatch, ReceiveInvalid, ReceiveTombstone,
       ReceiveUpdate, Receive, AutoCommit, Assign, Revoke, FetchSchemaOk,
       FetchSchemaErr, InsertErr, RemoveOk, RemoveErr, StreamError, Stop,
       EmitStats, Stats, Boot, Crash
  <2> QED BY <1>1, <1>3, <2>1, InsertWrites
<1>4. CASE /\ phase = "removing" /\ phase' \in {"removing", "idle"}
           /\ s \in todo \ todo' /\ k = InHand.key
  <2>1. PICK s0 \in Store : RemoveOk(s0)
    BY <1>4 DEF Next, Produce, FetchBatch, ReceiveInvalid, ReceiveTombstone,
       ReceiveUpdate, Receive, AutoCommit, Assign, Revoke, FetchSchemaOk,
       FetchSchemaErr, InsertOk, InsertErr, RemoveErr, StreamError, Stop,
       EmitStats, Stats, Boot, Crash
  <2>2. s = s0
    BY <1>4, <2>1 DEF RemoveOk
  <2> QED BY <1>1, <1>4, <2>1, <2>2, RemoveWrites
<1> QED BY <1>2, <1>3, <1>4

(* A step of the consumer: a cell that differs has been touched before.    *)
LEMMA ConsumerTouches ==
  ASSUME WebBase, OnlyTouchedDiffer, ConsumerStep
  PROVE  OnlyTouchedDiffer'
<1> SUFFICES ASSUME assigned', NEW s \in Store, NEW k \in Key,
                    <<s, k>> \notin touched'
             PROVE  Decides(Settled(s, k), s, k)'
  BY DEF OnlyTouchedDiffer
<1>1. Next /\ touched' = touched \ ConsumerWrote
  BY DEF ConsumerStep
<1>2. CASE <<s, k>> \in ConsumerWrote
  BY <1>1, <1>2, WrittenDecides
<1>3. CASE <<s, k>> \notin touched
  <2>1. assigned => Decides(Settled(s, k), s, k)
    BY <1>3 DEF OnlyTouchedDiffer
  <2> QED BY <1>1, <2>1, CellViewNext DEF WebBase
<1> QED BY <1>1, <1>2, <1>3

(* A step of a handler: the cell it writes counts as touched.              *)
LEMMA HandlerTouches ==
  ASSUME WebBase, OnlyTouchedDiffer, NEW c \in Client, WebStep(c)
  PROVE  OnlyTouchedDiffer'
<1> SUFFICES ASSUME assigned', NEW s \in Store, NEW k \in Key,
                    <<s, k>> \notin touched'
             PROVE  Decides(Settled(s, k), s, k)'
  BY DEF OnlyTouchedDiffer
<1>1. /\ UNCHANGED rest /\ StoreType' /\ faults' \in Nat
      /\ UNCHANGED <<stores, touched>> \/ Writes(c)
  BY WebStepShape, WebStepBase
<1>2. <<s, k>> \notin touched /\ stores'[s][k] = stores[s][k]
  BY <1>1, WriteShape
<1>3. Decides(Settled(s, k), s, k)
  BY <1>1, <1>2 DEF OnlyTouchedDiffer
<1>4. /\ Settled(s, k)' = Settled(s, k)
      /\ \A o : Effect(PartitionOf[k], o)' = Effect(PartitionOf[k], o)
  BY <1>1, RestKept DEF WebBase
<1> QED BY <1>2, <1>3, <1>4 DEF Decides

LEMMA TouchedNext ==
  WebBase /\ OnlyTouchedDiffer /\ [WebNext]_webVars => OnlyTouchedDiffer'
<1> SUFFICES ASSUME WebBase, OnlyTouchedDiffer, [WebNext]_webVars
             PROVE  OnlyTouchedDiffer'
  OBVIOUS
<1>1. CASE UNCHANGED webVars
  <2>1. UNCHANGED rest /\ UNCHANGED <<stores, touched, assigned>> /\ faults' = faults
    BY <1>1 DEF webVars, vars, web, rest, broker, budgets
  <2>2. StoreType' /\ faults' \in Nat
    BY <2>1 DEF WebBase, Base, TypeOK, BudgetType, StoreType, rest
  <2>3. \A s \in Store, k \in Key :
          /\ Settled(s, k)' = Settled(s, k)
          /\ \A o : Effect(PartitionOf[k], o)' = Effect(PartitionOf[k], o)
    BY <2>1, <2>2, RestKept DEF WebBase
  <2> QED BY <2>1, <2>3 DEF OnlyTouchedDiffer, Decides
<1> QED BY <1>1, ConsumerTouches, HandlerTouches DEF WebNext

(* Handlers that run at any moment between the consumer's awaits disturb   *)
(* no cell but those they write, and each of those only until the next     *)
(* record for it (webserver/mod.rs 301-386, consumer.rs 147-244).          *)
THEOREM TouchedOnly == WebSpec => []OnlyTouchedDiffer
<1>1. WebInit => OnlyTouchedDiffer
  BY DEF WebInit, Init, OnlyTouchedDiffer
<1> QED BY <1>1, WebBaseInit, WebBaseNext, TouchedNext, PTL DEF WebSpec

----------------------------------------------------------------------------
(* What a handler has read can be decoded.                                 *)

(* A record at hand stays at hand while the process lives.                 *)
LEMMA AtHandStays ==
  ASSUME Base, [Next]_vars, schema_cache \subseteq schema_cache',
         NEW s \in Store, NEW k \in Key, NEW v, AtHand(s, k, v)
  PROVE  AtHand(s, k, v)'
<1>1. v \in Touching(s, k) /\ log[PartitionOf[k]][v].schema \in schema_cache
  BY DEF AtHand
<1>2. v \in Touching(s, k)' /\ v \in 1..Len(log[PartitionOf[k]])
  BY <1>1, TouchingGrows
<1>3. log'[PartitionOf[k]][v] = log[PartitionOf[k]][v]
  BY <1>2, LogGrows, DeploymentAssumption
<1> QED BY <1>1, <1>2, <1>3 DEF AtHand

(* The schema cache loses nothing but with the process.                    *)
LEMMA CacheGrows ==
  ASSUME Base, [Next]_vars
  PROVE  schema_cache \subseteq schema_cache' \/ Crash
<1>1. CASE Boot
  BY <1>1 DEF Boot, Base, TaskInv
<1> QED BY <1>1 DEF Next, Produce, FetchBatch, ReceiveInvalid,
     ReceiveTombstone, ReceiveUpdate, Receive, AutoCommit, Assign, Revoke,
     FetchSchemaOk, FetchSchemaErr, InsertOk, InsertErr, RemoveOk, RemoveErr,
     StreamError, Stop, EmitStats, Stats, vars

(* What the consumer writes to memory it has cached the schema of.         *)
LEMMA ConsumerCells ==
  ASSUME Base, PartitionInv, CellsAtHand, [Next]_vars PROVE CellsAtHand'
<1> SUFFICES ASSUME NEW s \in InMemory, NEW k \in Key,
                    stores'[s][k] \notin Body \cup {Absent}
             PROVE  \E v : v = stores'[s][k] /\ AtHand(s, k, v)'
  BY DEF CellsAtHand
<1>1. s \in Store
  BY DeploymentAssumption
<1>2. schema_cache \subseteq schema_cache'
  BY <1>1, CacheGrows DEF Crash
<1>3. AtHand(s, k, stores'[s][k])
  <2>1. CASE stores'[s][k] = stores[s][k]
    BY <2>1 DEF CellsAtHand
  <2>2. CASE /\ phase = "inserting" /\ s = StoreOf[InHand.schema]
             /\ k = InHand.key /\ stores'[s][k] = cur.offset
    <3>1. /\ InHand.kind = "update" /\ cur.part = PartitionOf[k]
          /\ cur.offset \in 1..Len(log[cur.part])
          /\ InHand.schema \in schema_cache
      BY <2>2, InHandKey, InHandType DEF Base, TaskInv
    <3> QED BY <2>2, <3>1 DEF AtHand, Touching, Touches, InHand
  <2> QED BY <1>1, <2>1, <2>2, CellStep
<1>4. PICK v : v = stores'[s][k]
  OBVIOUS
<1> QED BY <1>1, <1>2, <1>3, <1>4, AtHandStays

(* What a handler holds stays at hand until it is answered or dies.        *)
LEMMA ConsumerReads ==
  ASSUME WebBase, ReadAtHand, ConsumerStep PROVE ReadAtHand'
<1> SUFFICES ASSUME NEW c \in Client, req'[c].op = "get", req'[c].stage = "read",
                    req'[c].store \in InMemory, req'[c].value \notin Body
             PROVE  \E s, k, v :
                      /\ s = req'[c].store /\ k = req'[c].key /\ v = req'[c].value
                      /\ AtHand(s, k, v)'
  BY DEF ReadAtHand
<1>1. req' = req /\ Next /\ Base
  BY DEF ConsumerStep, NoRequest, WebBase
<1>2. ~Crash
  BY DEF Crash, ConsumerStep, NoRequest
<1>3. schema_cache \subseteq schema_cache'
  BY <1>1, <1>2, CacheGrows
<1>4. req[c].store \in Store /\ req[c].key \in Key
  BY <1>1, InFlightRequest DEF WebBase, Operation, Requests
<1>5. AtHand(req[c].store, req[c].key, req[c].value)
  BY <1>1 DEF ReadAtHand
<1>6. PICK s, k, v : s = req[c].store /\ k = req[c].key /\ v = req[c].value
  OBVIOUS
<1> QED BY <1>1, <1>3, <1>4, <1>5, <1>6, AtHandStays

(* Handlers write payloads and take what they read from a cell.            *)
LEMMA HandlerCells ==
  ASSUME WebBase, CellsAtHand, NEW c \in Client, WebStep(c) PROVE CellsAtHand'
<1> SUFFICES ASSUME NEW s \in InMemory, NEW k \in Key,
                    stores'[s][k] \notin Body \cup {Absent}
             PROVE  \E v : v = stores'[s][k] /\ AtHand(s, k, v)'
  BY DEF CellsAtHand
<1>1. /\ UNCHANGED rest /\ s \in Store
      /\ UNCHANGED <<stores, touched>> \/ Writes(c)
  BY WebStepShape, DeploymentAssumption
<1>2. stores'[s][k] = stores[s][k]
  BY <1>1, WriteShape
<1>3. AtHand(s, k, stores[s][k])
  BY <1>2 DEF CellsAtHand
<1> QED BY <1>1, <1>2, <1>3 DEF AtHand, Touching, Touches

LEMMA HandlerReads ==
  ASSUME WebBase, CellsAtHand, ReadAtHand, NEW c \in Client, WebStep(c)
  PROVE  ReadAtHand'
<1> SUFFICES ASSUME NEW d \in Client, req'[d].op = "get", req'[d].stage = "read",
                    req'[d].store \in InMemory, req'[d].value \notin Body
             PROVE  \E s, k, v :
                      /\ s = req'[d].store /\ k = req'[d].key /\ v = req'[d].value
                      /\ AtHand(s, k, v)'
  BY DEF ReadAtHand
<1>1. /\ UNCHANGED rest /\ Moves(c)
  BY WebStepShape
<1>2. AtHand(req'[d].store, req'[d].key, req'[d].value)
  <2>1. CASE req'[d] = req[d]
    BY <2>1 DEF ReadAtHand
  <2>2. CASE req'[d] # req[d]
    <3>1. d = c
      BY <1>1, <2>2 DEF Moves
    <3>2. GetHit(c)
      <4>1. \A r \in Routes, op \in Operation, k \in Key, b \in Body \cup {Absent} :
              Request(c, r, op, k, b) => req'[c].stage = "called"
        BY RequestMoves DEF WebBase
      <4>2. ASSUME NEW a \in Answers, Answer(c, a) PROVE FALSE
        <5>1. req'[c] = [op |-> "answered", answer |-> a]
          BY <4>2, AnswerMoves DEF WebBase
        <5> QED BY <3>1, <5>1
      <4>3. ~Receipt(c)
        BY <3>1 DEF Receipt, WebBase, WebTypeOK, NoRequest
      <4> QED BY <3>1, <4>1, <4>2, <4>3
          DEF WebStep, Handle, NoKeyInBody, GetMiss, Decode, PostInvalid, Post,
              Delete, StoreError, Answers
    <3>3. /\ req[c] \in Requests /\ Cell(c) # Absent
          /\ req'[c] = [req[c] EXCEPT !.stage = "read", !.value = Cell(c)]
      BY <3>2, HitMoves DEF GetHit
    <3>4. /\ req'[c].store = req[c].store /\ req'[c].key = req[c].key
          /\ req'[c].value = stores[req[c].store][req[c].key] /\ req[c].key \in Key
      BY <3>3 DEF Requests, Cell
    <3> QED BY <3>1, <3>3, <3>4 DEF CellsAtHand, Cell
  <2> QED BY <2>1, <2>2
<1> QED BY <1>1, <1>2 DEF AtHand, Touching, Touches

DecodeInv == WebBase /\ CellsAtHand /\ ReadAtHand

LEMMA DecodeInit == WebInit => DecodeInv
<1> SUFFICES ASSUME WebInit PROVE DecodeInv
  OBVIOUS
<1>1. CellsAtHand /\ ReadAtHand
  BY DeploymentAssumption
  DEF WebInit, Init, CellsAtHand, ReadAtHand, NoRequest
<1> QED BY <1>1, WebBaseInit DEF DecodeInv

LEMMA DecodeNext == DecodeInv /\ [WebNext]_webVars => DecodeInv'
<1> SUFFICES ASSUME DecodeInv, [WebNext]_webVars PROVE DecodeInv'
  OBVIOUS
<1>1. CASE UNCHANGED webVars
  <2>1. WebBase'
    BY <1>1, WebBaseNext DEF DecodeInv
  <2>2. UNCHANGED <<log, stores, schema_cache, req>>
    BY <1>1 DEF webVars, vars, broker, web
  <2>3. \A s, k, v : AtHand(s, k, v)' = AtHand(s, k, v)
    BY <2>2 DEF AtHand, Touching, Touches
  <2>4. CellsAtHand' /\ ReadAtHand'
    BY <2>2, <2>3 DEF DecodeInv, CellsAtHand, ReadAtHand
  <2> QED BY <2>1, <2>4 DEF DecodeInv
<1>2. CASE ConsumerStep
  BY <1>2, ConsumerStepBase, ConsumerCells, ConsumerReads
  DEF DecodeInv, ConsumerStep, WebBase
<1>3. ASSUME NEW c \in Client, WebStep(c) PROVE DecodeInv'
  BY <1>3, WebStepBase, HandlerCells, HandlerReads DEF DecodeInv
<1> QED BY <1>1, <1>2, <1>3 DEF WebNext

(* A GET that has read a record of the topic from an in-memory store is    *)
(* never answered "Schema not found in cache", whatever the consumer and   *)
(* other handlers do between its two steps (webserver/mod.rs 249-275).     *)
THEOREM ReadsDecode == WebSpec => RecordsDecode
<1> DEFINE Sound ==
      \A c \in Client :
        (/\ req[c].op = "get" /\ req[c].stage = "read"
         /\ req[c].store \in InMemory /\ req[c].value \notin Body
         /\ req'[c].op = "answered")
        => req'[c].answer # "no_schema"
<1>1. DecodeInv /\ [WebNext]_webVars => [Sound]_webVars
  <2> SUFFICES ASSUME DecodeInv, WebNext, NEW c \in Client,
                      req[c].op = "get", req[c].stage = "read",
                      req[c].store \in InMemory, req[c].value \notin Body,
                      req'[c].op = "answered"
               PROVE  req'[c].answer # "no_schema"
    OBVIOUS
  <2>1. CASE ConsumerStep
    BY <2>1 DEF ConsumerStep, NoRequest
  <2>2. ASSUME NEW d \in Client, WebStep(d) PROVE d = c
    BY <2>2, WebStepShape DEF DecodeInv, Moves
  <2>3. CASE WebStep(c)
    <3>1. Decode(c)
      BY <2>3 DEF WebStep, Handle, Request, NoKeyInBody, Accept, GetMiss, GetHit,
         PostInvalid, Post, Delete, StoreError, Receipt, Called, NoRequest
    <3>2. SchemaOf(req[c].key, req[c].value) \in schema_cache
      BY DEF DecodeInv, ReadAtHand, AtHand, SchemaOf
    <3>3. \E a \in {"error", "ok"} : Answer(c, a)
      BY <3>1, <3>2 DEF Decode
    <3> QED BY <3>3, AnswerMoves DEF DecodeInv, WebBase, Answers
  <2> QED BY <2>1, <2>2, <2>3 DEF WebNext
<1> QED BY <1>1, DecodeInit, DecodeNext, PTL DEF WebSpec, RecordsDecode
----------------------------------------------------------------------------
(* Reads never go back.                                                    *)

(* A client that is assigned partitions goes forward: it reads on, or      *)
(* begins where the group's offset is.                                     *)
LEMMA HorizonForward ==
  ASSUME Base, [Next]_vars, assigned', NEW p \in Partition
  PROVE  Horizon(p) <= Horizon(p)'
<1>1. /\ position[p] \in Nat /\ committed[p] \in Nat \cup {-1}
      /\ StartOf(p) \in Nat
      /\ ~ForceResetEarliest => committed[p] <= StartOf(p)
  BY PartitionTypes, StartFacts
<1>2. CASE Assign
  <2>1. ~assigned /\ position'[p] = StartOf(p)
    BY <1>2 DEF Assign
  <2> QED BY <1>1, <2>1 DEF Horizon
<1>3. ASSUME NEW q \in Partition, Take(q) PROVE Horizon(p) <= Horizon(p)'
  <2>1. Receive(q) /\ UNCHANGED assigned
    BY <1>3 DEF Take, ReceiveInvalid, ReceiveTombstone, ReceiveUpdate, Receive
  <2>2. position'[p] >= position[p]
    BY <1>1, <2>1, ReceiveFacts DEF Receive, Next1
  <2> QED BY <2>1, <2>2 DEF Horizon
<1>4. CASE UNCHANGED <<assigned, position>>
  BY <1>1, <1>4 DEF Horizon
<1> QED BY <1>2, <1>3, <1>4
    DEF Next, Take, Produce, FetchBatch, AutoCommit, Revoke, FetchSchemaOk,
        FetchSchemaErr, InsertOk, InsertErr, RemoveOk, RemoveErr, StreamError,
        Stop, EmitStats, Stats, Boot, Crash, Unassign, vars

(* A cell of an in-memory store gets a record only where the insert of the *)
(* record in hand succeeds.                                                *)
LEMMA MemoryStep ==
  ASSUME Base, PartitionInv, Next, NEW s \in InMemory, NEW k \in Key
  PROVE  \/ stores'[s][k] = stores[s][k] /\ ~Crash
         \/ stores'[s][k] = Absent
         \/ /\ InsertOk /\ k = InHand.key /\ stores'[s][k] = cur.offset
<1>1. s \in Store
  BY DeploymentAssumption
<1>2. CASE Crash
  BY <1>1, <1>2 DEF Crash
<1>3. CASE /\ ~Crash /\ stores'[s][k] # stores[s][k] /\ phase = "inserting"
           /\ s = StoreOf[InHand.schema]
           /\ k = InHand.key /\ stores'[s][k] = cur.offset
  BY <1>1, <1>3
  DEF Next, Produce, FetchBatch, ReceiveInvalid, ReceiveTombstone,
      ReceiveUpdate, Receive, AutoCommit, Assign, Revoke, FetchSchemaOk,
      FetchSchemaErr, InsertErr, RemoveOk, RemoveErr, StreamError, Stop,
      EmitStats, Stats, Boot
<1> QED BY <1>1, <1>2, <1>3, CellStep

(* A step of the consumer.                                                 *)
LEMMA ConsumerNotOlder ==
  ASSUME WebBase, ConsumerStep,
         NEW s \in InMemory, NEW k \in Key, NotOlder(s, k)
  PROVE  NotOlder(s, k)'
<1> DEFINE p == PartitionOf[k]
           n == newest_read[<<s, k>>]
<1>1. /\ p \in Partition /\ s \in Store /\ Next /\ Base /\ PartitionInv
      /\ n \in Nat /\ stores[s][k] \in Nat /\ stores'[s][k] \in Nat
      /\ Horizon(p) \in Nat /\ Horizon(p)' \in Nat /\ <<s, k>> \in Cells
  <2>1. Base' /\ Base
    BY ConsumerStepBase DEF WebBase
  <2>2. p \in Partition /\ s \in Store
    BY DeploymentAssumption
  <2>3. Horizon(p) \in Nat /\ Horizon(p)' \in Nat
    BY <2>1, <2>2 DEF Base, TypeOK, ClientType, BrokerType, Horizon
  <2> QED BY <2>1, <2>2, <2>3
          DEF WebBase, WebTypeOK, Base, TypeOK, StoreType, Cells, ConsumerStep
<1>2. n' \in Nat /\ n' <= n /\ n' <= Horizon(p)'
  <2>1. CASE phase' = "down"
    <3>1. n' = 0
      BY <1>1, <2>1 DEF ConsumerStep
    <3> QED BY <1>1, <3>1
  <2>2. CASE phase' # "down"
    <3>1. n' = IF ~assigned' /\ Horizon(p)' < n THEN Horizon(p)' ELSE n
      BY <1>1, <2>2 DEF ConsumerStep, StillRead
    <3>2. assigned' => Horizon(p) <= Horizon(p)'
      BY <1>1, HorizonForward
    <3>3. n <= Horizon(p)
      BY DEF NotOlder
    <3> QED BY <1>1, <3>1, <3>2, <3>3
  <2> QED BY <2>1, <2>2
<1>3. CASE stores'[s][k] = stores[s][k]
  BY <1>1, <1>2, <1>3 DEF NotOlder
<1>4. CASE stores'[s][k] = Absent
  BY <1>2, <1>4 DEF NotOlder
<1>5. CASE InsertOk /\ k = InHand.key /\ stores'[s][k] = cur.offset
  <2>1. phase = "inserting"
    BY <1>5 DEF InsertOk
  <2>2. assigned /\ cur.part = p /\ cur.offset = position[p]
    BY <1>1, <1>5, <2>1, InHandKey, InHandType
  <2>3. stores'[s][k] = Horizon(p) /\ n <= Horizon(p)
    BY <1>5, <2>2 DEF Horizon, NotOlder
  <2> QED BY <1>1, <1>2, <2>3 DEF NotOlder
<1> QED BY <1>1, <1>3, <1>4, <1>5, MemoryStep

(* A step of a handler: a GET finds what is there, and a payload is no     *)
(* record.                                                                 *)
LEMMA HandlerNotOlder ==
  ASSUME WebBase, NEW c \in Client, WebStep(c),
         NEW s \in InMemory, NEW k \in Key, NotOlder(s, k)
  PROVE  NotOlder(s, k)'
<1>1. /\ UNCHANGED rest
      /\ UNCHANGED <<stores, touched>> \/ Writes(c)
      /\ UNCHANGED newest_read \/ GetHit(c)
      /\ s \in Store
  BY WebStepShape, DeploymentAssumption
<1>2. Horizon(PartitionOf[k])' = Horizon(PartitionOf[k])
  BY <1>1 DEF Horizon
<1>3. CASE UNCHANGED newest_read
  <2>1. stores'[s][k] = stores[s][k] \/ stores'[s][k] \in Body \cup {Absent}
    BY <1>1, WriteShape
  <2> QED BY <1>2, <1>3, <2>1 DEF NotOlder
<1>4. CASE GetHit(c)
  <2>1. stores' = stores /\ newest_read \in [Cells -> Nat] /\ <<s, k>> \in Cells
    BY <1>1, <1>4 DEF GetHit, vars, WebBase, WebTypeOK, Cells
  <2>2. \/ newest_read'[<<s, k>>] = newest_read[<<s, k>>]
        \/ /\ newest_read'[<<s, k>>] = stores[s][k]
           /\ stores[s][k] <= Horizon(PartitionOf[k])
    BY <1>4, <2>1 DEF GetHit, Cell
  <2>3. stores[s][k] \in Nat
    BY <1>1 DEF WebBase, Base, TypeOK, StoreType
  <2> QED BY <1>2, <2>1, <2>2, <2>3 DEF NotOlder
<1> QED BY <1>1, <1>3, <1>4

MonotonicInv == WebBase /\ ReadsInv

LEMMA MonotonicInit == WebInit => MonotonicInv
<1> SUFFICES ASSUME WebInit PROVE MonotonicInv
  OBVIOUS
<1>1. \A s \in InMemory, k \in Key :
        stores[s][k] = Absent /\ newest_read[<<s, k>>] = 0
  BY DeploymentAssumption DEF WebInit, Init, Cells
<1>2. \A p \in Partition : Horizon(p) = 0
  BY DEF WebInit, Init, Horizon, NoOffset
<1> QED BY <1>1, <1>2, WebBaseInit, DeploymentAssumption
    DEF MonotonicInv, ReadsInv, NotOlder

LEMMA MonotonicNext == MonotonicInv /\ [WebNext]_webVars => MonotonicInv'
<1> SUFFICES ASSUME MonotonicInv, [WebNext]_webVars PROVE MonotonicInv'
  OBVIOUS
<1>1. WebBase' /\ WebBase
  BY WebBaseNext DEF MonotonicInv
<1>2. ASSUME NEW s \in InMemory, NEW k \in Key
      PROVE  NotOlder(s, k)'
  <2>1. NotOlder(s, k)
    BY DEF MonotonicInv, ReadsInv
  <2>2. CASE UNCHANGED webVars
    BY <2>1, <2>2 DEF webVars, vars, NotOlder, Horizon
  <2> QED BY <1>1, <1>2, <2>1, <2>2, ConsumerNotOlder, HandlerNotOlder DEF WebNext
<1> QED BY <1>1, <1>2 DEF MonotonicInv, ReadsInv

(* A GET of an in-memory store never finds a record older than one found   *)
(* before in the life of the process, over every revocation, lost          *)
(* assignment and new session, as far as the offsets of the group keep the *)
(* place: a session that has to read again goes back to its own beginning  *)
(* and no further (consumer.rs 82-116, 136-137).                           *)
THEOREM ReadsForward == WebSpec => ReadsMonotonic
<1> DEFINE Forward ==
      \A c \in Client :
        (/\ Called(c, "get") /\ req'[c] # req[c] /\ req[c].store \in InMemory
         /\ Cell(c) \notin Body \cup {Absent})
        => Cell(c) >= newest_read[<<req[c].store, req[c].key>>]
<1>1. MonotonicInv => Forward
  <2> SUFFICES ASSUME MonotonicInv, NEW c \in Client,
                      Called(c, "get"), req[c].store \in InMemory,
                      Cell(c) \notin Body \cup {Absent}
               PROVE  Cell(c) >= newest_read[<<req[c].store, req[c].key>>]
    OBVIOUS
  <2>1. req[c].key \in Key
    BY InFlightRequest DEF MonotonicInv, WebBase, Called, Operation, Requests
  <2> QED BY <2>1 DEF MonotonicInv, ReadsInv, NotOlder, Cell
<1>2. MonotonicInv /\ [WebNext]_webVars => [Forward]_webVars
  BY <1>1
<1> QED BY <1>2, MonotonicInit, MonotonicNext, PTL DEF WebSpec, ReadsMonotonic
=============================================================================
