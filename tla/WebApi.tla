------------------------------- MODULE WebApi -------------------------------
(***************************************************************************)
(* The web server of the Rust container (webserver/mod.rs) beside the      *)
(* consumer task of the same process: the handlers of every route share    *)
(* the stores, the schema cache and the fault budget with PushConsumer.    *)
(*                                                                         *)
(* A handler awaits its store and then, for a GET, looks the schema up:    *)
(* the consumer, other handlers and a process death may come in between.   *)
(* The list handler is in KeyListing; the statements of the stores are in  *)
(* Stores.                                                                 *)
(***************************************************************************)
EXTENDS PushConsumer

CONSTANTS
  Client,      \* HTTP clients, each with one request at a time
  Routes,      \* config.cache.routes
  RouteStore,  \* the store a route names, which may not be configured
  KeyFromBody, \* routes with key_from_body
  Body,        \* payloads clients POST, as numbers that are no offsets
  BodySchema,  \* the schema id in a payload; an invalid one has NoSchema
  NoSchema,
  Unreadable,  \* values whose data from_avro_datum refuses
  MaxRequests  \* bound: requests served

ASSUME WebAssumption ==
  /\ Body \subseteq Nat /\ \A b \in Body : b > MaxLog
  /\ NoSchema \notin Schema /\ BodySchema \in [Body -> Schema \cup {NoSchema}]
  /\ KeyFromBody \subseteq Routes /\ MaxRequests \in Nat

VARIABLES
  req,           \* the request of each client
  requests_miss, \* counter
  served,        \* requests accepted so far (bound)
  touched,       \* history: cells whose last write came over HTTP
  newest_read    \* history: the newest record a GET has found in each cell,
                 \* of those the client will not be given again

web == <<req, requests_miss, served, touched, newest_read>>
webVars == <<vars, web>>
rest == <<broker, task, schema_cache, client, metrics, health, history,
          log_at_boot, crashes, rebalances>>

NoRequest == [op |-> "none"]
Operation == {"get", "post", "delete"}
Answers == {"ok", "created", "missed", "no_schema", "bad_request", "error"}
Requests ==
  [op : Operation, store : Store, key : Key, body : Body \cup {Absent},
   stage : {"called", "read"}, value : Nat]
Answered == [op : {"answered"}, answer : Answers]

Cells == Store \X Key

WebTypeOK ==
  /\ TypeOK
  /\ req \in [Client -> Requests \cup Answered \cup {NoRequest}]
  /\ requests_miss \in Nat /\ served \in Nat
  /\ touched \subseteq Cells
  /\ newest_read \in [Cells -> Nat]

WebInit ==
  /\ Init
  /\ req = [c \in Client |-> NoRequest]
  /\ requests_miss = 0 /\ served = 0
  /\ touched = {} /\ newest_read = [x \in Cells |-> 0]

Called(c, op) == req[c].op = op /\ req[c].stage = "called"
Cell(c) == stores[req[c].store][req[c].key]
Answer(c, a) == req' = [req EXCEPT ![c] = [op |-> "answered", answer |-> a]]
SchemaOf(k, v) ==
  IF v \in Body THEN BodySchema[v] ELSE log[PartitionOf[k]][v].schema

MountedAll == Routes   \* mutant: every route is mounted
(* start_app_api: a route whose store is not configured is not mounted.    *)
Mounted == {r \in Routes : RouteStore[r] \in Store}

Accept(c, r) ==
  /\ phase # "down" /\ req[c] = NoRequest /\ r \in Mounted
  /\ served < MaxRequests /\ served' = served + 1
  /\ UNCHANGED <<vars, requests_miss, touched, newest_read>>

(* GET, POST and DELETE of /{account_id}, and GET of the _by_body route    *)
(* once it has found its key.                                              *)
Request(c, r, op, k, b) ==
  /\ Accept(c, r)
  /\ (op = "post") <=> (b # Absent)
  /\ req' = [req EXCEPT ![c] =
               [op |-> op, store |-> RouteStore[r], key |-> k, body |-> b,
                stage |-> "called", value |-> Absent]]

(* A body without the key field, or with one that is no string or number.  *)
NoKeyInBody(c, r) ==
  /\ r \in KeyFromBody /\ Accept(c, r)
  /\ Answer(c, "bad_request")

----------------------------------------------------------------------------
(* retrieve_record_logic.                                                  *)

GetMiss(c) ==
  /\ Called(c, "get") /\ Cell(c) = Absent
  /\ requests_miss' = requests_miss + 1
  /\ Answer(c, "missed")
  /\ UNCHANGED <<vars, served, touched, newest_read>>

(* A record beyond where the client stands will be read again.             *)
GetHit(c) ==
  /\ Called(c, "get") /\ Cell(c) # Absent
  /\ req' = [req EXCEPT ![c] = [@ EXCEPT !.stage = "read", !.value = Cell(c)]]
  /\ newest_read' =
       [newest_read EXCEPT ![<<req[c].store, req[c].key>>] =
          IF Cell(c) \notin Body /\ @ < Cell(c)
             /\ Cell(c) <= Horizon(PartitionOf[req[c].key])
          THEN Cell(c) ELSE @]
  /\ UNCHANGED <<vars, requests_miss, served, touched>>

DecodeCached(c) ==   \* mutant: waits for the consumer to cache the schema
  /\ req[c].op = "get" /\ req[c].stage = "read"
  /\ SchemaOf(req[c].key, req[c].value) \in schema_cache
  /\ Answer(c, IF req[c].value \in Unreadable THEN "error" ELSE "ok")
  /\ UNCHANGED <<vars, requests_miss, served, touched, newest_read>>

Decode(c) ==
  /\ req[c].op = "get" /\ req[c].stage = "read"
  /\ Answer(c, IF SchemaOf(req[c].key, req[c].value) \notin schema_cache
               THEN "no_schema"
               ELSE IF req[c].value \in Unreadable THEN "error" ELSE "ok")
  /\ UNCHANGED <<vars, requests_miss, served, touched, newest_read>>

----------------------------------------------------------------------------
(* create_record and delete_record.                                        *)

(* mutant: the value is written to every store, as a tombstone is          *)
SetEverywhere(c, v) ==
  /\ stores' = [s \in Store |-> [stores[s] EXCEPT ![req[c].key] = v]]
  /\ touched' = touched \cup {<<req[c].store, req[c].key>>}

Set(c, v) ==
  /\ stores' = [stores EXCEPT ![req[c].store][req[c].key] = v]
  /\ touched' = touched \cup {<<req[c].store, req[c].key>>}

PostInvalid(c) ==
  /\ Called(c, "post") /\ BodySchema[req[c].body] = NoSchema
  /\ Answer(c, "error")
  /\ UNCHANGED <<vars, requests_miss, served, touched, newest_read>>

Post(c) ==
  /\ Called(c, "post") /\ BodySchema[req[c].body] # NoSchema
  /\ Set(c, req[c].body)
  /\ Answer(c, "created")
  /\ UNCHANGED <<rest, faults, requests_miss, served, newest_read>>

Delete(c) ==
  /\ Called(c, "delete")
  /\ Set(c, Absent)
  /\ Answer(c, IF Cell(c) = Absent THEN "missed" ELSE "ok")
  /\ UNCHANGED <<rest, faults, requests_miss, served, newest_read>>

(* A call to an external store fails, with or without its effect.          *)
StoreError(c) ==
  /\ req[c].op \in Operation /\ req[c].stage = "called"
  /\ req[c].store \notin InMemory
  /\ req[c].op = "post" => BodySchema[req[c].body] # NoSchema
  /\ Fault
  /\ \/ req[c].op = "post" /\ Set(c, req[c].body)
     \/ req[c].op = "delete" /\ Set(c, Absent)
     \/ UNCHANGED <<stores, touched>>
  /\ Answer(c, "error")
  /\ UNCHANGED <<rest, requests_miss, served, newest_read>>

(* The client has its answer.                                              *)
Receipt(c) ==
  /\ req[c].op = "answered"
  /\ req' = [req EXCEPT ![c] = NoRequest]
  /\ UNCHANGED <<vars, requests_miss, served, touched, newest_read>>

----------------------------------------------------------------------------
(* A step of the consumer, the broker or the process: what the consumer    *)
(* writes is its own again, and a death takes every request with it.       *)
ConsumerWrote ==
  {x \in Cells :
     \/ /\ phase = "inserting" /\ phase' = "idle"
        /\ x = <<StoreOf[InHand.schema], InHand.key>>
     \/ /\ phase = "removing" /\ phase' \in {"removing", "idle"}
        /\ x[1] \in todo \ todo' /\ x[2] = InHand.key}

(* An assignment that ends takes the client back to the offsets of the     *)
(* group: what GETs have found of later records is read again.             *)
StillRead(x) ==
  IF ~assigned' /\ Horizon(PartitionOf[x[2]])' < newest_read[x]
  THEN Horizon(PartitionOf[x[2]])' ELSE newest_read[x]

ConsumerStep ==
  /\ Next
  /\ touched' = touched \ ConsumerWrote
  /\ IF phase' = "down"
     THEN /\ req' = [c \in Client |-> NoRequest]
          /\ requests_miss' = 0
          /\ newest_read' = [x \in Cells |-> 0]
     ELSE /\ newest_read' = [x \in Cells |-> StillRead(x)]
          /\ UNCHANGED <<req, requests_miss>>
  /\ UNCHANGED served

Handle(c) ==
  \/ GetMiss(c) \/ GetHit(c) \/ Decode(c)
  \/ PostInvalid(c) \/ Post(c) \/ Delete(c)

WebStep(c) ==
  \/ \E r \in Routes :
       \/ \E op \in Operation, k \in Key, b \in Body \cup {Absent} :
            Request(c, r, op, k, b)
       \/ NoKeyInBody(c, r)
  \/ Handle(c) \/ StoreError(c) \/ Receipt(c)

WebNext == ConsumerStep \/ \E c \in Client : WebStep(c)

WebSpec == WebInit /\ [][WebNext]_webVars

(* The runtime runs every handler to its end and store calls return.       *)
WebFairness == \A c \in Client : WF_webVars(Handle(c))

----------------------------------------------------------------------------
(* Properties.                                                             *)

(* A GET of an in-memory store answers "Schema not found in cache" only    *)
(* for a value that was POSTed: whatever the consumer wrote, it cached the *)
(* schema of before, and what a handler has read it can still decode when  *)
(* the cell has been overwritten or deleted meanwhile (mod.rs 249-275).    *)
RecordsDecode ==
  [][\A c \in Client :
       (/\ req[c].op = "get" /\ req[c].stage = "read"
        /\ req[c].store \in InMemory /\ req[c].value \notin Body
        /\ req'[c].op = "answered")
       => req'[c].answer # "no_schema"]_webVars

(* Writes over HTTP disturb the cells they name and no other, and only     *)
(* until the next record for the cell: every other cell still holds what   *)
(* the latest record of the session says.                                  *)
OnlyTouchedDiffer ==
  assigned =>
    \A s \in Store, k \in Key :
      <<s, k>> \notin touched => Decides(Settled(s, k), s, k)

(* Within the life of a process a GET of an in-memory store never finds a  *)
(* record older than one found before, over every revocation and every new *)
(* session, as far as the offsets of the group keep the place: what goes   *)
(* back, after an assignment that was lost or whose commit failed or under *)
(* force_reset_earliest, goes back to where that session begins and no     *)
(* further (consumer.rs 82-116, 136-137).                                  *)
ReadsMonotonic ==
  [][\A c \in Client :
       (/\ Called(c, "get") /\ req'[c] # req[c] /\ req[c].store \in InMemory
        /\ Cell(c) \notin Body \cup {Absent})
       => Cell(c) >= newest_read[<<req[c].store, req[c].key>>]]_webVars

(* Every accepted request is answered unless the process dies.             *)
RequestsAnswered ==
  \A c \in Client :
    req[c].op \in Operation ~> (req[c].op = "answered" \/ phase = "down")

=============================================================================
