----------------------------- MODULE JavaWebApi -----------------------------
(***************************************************************************)
(* The web server of the Java container beside its consumer thread: the    *)
(* handlers of RecordHandler share the stores, the schema cache and the    *)
(* fault budget with JavaConsumer.  Netty listens before the startup       *)
(* checks run, so requests are served while the thread is "off" as well.   *)
(*                                                                         *)
(* A GET reads its store and then asks SchemaService, which fetches what   *)
(* it has not cached: the consumer, other handlers and a process death may *)
(* come in between.  The list handler is in KeyListing, the lock around a  *)
(* fetch in SchemaService, the statements of the stores in Stores.         *)
(***************************************************************************)
EXTENDS JavaConsumer

CONSTANTS
  Client,      \* HTTP clients, each with one request at a time
  Routes,      \* cache.routes
  RouteStore,  \* the store a route names, which may not be configured
  KeyFromBody, \* routes with key_from_body
  Body,        \* payloads clients POST, as numbers that are no offsets
  BodySchema,  \* the schema id in a payload; an invalid one has NoSchema
  NoSchema,
  Unknown,     \* ids that are valid but that the registry does not know
  Unreadable,  \* values whose data the Avro reader refuses
  MaxRequests  \* bound: requests served

ASSUME WebAssumption ==
  /\ Body \subseteq Nat /\ \A b \in Body : b > MaxLog
  /\ Unknown \cap Schema = {} /\ NoSchema \notin Schema \cup Unknown
  /\ BodySchema \in [Body -> Schema \cup Unknown \cup {NoSchema}]
  /\ KeyFromBody \subseteq Routes /\ MaxRequests \in Nat

VARIABLES
  req,      \* the request of each client
  served,   \* requests accepted so far (bound)
  touched   \* history: cells whose last write came over HTTP

webVars == <<vars, req, served, touched>>
consumer == <<broker, thread, cur, removed, session, read, process, done,
              applied, dropped, abandoned, crashes, rebalances>>

NoRequest == [op |-> "none"]
Operation == {"get", "post", "delete"}
Answers == {"ok", "created", "missed", "no_schema", "bad_request", "error"}
Requests ==
  [op : Operation, store : StoreNames, key : Key, body : Body \cup {Absent},
   stage : {"called", "read", "fetching"}, value : Nat]
Answered == [op : {"answered"}, answer : Answers]

Cells == StoreNames \X Key

WebTypeOK ==
  /\ TypeOK
  /\ req \in [Client -> Requests \cup Answered \cup {NoRequest}]
  /\ served \in Nat /\ touched \subseteq Cells

WebInit ==
  /\ Init
  /\ req = [c \in Client |-> NoRequest] /\ served = 0 /\ touched = {}

In(c, op, stage) == req[c].op = op /\ req[c].stage = stage
Cell(c) == stores[req[c].store][req[c].key]
Answer(c, a) == req' = [req EXCEPT ![c] = [op |-> "answered", answer |-> a]]
Stage(c, stage) == req' = [req EXCEPT ![c] = [@ EXCEPT !.stage = stage]]
SchemaOf(c) ==
  LET v == req[c].value
  IN IF v \in Body THEN BodySchema[v] ELSE log[PartitionOf[req[c].key]][v].schema
Decoded(c) == IF req[c].value \in Unreadable THEN "error" ELSE "ok"

MountedAll == Routes   \* mutant: every route is mounted
(* WebConfig.route: a route whose store is not configured is left out.     *)
Mounted == {r \in Routes : RouteStore[r] \in StoreNames}

Accept(c, r) ==
  /\ req[c] = NoRequest /\ r \in Mounted
  /\ served < MaxRequests /\ served' = served + 1
  /\ UNCHANGED <<vars, touched>>

(* GET, POST and DELETE of /{id}, and GET of the _by_body path once it has *)
(* found its key.                                                          *)
Request(c, r, op, k, b) ==
  /\ Accept(c, r)
  /\ (op = "post") <=> (b # Absent)
  /\ req' = [req EXCEPT ![c] =
               [op |-> op, store |-> RouteStore[r], key |-> k, body |-> b,
                stage |-> "called", value |-> Absent]]

(* No JSON body, or one without the key, or with one of another type.      *)
NoKeyInBody(c, r) ==
  /\ r \in KeyFromBody /\ Accept(c, r)
  /\ Answer(c, "bad_request")

----------------------------------------------------------------------------
(* retrieveRecord, on a store that is not closed.                          *)

Reachable(c) == Open(req[c].store)

GetMiss(c) ==
  /\ In(c, "get", "called") /\ Reachable(c) /\ Cell(c) = Absent
  /\ Answer(c, "missed")
  /\ UNCHANGED <<vars, served, touched>>

GetHit(c) ==
  /\ In(c, "get", "called") /\ Reachable(c) /\ Cell(c) # Absent
  /\ req' = [req EXCEPT ![c] = [@ EXCEPT !.stage = "read", !.value = Cell(c)]]
  /\ UNCHANGED <<vars, served, touched>>

LookupCacheOnly(c) ==   \* mutant: what is not cached is not fetched
  /\ In(c, "get", "read")
  /\ Answer(c, IF SchemaOf(c) \in schema_cache THEN Decoded(c) ELSE "no_schema")
  /\ UNCHANGED <<vars, served, touched>>

Lookup(c) ==
  /\ In(c, "get", "read")
  /\ IF SchemaOf(c) \in schema_cache THEN Answer(c, Decoded(c))
                                     ELSE Stage(c, "fetching")
  /\ UNCHANGED <<vars, served, touched>>

FetchKnown(c) ==
  /\ In(c, "get", "fetching") /\ SchemaOf(c) \in Schema
  /\ schema_cache' = schema_cache \cup {SchemaOf(c)}
  /\ Answer(c, Decoded(c))
  /\ UNCHANGED <<consumer, stores, faults, served, touched>>

(* The registry does not know the id, or the call fails.                   *)
FetchRefused(c) ==
  /\ In(c, "get", "fetching")
  /\ IF SchemaOf(c) \in Unknown THEN UNCHANGED faults ELSE Fault
  /\ Answer(c, "no_schema")
  /\ UNCHANGED <<consumer, stores, schema_cache, served, touched>>

----------------------------------------------------------------------------
(* createRecord and deleteRecord.                                          *)

SetEverywhere(c, v) ==   \* mutant: every store is written
  /\ stores' = [s \in StoreNames |-> [stores[s] EXCEPT ![req[c].key] = v]]
  /\ touched' = touched \cup {<<req[c].store, req[c].key>>}

Set(c, v) ==
  /\ stores' = [stores EXCEPT ![req[c].store][req[c].key] = v]
  /\ touched' = touched \cup {<<req[c].store, req[c].key>>}

Invalid(c) == req[c].op = "post" /\ BodySchema[req[c].body] = NoSchema

PostInvalid(c) ==
  /\ In(c, "post", "called") /\ Invalid(c)
  /\ Answer(c, "error")
  /\ UNCHANGED <<vars, served, touched>>

(* The id in the payload is logged and not looked up.                      *)
Post(c) ==
  /\ In(c, "post", "called") /\ ~Invalid(c) /\ Reachable(c)
  /\ Set(c, req[c].body)
  /\ Answer(c, "created")
  /\ UNCHANGED <<consumer, schema_cache, faults, served>>

Delete(c) ==
  /\ In(c, "delete", "called") /\ Reachable(c)
  /\ Set(c, Absent)
  /\ Answer(c, IF Cell(c) = Absent THEN "missed" ELSE "ok")
  /\ UNCHANGED <<consumer, schema_cache, faults, served>>

(* A call to an external store fails, with or without its effect, and      *)
(* every call fails once the store is closed.                              *)
StoreError(c) ==
  /\ req[c].op \in Operation /\ req[c].stage = "called"
  /\ req[c].store \notin InMemory /\ ~Invalid(c)
  /\ IF closing THEN UNCHANGED faults ELSE Fault
  /\ \/ ~closing /\ req[c].op = "post" /\ Set(c, req[c].body)
     \/ ~closing /\ req[c].op = "delete" /\ Set(c, Absent)
     \/ UNCHANGED <<stores, touched>>
  /\ Answer(c, "error")
  /\ UNCHANGED <<consumer, schema_cache, served>>

(* The client has its answer.                                              *)
Receipt(c) ==
  /\ req[c].op = "answered"
  /\ req' = [req EXCEPT ![c] = NoRequest]
  /\ UNCHANGED <<vars, served, touched>>

----------------------------------------------------------------------------
(* A step of the consumer, the broker or the process: what the consumer    *)
(* writes is its own again, and a death takes every request with it.       *)
ConsumerWrote ==
  {x \in Cells :
     \/ /\ thread = "putting" /\ thread' = "processing" /\ applied' # applied
        /\ x = <<Target, InHand.key>>
     \/ /\ thread = "removing" /\ (removed' > removed \/ thread' = "processing")
        /\ x = <<Current, InHand.key>>}

ConsumerStep ==
  /\ Next
  /\ touched' = touched \ ConsumerWrote
  /\ req' = IF crashes' # crashes THEN [c \in Client |-> NoRequest] ELSE req
  /\ UNCHANGED served

Serve(c) ==
  \/ GetMiss(c) \/ GetHit(c) \/ Lookup(c) \/ FetchKnown(c)
  \/ (In(c, "get", "fetching") /\ SchemaOf(c) \in Unknown /\ FetchRefused(c))
  \/ PostInvalid(c) \/ Post(c) \/ Delete(c)
  \/ (closing /\ StoreError(c))

WebStep(c) ==
  \/ \E r \in Routes :
       \/ \E op \in Operation, k \in Key, b \in Body \cup {Absent} :
            Request(c, r, op, k, b)
       \/ NoKeyInBody(c, r)
  \/ GetMiss(c) \/ GetHit(c) \/ Lookup(c) \/ FetchKnown(c) \/ FetchRefused(c)
  \/ PostInvalid(c) \/ Post(c) \/ Delete(c) \/ StoreError(c) \/ Receipt(c)

WebNext == ConsumerStep \/ \E c \in Client : WebStep(c)

WebSpec == WebInit /\ [][WebNext]_webVars

(* Handlers run, stores and registry answer or fail.                       *)
WebFairness == Fairness /\ \A c \in Client : WF_webVars(Serve(c))

----------------------------------------------------------------------------
(* Properties.                                                             *)

Refusing(c) ==
  /\ req[c].op = "get" /\ req[c].stage # "called" /\ req[c].value \notin Body
  /\ req'[c].op = "answered" /\ req'[c].answer = "no_schema"

(* A GET that has read a record is refused only after a call has failed,   *)
(* after a restart with an empty schema cache and before the consumer runs *)
(* as well (RecordHandler 181 fetches what is missing); and not even then  *)
(* if its store is in memory, whose schemas the consumer has cached before *)
(* it put the records.                                                     *)
RecordsReadable ==
  [][\A c \in Client :
       Refusing(c) => faults' > 0 /\ req[c].store \notin InMemory]_webVars

(* HTTP writes disturb the cells they name and no other, and only until    *)
(* the next record for the cell.                                           *)
OnlyTouchedDiffer ==
  assigned =>
    \A s \in StoreNames, k \in Key : <<s, k>> \notin touched => Follows(s, k)

(* The databases are behind the group's offsets by dropped and abandoned   *)
(* records only (DatabaseDurable), as long as nobody writes over HTTP.     *)
DatabasesDurable == served = 0 => DatabaseDurable

(* Every accepted request is answered unless the process dies first.       *)
RequestsAnswered ==
  \A c \in Client :
    req[c].op \in Operation ~> (req[c].op = "answered" \/ req[c] = NoRequest)

(* Neither the consumer thread nor a handler gets stuck: records are dealt *)
(* with, the process becomes ready, requests are answered.                 *)
KeepsGoing == EveryRecordHandled /\ EventuallyReady /\ RequestsAnswered
=============================================================================
