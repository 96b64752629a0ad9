------------------------------- MODULE Stores -------------------------------
(***************************************************************************)
(* The store backends of both containers, statement by statement, under    *)
(* concurrent callers (the consumer task and HTTP handlers).  The state of *)
(* Redis, Mongo and the databases is external and is modelled from the     *)
(* commands cache.rs and the Java caches send:                             *)
(*                                                                         *)
(*   InMemory      DashMap / ConcurrentHashMap, then a size gauge          *)
(*   Redis         SET, GETDEL                                (cache.rs)   *)
(*   RedisTwoStep  SET, GET then DEL                          (Java)       *)
(*   Mongo         update_one with upsert, find_one_and_delete    (both)   *)
(*   Oracle        MERGE, SELECT then DELETE in a transaction     (both)   *)
(*   Postgres      INSERT ON CONFLICT, DELETE RETURNING       (cache.rs)   *)
(*   PostgresTx    INSERT ON CONFLICT, SELECT then DELETE     (Java)       *)
(***************************************************************************)
EXTENDS Integers, Sequences, FiniteSets

CONSTANTS
  Client,      \* tasks and threads that call the stores
  Store,       \* names of config.cache.stores
  Key, Value,
  BackendOf,   \* the backend of each store
  Deployments, \* the sets of stores a config may list
  MaxFaults    \* bound: failed calls to external stores

Backends == {"InMemory", "Redis", "RedisTwoStep", "Mongo", "Oracle",
             "Postgres", "PostgresTx"}

Cell == Store \X Key

VARIABLES
  configured,  \* config.cache.stores: the stores there are
  docs,    \* rows or documents of each cell; only Mongo can hold several
  owner,   \* the client whose open transaction has locked the row
  call,    \* the operation a client is in
  pc,      \* where it is in it
  ret,     \* what it has read or will answer
  gauge,   \* cache_size, one gauge for every in-memory store
  held,    \* history: what the cell has held since the call began
  faults

vars == <<configured, docs, owner, call, pc, ret, gauge, held, faults>>

Absent == "absent"
Pending == "pending"
Ok == "ok"
Error == "error"
Yes == "yes"
No == "no"
Nobody == "nobody"
Ops == {"get", "insert", "remove", "contains_key"}
NoOp == [op |-> "none"]

ASSUME StoresAssumption ==
  /\ BackendOf \in [Store -> Backends]
  /\ Deployments \subseteq SUBSET Store
  /\ MaxFaults \in Nat /\ Nobody \notin Client
  /\ Value \cap {Absent, Pending, Ok, Error, Yes, No} = {}

Argument(op) == IF op = "insert" THEN Value ELSE {Absent}
Calls == [op : Ops, cell : Cell, val : Value \cup {Absent}]
Stages == {"idle", "called", "counting", "upserting", "selected", "merging",
           "commit", "done"}

TypeOK ==
  /\ configured \in Deployments
  /\ docs \in [Cell -> Seq(Value)]
  /\ owner \in [Cell -> Client \cup {Nobody}]
  /\ call \in [Client -> Calls \cup {NoOp}]
  /\ pc \in [Client -> Stages]
  /\ ret \in [Client -> Value \cup {Pending, Absent, Ok, Error, Yes, No}]
  /\ gauge \in Int
  /\ held \in [Client -> SUBSET (Value \cup {Absent})]
  /\ faults \in Nat

Init ==
  /\ configured \in Deployments
  /\ docs = [x \in Cell |-> <<>>]
  /\ owner = [x \in Cell |-> Nobody]
  /\ call = [c \in Client |-> NoOp]
  /\ pc = [c \in Client |-> "idle"]
  /\ ret = [c \in Client |-> Pending]
  /\ gauge = 0
  /\ held = [c \in Client |-> {}]
  /\ faults = 0

----------------------------------------------------------------------------
(* Abbreviations for the operation client c is in.                         *)

Target(c) == call[c].cell
Backend(c) == BackendOf[Target(c)[1]]
Rows(c) == docs[Target(c)]
(* A statement that writes a row waits for a transaction that holds it.    *)
Unlocked(c) == owner[Target(c)] = Nobody
At(c, stage, op) == pc[c] = stage /\ call[c].op = op

PutRows(c, rows) == docs' = [docs EXCEPT ![Target(c)] = rows]
Goto(c, stage) == pc' = [pc EXCEPT ![c] = stage]
Reply(c, r) == ret' = [ret EXCEPT ![c] = r]
Finish(c, r) == Goto(c, "done") /\ Reply(c, r)
Lock(c) == owner' = [owner EXCEPT ![Target(c)] = c]
Unlock(c) ==
  owner' = IF owner[Target(c)] = c THEN [owner EXCEPT ![Target(c)] = Nobody]
                                   ELSE owner

First(rows) == IF rows = <<>> THEN Absent ELSE rows[1]
(* What a write that keeps one row per key leaves in the cell.             *)
Written(c) == IF call[c].op = "insert" THEN <<call[c].val>> ELSE <<>>

Begin(c, op, x, v) ==
  /\ pc[c] = "idle"
  /\ call' = [call EXCEPT ![c] = [op |-> op, cell |-> x, val |-> v]]
  /\ Goto(c, "called")
  /\ UNCHANGED <<docs, owner, ret, gauge, faults>>

Return(c) ==
  /\ pc[c] = "done"
  /\ call' = [call EXCEPT ![c] = NoOp]
  /\ Goto(c, "idle") /\ Reply(c, Pending)
  /\ UNCHANGED <<docs, owner, gauge, faults>>

----------------------------------------------------------------------------
(* Reads: one statement in every backend.                                  *)

Get(c) ==
  /\ At(c, "called", "get")
  /\ Finish(c, First(Rows(c)))
  /\ UNCHANGED <<docs, owner, call, gauge, faults>>

ContainsKey(c) ==
  /\ At(c, "called", "contains_key")
  /\ Finish(c, IF Rows(c) = <<>> THEN No ELSE Yes)
  /\ UNCHANGED <<docs, owner, call, gauge, faults>>

----------------------------------------------------------------------------
(* InMemory: the map, then the gauge if the map's size has changed.        *)

MapInsertCounted(c) ==   \* mutant: every insert is counted as a new key
  /\ At(c, "called", "insert") /\ Backend(c) = "InMemory"
  /\ PutRows(c, Written(c))
  /\ Reply(c, Ok)
  /\ Goto(c, "counting")
  /\ UNCHANGED <<owner, call, gauge, faults>>

MapInsert(c) ==
  /\ At(c, "called", "insert") /\ Backend(c) = "InMemory"
  /\ PutRows(c, Written(c))
  /\ Reply(c, Ok)
  /\ Goto(c, IF Rows(c) = <<>> THEN "counting" ELSE "done")
  /\ UNCHANGED <<owner, call, gauge, faults>>

MapRemove(c) ==
  /\ At(c, "called", "remove") /\ Backend(c) = "InMemory"
  /\ PutRows(c, Written(c))
  /\ Reply(c, First(Rows(c)))
  /\ Goto(c, IF Rows(c) = <<>> THEN "done" ELSE "counting")
  /\ UNCHANGED <<owner, call, gauge, faults>>

AdjustGauge(c) ==
  /\ pc[c] = "counting"
  /\ gauge' = IF call[c].op = "insert" THEN gauge + 1 ELSE gauge - 1
  /\ Goto(c, "done")
  /\ UNCHANGED <<docs, owner, call, ret, faults>>

----------------------------------------------------------------------------
(* One statement or command.                                               *)

UpsertNoConflict(c) ==   \* mutant: a plain INSERT
  /\ At(c, "called", "insert")
  /\ Backend(c) \in {"Redis", "RedisTwoStep", "Postgres", "PostgresTx"}
  /\ Unlocked(c)
  /\ PutRows(c, IF Rows(c) = <<>> THEN Written(c) ELSE Rows(c))
  /\ Finish(c, IF Rows(c) = <<>> THEN Ok ELSE Error)
  /\ UNCHANGED <<owner, call, gauge, faults>>

Upsert(c) ==
  /\ At(c, "called", "insert")
  /\ Backend(c) \in {"Redis", "RedisTwoStep", "Postgres", "PostgresTx"}
  /\ Unlocked(c)
  /\ PutRows(c, Written(c))
  /\ Finish(c, Ok)
  /\ UNCHANGED <<owner, call, gauge, faults>>

DeleteOneReturnsNone(c) ==   \* mutant: the row is deleted, its value not kept
  /\ At(c, "called", "remove") /\ Backend(c) \in {"Redis", "Postgres"}
  /\ PutRows(c, Written(c))
  /\ Finish(c, Absent)
  /\ UNCHANGED <<owner, call, gauge, faults>>

(* GETDEL, DELETE RETURNING.                                               *)
DeleteOne(c) ==
  /\ At(c, "called", "remove") /\ Backend(c) \in {"Redis", "Postgres"}
  /\ PutRows(c, Written(c))
  /\ Finish(c, First(Rows(c)))
  /\ UNCHANGED <<owner, call, gauge, faults>>

----------------------------------------------------------------------------
(* Mongo, with no unique index on "key": two upserts that both find no     *)
(* document both insert one; a remove takes one document away.             *)

Appended(c) == Append(Rows(c), call[c].val)
Rest(rows) == IF rows = <<>> THEN <<>> ELSE Tail(rows)

UpdateOne(c) ==
  /\ At(c, "called", "insert") /\ Backend(c) = "Mongo"
  /\ \/ /\ Rows(c) # <<>>
        /\ PutRows(c, <<call[c].val>> \o Tail(Rows(c)))
        /\ Finish(c, Ok)
     \/ /\ Rows(c) = <<>>
        /\ Goto(c, "upserting")
        /\ UNCHANGED <<docs, ret>>
  /\ UNCHANGED <<owner, call, gauge, faults>>

UpsertInsert(c) ==
  /\ pc[c] = "upserting"
  /\ PutRows(c, Appended(c))
  /\ Finish(c, Ok)
  /\ UNCHANGED <<owner, call, gauge, faults>>

FindOneAndDelete(c) ==
  /\ At(c, "called", "remove") /\ Backend(c) = "Mongo"
  /\ PutRows(c, Rest(Rows(c)))
  /\ Finish(c, First(Rows(c)))
  /\ UNCHANGED <<owner, call, gauge, faults>>

----------------------------------------------------------------------------
(* Remove as SELECT and DELETE, or GET and DEL.                            *)

Transactional(c) == Backend(c) \in {"Oracle", "PostgresTx"}

SelectOld(c) ==
  /\ At(c, "called", "remove")
  /\ Backend(c) \in {"Oracle", "PostgresTx", "RedisTwoStep"}
  /\ Reply(c, First(Rows(c)))
  /\ Goto(c, IF Backend(c) = "RedisTwoStep" /\ Rows(c) = <<>> THEN "done"
                                                              ELSE "selected")
  /\ UNCHANGED <<docs, owner, call, gauge, faults>>

(* Redis is done with the DEL.  A transaction locks the row it deletes, or *)
(* finds none; it is visible with the commit.                              *)
DeleteOld(c) ==
  /\ pc[c] = "selected"
  /\ \/ /\ ~Transactional(c)
        /\ PutRows(c, <<>>)
        /\ Goto(c, "done")
        /\ UNCHANGED owner
     \/ /\ Transactional(c) /\ Rows(c) = <<>>
        /\ Goto(c, "commit")
        /\ UNCHANGED <<docs, owner>>
     \/ /\ Transactional(c) /\ Rows(c) # <<>> /\ Unlocked(c)
        /\ Lock(c)
        /\ Goto(c, "commit")
        /\ UNCHANGED docs
  /\ UNCHANGED <<call, ret, gauge, faults>>

----------------------------------------------------------------------------
(* Oracle's MERGE decides between UPDATE and INSERT from the rows          *)
(* committed when it starts; an INSERT waits for a transaction inserting   *)
(* the same key and then violates the primary key.                         *)

Merge(c) ==
  /\ At(c, "called", "insert") /\ Backend(c) = "Oracle"
  /\ \/ /\ Rows(c) = <<>>
        /\ Goto(c, "merging")
        /\ UNCHANGED owner
     \/ /\ Rows(c) # <<>> /\ Unlocked(c)
        /\ Lock(c)
        /\ Goto(c, "commit")
  /\ Reply(c, Ok)
  /\ UNCHANGED <<docs, call, gauge, faults>>

MergeInsert(c) ==
  /\ pc[c] = "merging" /\ Unlocked(c)
  /\ \/ /\ Rows(c) = <<>>
        /\ Lock(c)
        /\ Goto(c, "commit")
        /\ UNCHANGED ret
     \/ /\ Rows(c) # <<>>
        /\ Finish(c, Error)
        /\ UNCHANGED owner
  /\ UNCHANGED <<docs, call, gauge, faults>>

CommitKept(c) ==   \* mutant: the DELETE is never committed
  /\ pc[c] = "commit"
  /\ IF owner[Target(c)] = c /\ call[c].op = "insert"
       THEN PutRows(c, Written(c)) ELSE UNCHANGED docs
  /\ Unlock(c)
  /\ Goto(c, "done")
  /\ UNCHANGED <<call, ret, gauge, faults>>

Commit(c) ==
  /\ pc[c] = "commit"
  /\ IF owner[Target(c)] = c THEN PutRows(c, Written(c)) ELSE UNCHANGED docs
  /\ Unlock(c)
  /\ Goto(c, "done")
  /\ UNCHANGED <<call, ret, gauge, faults>>

----------------------------------------------------------------------------
(* A call to an external store fails.  What it had written in a            *)
(* transaction is rolled back; a single statement, or the commit, may have *)
(* been done all the same.                                                 *)

Outcomes(c) ==
  {Rows(c)} \cup
  (IF Backend(c) = "Mongo"
   THEN IF At(c, "called", "remove") THEN {Rest(Rows(c))}
        ELSE IF pc[c] = "upserting" THEN {Appended(c)}
        ELSE IF At(c, "called", "insert") /\ Rows(c) # <<>>
             THEN {<<call[c].val>> \o Tail(Rows(c))} ELSE {}
   ELSE IF \/ pc[c] = "commit" /\ owner[Target(c)] = c
           \/ pc[c] = "selected" /\ Backend(c) = "RedisTwoStep"
           \/ /\ pc[c] = "called" /\ Unlocked(c)
              /\ \/ call[c].op = "insert" /\ Backend(c) # "Oracle"
                 \/ call[c].op = "remove" /\ Backend(c) \in {"Redis", "Postgres"}
        THEN {Written(c)} ELSE {})

Fault(c) ==
  /\ pc[c] \in {"called", "selected", "upserting", "merging", "commit"}
  /\ Backend(c) # "InMemory"
  /\ faults < MaxFaults /\ faults' = faults + 1
  /\ \E rows \in Outcomes(c) : PutRows(c, rows)
  /\ Unlock(c)
  /\ Finish(c, Error)
  /\ UNCHANGED <<call, gauge>>

----------------------------------------------------------------------------
Step(c) ==
  \/ Get(c) \/ ContainsKey(c)
  \/ MapInsert(c) \/ MapRemove(c) \/ AdjustGauge(c)
  \/ Upsert(c) \/ DeleteOne(c)
  \/ UpdateOne(c) \/ UpsertInsert(c) \/ FindOneAndDelete(c)
  \/ SelectOld(c) \/ DeleteOld(c) \/ Merge(c) \/ MergeInsert(c) \/ Commit(c)
  \/ Return(c)

(* History: everything the cell of a call has held since the call began.   *)
Contents(rows) ==
  IF rows = <<>> THEN {Absent} ELSE {rows[i] : i \in DOMAIN rows}
Record ==
  held' = [c \in Client |->
             IF pc'[c] = "idle" THEN {}
             ELSE held[c] \cup Contents(docs'[call'[c].cell])]

Next ==
  /\ \E c \in Client :
       \/ \E op \in Ops, x \in configured \X Key :
            \E v \in Argument(op) : Begin(c, op, x, v)
       \/ Step(c)
       \/ Fault(c)
  /\ Record
  /\ UNCHANGED configured

Spec == Init /\ [][Next]_vars

----------------------------------------------------------------------------
(* Properties.                                                             *)

InMemoryCells == {x \in Cell : BackendOf[x[1]] = "InMemory"}
Occupied == {x \in InMemoryCells : docs[x] # <<>>}
Uncounted(op) == {c \in Client : At(c, "counting", op)}

(* The shared size gauge of the in-memory stores (cache.rs, insert and     *)
(* remove) differs from the number of their keys by exactly the operations *)
(* that have changed a map and not yet the gauge: with no operation in     *)
(* progress it is right, whatever raced.                                   *)
GaugeCounts ==
  gauge + Cardinality(Uncounted("insert")) - Cardinality(Uncounted("remove"))
    = Cardinality(Occupied)

(* Every answer is explained by a moment between the call and the answer,  *)
(* for every backend of both containers: get and remove answer what the    *)
(* cell held, contains_key whether it held anything, and a remove that     *)
(* succeeds has seen the cell empty.  The last is not so in Mongo, where   *)
(* UpsertInsert can leave a second document of the key behind.             *)
Explained(c) ==
  /\ call[c].op \in {"get", "remove"} => ret[c] \in held[c]
  /\ ret[c] = No => Absent \in held[c]
  /\ ret[c] = Yes => held[c] \cap Value # {}
  /\ call[c].op = "remove" /\ Backend(c) # "Mongo" => Absent \in held[c]
AnswersHeld ==
  \A c \in Client : pc[c] = "done" /\ ret[c] # Error => Explained(c)

(* A call that no fault has hit does not fail because of other callers.    *)
(* Not so in Oracle, where the loser of two MERGEs of a new key violates   *)
(* the primary key (MergeInsert).                                          *)
ErrorsAreFaults ==
  \A c \in Client :
    faults = 0 /\ ret[c] = Error => Backend(c) = "Oracle"

(* Whoever has locked a row has only its commit left to do, and a commit   *)
(* waits for nobody: the transactions that wait for a row (Unlocked) never *)
(* wait for each other, in any backend.                                    *)
LockHolderRuns ==
  \A x \in Cell :
    owner[x] # Nobody => pc[owner[x]] = "commit" /\ Target(owner[x]) = x

(* The stores whose every operation is one statement implement AtomicStore:*)
(* the operation takes effect with the statement, or with the map operation*)
(* that precedes the gauge.  The calls of the others are left out.         *)
OneStatement ==
  {x \in Cell : BackendOf[x[1]] \in {"InMemory", "Redis", "Postgres"}}
AbstractContent == [x \in OneStatement |-> First(docs[x])]
AbstractCall(c) ==
  IF pc[c] = "idle" \/ Target(c) \notin OneStatement THEN NoOp
  ELSE [op |-> call[c].op, cell |-> call[c].cell, val |-> call[c].val,
        ret |-> IF pc[c] \in {"counting", "done"} THEN ret[c] ELSE Pending]

Atomic == INSTANCE AtomicStore
            WITH Cell <- OneStatement, content <- AbstractContent,
                 calls <- [c \in Client |-> AbstractCall(c)]

Linearizable == Atomic!Spec
=============================================================================
