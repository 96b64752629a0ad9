---------------------------- MODULE StoresProofs ----------------------------
(***************************************************************************)
(* Proofs about Stores and KeyListing, for any clients, stores, keys,      *)
(* deployments, limits, offsets, writes and faults.  The inductive         *)
(* invariant of Stores adds to the properties what a client's stage says   *)
(* of its call (StageInv), that the history of a call has what its cell    *)
(* holds now (HeldInv), and what a remove has in hand before it answers    *)
(* (RemoveInv); that of KeyListing splits the keys at the bucket of the    *)
(* scan (ScanInv), bounds what was found (FoundInv) and the pages          *)
(* (PagesInv), and counts the keys before the next page (WalkInv).         *)
(***************************************************************************)
EXTENDS MCStores, FiniteSetTheorems, TLAPS

InFlight == {"selected", "commit", "counting", "done"}
Tx == {"Oracle", "PostgresTx"}

(* Client c may be at stage s of its call with r in hand.                  *)
Fits(c, s, r) ==
  /\ s = "idle" => call[c] = NoOp /\ r = Pending
  /\ s # "idle" =>
       /\ call[c] \in Calls
       /\ call[c].op = "insert" => call[c].val \in Value
  /\ s = "called" => r = Pending
  /\ s = "counting" =>
       Backend(c) = "InMemory" /\ call[c].op \in {"insert", "remove"}
  /\ s = "upserting" => Backend(c) = "Mongo" /\ call[c].op = "insert"
  /\ s = "selected" =>
       Backend(c) \in Tx \cup {"RedisTwoStep"} /\ call[c].op = "remove"
  /\ s = "merging" =>
       Backend(c) = "Oracle" /\ call[c].op = "insert" /\ r = Ok
  /\ s = "commit" =>
       Backend(c) \in Tx /\ call[c].op \in {"insert", "remove"}
  /\ s \in InFlight => r # Pending
  /\ s \in InFlight \ {"done"} => r # Error

StageOK(c) == Fits(c, pc[c], ret[c])
StageInv == \A c \in Client : StageOK(c)
TypeInv == TypeOK /\ StageInv

USE StoresAssumption DEF Nobody

(* What a statement returns is a value or Absent.                          *)
LEMMA FirstType == ASSUME NEW rows \in Seq(Value)
                   PROVE  /\ First(rows) \in Value \cup {Absent}
                          /\ First(rows) = Absent <=> rows = <<>>
BY DEF First, Absent

LEMMA TypeInit == Init => TypeInv
BY DEF Init, TypeInv, TypeOK, StageInv, StageOK, Fits, Stages, NoOp, Pending, InFlight, Cell

(* Everything a client changes, without the history.                       *)
Core ==
  /\ docs \in [Cell -> Seq(Value)]
  /\ owner \in [Cell -> Client \cup {Nobody}]
  /\ call \in [Client -> Calls \cup {NoOp}]
  /\ pc \in [Client -> Stages]
  /\ ret \in [Client -> Value \cup {Pending, Absent, Ok, Error, Yes, No}]
  /\ gauge \in Int
  /\ faults \in Nat
  /\ StageInv

(* A client in an operation is at a cell.                                  *)
LEMMA AtACell == ASSUME TypeInv, NEW c \in Client, pc[c] # "idle"
                 PROVE  /\ call[c] \in Calls /\ Target(c) \in Cell
                        /\ Backend(c) \in Backends
                        /\ Rows(c) \in Seq(Value)
                        /\ owner[Target(c)] \in Client \cup {Nobody}
<1>1. call[c] \in Calls BY DEF TypeInv, StageInv, StageOK, Fits
<1>2. Target(c) \in Cell BY <1>1 DEF Calls, Target
<1>3. Target(c)[1] \in Store BY <1>2 DEF Cell
<1> QED BY <1>1, <1>2, <1>3 DEF TypeInv, TypeOK, Backend, Rows

(* What an insert writes, and what is left of the documents in Mongo.      *)
LEMMA WrittenType == ASSUME TypeInv, NEW c \in Client, pc[c] # "idle"
                     PROVE  Written(c) \in Seq(Value)
BY DEF Written, TypeInv, StageInv, StageOK, Fits

(* A step within a call: c goes to stage s with r in hand, may write rows  *)
(* into its cell, and may lock it or give it free.                         *)
Answers == Value \cup {Pending, Absent, Ok, Error, Yes, No}
Writes(c) == docs' = docs \/ \E rows \in Seq(Value) : PutRows(c, rows)
Locks(c) == owner' = owner \/ Lock(c) \/ Unlock(c)
Move(c, s, r) ==
  /\ pc' = [pc EXCEPT ![c] = s]
  /\ ret' = [ret EXCEPT ![c] = r]
  /\ Writes(c) /\ Locks(c)
  /\ UNCHANGED call

(* What every step of client c within its call is.                         *)
Moves(c) ==
  /\ pc[c] # "idle"
  /\ \E s \in Stages \ {"idle", "called"}, r \in Answers :
       Move(c, s, r) /\ Fits(c, s, r)
  /\ gauge' \in Int /\ faults' \in Nat

LEMMA MoveTypes ==
  ASSUME TypeInv, NEW c \in Client, Moves(c)
  PROVE  Core'
<1> PICK s \in Stages \ {"idle", "called"}, r \in Answers :
      Move(c, s, r) /\ Fits(c, s, r)
  BY DEF Moves
<1> pc[c] # "idle" /\ gauge' \in Int /\ faults' \in Nat
  BY DEF Moves
<1>1. docs' \in [Cell -> Seq(Value)]
  BY AtACell DEF Move, Writes, PutRows, TypeInv, TypeOK
<1>2. owner' \in [Cell -> Client \cup {Nobody}]
  BY AtACell DEF Move, Locks, Lock, Unlock, TypeInv, TypeOK
<1>3. /\ pc' \in [Client -> Stages]
      /\ ret' \in [Client -> Value \cup {Pending, Absent, Ok, Error, Yes, No}]
      /\ call' \in [Client -> Calls \cup {NoOp}]
  BY DEF Move, TypeInv, TypeOK, Answers
<1>4. ASSUME NEW d \in Client PROVE StageOK(d)'
  <2>1. CASE d = c
    BY <2>1 DEF StageOK, Fits, Move, TypeInv, TypeOK, Backend, Target
  <2>2. CASE d # c
    <3>1. pc'[d] = pc[d] /\ ret'[d] = ret[d] /\ call' = call
      BY <2>2 DEF Move, TypeInv, TypeOK
    <3>2. StageOK(d) BY DEF TypeInv, StageInv
    <3> QED BY <3>1, <3>2 DEF StageOK, Fits, Backend, Target
  <2> QED BY <2>1, <2>2
<1> QED BY <1>1, <1>2, <1>3, <1>4 DEF Core, StageInv

LEMMA ReadMoves ==
  ASSUME TypeInv, NEW c \in Client, Get(c) \/ ContainsKey(c)
  PROVE  Moves(c)
<1>1. pc[c] = "called" /\ call[c] \in Calls /\ Rows(c) \in Seq(Value)
  BY AtACell DEF Get, ContainsKey, At
<1>2. First(Rows(c)) \in Value \cup {Absent}
  BY <1>1, FirstType
<1>3. \A r \in Value \cup {Absent, Yes, No} : r \in Answers /\ Fits(c, "done", r)
  BY <1>1 DEF Fits, Answers, InFlight, TypeInv, StageInv, StageOK,
              Pending, Absent, Ok, Error, Yes, No
<1>4. \E r \in Value \cup {Absent, Yes, No} : Move(c, "done", r)
  BY <1>2 DEF Get, ContainsKey, Finish, Goto, Reply, Move, Writes, Locks
<1>5. gauge' \in Int /\ faults' \in Nat
  BY DEF Get, ContainsKey, TypeInv, TypeOK
<1> QED BY <1>1, <1>3, <1>4, <1>5 DEF Moves, Stages

LEMMA MapMoves ==
  ASSUME TypeInv, NEW c \in Client, MapInsert(c) \/ MapRemove(c) \/ AdjustGauge(c)
  PROVE  Moves(c)
<1> USE DEF Moves, Stages
<1>1. pc[c] \in {"called", "counting"} /\ call[c] \in Calls /\ Backend(c) = "InMemory"
      /\ call[c].op \in {"insert", "remove"}
      /\ Rows(c) \in Seq(Value) /\ Written(c) \in Seq(Value)
  BY AtACell, WrittenType
     DEF MapInsert, MapRemove, AdjustGauge, At, TypeInv, StageInv, StageOK, Fits
<1>2. \A r \in Answers \ {Pending, Error} :
        Fits(c, "done", r) /\ Fits(c, "counting", r)
  BY <1>1 DEF Fits, InFlight, TypeInv, StageInv, StageOK
<1>3. ASSUME NEW r \in Answers \ {Pending, Error}, MapInsert(c) \/ MapRemove(c),
             Reply(c, r)
      PROVE  \E s \in {"counting", "done"} : Move(c, s, r)
  BY <1>1, <1>3 DEF MapInsert, MapRemove, Goto, Reply, Move, Writes, Locks
<1>4. CASE MapInsert(c)
  <2>1. Ok \in Answers \ {Pending, Error} /\ Reply(c, Ok)
    BY <1>4 DEF MapInsert, Answers, Ok, Pending, Error
  <2> QED BY <1>1, <1>2, <1>3, <1>4, <2>1 DEF MapInsert, TypeInv, TypeOK
<1>5. CASE MapRemove(c)
  <2>1. First(Rows(c)) \in Value \cup {Absent} BY <1>1, FirstType
  <2>2. First(Rows(c)) \in Answers \ {Pending, Error} /\ Reply(c, First(Rows(c)))
    BY <1>5, <2>1 DEF MapRemove, Answers, Absent, Pending, Error
  <2> QED BY <1>1, <1>2, <1>3, <1>5, <2>2 DEF MapRemove, TypeInv, TypeOK
<1>6. CASE AdjustGauge(c)
  <2>1. ret[c] \in Answers \ {Pending, Error}
    BY <1>6 DEF AdjustGauge, Answers, TypeInv, TypeOK, StageInv, StageOK, Fits, InFlight
  <2>2. Move(c, "done", ret[c])
    BY <1>6 DEF AdjustGauge, Goto, Move, Writes, Locks, TypeInv, TypeOK
  <2> QED BY <1>1, <1>2, <1>6, <2>1, <2>2 DEF AdjustGauge, TypeInv, TypeOK
<1> QED BY <1>4, <1>5, <1>6

LEMMA OneStatementMoves ==
  ASSUME TypeInv, NEW c \in Client,
         \/ Upsert(c) \/ DeleteOne(c)
         \/ UpdateOne(c) \/ UpsertInsert(c) \/ FindOneAndDelete(c)
  PROVE  Moves(c)
<1>1. /\ pc[c] \in {"called", "upserting"} /\ call[c] \in Calls
      /\ call[c].op = "insert" => call[c].val \in Value
      /\ Rows(c) \in Seq(Value) /\ Written(c) \in Seq(Value)
  BY AtACell, WrittenType
     DEF Upsert, DeleteOne, UpdateOne, UpsertInsert, FindOneAndDelete, At,
         TypeInv, StageInv, StageOK, Fits
<1>2. \A r \in Answers \ {Pending} : Fits(c, "done", r)
  BY <1>1 DEF Fits, InFlight, TypeInv, StageInv, StageOK
<1>3. gauge' \in Int /\ faults' \in Nat
  BY DEF Upsert, DeleteOne, UpdateOne, UpsertInsert, FindOneAndDelete, TypeInv, TypeOK
<1>4. ASSUME NEW r \in Answers \ {Pending}, NEW rows \in Seq(Value),
             PutRows(c, rows), Finish(c, r), owner' = owner, call' = call
      PROVE  Moves(c)
  BY <1>1, <1>2, <1>3, <1>4
     DEF Moves, Move, Writes, Locks, Finish, Goto, Reply, Stages
<1>5. Ok \in Answers \ {Pending} /\ First(Rows(c)) \in Answers \ {Pending}
  <2>1. First(Rows(c)) \in Value \cup {Absent} BY <1>1, FirstType
  <2> QED BY <2>1 DEF Answers, Ok, Absent, Pending
<1>6. CASE Upsert(c) \/ DeleteOne(c)
  BY <1>1, <1>4, <1>5, <1>6 DEF Upsert, DeleteOne
<1>7. CASE UpdateOne(c)
  <2>1. Backend(c) = "Mongo" /\ call[c].op = "insert" BY <1>7 DEF UpdateOne, At
  <2>2. CASE Rows(c) # <<>> /\ PutRows(c, <<call[c].val>> \o Tail(Rows(c)))
             /\ Finish(c, Ok)
    <3>1. <<call[c].val>> \o Tail(Rows(c)) \in Seq(Value)
      BY <1>1, <2>1, <2>2
    <3> QED BY <1>4, <1>5, <1>7, <2>2, <3>1 DEF UpdateOne
  <2>3. CASE Goto(c, "upserting") /\ UNCHANGED <<docs, ret>>
    <3>1. ret[c] \in Answers BY DEF TypeInv, TypeOK, Answers
    <3>2. Move(c, "upserting", ret[c])
      BY <1>7, <2>3 DEF UpdateOne, Move, Writes, Locks, Goto, TypeInv, TypeOK
    <3>3. Fits(c, "upserting", ret[c])
      BY <1>1, <2>1 DEF Fits, InFlight
    <3> QED BY <1>1, <1>3, <3>1, <3>2, <3>3 DEF Moves, Stages
  <2> QED BY <1>7, <2>2, <2>3 DEF UpdateOne
<1>8. CASE UpsertInsert(c)
  <2>1. call[c].op = "insert"
    BY <1>8 DEF UpsertInsert, TypeInv, StageInv, StageOK, Fits
  <2>2. Appended(c) \in Seq(Value) BY <1>1, <2>1 DEF Appended
  <2> QED BY <1>4, <1>5, <1>8, <2>2 DEF UpsertInsert
<1>9. CASE FindOneAndDelete(c)
  <2>1. Rest(Rows(c)) \in Seq(Value) BY <1>1 DEF Rest
  <2> QED BY <1>4, <1>5, <1>9, <2>1 DEF FindOneAndDelete
<1> QED BY <1>6, <1>7, <1>8, <1>9

LEMMA TwoStepMoves ==
  ASSUME TypeInv, NEW c \in Client,
         \/ SelectOld(c) \/ DeleteOld(c)
         \/ Merge(c) \/ MergeInsert(c) \/ Commit(c)
  PROVE  Moves(c)
<1> USE DEF Moves, Stages
<1>1. /\ pc[c] \in {"called", "selected", "merging", "commit"}
      /\ call[c] \in Calls
      /\ call[c].op = "insert" => call[c].val \in Value
      /\ Rows(c) \in Seq(Value) /\ Written(c) \in Seq(Value)
  BY AtACell, WrittenType
     DEF SelectOld, DeleteOld, Merge, MergeInsert, Commit, At,
         TypeInv, StageInv, StageOK, Fits
<1>2. gauge' \in Int /\ faults' \in Nat
  BY DEF SelectOld, DeleteOld, Merge, MergeInsert, Commit, TypeInv, TypeOK
<1>3. ret[c] \in Answers /\ (pc[c] \in InFlight => ret[c] # Pending)
      /\ (pc[c] \in InFlight \ {"done"} => ret[c] # Error)
  BY DEF TypeInv, TypeOK, Answers, StageInv, StageOK, Fits
<1>4. \A r \in Answers \ {Pending} : Fits(c, "done", r)
  BY <1>1 DEF Fits, InFlight
<1>5. CASE SelectOld(c)
  <2>1. First(Rows(c)) \in Answers \ {Pending, Error}
    <3>1. First(Rows(c)) \in Value \cup {Absent} BY <1>1, FirstType
    <3> QED BY <3>1 DEF Answers, Absent, Pending, Error
  <2>2. Fits(c, "selected", First(Rows(c)))
    BY <1>1, <1>5, <2>1 DEF SelectOld, At, Fits, Tx, InFlight
  <2>3. \E s \in {"done", "selected"} : Move(c, s, First(Rows(c)))
    BY <1>5 DEF SelectOld, Move, Writes, Locks, Goto, Reply
  <2> QED BY <1>1, <1>2, <1>4, <2>1, <2>2, <2>3
<1>6. CASE DeleteOld(c)
  <2>1. /\ pc[c] = "selected" /\ call[c].op = "remove"
        /\ Backend(c) \in Tx \cup {"RedisTwoStep"}
    BY <1>6 DEF DeleteOld, TypeInv, StageInv, StageOK, Fits
  <2>2. /\ ~Transactional(c) => Move(c, "done", ret[c])
        /\ Transactional(c) => Move(c, "commit", ret[c])
    <3>1. ret' = [ret EXCEPT ![c] = ret[c]] /\ call' = call
      BY <1>6 DEF DeleteOld, TypeInv, TypeOK
    <3>2. PutRows(c, <<>>) \/ docs' = docs BY <1>6 DEF DeleteOld
    <3>3. Writes(c) BY <3>2, <<>> \in Seq(Value) DEF Writes
    <3>4. Locks(c) BY <1>6 DEF DeleteOld, Locks
    <3> QED BY <1>6, <3>1, <3>3, <3>4 DEF DeleteOld, Move, Goto
  <2>3. Fits(c, "done", ret[c]) BY <1>3, <1>4, <2>1 DEF InFlight
  <2>4. Transactional(c) => Fits(c, "commit", ret[c])
    BY <1>1, <1>3, <2>1 DEF Fits, InFlight, Transactional, Tx
  <2> QED BY <1>1, <1>2, <1>3, <2>2, <2>3, <2>4
<1>7. CASE Merge(c)
  <2>1. Ok \in Answers \ {Pending, Error}
    BY DEF Answers, Ok, Pending, Error
  <2>2. Fits(c, "merging", Ok) /\ Fits(c, "commit", Ok)
    BY <1>1, <1>7, <2>1 DEF Merge, At, Fits, InFlight, Tx
  <2>3. \E s \in {"merging", "commit"} : Move(c, s, Ok)
    BY <1>7 DEF Merge, Move, Writes, Locks, Goto, Reply
  <2> QED BY <1>1, <1>2, <2>1, <2>2, <2>3
<1>8. CASE MergeInsert(c)
  <2>1. pc[c] = "merging" /\ Backend(c) = "Oracle" /\ call[c].op = "insert"
    BY <1>8 DEF MergeInsert, TypeInv, StageInv, StageOK, Fits
  <2>2. Error \in Answers \ {Pending} BY DEF Answers, Error, Pending
  <2>3. CASE Goto(c, "commit") /\ UNCHANGED ret
    <3>1. ret[c] \notin {Pending, Error}
      BY <2>1 DEF TypeInv, StageInv, StageOK, Fits, Ok, Pending, Error
    <3>2. Move(c, "commit", ret[c])
      BY <1>8, <2>3 DEF MergeInsert, Move, Writes, Locks, Goto, TypeInv, TypeOK
    <3> QED BY <1>1, <1>2, <1>3, <2>1, <3>1, <3>2 DEF Fits, InFlight, Tx
  <2>4. CASE Finish(c, Error)
    <3>1. Move(c, "done", Error)
      BY <1>8, <2>4 DEF MergeInsert, Move, Writes, Locks, Finish, Goto, Reply
    <3> QED BY <1>1, <1>2, <1>4, <2>2, <3>1
  <2> QED BY <1>8, <2>3, <2>4 DEF MergeInsert
<1>9. CASE Commit(c)
  <2>1. Move(c, "done", ret[c])
    BY <1>1, <1>9 DEF Commit, Move, Writes, Locks, Goto, TypeInv, TypeOK
  <2> QED BY <1>1, <1>2, <1>3, <1>4, <1>9, <2>1 DEF Commit, InFlight
<1> QED BY <1>5, <1>6, <1>7, <1>8, <1>9

(* What a failed call may have left is a list of rows.                     *)
LEMMA OutcomesType ==
  ASSUME TypeInv, NEW c \in Client, pc[c] # "idle"
  PROVE  Outcomes(c) \subseteq Seq(Value)
<1>1. /\ call[c] \in Calls
      /\ call[c].op = "insert" => call[c].val \in Value
      /\ Rows(c) \in Seq(Value) /\ Written(c) \in Seq(Value)
  BY AtACell, WrittenType DEF TypeInv, StageInv, StageOK, Fits
<1>2. Rest(Rows(c)) \in Seq(Value) BY <1>1 DEF Rest
<1>3. pc[c] = "upserting" => Appended(c) \in Seq(Value)
  BY <1>1 DEF Appended, TypeInv, StageInv, StageOK, Fits
<1>4. At(c, "called", "insert") /\ Rows(c) # <<>> =>
        <<call[c].val>> \o Tail(Rows(c)) \in Seq(Value)
  BY <1>1 DEF At
<1> QED BY <1>1, <1>2, <1>3, <1>4 DEF Outcomes

LEMMA FaultMoves ==
  ASSUME TypeInv, NEW c \in Client, Fault(c)
  PROVE  Moves(c)
<1>1. /\ pc[c] # "idle" /\ call[c] \in Calls
      /\ call[c].op = "insert" => call[c].val \in Value
  BY AtACell DEF Fault, TypeInv, StageInv, StageOK, Fits
<1>2. Writes(c) BY <1>1, OutcomesType DEF Fault, Writes
<1>3. Error \in Answers /\ Fits(c, "done", Error)
  BY <1>1 DEF Answers, Fits, InFlight, Error, Pending
<1>4. Move(c, "done", Error)
  BY <1>2 DEF Fault, Move, Finish, Goto, Reply, Locks
<1>5. gauge' \in Int /\ faults' \in Nat
  BY DEF Fault, TypeInv, TypeOK
<1> QED BY <1>1, <1>3, <1>4, <1>5 DEF Moves, Stages

(* A call begins or is over.                                               *)
Turn(c) ==
  \/ \E op \in Ops, x \in configured \X Key :
       \E v \in Argument(op) : Begin(c, op, x, v)
  \/ Return(c)

LEMMA TurnTypes ==
  ASSUME TypeInv, NEW c \in Client, Turn(c)
  PROVE  Core'
<1>1. /\ docs' \in [Cell -> Seq(Value)]
      /\ owner' \in [Cell -> Client \cup {Nobody}]
      /\ gauge' \in Int /\ faults' \in Nat
  BY DEF Turn, Begin, Return, TypeInv, TypeOK
<1>2. /\ pc' \in [Client -> Stages]
      /\ ret' \in [Client -> Value \cup {Pending, Absent, Ok, Error, Yes, No}]
  BY DEF Turn, Begin, Return, Goto, Reply, TypeInv, TypeOK, Stages
<1>3. /\ call' \in [Client -> Calls \cup {NoOp}]
      /\ StageOK(c)'
  <2>1. CASE Return(c)
    BY <2>1 DEF Return, Goto, Reply, TypeInv, TypeOK, StageOK, Fits, InFlight
  <2>2. ASSUME NEW op \in Ops, NEW x \in configured \X Key,
               NEW v \in Argument(op), Begin(c, op, x, v)
        PROVE  call' \in [Client -> Calls \cup {NoOp}] /\ StageOK(c)'
    <3>1. x \in Cell
      BY DEF Cell, TypeInv, TypeOK
    <3>2. /\ v \in Value \cup {Absent}
          /\ op = "insert" => v \in Value
      BY DEF Argument
    <3>3. [op |-> op, cell |-> x, val |-> v] \in Calls
      BY <3>1, <3>2 DEF Calls
    <3>4. /\ call' \in [Client -> Calls \cup {NoOp}]
          /\ call'[c] = [op |-> op, cell |-> x, val |-> v]
      BY <2>2, <3>3 DEF Begin, TypeInv, TypeOK
    <3>5. pc'[c] = "called" /\ ret'[c] = Pending
      BY <2>2 DEF Begin, Goto, TypeInv, TypeOK, StageInv, StageOK, Fits
    <3> QED BY <3>2, <3>3, <3>4, <3>5 DEF StageOK, Fits, InFlight
  <2> QED BY <2>1, <2>2 DEF Turn
<1>4. ASSUME NEW d \in Client, d # c PROVE StageOK(d)'
  <2>1. pc'[d] = pc[d] /\ ret'[d] = ret[d] /\ call'[d] = call[d]
    BY <1>4 DEF Turn, Begin, Return, Goto, Reply, TypeInv, TypeOK
  <2>2. StageOK(d) BY DEF TypeInv, StageInv
  <2> QED BY <2>1, <2>2 DEF StageOK, Fits, Backend, Target
<1> QED BY <1>1, <1>2, <1>3, <1>4 DEF Core, StageInv

(* The step of client c is a move within its call, or a turn.              *)
LEMMA StepCases ==
  ASSUME TypeInv, NEW c \in Client, Step(c) \/ Fault(c)
  PROVE  Moves(c) \/ Return(c)
BY ReadMoves, MapMoves, OneStatementMoves, TwoStepMoves, FaultMoves DEF Step

(* The history of a call is made of values.                                *)
LEMMA HeldType ==
  ASSUME TypeInv, Core', Record
  PROVE  held' \in [Client -> SUBSET (Value \cup {Absent})]
<1> SUFFICES ASSUME NEW c \in Client, pc'[c] # "idle"
             PROVE  Contents(docs'[call'[c].cell]) \subseteq Value \cup {Absent}
  BY DEF Record, TypeInv, TypeOK
<1>1. call'[c] \in Calls BY DEF Core, StageInv, StageOK, Fits
<1>2. docs'[call'[c].cell] \in Seq(Value)
  BY <1>1 DEF Calls, Core
<1> QED BY <1>2 DEF Contents

LEMMA TypeStep ==
  ASSUME TypeInv, [Next]_vars
  PROVE  TypeInv'
<1>1. CASE Next
  <2> PICK c \in Client : Turn(c) \/ Step(c) \/ Fault(c)
    BY <1>1 DEF Next, Turn
  <2>1. Core'
    BY StepCases, MoveTypes, TurnTypes DEF Turn
  <2>2. held' \in [Client -> SUBSET (Value \cup {Absent})] /\ configured' = configured
    BY <1>1, <2>1, HeldType DEF Next
  <2> QED BY <2>1, <2>2 DEF Core, TypeInv, TypeOK
<1>2. CASE UNCHANGED vars
  BY <1>2 DEF vars, TypeInv, TypeOK, StageInv, StageOK, Fits, Backend, Target
<1> QED BY <1>1, <1>2

(* The type invariant, and what every stage says of the call it is in:     *)
(* whatever statements of a backend interleave, a client is only ever at a *)
(* statement of the operation and the backend it called.                   *)
THEOREM TypeCorrect == Spec => []TypeInv
BY TypeInit, TypeStep, PTL DEF Spec

----------------------------------------------------------------------------
(* Row locks.                                                              *)

LEMMA LockStep ==
  ASSUME TypeInv, LockHolderRuns, [Next]_vars
  PROVE  LockHolderRuns'
<1> SUFFICES ASSUME NEW x \in Cell, owner'[x] # Nobody
             PROVE  pc'[owner'[x]] = "commit" /\ call'[owner'[x]].cell = x
  BY DEF LockHolderRuns, Target
<1> DEFINE o == owner'[x]
<1>1. CASE UNCHANGED vars
  BY <1>1 DEF vars, LockHolderRuns, Target
<1>2. CASE Next
  <2> PICK c \in Client : Turn(c) \/ Step(c) \/ Fault(c)
    BY <1>2 DEF Next, Turn
  <2>1. owner[x] # Nobody =>
          owner[x] \in Client /\ pc[owner[x]] = "commit" /\ call[owner[x]].cell = x
    BY DEF LockHolderRuns, Target, TypeInv, TypeOK
  <2>2. CASE Lock(c) /\ Goto(c, "commit") /\ call' = call
    BY <2>1, <2>2 DEF Lock, Goto, Target, TypeInv, TypeOK
  <2>3. CASE (Commit(c) \/ Fault(c)) /\ Unlock(c)
    <3>1. call' = call /\ \A d \in Client \ {c} : pc'[d] = pc[d]
      BY <2>3 DEF Commit, Fault, Finish, Goto, TypeInv, TypeOK
    <3>2. owner'[x] = owner[x] /\ owner[x] # c
      BY <2>1, <2>3 DEF Unlock, Target, TypeInv, TypeOK
    <3> QED BY <2>1, <3>1, <3>2
  <2>4. CASE owner' = owner /\ pc[c] # "commit"
    <3>1. \A d \in Client \ {c} : pc'[d] = pc[d] /\ call'[d] = call[d]
      BY StepCases DEF Turn, Begin, Return, Goto, Moves, Move, TypeInv, TypeOK
    <3> QED BY <2>1, <2>4, <3>1
  <2>5. \/ Lock(c) /\ Goto(c, "commit") /\ call' = call
        \/ (Commit(c) \/ Fault(c)) /\ Unlock(c)
        \/ owner' = owner /\ pc[c] # "commit"
    <3>1. CASE Turn(c)
      BY <3>1 DEF Turn, Begin, Return
    <3>2. CASE Fault(c)
      BY <3>2 DEF Fault
    <3>3. CASE Step(c)
      BY <3>3 DEF Step, Get, ContainsKey, MapInsert, MapRemove, AdjustGauge, Upsert,
                  DeleteOne, UpdateOne, UpsertInsert, FindOneAndDelete, SelectOld,
                  DeleteOld, Merge, MergeInsert, Commit, Return, At
    <3> QED BY <3>1, <3>2, <3>3
  <2> QED BY <2>2, <2>3, <2>4, <2>5
<1> QED BY <1>1, <1>2

(* Transactions never wait for each other: in any interleaving, and after  *)
(* any failed call, who holds a row is at its commit, which waits for      *)
(* nobody, and no row stays locked after the call that locked it.          *)
THEOREM LocksAreReleased == Spec => []LockHolderRuns
<1>1. Init => LockHolderRuns BY DEF Init, LockHolderRuns
<1> QED BY <1>1, TypeCorrect, LockStep, PTL DEF Spec

----------------------------------------------------------------------------
(* Answers.                                                                *)

(* The history of a call has what its cell holds now.                      *)
HeldInv ==
  \A c \in Client : pc[c] # "idle" => Contents(Rows(c)) \subseteq held[c]

(* What a client has in hand on the way to its answer is explained by the  *)
(* history, and a remove that has deleted, or that has found nothing to    *)
(* delete, has seen the cell empty.                                        *)
InHand(c) ==
  /\ call[c].op \in {"get", "remove"} => ret[c] \in held[c]
  /\ ret[c] = No => Absent \in held[c]
  /\ ret[c] = Yes => held[c] \cap Value # {}
SeenEmpty(c) ==
  call[c].op = "remove" /\ Backend(c) # "Mongo" => Absent \in held[c]
AnswerOK(c) ==
  /\ pc[c] \in InFlight /\ ret[c] # Error => InHand(c)
  /\ pc[c] \in {"counting", "done"} /\ ret[c] # Error => SeenEmpty(c)
  /\ pc[c] = "commit" => owner[Target(c)] = c \/ SeenEmpty(c)
AnswerInv == HeldInv /\ \A c \in Client : AnswerOK(c)

(* What a step leaves in the history.                                      *)
LEMMA HeldStep ==
  ASSUME TypeInv, Next, NEW c \in Client, pc'[c] # "idle"
  PROVE  held[c] \subseteq held'[c] /\ Contents(Rows(c)') \subseteq held'[c]
BY DEF Next, Record, Rows, Target

LEMMA FirstHeld ==
  ASSUME NEW rows \in Seq(Value)
  PROVE  /\ First(rows) \in Contents(rows)
         /\ rows = <<>> => Absent \in Contents(rows)
         /\ rows # <<>> => Contents(rows) \cap Value # {}
<1>1. rows # <<>> => 1 \in DOMAIN rows /\ rows[1] \in Value OBVIOUS
<1> QED BY <1>1 DEF First, Contents

LEMMA OthersKeep ==
  ASSUME TypeInv, Next, NEW c \in Client, Turn(c) \/ Step(c) \/ Fault(c),
         NEW d \in Client, d # c
  PROVE  /\ pc'[d] = pc[d] /\ ret'[d] = ret[d] /\ call'[d] = call[d]
         /\ pc[d] # "idle" /\ owner[Target(d)] = d => owner'[Target(d)] = d
<1>1. pc'[d] = pc[d] /\ ret'[d] = ret[d] /\ call'[d] = call[d]
  BY StepCases DEF Turn, Begin, Return, Goto, Reply, Moves, Move, TypeInv, TypeOK
<1>2. \/ owner' = owner
      \/ Lock(c) /\ Unlocked(c)
      \/ Unlock(c)
  <2>1. CASE Turn(c) BY <2>1 DEF Turn, Begin, Return
  <2>2. CASE Fault(c) BY <2>2 DEF Fault
  <2>3. CASE Step(c)
    BY <2>3 DEF Step, Get, ContainsKey, MapInsert, MapRemove, AdjustGauge, Upsert,
                DeleteOne, UpdateOne, UpsertInsert, FindOneAndDelete, SelectOld,
                DeleteOld, Merge, MergeInsert, Commit, Return
  <2> QED BY <2>1, <2>2, <2>3
<1>3. ASSUME pc[d] # "idle", owner[Target(d)] = d PROVE owner'[Target(d)] = d
  <2>1. Target(d) \in Cell BY <1>3, AtACell
  <2>2. owner \in [Cell -> Client \cup {Nobody}] BY DEF TypeInv, TypeOK
  <2>3. d # Nobody OBVIOUS
  <2> QED BY <1>2, <1>3, <2>1, <2>2, <2>3 DEF Lock, Unlock, Unlocked
<1> QED BY <1>1, <1>3

(* The client that steps: with the rows of its cell before and after.      *)
LEMMA OwnHistory ==
  ASSUME TypeInv, AnswerInv, Next, NEW c \in Client, Moves(c)
  PROVE  /\ Contents(Rows(c)) \subseteq held'[c] /\ held[c] \subseteq held'[c]
         /\ \A rows \in Seq(Value) :
              PutRows(c, rows) => Contents(rows) \subseteq held'[c]
<1>1. pc[c] # "idle" /\ pc'[c] # "idle" /\ call' = call
  BY DEF Moves, Move, TypeInv, TypeOK
<1>2. Contents(Rows(c)) \subseteq held[c] BY <1>1 DEF AnswerInv, HeldInv
<1>3. held[c] \subseteq held'[c] /\ Contents(Rows(c)') \subseteq held'[c]
  BY <1>1, HeldStep
<1>4. ASSUME NEW rows \in Seq(Value), PutRows(c, rows)
      PROVE  Contents(rows) \subseteq held'[c]
  <2>1. Rows(c)' = rows
    BY <1>1, <1>4, AtACell DEF PutRows, Rows, Target, TypeInv, TypeOK
  <2> QED BY <1>3, <2>1
<1> QED BY <1>2, <1>3, <1>4

LEMMA AnswerMoves ==
  ASSUME TypeInv, AnswerInv, Next, NEW c \in Client, Step(c) \/ Fault(c), Moves(c)
  PROVE  AnswerOK(c)'
<1> DEFINE H == held'[c]
<1>1. /\ call' = call /\ pc[c] # "idle" /\ Target(c) \in Cell
      /\ pc' \in [Client -> Stages] /\ ret' \in [Client -> Answers]
  BY AtACell, MoveTypes DEF Moves, Move, Core, Answers
<1>2. /\ Contents(Rows(c)) \subseteq H /\ held[c] \subseteq H
      /\ \A rows \in Seq(Value) : PutRows(c, rows) => Contents(rows) \subseteq H
  BY OwnHistory
<1>3. /\ Rows(c) \in Seq(Value) /\ First(Rows(c)) \in Value \cup {Absent}
      /\ First(Rows(c)) \in Contents(Rows(c))
      /\ Rows(c) = <<>> => Absent \in Contents(Rows(c))
      /\ Rows(c) # <<>> => Contents(Rows(c)) \cap Value # {}
  BY <1>1, AtACell, FirstType, FirstHeld
<1>4. PutRows(c, <<>>) => Absent \in H
  BY <1>2, FirstHeld, <<>> \in Seq(Value)
<1>5. Target(c)' = Target(c) /\ Backend(c)' = Backend(c)
  BY <1>1 DEF Target, Backend
<1> USE DEF AnswerOK, InHand, SeenEmpty, InFlight
<1>6. CASE Get(c)
  <2>1. ret'[c] = First(Rows(c)) /\ call[c].op = "get"
    BY <1>6 DEF Get, At, Finish, Reply, TypeInv, TypeOK
  <2>2. ret'[c] \in H /\ ret'[c] \notin {Yes, No} /\ pc'[c] = "done"
    BY <1>2, <1>3, <1>6, <2>1
       DEF Get, Finish, Goto, TypeInv, TypeOK, Absent, Yes, No
  <2> QED BY <1>1, <2>1, <2>2
<1>7. CASE ContainsKey(c)
  <2>1. /\ ret'[c] = IF Rows(c) = <<>> THEN No ELSE Yes
        /\ call[c].op = "contains_key" /\ pc'[c] = "done"
    BY <1>7 DEF ContainsKey, At, Finish, Goto, Reply, TypeInv, TypeOK
  <2> QED BY <1>1, <1>2, <1>3, <2>1 DEF Yes, No
<1>8. CASE call[c].op = "insert" /\ ret'[c] \in {Ok, Error}
  BY <1>1, <1>8 DEF Ok, Error, Yes, No
<1>9. CASE ret'[c] = Error /\ pc'[c] = "done"
  BY <1>9
<1>17. CASE pc'[c] = "upserting"
  BY <1>17
<1>10. CASE MapRemove(c) \/ DeleteOne(c)
  <2>1. /\ ret'[c] = First(Rows(c)) /\ call[c].op = "remove"
        /\ PutRows(c, <<>>) /\ pc'[c] \in {"counting", "done"}
    BY <1>10 DEF MapRemove, DeleteOne, At, Written, Finish, Goto, Reply, TypeInv, TypeOK
  <2>2. ret'[c] \in H /\ ret'[c] \notin {Yes, No}
    BY <1>2, <1>3, <2>1 DEF Absent, Yes, No
  <2> QED BY <1>1, <1>4, <1>5, <2>1, <2>2
<1>11. CASE FindOneAndDelete(c)
  <2>1. /\ ret'[c] = First(Rows(c)) /\ Backend(c) = "Mongo" /\ pc'[c] = "done"
    BY <1>11 DEF FindOneAndDelete, At, Finish, Goto, Reply, TypeInv, TypeOK
  <2>2. ret'[c] \in H /\ ret'[c] \notin {Yes, No}
    BY <1>2, <1>3, <2>1 DEF Absent, Yes, No
  <2> QED BY <1>1, <1>5, <2>1, <2>2
<1>12. CASE SelectOld(c)
  <2>1. /\ ret'[c] = First(Rows(c)) /\ call[c].op = "remove"
        /\ pc'[c] \in {"selected", "done"}
        /\ pc'[c] = "done" => Rows(c) = <<>>
    BY <1>12 DEF SelectOld, At, Goto, Reply, TypeInv, TypeOK
  <2>2. ret'[c] \in H /\ ret'[c] \notin {Yes, No}
    BY <1>2, <1>3, <2>1 DEF Absent, Yes, No
  <2> QED BY <1>1, <1>2, <1>3, <2>1, <2>2
<1>13. CASE DeleteOld(c)
  <2>1. InHand(c) /\ ret'[c] = ret[c] /\ pc[c] = "selected"
    BY <1>13 DEF DeleteOld, AnswerInv, TypeInv, StageInv, StageOK, Fits
  <2>2. InHand(c)' BY <1>1, <1>2, <2>1
  <2>3. CASE ~Transactional(c)
    BY <1>1, <1>4, <1>13, <2>2, <2>3 DEF DeleteOld, Goto, TypeInv, TypeOK
  <2>4. CASE Transactional(c) /\ Rows(c) = <<>>
    BY <1>1, <1>2, <1>3, <1>13, <2>2, <2>4 DEF DeleteOld, Goto, TypeInv, TypeOK
  <2>5. CASE Transactional(c) /\ Lock(c)
    <3>1. owner'[Target(c)] = c
      BY <1>1, <2>5 DEF Lock, TypeInv, TypeOK
    <3>2. pc'[c] = "commit"
      BY <1>13, <2>5 DEF DeleteOld, Goto, TypeInv, TypeOK
    <3> QED BY <1>5, <2>2, <3>1, <3>2
  <2> QED BY <1>13, <2>3, <2>4, <2>5 DEF DeleteOld
<1>14. CASE AdjustGauge(c)
  <2>1. InHand(c) /\ SeenEmpty(c) /\ ret' = ret /\ pc[c] = "counting"
    BY <1>14 DEF AdjustGauge, AnswerInv, TypeInv, StageInv, StageOK, Fits
  <2>2. pc'[c] = "done" BY <1>14 DEF AdjustGauge, Goto, TypeInv, TypeOK
  <2> QED BY <1>1, <1>2, <1>5, <2>1, <2>2
<1>15. CASE Commit(c)
  <2>1. /\ InHand(c) /\ (owner[Target(c)] = c \/ SeenEmpty(c)) /\ ret' = ret
    BY <1>15 DEF Commit, AnswerInv, TypeInv, StageInv, StageOK, Fits
  <2>2. pc'[c] = "done" BY <1>15 DEF Commit, Goto, TypeInv, TypeOK
  <2>3. owner[Target(c)] = c /\ call[c].op = "remove" => Absent \in H
    BY <1>4, <1>15 DEF Commit, Written
  <2> QED BY <1>1, <1>2, <1>5, <2>1, <2>2, <2>3
<1>16. \/ Get(c) \/ ContainsKey(c) \/ MapRemove(c) \/ DeleteOne(c)
       \/ FindOneAndDelete(c) \/ SelectOld(c) \/ DeleteOld(c)
       \/ AdjustGauge(c) \/ Commit(c)
       \/ call[c].op = "insert" /\ ret'[c] \in {Ok, Error}
       \/ ret'[c] = Error /\ pc'[c] = "done"
       \/ pc'[c] = "upserting"
  <2>1. CASE MapInsert(c) \/ Upsert(c) \/ Merge(c)
    BY <2>1 DEF MapInsert, Upsert, Merge, At, Finish, Reply, TypeInv, TypeOK
  <2>2. CASE MergeInsert(c) \/ UpsertInsert(c)
    <3>1. call[c].op = "insert" /\ (pc[c] = "merging" => ret[c] = Ok)
      BY <2>2 DEF MergeInsert, UpsertInsert, TypeInv, StageInv, StageOK, Fits
    <3> QED BY <2>2, <3>1
            DEF MergeInsert, UpsertInsert, Finish, Reply, TypeInv, TypeOK
  <2>3. CASE UpdateOne(c)
    BY <2>3 DEF UpdateOne, At, Finish, Goto, Reply, TypeInv, TypeOK
  <2>5. CASE Return(c)
    BY <2>5 DEF Return, Goto, Moves, Move, TypeInv, TypeOK
  <2>4. CASE Fault(c)
    BY <2>4 DEF Fault, Finish, Goto, Reply, TypeInv, TypeOK
  <2> QED BY <2>1, <2>2, <2>3, <2>4, <2>5 DEF Step
<1> QED BY <1>6, <1>7, <1>8, <1>9, <1>10, <1>11, <1>12, <1>13, <1>14, <1>15, <1>16, <1>17

LEMMA AnswerStep ==
  ASSUME TypeInv, AnswerInv, [Next]_vars
  PROVE  AnswerInv'
<1>1. CASE UNCHANGED vars
  BY <1>1 DEF vars, AnswerInv, HeldInv, AnswerOK, InHand, SeenEmpty, Rows, Target, Backend
<1>2. CASE Next
  <2> PICK c \in Client : Turn(c) \/ Step(c) \/ Fault(c)
    BY <1>2 DEF Next, Turn
  <2>1. HeldInv' BY <1>2, HeldStep DEF HeldInv
  <2>2. AnswerOK(c)'
    <3>1. CASE Moves(c) /\ (Step(c) \/ Fault(c))
      BY <1>2, <3>1, AnswerMoves
    <3>2. CASE Turn(c)
      <4>1. pc'[c] \in {"idle", "called"}
        BY <3>2 DEF Turn, Begin, Return, Goto, TypeInv, TypeOK
      <4> QED BY <4>1 DEF AnswerOK, InFlight
    <3> QED BY <3>1, <3>2, StepCases DEF Turn
  <2>3. ASSUME NEW d \in Client, d # c PROVE AnswerOK(d)'
    <3>1. pc'[d] = pc[d] /\ ret'[d] = ret[d] /\ call'[d] = call[d]
      BY <1>2, <2>3, OthersKeep
    <3>2. pc[d] # "idle" => held[d] \subseteq held'[d]
      BY <1>2, <3>1, HeldStep
    <3>3. pc[d] # "idle" /\ owner[Target(d)] = d => owner'[Target(d)] = d
      BY <1>2, <2>3, OthersKeep
    <3>4. Target(d)' = Target(d) /\ Backend(d)' = Backend(d)
      BY <3>1 DEF Target, Backend
    <3>5. AnswerOK(d) BY DEF AnswerInv
    <3>6. InHand(d) /\ pc[d] # "idle" => InHand(d)'
      BY <3>1, <3>2 DEF InHand
    <3>7. SeenEmpty(d) /\ pc[d] # "idle" => SeenEmpty(d)'
      BY <3>1, <3>2, <3>4 DEF SeenEmpty
    <3> QED BY <3>1, <3>3, <3>4, <3>5, <3>6, <3>7 DEF AnswerOK, InFlight
  <2> QED BY <2>1, <2>2, <2>3 DEF AnswerInv
<1> QED BY <1>1, <1>2

(* Every answer of every backend is one the cell could have given at some  *)
(* moment of the call, however the calls of any number of clients          *)
(* interleave and whatever fails.                                          *)
THEOREM AnswersAreHeld == Spec => []AnswersHeld
<1>1. Init => AnswerInv
  BY DEF Init, AnswerInv, HeldInv, AnswerOK, InFlight
<1>2. AnswerInv => AnswersHeld
  BY DEF AnswerInv, AnswerOK, AnswersHeld, Explained, InHand, SeenEmpty, InFlight
<1> QED BY <1>1, <1>2, TypeCorrect, AnswerStep, PTL DEF Spec

----------------------------------------------------------------------------
(* Errors.                                                                 *)

LEMMA ErrorStep ==
  ASSUME TypeInv, ErrorsAreFaults, [Next]_vars
  PROVE  ErrorsAreFaults'
<1> SUFFICES ASSUME NEW d \in Client, faults' = 0, ret'[d] = Error
             PROVE  Backend(d)' = "Oracle"
  BY DEF ErrorsAreFaults
<1>1. CASE UNCHANGED vars
  BY <1>1 DEF vars, ErrorsAreFaults, Backend, Target
<1>2. CASE Next
  <2> PICK c \in Client : Turn(c) \/ Step(c) \/ Fault(c)
    BY <1>2 DEF Next, Turn
  <2>1. ~Fault(c) /\ faults = 0
    <3>1. faults \in Nat BY DEF TypeInv, TypeOK
    <3>2. ~Fault(c) BY <3>1 DEF Fault
    <3>3. CASE Turn(c) \/ Step(c)
      BY <3>2, <3>3 DEF Turn, Begin, Step, Get, ContainsKey, MapInsert, MapRemove,
                  AdjustGauge, Upsert, DeleteOne, UpdateOne, UpsertInsert,
                  FindOneAndDelete, SelectOld, DeleteOld, Merge, MergeInsert,
                  Commit, Return
    <3> QED BY <3>1, <3>2, <3>3
  <2>2. CASE d # c
    <3>1. ret'[d] = ret[d] /\ call'[d] = call[d]
      BY <1>2, <2>2, OthersKeep
    <3> QED BY <2>1, <3>1 DEF ErrorsAreFaults, Backend, Target
  <2>3. CASE d = c /\ Turn(c)
    <3>1. ret'[d] = Pending
      BY <2>3 DEF Turn, Begin, Return, Reply, TypeInv, TypeOK, StageInv, StageOK, Fits
    <3> QED BY <3>1 DEF Error, Pending
  <2>4. CASE d = c /\ Step(c) /\ ~Return(c)
    <3>1. Moves(c) BY <2>4, StepCases
    <3>2. call' = call /\ pc[c] # "idle" /\ First(Rows(c)) # Error
      BY <3>1, AtACell, FirstType DEF Moves, Move, Absent, Error
    <3>3. ret[c] = Error => Backend(c) = "Oracle"
      BY <2>1 DEF ErrorsAreFaults
    <3>4. MergeInsert(c) => Backend(c) = "Oracle"
      BY DEF MergeInsert, TypeInv, StageInv, StageOK, Fits
    <3>5. ret'[c] \in {Ok, Yes, No, First(Rows(c)), ret[c]} \/ MergeInsert(c)
      BY <2>4 DEF Step, Get, ContainsKey, MapInsert, MapRemove, AdjustGauge,
                  Upsert, DeleteOne, UpdateOne, UpsertInsert, FindOneAndDelete,
                  SelectOld, DeleteOld, Merge, Commit, Finish, Reply, TypeInv, TypeOK
    <3>6. Backend(c) = "Oracle"
      BY <2>4, <3>2, <3>3, <3>4, <3>5 DEF Ok, Yes, No, Error
    <3> QED BY <2>4, <3>2, <3>6 DEF Backend, Target
  <2> QED BY <2>1, <2>2, <2>3, <2>4 DEF Turn
<1> QED BY <1>1, <1>2

(* With no failed call nobody is refused because of the others, but for    *)
(* the loser of two MERGEs in Oracle.                                      *)
THEOREM OnlyFaultsFail == Spec => []ErrorsAreFaults
<1>1. Init => ErrorsAreFaults
  BY DEF Init, ErrorsAreFaults, Pending, Error
<1> QED BY <1>1, TypeCorrect, ErrorStep, PTL DEF Spec

----------------------------------------------------------------------------
(* The size gauge.                                                         *)

(* Only finitely many keys are held and only finitely many steps are       *)
(* outstanding, whatever the sets of keys and clients are.                 *)
GaugeInv ==
  /\ IsFiniteSet(Occupied)
  /\ IsFiniteSet(Uncounted("insert")) /\ IsFiniteSet(Uncounted("remove"))
  /\ GaugeCounts

(* How one element changes a finite set and its size.                      *)
LEMMA OneMore ==
  ASSUME NEW S, IsFiniteSet(S), NEW e, e \notin S
  PROVE  /\ IsFiniteSet(S \cup {e}) /\ Cardinality(S) \in Nat
         /\ Cardinality(S \cup {e}) = Cardinality(S) + 1
BY FS_AddElement, FS_CardinalityType

LEMMA OneLess ==
  ASSUME NEW S, IsFiniteSet(S), NEW e, e \in S
  PROVE  /\ IsFiniteSet(S \ {e}) /\ Cardinality(S) \in Nat
         /\ Cardinality(S \ {e}) = Cardinality(S) - 1
BY FS_RemoveElement, FS_CardinalityType

LEMMA GaugeStep ==
  ASSUME TypeInv, GaugeInv, [Next]_vars
  PROVE  GaugeInv'
<1> DEFINE O == Occupied   I == Uncounted("insert")   R == Uncounted("remove")
<1>0. /\ Cardinality(O) \in Nat /\ Cardinality(I) \in Nat /\ Cardinality(R) \in Nat
      /\ gauge \in Int
  BY FS_CardinalityType DEF GaugeInv, TypeInv, TypeOK
<1>1. ASSUME O' = O, I' = I, R' = R, gauge' = gauge PROVE GaugeInv'
  BY <1>1 DEF GaugeInv, GaugeCounts
<1>2. CASE UNCHANGED vars
  <2>1. O' = O BY <1>2 DEF vars, Occupied, InMemoryCells
  <2>2. I' = I /\ R' = R BY <1>2 DEF vars, Uncounted, At
  <2> QED BY <1>1, <1>2, <2>1, <2>2 DEF vars
<1>3. CASE Next
  <2> PICK c \in Client : Turn(c) \/ Step(c) \/ Fault(c)
    BY <1>3 DEF Next, Turn
  <2> DEFINE x == Target(c)
  <2>1. \A d \in Client \ {c} : pc'[d] = pc[d] /\ call'[d] = call[d]
    BY <1>3, OthersKeep
  <2>2. \A op : At(c, "counting", op)' = At(c, "counting", op) =>
          Uncounted(op)' = Uncounted(op)
    BY <2>1 DEF Uncounted, At
  <2>3. ASSUME docs' = docs PROVE O' = O
    BY <2>3 DEF Occupied, InMemoryCells
  <2>4. CASE Turn(c)
    <3>1. /\ docs' = docs /\ gauge' = gauge
          /\ pc[c] # "counting" /\ pc'[c] # "counting"
      BY <2>4 DEF Turn, Begin, Return, Goto, TypeInv, TypeOK
    <3> QED BY <1>1, <2>2, <2>3, <3>1 DEF At
  <2>5. CASE Backend(c) # "InMemory" /\ ~Turn(c)
    <3>1. Moves(c) BY <2>5, StepCases DEF Turn
    <3>2. pc[c] # "idle" /\ call' = call /\ x \in Cell /\ gauge' = gauge
          /\ Writes(c) /\ pc[c] # "counting"
      BY <2>5, <3>1, AtACell
         DEF Moves, Move, TypeInv, StageInv, StageOK, Fits, Turn, Step, Fault, Get,
             ContainsKey, MapInsert, MapRemove, AdjustGauge, Upsert, DeleteOne,
             UpdateOne, UpsertInsert, FindOneAndDelete, SelectOld, DeleteOld, Merge,
             MergeInsert, Commit
    <3>3. O' = O
      BY <2>5, <3>2 DEF Writes, PutRows, Occupied, InMemoryCells, Backend, TypeInv, TypeOK
    <3>4. pc'[c] # "counting"
      <4>1. StageOK(c)' BY <3>1, MoveTypes DEF Core, StageInv
      <4> QED BY <2>5, <3>2, <4>1 DEF StageOK, Fits, Backend, Target
    <3> QED BY <1>1, <2>2, <3>2, <3>3, <3>4 DEF At
  <2>6. CASE Backend(c) = "InMemory" /\ (Get(c) \/ ContainsKey(c))
    <3>1. /\ docs' = docs /\ gauge' = gauge
          /\ pc[c] # "counting" /\ pc'[c] # "counting"
      BY <2>6 DEF Get, ContainsKey, At, Finish, Goto, TypeInv, TypeOK
    <3> QED BY <1>1, <2>2, <2>3, <3>1 DEF At
  <2>7. CASE MapInsert(c)
    <3>1. /\ pc[c] = "called" /\ x \in InMemoryCells /\ gauge' = gauge
          /\ call' = call /\ call[c].op = "insert"
          /\ docs' = [docs EXCEPT ![x] = <<call[c].val>>]
          /\ pc' = [pc EXCEPT ![c] = IF docs[x] = <<>> THEN "counting" ELSE "done"]
      BY <2>7, AtACell DEF MapInsert, At, PutRows, Written, Goto, Rows, Backend, InMemoryCells
    <3>2. O' = O \cup {x}
      BY <3>1 DEF Occupied, InMemoryCells, TypeInv, TypeOK
    <3>3. CASE docs[x] # <<>>
      <4>1. x \in O BY <3>1, <3>3 DEF Occupied
      <4>2. pc'[c] # "counting" BY <3>1, <3>3 DEF TypeInv, TypeOK
      <4> QED BY <1>1, <2>2, <3>1, <3>2, <4>1, <4>2 DEF At
    <3>4. CASE docs[x] = <<>>
      <4>1. x \notin O BY <3>4 DEF Occupied
      <4>2. pc'[c] = "counting" BY <3>1, <3>4 DEF TypeInv, TypeOK
      <4>3. c \notin I /\ I' = I \cup {c}
        BY <2>1, <3>1, <4>2 DEF Uncounted, At
      <4>4. R' = R BY <2>2, <3>1, <4>2 DEF At
      <4>5. /\ IsFiniteSet(O') /\ Cardinality(O') = Cardinality(O) + 1
            /\ IsFiniteSet(I') /\ Cardinality(I') = Cardinality(I) + 1
        BY <3>2, <4>1, <4>3, OneMore DEF GaugeInv
      <4> QED BY <1>0, <3>1, <4>4, <4>5 DEF GaugeInv, GaugeCounts
    <3> QED BY <3>3, <3>4
  <2>8. CASE MapRemove(c)
    <3>1. /\ pc[c] = "called" /\ x \in InMemoryCells /\ gauge' = gauge
          /\ call' = call /\ call[c].op = "remove"
          /\ docs' = [docs EXCEPT ![x] = <<>>]
          /\ pc' = [pc EXCEPT ![c] = IF docs[x] = <<>> THEN "done" ELSE "counting"]
      BY <2>8, AtACell DEF MapRemove, At, PutRows, Written, Goto, Rows, Backend, InMemoryCells
    <3>2. O' = O \ {x}
      BY <3>1 DEF Occupied, InMemoryCells, TypeInv, TypeOK
    <3>3. CASE docs[x] = <<>>
      <4>1. x \notin O BY <3>3 DEF Occupied
      <4>2. pc'[c] # "counting" BY <3>1, <3>3 DEF TypeInv, TypeOK
      <4> QED BY <1>1, <2>2, <3>1, <3>2, <4>1, <4>2 DEF At
    <3>4. CASE docs[x] # <<>>
      <4>1. x \in O BY <3>1, <3>4 DEF Occupied
      <4>2. pc'[c] = "counting" BY <3>1, <3>4 DEF TypeInv, TypeOK
      <4>3. c \notin R /\ R' = R \cup {c}
        BY <2>1, <3>1, <4>2 DEF Uncounted, At
      <4>4. I' = I BY <2>2, <3>1, <4>2 DEF At
      <4>5. /\ IsFiniteSet(O') /\ Cardinality(O') = Cardinality(O) - 1
            /\ IsFiniteSet(R') /\ Cardinality(R') = Cardinality(R) + 1
        BY <3>2, <4>1, <4>3, OneMore, OneLess DEF GaugeInv
      <4> QED BY <1>0, <3>1, <4>4, <4>5 DEF GaugeInv, GaugeCounts
    <3> QED BY <3>3, <3>4
  <2>9. CASE AdjustGauge(c)
    <3>1. /\ pc[c] = "counting" /\ docs' = docs /\ call' = call
          /\ pc'[c] = "done" /\ call[c].op \in {"insert", "remove"}
          /\ gauge' = IF call[c].op = "insert" THEN gauge + 1 ELSE gauge - 1
      BY <2>9 DEF AdjustGauge, Goto, TypeInv, TypeOK, StageInv, StageOK, Fits
    <3>2. O' = O BY <2>3, <3>1
    <3>3. CASE call[c].op = "insert"
      <4>1. c \in I /\ I' = I \ {c}
        BY <2>1, <3>1, <3>3 DEF Uncounted, At
      <4>2. R' = R BY <2>2, <3>1, <3>3 DEF At
      <4>3. IsFiniteSet(I') /\ Cardinality(I') = Cardinality(I) - 1
        BY <4>1, OneLess DEF GaugeInv
      <4> QED BY <1>0, <3>1, <3>2, <3>3, <4>2, <4>3 DEF GaugeInv, GaugeCounts
    <3>4. CASE call[c].op = "remove"
      <4>1. c \in R /\ R' = R \ {c}
        BY <2>1, <3>1, <3>4 DEF Uncounted, At
      <4>2. I' = I BY <2>2, <3>1, <3>4 DEF At
      <4>3. IsFiniteSet(R') /\ Cardinality(R') = Cardinality(R) - 1
        BY <4>1, OneLess DEF GaugeInv
      <4> QED BY <1>0, <3>1, <3>2, <3>4, <4>2, <4>3 DEF GaugeInv, GaugeCounts
    <3> QED BY <3>1, <3>3, <3>4
  <2>10. \/ Turn(c) \/ Backend(c) # "InMemory" \/ Get(c) \/ ContainsKey(c)
         \/ MapInsert(c) \/ MapRemove(c) \/ AdjustGauge(c)
    BY DEF Turn, Step, Fault, Upsert, DeleteOne, UpdateOne, UpsertInsert,
           FindOneAndDelete, SelectOld, DeleteOld, Merge, MergeInsert, Commit, At,
           TypeInv, StageInv, StageOK, Fits, Tx
  <2> QED BY <2>4, <2>5, <2>6, <2>7, <2>8, <2>9, <2>10
<1> QED BY <1>2, <1>3

(* The gauge the in-memory stores share is right whenever no call is       *)
(* between its map and the gauge, for any number of keys and callers.      *)
THEOREM GaugeIsRight == Spec => []GaugeCounts
<1>1. Init => GaugeInv
  <2> SUFFICES ASSUME Init PROVE GaugeInv
    OBVIOUS
  <2>1. /\ Occupied = {} /\ Uncounted("insert") = {} /\ Uncounted("remove") = {}
    BY DEF Init, Occupied, InMemoryCells, Uncounted, At
  <2>2. IsFiniteSet({}) /\ Cardinality({}) = 0
    BY FS_EmptySet
  <2>3. /\ Cardinality(Occupied) = 0
        /\ Cardinality(Uncounted("insert")) = 0
        /\ Cardinality(Uncounted("remove")) = 0
    BY <2>1, <2>2, Zenon
  <2>4. gauge = 0 BY DEF Init
  <2>5. GaugeCounts BY <2>3, <2>4 DEF GaugeCounts
  <2>6. /\ IsFiniteSet(Occupied)
        /\ IsFiniteSet(Uncounted("insert")) /\ IsFiniteSet(Uncounted("remove"))
    BY <2>1, <2>2, Zenon
  <2> QED BY <2>5, <2>6 DEF GaugeInv
<1>2. GaugeInv => GaugeCounts BY DEF GaugeInv
<1> QED BY <1>1, <1>2, TypeCorrect, GaugeStep, PTL DEF Spec

----------------------------------------------------------------------------
(* Refinement of AtomicStore.                                              *)

AbstractCalls == [c \in Client |-> AbstractCall(c)]

(* A step changes the abstract call of the client that takes it.           *)
LEMMA CallFrame ==
  ASSUME TypeInv, Next, NEW c \in Client, Turn(c) \/ Step(c) \/ Fault(c)
  PROVE  AbstractCalls' = [AbstractCalls EXCEPT ![c] = AbstractCall(c)']
<1>1. ASSUME NEW d \in Client, d # c PROVE AbstractCall(d)' = AbstractCall(d)
  <2>1. pc'[d] = pc[d] /\ ret'[d] = ret[d] /\ call'[d] = call[d]
    BY <1>1, OthersKeep
  <2> QED BY <2>1 DEF AbstractCall, Target
<1> QED BY <1>1 DEF AbstractCalls

(* What is written to a cell is what the abstract cell holds.              *)
LEMMA ContentFrame ==
  ASSUME TypeInv, NEW c \in Client, pc[c] # "idle", NEW rows \in Seq(Value),
         PutRows(c, rows)
  PROVE  /\ Target(c) \notin OneStatement => AbstractContent' = AbstractContent
         /\ Target(c) \in OneStatement =>
              AbstractContent' = [AbstractContent EXCEPT ![Target(c)] = First(rows)]
<1>1. Target(c) \in Cell BY AtACell
<1>2. docs' = [docs EXCEPT ![Target(c)] = rows] /\ docs \in [Cell -> Seq(Value)]
  BY DEF PutRows, TypeInv, TypeOK
<1>3. OneStatement \subseteq Cell BY DEF OneStatement
<1> QED BY <1>1, <1>2, <1>3 DEF AbstractContent

LEMMA ContentSame == docs' = docs => AbstractContent' = AbstractContent
BY DEF AbstractContent

(* A call of a one-statement backend that has had its effect answers what  *)
(* AtomicStore answers and leaves what it leaves.                          *)
LEMMA EffectMaps ==
  ASSUME TypeInv, Next, NEW c \in Client, Step(c) \/ Fault(c), Moves(c),
         pc[c] = "called", pc'[c] \in {"counting", "done"},
         Target(c) \in OneStatement, NEW rows \in Seq(Value), PutRows(c, rows),
         LET k == AbstractCall(c)   old == First(Rows(c))
         IN  \/ First(rows) = Atomic!After(k, old)
                /\ ret'[c] \in {Atomic!AnswerTo(k, old), Error}
             \/ rows = Rows(c) /\ ret'[c] = Error
  PROVE  Atomic!Next
<1> DEFINE k == AbstractCall(c)   x == Target(c)
<1>1. /\ call' = call /\ call[c] \in Calls /\ x \in Cell
      /\ call[c].op # "none" /\ call[c].cell = x
  BY AtACell DEF Moves, Move, Calls, Ops, Target
<1>2. k = [op |-> call[c].op, cell |-> x, val |-> call[c].val, ret |-> Pending]
  BY <1>1 DEF AbstractCall
<1>3. AbstractCall(c)' = [k EXCEPT !.ret = ret'[c]]
  BY <1>1, <1>2 DEF AbstractCall, Target
<1>4. AbstractCalls[c] = k BY DEF AbstractCalls
<1>5. AbstractCalls' = [AbstractCalls EXCEPT ![c] = [@ EXCEPT !.ret = ret'[c]]]
  BY <1>3, <1>4, CallFrame DEF AbstractCalls
<1>6. AbstractContent[x] = First(Rows(c))
  BY <1>1 DEF AbstractContent, Rows
<1>7. AbstractContent' = [AbstractContent EXCEPT ![x] = First(rows)]
  BY <1>1, ContentFrame
<1>8. Atomic!InProgress(c)
  BY <1>1, <1>2 DEF Atomic!InProgress, Atomic!Pending, Pending
<1>9. Atomic!Answer(c, ret'[c])
  BY <1>5 DEF Atomic!Answer, AbstractCalls
<1>10. CASE First(rows) = Atomic!After(k, First(Rows(c)))
            /\ ret'[c] \in {Atomic!AnswerTo(k, First(Rows(c))), Error}
  <2>1. AbstractContent' = Atomic!Applied(c)
    <3>1. Atomic!Applied(c) = [AbstractContent EXCEPT ![AbstractCalls[c].cell] =
                                 Atomic!After(AbstractCalls[c], @)]
      BY DEF Atomic!Applied, AbstractCalls
    <3>2. AbstractCalls[c].cell = x BY <1>2, <1>4
    <3>3. Atomic!Applied(c) = [AbstractContent EXCEPT ![x] = Atomic!After(k, @)]
      BY <1>4, <3>1, <3>2
    <3>4. Atomic!Applied(c) =
            [AbstractContent EXCEPT ![x] = Atomic!After(k, First(Rows(c)))]
      BY <1>6, <3>3
    <3> QED BY <1>7, <1>10, <3>4
  <2>2. AbstractCalls[c].cell = x BY <1>2, <1>4
  <2>3. CASE ret'[c] = Error
    BY <1>8, <1>9, <2>1, <2>3 DEF Atomic!Next, Atomic!Failure, Atomic!Error, Error
  <2>4. CASE ret'[c] = Atomic!AnswerTo(k, First(Rows(c)))
    <3>1. Atomic!Effect(c)
      BY <1>4, <1>6, <1>8, <1>9, <2>1, <2>2, <2>4 DEF Atomic!Effect, AbstractCalls
    <3> QED BY <3>1 DEF Atomic!Next
  <2> QED BY <1>10, <2>3, <2>4
<1>11. CASE rows = Rows(c) /\ ret'[c] = Error
  <2>1. AbstractContent' = AbstractContent
    BY <1>6, <1>7, <1>11 DEF AbstractContent
  <2> QED BY <1>8, <1>9, <1>11, <2>1 DEF Atomic!Next, Atomic!Failure, Atomic!Error, Error
<1> QED BY <1>10, <1>11

AtomicVars == <<AbstractContent, AbstractCalls>>

LEMMA RefinesInit == Init => Atomic!Init
<1> SUFFICES ASSUME Init PROVE Atomic!Init
  OBVIOUS
<1>1. AbstractContent = [x \in OneStatement |-> Absent]
  BY DEF Init, AbstractContent, OneStatement, First
<1>2. [c \in Client |-> AbstractCall(c)] = [c \in Client |-> NoOp]
  BY DEF Init, AbstractCall
<1> QED BY <1>1, <1>2 DEF Atomic!Init, Atomic!Absent, Atomic!NoCall, Absent, NoOp

LEMMA RefinesTurn ==
  ASSUME TypeInv, Next, NEW c \in Client, Turn(c)
  PROVE  Atomic!Next \/ UNCHANGED AtomicVars
<1>1. AbstractContent' = AbstractContent
  BY ContentSame DEF Turn, Begin, Return
<1>2. AbstractCalls' = [AbstractCalls EXCEPT ![c] = AbstractCall(c)']
  BY CallFrame
<1>3. AbstractCalls[c] = AbstractCall(c) BY DEF AbstractCalls
<1>4. ASSUME AbstractCall(c)' = AbstractCall(c) PROVE UNCHANGED AtomicVars
  BY <1>1, <1>2, <1>3, <1>4 DEF AtomicVars, AbstractCalls
<1>5. CASE Return(c)
  <2>1. AbstractCall(c)' = NoOp
    BY <1>5 DEF Return, Goto, AbstractCall, TypeInv, TypeOK
  <2>2. CASE Target(c) \notin OneStatement
    BY <1>4, <2>1, <2>2 DEF AbstractCall
  <2>3. CASE Target(c) \in OneStatement
    <3>1. AbstractCall(c) = [op |-> call[c].op, cell |-> call[c].cell,
                             val |-> call[c].val, ret |-> ret[c]]
      BY <1>5, <2>3 DEF Return, AbstractCall
    <3>2. ret[c] # Pending /\ call[c].op # "none"
      BY <1>5 DEF Return, TypeInv, StageInv, StageOK, Fits, InFlight, Calls, Ops
    <3>3. Atomic!Return(c)
      BY <1>1, <1>2, <1>3, <2>1, <3>1, <3>2
         DEF Atomic!Return, Atomic!Pending, Atomic!NoCall, Pending, NoOp, AbstractCalls
    <3> QED BY <3>3 DEF Atomic!Next
  <2> QED BY <2>2, <2>3
<1>6. ASSUME NEW op \in Ops, NEW x \in configured \X Key,
             NEW v \in Argument(op), Begin(c, op, x, v)
      PROVE  Atomic!Next \/ UNCHANGED AtomicVars
  <2>1. AbstractCall(c) = NoOp BY <1>6 DEF Begin, AbstractCall
  <2>2. /\ pc'[c] = "called"
        /\ call'[c] = [op |-> op, cell |-> x, val |-> v]
    BY <1>6 DEF Begin, Goto, TypeInv, TypeOK
  <2>3. CASE x \notin OneStatement
    BY <1>4, <2>1, <2>2, <2>3 DEF AbstractCall, Target, OneStatement
  <2>4. CASE x \in OneStatement
    <3>1. AbstractCall(c)' = [op |-> op, cell |-> x, val |-> v, ret |-> Pending]
      BY <2>2, <2>4 DEF AbstractCall, Target, OneStatement
    <3>2. op \in Atomic!Ops /\ v \in Atomic!Argument(op)
      BY DEF Ops, Argument, Absent, Atomic!Ops, Atomic!Argument, Atomic!Absent
    <3>3. Atomic!Call(c, op, x, v)
      BY <1>1, <1>2, <1>3, <2>1, <3>1
         DEF Atomic!Call, Atomic!Pending, Pending, NoOp, AbstractCalls
    <3> QED BY <2>4, <3>2, <3>3 DEF Atomic!Next
  <2> QED BY <2>3, <2>4
<1> QED BY <1>5, <1>6 DEF Turn

LEMMA RefinesOther ==   \* the calls AtomicStore leaves out
  ASSUME TypeInv, Next, NEW c \in Client, Step(c) \/ Fault(c), Moves(c),
         Target(c) \notin OneStatement
  PROVE  UNCHANGED AtomicVars
<1>1. /\ pc[c] # "idle" /\ pc'[c] # "idle" /\ call' = call /\ Writes(c)
  BY DEF Moves, Move, TypeInv, TypeOK
<1>2. AbstractContent' = AbstractContent
  BY <1>1, ContentFrame, ContentSame DEF Writes
<1>3. AbstractCall(c)' = AbstractCall(c)
  BY <1>1 DEF AbstractCall, Target, OneStatement
<1> QED BY <1>2, <1>3, CallFrame DEF AtomicVars, AbstractCalls

LEMMA RefinesStep ==
  ASSUME TypeInv, Next, NEW c \in Client, Step(c), Moves(c),
         Target(c) \in OneStatement
  PROVE  Atomic!Next \/ UNCHANGED AtomicVars
<1> DEFINE k == AbstractCall(c)   old == First(Rows(c))
<1>1. /\ call' = call /\ call[c] \in Calls /\ Target(c) \in Cell
      /\ call[c].op = "insert" => call[c].val \in Value
      /\ Rows(c) \in Seq(Value) /\ Written(c) \in Seq(Value)
      /\ pc[c] # "idle"
      /\ Backend(c) \in {"InMemory", "Redis", "Postgres"}
  BY AtACell, WrittenType
     DEF Moves, Move, TypeInv, StageInv, StageOK, Fits, OneStatement, Backend
<1>2. k = [op |-> call[c].op, cell |-> call[c].cell, val |-> call[c].val,
           ret |-> IF pc[c] \in {"counting", "done"} THEN ret[c] ELSE Pending]
  BY <1>1 DEF AbstractCall
<1>3. CASE Get(c) \/ ContainsKey(c)
  <2>1. /\ pc[c] = "called" /\ pc'[c] = "done" /\ docs' = docs
        /\ call[c].op \in {"get", "contains_key"}
        /\ ret'[c] = IF call[c].op = "get" THEN old
                     ELSE IF Rows(c) = <<>> THEN No ELSE Yes
    BY <1>3 DEF Get, ContainsKey, At, Finish, Goto, Reply, TypeInv, TypeOK
  <2>2. PutRows(c, Rows(c))
    BY <1>1, <2>1 DEF PutRows, Rows, TypeInv, TypeOK
  <2>3. old = Absent <=> Rows(c) = <<>> BY <1>1, FirstType
  <2>4. old = Atomic!After(k, old) BY <1>2, <2>1 DEF Atomic!After
  <2>5. ret'[c] = Atomic!AnswerTo(k, old)
    BY <1>2, <2>1, <2>3
       DEF Atomic!AnswerTo, Atomic!Absent, Atomic!Yes, Atomic!No, Absent, Yes, No
  <2> QED BY <1>1, <2>1, <2>2, <2>4, <2>5, EffectMaps
<1>4. CASE MapInsert(c) \/ Upsert(c)
  <2>1. /\ pc[c] = "called" /\ pc'[c] \in {"counting", "done"}
        /\ call[c].op = "insert" /\ ret'[c] = Ok /\ PutRows(c, Written(c))
    BY <1>4 DEF MapInsert, Upsert, At, Finish, Goto, Reply, TypeInv, TypeOK
  <2>2. First(Written(c)) = call[c].val BY <1>1, <2>1 DEF First, Written
  <2>3. First(Written(c)) = Atomic!After(k, old)
    BY <1>2, <2>1, <2>2 DEF Atomic!After
  <2>4. ret'[c] = Atomic!AnswerTo(k, old)
    BY <1>2, <2>1 DEF Atomic!AnswerTo, Atomic!Ok, Ok
  <2> QED BY <1>1, <2>1, <2>3, <2>4, EffectMaps
<1>5. CASE MapRemove(c) \/ DeleteOne(c)
  <2>1. /\ pc[c] = "called" /\ pc'[c] \in {"counting", "done"}
        /\ call[c].op = "remove" /\ ret'[c] = old /\ PutRows(c, Written(c))
    BY <1>5 DEF MapRemove, DeleteOne, At, Finish, Goto, Reply, TypeInv, TypeOK
  <2>2. First(Written(c)) = Atomic!After(k, old)
    BY <1>2, <2>1 DEF First, Written, Atomic!After, Atomic!Absent, Absent
  <2>3. ret'[c] = Atomic!AnswerTo(k, old)
    BY <1>2, <2>1 DEF Atomic!AnswerTo
  <2> QED BY <1>1, <2>1, <2>2, <2>3, EffectMaps
<1>6. CASE AdjustGauge(c)
  <2>1. docs' = docs /\ ret' = ret /\ pc[c] = "counting" /\ pc'[c] = "done"
    BY <1>6 DEF AdjustGauge, Goto, TypeInv, TypeOK
  <2>2. AbstractCall(c)' = AbstractCall(c)
    BY <1>1, <2>1 DEF AbstractCall, Target, OneStatement
  <2> QED BY <2>1, <2>2, CallFrame, ContentSame DEF AtomicVars, AbstractCalls
<1>7. \/ Get(c) \/ ContainsKey(c) \/ MapInsert(c) \/ Upsert(c)
      \/ MapRemove(c) \/ DeleteOne(c) \/ AdjustGauge(c)
  <2>1. ~Return(c)
    BY DEF Return, Goto, Moves, Move, TypeInv, TypeOK
  <2> QED BY <1>1, <2>1
          DEF Step, UpdateOne, UpsertInsert, FindOneAndDelete, SelectOld, DeleteOld,
              Merge, MergeInsert, Commit, TypeInv, StageInv, StageOK, Fits, Tx
<1> QED BY <1>3, <1>4, <1>5, <1>6, <1>7

LEMMA RefinesFault ==
  ASSUME TypeInv, Next, NEW c \in Client, Fault(c), Target(c) \in OneStatement
  PROVE  Atomic!Next
<1> DEFINE k == AbstractCall(c)   old == First(Rows(c))
<1>1. Moves(c) BY FaultMoves
<1>2. /\ call[c] \in Calls /\ Target(c) \in Cell
      /\ Rows(c) \in Seq(Value) /\ Written(c) \in Seq(Value)
      /\ call[c].op = "insert" => call[c].val \in Value
      /\ pc[c] # "idle" /\ Backend(c) \in {"Redis", "Postgres"}
  BY <1>1, AtACell, WrittenType
     DEF Fault, Moves, TypeInv, StageInv, StageOK, Fits, OneStatement, Backend
<1>3. pc[c] = "called" /\ pc'[c] = "done" /\ ret'[c] = Error
  BY <1>2 DEF Fault, Finish, Goto, Reply, TypeInv, TypeOK, StageInv, StageOK, Fits, Tx
<1>4. k = [op |-> call[c].op, cell |-> call[c].cell, val |-> call[c].val,
           ret |-> Pending]
  BY <1>2, <1>3 DEF AbstractCall
<1>5. PICK rows \in Outcomes(c) : PutRows(c, rows) BY DEF Fault
<1>6. \/ rows = Rows(c)
      \/ rows = Written(c) /\ call[c].op \in {"insert", "remove"}
  BY <1>2, <1>3, <1>5 DEF Outcomes
<1>7. CASE rows = Rows(c)
  BY <1>1, <1>2, <1>3, <1>5, <1>7, EffectMaps
<1>8. CASE rows = Written(c) /\ call[c].op \in {"insert", "remove"}
  <2>1. First(rows) = Atomic!After(k, old)
    BY <1>2, <1>4, <1>8 DEF First, Written, Atomic!After, Atomic!Absent, Absent
  <2> QED BY <1>1, <1>2, <1>3, <1>5, <1>8, <2>1, EffectMaps
<1> QED BY <1>6, <1>7, <1>8

LEMMA RefinesNext ==
  ASSUME TypeInv, [Next]_vars
  PROVE  Atomic!Next \/ UNCHANGED AtomicVars
<1>1. CASE UNCHANGED vars
  BY <1>1 DEF vars, AtomicVars, AbstractContent, AbstractCalls, AbstractCall, Target
<1>2. CASE Next
  <2> PICK c \in Client : Turn(c) \/ Step(c) \/ Fault(c)
    BY <1>2 DEF Next, Turn
  <2>1. CASE Turn(c) BY <1>2, <2>1, RefinesTurn
  <2>2. CASE (Step(c) \/ Fault(c)) /\ Moves(c)
    BY <1>2, <2>2, RefinesOther, RefinesStep, RefinesFault
  <2> QED BY <2>1, <2>2, StepCases DEF Turn
<1> QED BY <1>1, <1>2

(* The backends whose operations are one statement behave as a map whose   *)
(* operations take effect at one instant between call and answer.          *)
THEOREM OneStatementIsAtomic == Spec => Linearizable
<1>1. ASSUME TypeInv, [Next]_vars
      PROVE  [Atomic!Next]_<<AbstractContent, [c \in Client |-> AbstractCall(c)]>>
  BY <1>1, RefinesNext DEF AtomicVars, AbstractCalls
<1> QED BY <1>1, RefinesInit, TypeCorrect, PTL DEF Spec, Linearizable, Atomic!Spec

----------------------------------------------------------------------------
(* keys() beside writers, for any keys, buckets, writes and repeats.  The  *)
(* invariant splits the keys at the bucket the scan has reached: those     *)
(* before it have been collected if they were in the store all along.      *)

Reached(b) == {k \in ListKey : BucketOf[k] < b}

ScanInv ==
  /\ present \subseteq ListKey /\ bucket \in 1..(Buckets + 1)
  /\ found \in Seq(ListKey) /\ seen \subseteq SUBSET ListKey
  /\ stage = "scanning" =>
       /\ present \in seen
       /\ Always \cap Reached(bucket) \subseteq Range(found)
       /\ Range(found) \subseteq Sometime

(* A list without duplicates.                                              *)
Distinct(keys) == \A i, j \in 1..Len(keys) : keys[i] = keys[j] => i = j

(* A set of keys is listed completely, once each, and nothing else is.     *)
LEMMA AsSeqLists ==
  ASSUME NEW S, S \subseteq ListKey
  PROVE  /\ AsSeq(S) \in Seq(ListKey) /\ Range(AsSeq(S)) = S
         /\ Distinct(AsSeq(S)) /\ Len(AsSeq(S)) = Cardinality(S)
<1> DEFINE n == Cardinality(S)
<1>1. IsFiniteSet(S) BY ListingAssumption, FS_Subset DEF ListingAssumption
<1>2. n \in Nat /\ ExistsBijection(1..n, S) BY <1>1, FS_CardinalityType
<1>3. PICK g : g \in Injection(1..n, S)
  BY <1>2 DEF ExistsBijection, Bijection
<1>4. AsSeq(S) \in [1..n -> S] /\ IsInjective(AsSeq(S))
  <2>1. g \in [1..n -> S] /\ IsInjective(g) BY <1>3 DEF Injection
  <2> QED BY <2>1, Zenon DEF AsSeq, SetToSeq
<1>5. AsSeq(S) \in Injection(1..n, S) BY <1>4 DEF Injection
<1>6. Cardinality(1..n) = Cardinality(S) BY <1>2, FS_Interval
<1>7. AsSeq(S) \in Surjection(1..n, S)
  <2> DEFINE f == AsSeq(S)  I == 1..n
  <2> HIDE DEF f, I
  <2>1. f \in Injection(I, S) /\ Cardinality(I) = Cardinality(S)
    BY <1>5, <1>6 DEF f, I
  <2>2. f \in Surjection(I, S) BY <1>1, <2>1, FS_Injection
  <2> QED BY <2>2 DEF f, I
<1>8. Range(AsSeq(S)) = S BY <1>4, <1>7 DEF Range, Surjection
<1>9. AsSeq(S) \in Seq(S) /\ Len(AsSeq(S)) = n BY <1>2, <1>4
<1>10. Distinct(AsSeq(S))
  BY <1>4, <1>9, Zenon DEF Distinct, IsInjective
<1> QED BY <1>8, <1>9, <1>10

LEMMA RangeOfConcat ==
  ASSUME NEW s \in Seq(ListKey), NEW t \in Seq(ListKey)
  PROVE  s \o t \in Seq(ListKey) /\ Range(s \o t) = Range(s) \cup Range(t)
<1>1. Range(s \o t) \subseteq Range(s) \cup Range(t) BY DEF Range
<1>2. Range(s) \subseteq Range(s \o t) BY DEF Range
<1>3. ASSUME NEW i \in DOMAIN t PROVE t[i] \in Range(s \o t)
  <2>1. Len(s) + i \in DOMAIN (s \o t) /\ (s \o t)[Len(s) + i] = t[i]
    OBVIOUS
  <2> QED BY <2>1 DEF Range
<1>4. Range(t) \subseteq Range(s \o t) BY <1>3 DEF Range
<1> QED BY <1>1, <1>2, <1>4

LEMMA ScanInit == ListInit => ScanInv
BY ListingAssumption DEF ListInit, ScanInv, ListingAssumption

LEMMA ScanWritten ==
  ASSUME ScanInv, NEW keys \in SUBSET ListKey, Write(keys)
  PROVE  ScanInv'
<1>1. bucket' = bucket /\ found' = found /\ stage' = stage /\ present' = keys
  BY DEF Write, scan
<1>2. CASE stage = "scanning"
  <2>1. seen' = seen \cup {keys} BY <1>2 DEF Write
  <2>2. Always' \subseteq Always /\ Sometime \subseteq Sometime'
    BY <2>1 DEF Always, Sometime
  <2> QED BY <1>1, <1>2, <2>1, <2>2 DEF ScanInv, Reached
<1>3. CASE stage # "scanning"
  BY <1>1, <1>3 DEF Write, ScanInv
<1> QED BY <1>2, <1>3

LEMMA ReachedGrows ==
  /\ Reached(1) = {} /\ Reached(Buckets + 1) = ListKey /\ Buckets \in Nat
  /\ \A b \in 1..Buckets : Reached(b + 1) = Reached(b) \cup {k \in ListKey : BucketOf[k] = b}
  /\ \A b \in 2..(Buckets + 1) : Reached(b - 1) \subseteq Reached(b)
<1>1. Buckets \in Nat /\ \A k \in ListKey : BucketOf[k] \in 1..Buckets
  BY ListingAssumption, Zenon DEF ListingAssumption
<1> QED BY <1>1 DEF Reached

LEMMA ScanVisited ==
  ASSUME ScanInv, Visit
  PROVE  ScanInv'
<1>1. /\ stage = "scanning" /\ stage' = stage /\ bucket' = bucket + 1
      /\ seen' = seen /\ present' = present /\ bucket \in 1..Buckets
      /\ bucket' \in 1..(Buckets + 1)
      /\ found' = found \o AsSeq(InBucket(bucket))
  BY ReachedGrows DEF Visit, ScanInv
<1>2. /\ present \subseteq ListKey /\ present \in seen /\ found \in Seq(ListKey)
      /\ Always \cap Reached(bucket) \subseteq Range(found)
      /\ Range(found) \subseteq Sometime
  BY <1>1 DEF ScanInv
<1>3. PICK here : here = InBucket(bucket) OBVIOUS
<1>4. /\ here \subseteq present /\ here \subseteq ListKey
      /\ here = {k \in present : BucketOf[k] = bucket}
  BY <1>2, <1>3 DEF InBucket
<1>5. AsSeq(here) \in Seq(ListKey) /\ Range(AsSeq(here)) = here
  BY <1>4, AsSeqLists
<1>6. found' \in Seq(ListKey) /\ Range(found') = Range(found) \cup here
  BY <1>1, <1>2, <1>3, <1>5, RangeOfConcat
<1>7. Always' = Always /\ Sometime' = Sometime BY <1>1 DEF Always, Sometime
<1>8. Always \subseteq present /\ here \subseteq Sometime
  BY <1>2, <1>4 DEF Always, Sometime
<1>9. Always \cap Reached(bucket') \subseteq Range(found')
  BY <1>1, <1>2, <1>4, <1>6, <1>8, ReachedGrows
<1> QED BY <1>1, <1>2, <1>4, <1>6, <1>7, <1>8, <1>9 DEF ScanInv

LEMMA ScanSelected ==
  ASSUME ScanInv, Select
  PROVE  ScanInv'
<1>1. /\ stage = "scanning" /\ stage' = stage /\ bucket' \in 1..(Buckets + 1)
      /\ seen' = seen /\ present' = present /\ found' = AsSeq(present)
  BY ReachedGrows DEF Select
<1>2. present \subseteq ListKey /\ present \in seen BY <1>1 DEF ScanInv
<1>3. found' \in Seq(ListKey) /\ Range(found') = present
  BY <1>1, <1>2, AsSeqLists
<1>4. Always' \subseteq present /\ present \subseteq Sometime'
  BY <1>1, <1>2 DEF Always, Sometime
<1> QED BY <1>1, <1>2, <1>3, <1>4 DEF ScanInv

LEMMA ScanNext == ScanInv /\ [ListNext]_listVars => ScanInv'
<1> SUFFICES ASSUME ScanInv, [ListNext]_listVars PROVE ScanInv'
  OBVIOUS
<1>1. ASSUME NEW k \in ListKey, InsertKey(k) PROVE ScanInv'
  BY <1>1, ScanWritten DEF InsertKey, ScanInv
<1>2. ASSUME NEW k \in ListKey, RemoveKey(k) PROVE ScanInv'
  BY <1>2, ScanWritten DEF RemoveKey, ScanInv
<1>3. CASE StartList
  <2>1. /\ present' = present /\ bucket' = 1 /\ found' = <<>> /\ seen' = {present}
    BY <1>3 DEF StartList
  <2>2. Reached(bucket') = {} /\ bucket' \in 1..(Buckets + 1)
    BY <2>1, ReachedGrows
  <2>3. Range(found') = {} BY <2>1 DEF Range
  <2> QED BY <2>1, <2>2, <2>3 DEF ScanInv
<1>4. CASE VisitAgain
  <2>1. /\ stage' = stage /\ present' = present /\ seen' = seen /\ found' = found
        /\ bucket' = bucket - 1 /\ bucket > 1
    BY <1>4 DEF VisitAgain
  <2>2. bucket \in 2..(Buckets + 1) /\ bucket' \in 1..(Buckets + 1)
    BY <2>1, ReachedGrows DEF ScanInv
  <2>3. Reached(bucket') \subseteq Reached(bucket)
    BY <2>1, <2>2, ReachedGrows
  <2>4. Always' = Always /\ Sometime' = Sometime BY <2>1 DEF Always, Sometime
  <2> QED BY <2>1, <2>2, <2>3, <2>4 DEF ScanInv
<1>5. CASE Respond \/ NextPage
  BY <1>5 DEF Respond, NextPage, ScanInv
<1>6. CASE UNCHANGED listVars
  BY <1>6 DEF listVars, ScanInv, Always, Sometime
<1> QED
  BY <1>1, <1>2, <1>3, <1>4, <1>5, <1>6, ScanVisited, ScanSelected DEF ListNext

(* A finished keys() has every key that was in the store throughout, and   *)
(* none that never was, whatever other tasks insert and remove meanwhile.  *)
THEOREM KeysHonest == ListSpec => []KeysWeaklyConsistent
<1>1. ScanInv => KeysWeaklyConsistent
  BY ReachedGrows DEF ScanInv, KeysWeaklyConsistent, Scanned, Always
<1> QED BY <1>1, ScanInit, ScanNext, PTL DEF ListSpec

----------------------------------------------------------------------------
(* The sorted listing, for any keys.                                       *)

LEMMA IntervalCount ==
  ASSUME NEW n \in Nat
  PROVE  IsFiniteSet(1..n) /\ Cardinality(1..n) = n
<1>1. 1 \in Int /\ n \in Int OBVIOUS
<1>2. IsFiniteSet(1..n) /\ Cardinality(1..n) = IF 1 > n THEN 0 ELSE n - 1 + 1
  BY <1>1, FS_Interval
<1> QED BY <1>2

(* Of two positions of matching keys one sorts before the other, and the   *)
(* one that does has the smaller place.                                    *)
LEMMA PlacesDiffer ==
  ASSUME NEW keys \in Seq(ListKey)
  PROVE  /\ IsFiniteSet(Matches(keys)) /\ Matches(keys) \subseteq 1..Len(keys)
         /\ Cardinality(Matches(keys)) \in Nat
         /\ \A i \in Matches(keys) :
              Cardinality(Preceding(keys, i)) \in 0..Cardinality(Matches(keys)) - 1
         /\ \A i, j \in Matches(keys) :
              /\ i = j \/ i \in Preceding(keys, j) \/ j \in Preceding(keys, i)
              /\ i \in Preceding(keys, j) =>
                   Cardinality(Preceding(keys, i)) < Cardinality(Preceding(keys, j))
<1> DEFINE M == Matches(keys)
<1>1. M \subseteq 1..Len(keys) /\ Len(keys) \in Nat
  BY DEF Matches
<1>2. IsFiniteSet(M) /\ Cardinality(M) \in Nat
  <2>1. IsFiniteSet(1..Len(keys)) BY <1>1, FS_Interval
  <2>2. IsFiniteSet(M) BY <1>1, <2>1, FS_Subset
  <2> QED BY <2>2, FS_CardinalityType
<1>3. \A i \in M : keys[i] \in Int /\ i \in Int
  <2>1. ListKey \subseteq Int BY ListingAssumption DEF ListingAssumption
  <2>2. \A i \in 1..Len(keys) : keys[i] \in ListKey OBVIOUS
  <2>3. \A i \in M : i \in 1..Len(keys) BY <1>1
  <2>4. \A i \in 1..Len(keys) : i \in Int BY <1>1
  <2> QED BY <2>1, <2>2, <2>3, <2>4, Zenon
<1>4. \A i \in M : Preceding(keys, i) \subseteq M \ {i}
  BY <1>3 DEF Preceding
<1>5. \A i, j \in M : i = j \/ i \in Preceding(keys, j) \/ j \in Preceding(keys, i)
  BY <1>3 DEF Preceding
<1>6. \A i \in M : /\ IsFiniteSet(Preceding(keys, i))
                   /\ Cardinality(Preceding(keys, i)) \in 0..Cardinality(M) - 1
  <2> SUFFICES ASSUME NEW i \in M
               PROVE  /\ IsFiniteSet(Preceding(keys, i))
                      /\ Cardinality(Preceding(keys, i)) \in 0..Cardinality(M) - 1
    OBVIOUS
  <2>1. IsFiniteSet(M \ {i}) /\ Cardinality(M \ {i}) = Cardinality(M) - 1
    BY <1>2, FS_RemoveElement
  <2>2. /\ IsFiniteSet(Preceding(keys, i))
        /\ Cardinality(Preceding(keys, i)) <= Cardinality(M \ {i})
    BY <1>4, <2>1, FS_Subset
  <2>3. Cardinality(Preceding(keys, i)) \in Nat
    BY <2>2, FS_CardinalityType
  <2> QED BY <1>2, <2>1, <2>2, <2>3
<1>7. ASSUME NEW i \in M, NEW j \in M, i \in Preceding(keys, j)
      PROVE  Cardinality(Preceding(keys, i)) < Cardinality(Preceding(keys, j))
  <2> DEFINE P == Preceding(keys, i)   Q == Preceding(keys, j)
  <2>1. P \subseteq Q \ {i}
    BY <1>3, <1>7 DEF Preceding
  <2>2. IsFiniteSet(Q) /\ Cardinality(Q) \in Nat /\ Cardinality(P) \in Nat
    BY <1>6, <1>2
  <2>3. IsFiniteSet(Q \ {i}) /\ Cardinality(Q \ {i}) = Cardinality(Q) - 1
    BY <1>7, <2>2, FS_RemoveElement
  <2>4. Cardinality(P) <= Cardinality(Q \ {i})
    BY <2>1, <2>3, FS_Subset
  <2> QED BY <2>2, <2>3, <2>4
<1> QED BY <1>1, <1>2, <1>5, <1>6, <1>7

(* Every place is taken: the position with n - 1 matching keys before it   *)
(* exists, and the listing goes through the positions in this order.       *)
LEMMA PlacesTaken ==
  ASSUME NEW keys \in Seq(ListKey)
  PROVE  \E at \in Bijection(1..Cardinality(Matches(keys)), Matches(keys)) :
           /\ Listing(keys) = [n \in 1..Cardinality(Matches(keys)) |-> keys[at[n]]]
           /\ \A m, n \in 1..Cardinality(Matches(keys)) :
                m < n => at[m] \in Preceding(keys, at[n])
<1> DEFINE M == Matches(keys)
           N == Cardinality(Matches(keys))
           Place(i) == Cardinality(Preceding(keys, i))
           place == [i \in M |-> Place(i)]
           at == [n \in 1..N |-> CHOOSE i \in M : Place(i) = n - 1]
<1> HIDE DEF M, N, Place
<1>1. /\ IsFiniteSet(M) /\ N = Cardinality(M) /\ N \in Nat
      /\ \A i \in M : Place(i) \in 0..N - 1
      /\ \A i, j \in M : /\ i = j \/ i \in Preceding(keys, j) \/ j \in Preceding(keys, i)
                         /\ i \in Preceding(keys, j) => Place(i) < Place(j)
  BY PlacesDiffer DEF M, N, Place
<1>2. \A i, j \in M : Place(i) = Place(j) => i = j
  BY <1>1
<1>3. place \in Injection(M, 0..N - 1)
  BY <1>1, <1>2 DEF Injection, IsInjective
<1>4. IsFiniteSet(0..N - 1) /\ Cardinality(0..N - 1) = N
  <2>1. 0 \in Int /\ N - 1 \in Int BY <1>1
  <2>2. /\ IsFiniteSet(0..N - 1)
        /\ Cardinality(0..N - 1) = IF 0 > N - 1 THEN 0 ELSE N - 1 - 0 + 1
    BY <2>1, FS_Interval
  <2> QED BY <1>1, <2>2
<1>5. place \in Surjection(M, 0..N - 1)
  <2>1. Cardinality(M) = Cardinality(0..N - 1) BY <1>1, <1>4
  <2> QED BY <1>3, <1>4, <2>1, FS_Injection
<1>6. ASSUME NEW n \in 1..N
      PROVE  at[n] \in M /\ Place(at[n]) = n - 1
  <2>1. n - 1 \in 0..N - 1 BY <1>1
  <2>2. \E i \in M : Place(i) = n - 1 BY <1>5, <2>1 DEF Surjection
  <2> QED BY <2>2
<1>7. at \in Injection(1..N, M)
  <2>1. at \in [1..N -> M] BY <1>6
  <2>2. \A m, n \in 1..N : at[m] = at[n] => m = n BY <1>6
  <2> QED BY <2>1, <2>2 DEF Injection, IsInjective
<1>8. at \in Surjection(1..N, M)
  <2>1. ASSUME NEW i \in M PROVE \E n \in 1..N : at[n] = i
    <3>1. PICK n \in Nat : n = Place(i) + 1 BY <1>1
    <3>2. n \in 1..N BY <1>1, <3>1
    <3>3. at[n] \in M /\ Place(at[n]) = n - 1 BY <1>6, <3>2
    <3>4. Place(at[n]) = Place(i) BY <1>1, <3>1, <3>3
    <3>5. at[n] = i BY <1>2, <3>3, <3>4
    <3> QED BY <3>2, <3>5
  <2> QED BY <1>7, <2>1 DEF Surjection, Injection
<1>9. ASSUME NEW m \in 1..N, NEW n \in 1..N, m < n
      PROVE  at[m] \in Preceding(keys, at[n])
  <2>1. /\ at[m] \in M /\ at[n] \in M
        /\ Place(at[m]) = m - 1 /\ Place(at[n]) = n - 1
    BY <1>6
  <2>2. Place(at[m]) < Place(at[n]) BY <1>9, <2>1
  <2> QED BY <1>1, <2>1, <2>2
<1>10. Listing(keys) = [n \in 1..N |-> keys[at[n]]]
  BY DEF Listing, M, N, Place
<1>11. at \in Bijection(1..N, M) BY <1>7, <1>8 DEF Bijection
<1> HIDE DEF at
<1>12. \E f \in Bijection(1..N, M) :
         /\ Listing(keys) = [n \in 1..N |-> keys[f[n]]]
         /\ \A m, n \in 1..N : m < n => f[m] \in Preceding(keys, f[n])
  BY <1>9, <1>10, <1>11
<1> QED BY <1>12 DEF M, N

(* The listing is the matching keys in ascending order, and each of them   *)
(* as often as it was found (keys.retain and keys.sort, mod.rs 229-235;    *)
(* filter and collectSortedList, RecordHandler.java 70-72).                *)
Occurrences(keys, k) == {i \in 1..Len(keys) : keys[i] = k}
THEOREM ListingIsSorted ==
  ASSUME NEW keys \in Seq(ListKey)
  PROVE  /\ Listing(keys) \in Seq(ListKey) /\ Len(Listing(keys)) <= Len(keys)
         /\ Range(Listing(keys)) = Range(keys) \cap Matching
         /\ \A m, n \in 1..Len(Listing(keys)) :
              m < n => Listing(keys)[m] <= Listing(keys)[n]
         /\ \A k \in Matching :
              Cardinality(Occurrences(Listing(keys), k)) = Cardinality(Occurrences(keys, k))
<1> DEFINE M == Matches(keys)
           N == Cardinality(Matches(keys))
           L == Listing(keys)
<1>1. PICK at \in Bijection(1..N, M) :
        /\ L = [n \in 1..N |-> keys[at[n]]]
        /\ \A m, n \in 1..N : m < n => at[m] \in Preceding(keys, at[n])
  BY PlacesTaken
<1>2. IsFiniteSet(M) /\ M \subseteq 1..Len(keys) /\ N \in Nat /\ Len(keys) \in Nat
  BY PlacesDiffer
<1>3. /\ \A n \in 1..N : at[n] \in M
      /\ \A i \in M : \E n \in 1..N : at[n] = i
      /\ \A m, n \in 1..N : at[m] = at[n] => m = n
  BY <1>1 DEF Bijection, Injection, Surjection, IsInjective
<1>4. \A i \in M : keys[i] \in ListKey /\ keys[i] \in Matching
  BY <1>2 DEF Matches
<1> HIDE DEF M, N
<1>5. L \in Seq(ListKey) /\ Len(L) = N
  <2>1. \A n \in 1..N : keys[at[n]] \in ListKey BY <1>3, <1>4
  <2>2. L \in [1..N -> ListKey] BY <1>1, <2>1
  <2> HIDE DEF L
  <2> QED BY <1>2, <2>2
<1>6. \A n \in 1..N : L[n] = keys[at[n]] BY <1>1
<1>7. Range(L) = Range(keys) \cap Matching
  <2>1. ASSUME NEW n \in 1..N PROVE L[n] \in Range(keys) \cap Matching
    <3>1. at[n] \in M /\ at[n] \in 1..Len(keys) BY <1>2, <1>3
    <3> QED BY <1>4, <1>6, <3>1 DEF Range
  <2>2. ASSUME NEW i \in 1..Len(keys), keys[i] \in Matching PROVE keys[i] \in Range(L)
    <3>1. i \in M BY <2>2 DEF M, Matches
    <3>2. PICK n \in 1..N : at[n] = i BY <1>3, <3>1
    <3>3. L[n] = keys[i] /\ n \in DOMAIN L BY <1>1, <1>6, <3>2
    <3> QED BY <3>3 DEF Range
  <2>3. DOMAIN L = 1..N /\ DOMAIN keys = 1..Len(keys) BY <1>1
  <2> HIDE DEF L
  <2> QED BY <2>1, <2>2, <2>3 DEF Range
<1>8. ASSUME NEW m \in 1..N, NEW n \in 1..N, m < n PROVE L[m] <= L[n]
  <2>1. at[m] \in Preceding(keys, at[n]) /\ at[m] \in M /\ at[n] \in M BY <1>1, <1>3, <1>8
  <2>2. keys[at[m]] < keys[at[n]] \/ keys[at[m]] = keys[at[n]] BY <2>1 DEF Preceding
  <2>3. keys[at[m]] \in Int /\ keys[at[n]] \in Int
    <3>1. ListKey \subseteq Int BY ListingAssumption DEF ListingAssumption
    <3> QED BY <1>4, <2>1, <3>1
  <2> QED BY <1>6, <2>2, <2>3
<1>9. Len(L) <= Len(keys)
  <2>1. IsFiniteSet(1..Len(keys)) /\ Cardinality(1..Len(keys)) = Len(keys)
    BY <1>2, IntervalCount
  <2>2. Cardinality(M) <= Cardinality(1..Len(keys)) BY <1>2, <2>1, FS_Subset
  <2> QED BY <1>5, <2>1, <2>2 DEF M, N
<1>10. ASSUME NEW k \in Matching
       PROVE  Cardinality(Occurrences(L, k)) = Cardinality(Occurrences(keys, k))
  <2> DEFINE A == Occurrences(L, k)   B == Occurrences(keys, k)
             f == [n \in A |-> at[n]]
  <2>1. A = {n \in 1..N : keys[at[n]] = k}
    BY <1>5, <1>6 DEF Occurrences
  <2>2. B \subseteq M /\ B = {i \in M : keys[i] = k}
    BY <1>2, <1>10 DEF Occurrences, M, Matches
  <2> HIDE DEF A, B
  <2>3. \A n \in A : n \in 1..N /\ at[n] \in B BY <1>3, <2>1, <2>2
  <2>4. f \in [A -> B] /\ IsInjective(f) BY <1>3, <2>3 DEF IsInjective
  <2>5. \A i \in B : \E n \in A : at[n] = i BY <1>3, <2>1, <2>2
  <2>6. f \in Bijection(A, B)
    BY <2>4, <2>5 DEF Bijection, Injection, Surjection
  <2>7. IsFiniteSet(A) /\ ExistsBijection(A, B)
    <3>1. IsFiniteSet(1..N) /\ A \subseteq 1..N BY <1>2, <2>1, FS_Interval
    <3> QED BY <2>6, <3>1, FS_Subset DEF ExistsBijection
  <2>8. Cardinality(A) = Cardinality(B) BY <2>7, FS_Bijection
  <2> QED BY <2>8 DEF A, B
<1> QED BY <1>5, <1>7, <1>8, <1>9, <1>10

(* How far in a list k is.                                                 *)
Upto(S, k) == {j \in S : j <= k}

(* The listing of keys found once each ascends strictly, and a key's place *)
(* is the number of keys up to it.                                         *)
LEMMA PlaceIsCount ==
  ASSUME NEW keys \in Seq(ListKey), Distinct(keys)
  PROVE  \A n \in 1..Len(Listing(keys)) :
           /\ Cardinality(Upto(Range(Listing(keys)), Listing(keys)[n])) = n
           /\ \A m \in 1..Len(Listing(keys)) :
                m < n => Listing(keys)[m] < Listing(keys)[n]
<1>1. PICK L : L = Listing(keys) OBVIOUS
<1>2. /\ L \in Seq(ListKey) /\ Len(L) \in Nat
      /\ \A n \in 1..Len(L) : L[n] \in Int
      /\ \A m, n \in 1..Len(L) : m < n => L[m] <= L[n]
  <2>1. ListKey \subseteq Int BY ListingAssumption DEF ListingAssumption
  <2>2. /\ L \in Seq(ListKey)
        /\ \A m, n \in 1..Len(L) : m < n => L[m] <= L[n]
    BY <1>1, ListingIsSorted
  <2>3. Len(L) \in Nat /\ \A n \in 1..Len(L) : L[n] \in ListKey BY <2>2
  <2> QED BY <2>1, <2>2, <2>3
<1>3. ASSUME NEW m \in 1..Len(L), NEW n \in 1..Len(L), m < n PROVE L[m] < L[n]
  <2> DEFINE N == Cardinality(Matches(keys))
  <2>1. PICK at \in Bijection(1..N, Matches(keys)) : L = [i \in 1..N |-> keys[at[i]]]
    BY <1>1, PlacesTaken
  <2>2. N \in Nat /\ Matches(keys) \subseteq 1..Len(keys) BY PlacesDiffer
  <2> HIDE DEF N
  <2>3. Len(L) = N BY <1>2, <2>1, <2>2
  <2>4. /\ at[m] \in 1..Len(keys) /\ at[n] \in 1..Len(keys)
        /\ at[m] = at[n] => m = n
    BY <2>1, <2>2, <2>3 DEF Bijection, Injection, IsInjective
  <2>5. L[m] = keys[at[m]] /\ L[n] = keys[at[n]] BY <2>1, <2>3
  <2>6. m # n BY <1>3
  <2>7. L[m] # L[n] BY <2>4, <2>5, <2>6 DEF Distinct
  <2>8. L[m] <= L[n] /\ L[m] \in Int /\ L[n] \in Int BY <1>2, <1>3
  <2> QED BY <2>7, <2>8
<1>4. ASSUME NEW n \in 1..Len(L) PROVE Cardinality(Upto(Range(L), L[n])) = n
  <2> DEFINE U == Upto(Range(L), L[n])
             f == [i \in 1..n |-> L[i]]
  <2>1. \A i \in 1..Len(L) : L[i] \in Int BY <1>2
  <2>2. n \in Nat /\ 1..n \subseteq 1..Len(L) BY <1>2
  <2>3. \A i \in 1..n : L[i] \in U
    <3>1. \A i \in 1..n : L[i] \in Range(L) BY <1>2, <2>2 DEF Range
    <3>2. \A i \in 1..n : L[i] <= L[n]
      <4> SUFFICES ASSUME NEW i \in 1..n PROVE L[i] <= L[n] OBVIOUS
      <4>1. CASE i = n BY <2>1, <4>1
      <4>2. CASE i < n BY <1>2, <2>2, <4>2
      <4> QED BY <4>1, <4>2
    <3> QED BY <3>1, <3>2 DEF Upto
  <2>4. \A x \in U : \E i \in 1..n : L[i] = x
    <3> SUFFICES ASSUME NEW x \in U PROVE \E i \in 1..n : L[i] = x OBVIOUS
    <3>1. PICK i \in 1..Len(L) : L[i] = x BY <1>2 DEF Upto, Range
    <3>2. L[i] <= L[n] BY <3>1 DEF Upto
    <3>3. ~(n < i)
      <4>1. SUFFICES ASSUME n < i PROVE FALSE OBVIOUS
      <4>2. L[n] < L[i] BY <1>3, <4>1
      <4>3. L[n] \in Int /\ L[i] \in Int BY <2>1
      <4> QED BY <3>2, <4>2, <4>3
    <3>4. i \in 1..n BY <2>2, <3>3
    <3> QED BY <3>1, <3>4
  <2>5. \A i, j \in 1..n : L[i] = L[j] => i = j
    <3> SUFFICES ASSUME NEW i \in 1..n, NEW j \in 1..n, L[i] = L[j] PROVE i = j OBVIOUS
    <3>1. i \in 1..Len(L) /\ j \in 1..Len(L) BY <2>2
    <3>2. ~(i < j) /\ ~(j < i)
      <4>1. L[i] \in Int /\ L[j] \in Int BY <2>1, <3>1
      <4>2. i < j => L[i] < L[j] BY <1>3, <3>1
      <4>3. j < i => L[j] < L[i] BY <1>3, <3>1
      <4> QED BY <4>1, <4>2, <4>3
    <3> QED BY <3>2
  <2> HIDE DEF U
  <2>6. f \in Bijection(1..n, U)
    <3>1. f \in [1..n -> U] BY <2>3
    <3>2. IsInjective(f) BY <2>5, <3>1 DEF IsInjective
    <3> QED BY <2>4, <3>1, <3>2 DEF Bijection, Injection, Surjection
  <2>7. ExistsBijection(1..n, U) BY <2>6 DEF ExistsBijection
  <2>8. Cardinality(U) = n BY <2>2, <2>7, FS_CountingElements
  <2> QED BY <2>8 DEF U
<1> QED BY <1>1, <1>3, <1>4

----------------------------------------------------------------------------
(* The pages.                                                              *)

Count == Cardinality(ListKey)
LEMMA CountIsNat == Count \in Nat /\ IsFiniteSet(ListKey)
BY ListingAssumption, FS_CardinalityType DEF ListingAssumption, Count

LEMMA ListingConstants ==
  /\ MaxWord \in Nat /\ MaxRepeats \in Nat /\ Longest \in Nat
  /\ 2 * Longest <= MaxWord /\ Buckets \in Nat
  /\ \A r \in 0..MaxRepeats : Count * r + Count <= Longest
<1>1. MaxWord \in Nat /\ MaxRepeats \in Nat /\ 2 * Longest <= MaxWord /\ Buckets \in Nat
  BY ListingAssumption DEF ListingAssumption
<1>2. Longest = Count * (1 + MaxRepeats) BY DEF Longest, Count
<1>3. \A a, b, c \in Nat : b <= c => a * b <= a * c OBVIOUS
<1>4. \A a, b \in Nat : a * (1 + b) = a * b + a /\ a * b \in Nat OBVIOUS
<1>5. Longest \in Nat /\ Longest = Count * MaxRepeats + Count
  BY <1>1, <1>2, <1>4, CountIsNat
<1>6. ASSUME NEW r \in 0..MaxRepeats PROVE Count * r + Count <= Longest
  <2>1. Count * r <= Count * MaxRepeats BY <1>1, <1>3, CountIsNat
  <2>2. Count * r \in Nat /\ Count * MaxRepeats \in Nat BY <1>1, <1>4, CountIsNat
  <2> QED BY <1>5, <2>1, <2>2, CountIsNat
<1> QED BY <1>1, <1>5, <1>6

(* Where a slice ends, and what is in it.                                  *)
LEMMA SliceFacts ==
  ASSUME NEW L \in Seq(ListKey), offset \in Nat, limit \in Nat \cup {NoLimit}
  PROVE  /\ Slice(L) \in Seq(ListKey) /\ Len(Slice(L)) <= Len(L)
         /\ \A i \in 1..Len(Slice(L)) :
              Slice(L)[i] = L[offset + i] /\ offset + i \in 1..Len(L)
         /\ limit # NoLimit => Len(Slice(L)) <= limit
         /\ \A n \in 1..Len(L) :
              /\ offset < n /\ (limit = NoLimit \/ n <= offset + limit)
                   => n - offset \in 1..Len(Slice(L))
              /\ limit # NoLimit /\ n > offset + limit => Len(Slice(L)) = limit
<1> DEFINE last == IF limit = NoLimit THEN Len(L) ELSE Smaller(offset + limit, Len(L))
           size == IF last > offset THEN last - offset ELSE 0
<1>1. Len(L) \in Nat /\ \A n \in 1..Len(L) : L[n] \in ListKey OBVIOUS
<1>2. last \in Nat /\ last <= Len(L) /\ (limit # NoLimit => last <= offset + limit)
  BY <1>1 DEF Smaller
<1>3. Slice(L) = [i \in 1..size |-> L[offset + i]] BY DEF Slice
<1>4. /\ \A n \in 1..Len(L) : offset < n /\ (limit = NoLimit \/ n <= offset + limit)
                                => n <= last
      /\ \A n \in 1..Len(L) : limit # NoLimit /\ n > offset + limit => last = offset + limit
  BY <1>1 DEF Smaller
<1> HIDE DEF last
<1>5. size \in Nat /\ \A i \in 1..size : offset + i \in 1..Len(L)
  BY <1>1, <1>2
<1>6. /\ size <= Len(L)
      /\ limit # NoLimit => size <= limit
      /\ \A n \in 1..Len(L) : offset < n /\ n <= last => n - offset \in 1..size
      /\ limit # NoLimit /\ last = offset + limit => size = limit
  BY <1>1, <1>2 DEF NoLimit
<1> HIDE DEF size
<1>7. Slice(L) \in [1..size -> ListKey] BY <1>1, <1>3, <1>5
<1>8. Slice(L) \in Seq(ListKey) /\ Len(Slice(L)) = size BY <1>5, <1>7
<1> QED BY <1>3, <1>4, <1>5, <1>6, <1>8

(* The handlers cut the slice.  Only the sum of the Java handler may not   *)
(* fit a word; then its page is empty.                                     *)
LEMMA PageCut ==
  ASSUME NEW L \in Seq(ListKey), Len(L) <= Longest,
         offset \in 0..MaxWord, limit \in (0..MaxWord) \cup {NoLimit}
  PROVE  /\ RustPage(L) = Slice(L)
         /\ offset + OrElse(MaxWord) <= MaxWord => JavaPage(L) = Slice(L)
         /\ offset + OrElse(MaxWord) > MaxWord => JavaPage(L) = <<>>
<1> DEFINE most == OrElse(MaxWord)
<1>1. /\ MaxWord \in Nat /\ Len(L) \in Nat /\ Len(L) <= MaxWord
      /\ offset \in Nat /\ limit \in Nat \cup {NoLimit}
  BY ListingConstants
<1>2. most \in 0..MaxWord /\ most = IF limit = NoLimit THEN MaxWord ELSE limit
  BY <1>1 DEF OrElse
<1> DEFINE last == IF limit = NoLimit THEN Len(L) ELSE Smaller(offset + limit, Len(L))
           size == IF last > offset THEN last - offset ELSE 0
<1>3. Slice(L) = [i \in 1..size |-> L[offset + i]] BY DEF Slice
<1> HIDE DEF most
<1>4. size = IF offset < Len(L) THEN Smaller(most, Len(L) - offset) ELSE 0
  BY <1>1, <1>2 DEF Smaller
<1>5. RustPage(L) = Slice(L)
  <2> DEFINE S == Skip(L, offset)
  <2>1. RustPage(L) = SubSeq(S, 1, Smaller(most, Len(S)))
    BY DEF RustPage, Take, most
  <2>2. CASE offset < Len(L)
    <3>1. /\ S \in Seq(ListKey) /\ Len(S) = Len(L) - offset
          /\ \A i \in 1..Len(S) : S[i] = L[offset + i]
      BY <1>1, <2>2 DEF Skip
    <3> HIDE DEF S
    <3>2. Smaller(most, Len(S)) = size BY <1>4, <2>2, <3>1
    <3>3. size \in 0..Len(S) BY <1>1, <1>2, <1>4, <2>2, <3>1 DEF Smaller
    <3> HIDE DEF size
    <3>4. SubSeq(S, 1, size) = [i \in 1..size |-> S[i]] BY <3>1, <3>3
    <3> QED BY <1>3, <2>1, <3>1, <3>2, <3>3, <3>4
  <2>3. CASE ~(offset < Len(L))
    <3>1. S = <<>> BY <1>1, <2>3 DEF Skip
    <3>2. size = 0 BY <1>4, <2>3
    <3>3. Smaller(most, 0) = 0 BY <1>2 DEF Smaller
    <3> HIDE DEF S, size
    <3>4. RustPage(L) = SubSeq(<<>>, 1, 0) BY <2>1, <3>1, <3>3
    <3>5. SubSeq(<<>>, 1, 0) = <<>> OBVIOUS
    <3>6. Slice(L) = <<>> BY <1>3, <3>2
    <3> QED BY <3>4, <3>5, <3>6
  <2> QED BY <2>2, <2>3
<1>6. ASSUME offset + most <= MaxWord PROVE JavaPage(L) = Slice(L)
  <2>1. Wrap(offset + most) = offset + most BY <1>1, <1>2, <1>6 DEF Wrap
  <2>2. CASE offset < Len(L)
    <3> DEFINE end == Smaller(offset + most, Len(L))
    <3>1. JavaPage(L) = SubSeq(L, offset + 1, end)
      BY <2>1, <2>2 DEF JavaPage, most
    <3>2. end = offset + size /\ end \in Nat /\ offset <= end /\ end <= Len(L) /\ size \in Nat
      BY <1>1, <1>2, <1>4, <2>2 DEF Smaller
    <3> HIDE DEF end, size
    <3>3. SubSeq(L, offset + 1, end) = [i \in 1..size |-> L[offset + i]]
      BY <1>1, <2>2, <3>2
    <3> QED BY <1>3, <3>1, <3>3
  <2>3. CASE ~(offset < Len(L))
    <3>1. JavaPage(L) = <<>> BY <2>3 DEF JavaPage
    <3>2. size = 0 BY <1>4, <2>3
    <3> HIDE DEF size
    <3> QED BY <1>3, <3>1, <3>2
  <2> QED BY <2>2, <2>3
<1>7. ASSUME offset + most > MaxWord PROVE JavaPage(L) = <<>>
  <2>1. Wrap(offset + most) \in Int /\ Wrap(offset + most) < 0
    BY <1>1, <1>2, <1>7 DEF Wrap
  <2>2. CASE offset < Len(L)
    <3>1. JavaPage(L) = SubSeq(L, offset + 1, Smaller(Wrap(offset + most), Len(L)))
      BY <2>2 DEF JavaPage, most
    <3>2. PICK e \in Int : e = Smaller(Wrap(offset + most), Len(L)) /\ e < 0
      BY <1>1, <2>1 DEF Smaller
    <3>3. SubSeq(L, offset + 1, e) = <<>> BY <1>1, <3>2
    <3> QED BY <3>1, <3>2, <3>3
  <2>3. CASE ~(offset < Len(L))
    BY <2>3 DEF JavaPage
  <2> QED BY <2>2, <2>3
<1> QED BY <1>5, <1>6, <1>7 DEF most

LEMMA ReachedCounts ==
  /\ \A b \in 1..(Buckets + 1) :
       /\ IsFiniteSet(Reached(b)) /\ Cardinality(Reached(b)) \in Nat
       /\ Cardinality(Reached(b)) <= Count
  /\ Cardinality(Reached(Buckets + 1)) = Count
  /\ \A b \in 1..Buckets, S \in SUBSET present :
       present \subseteq ListKey /\ S = InBucket(b) =>
         /\ Cardinality(S) \in Nat
         /\ Cardinality(Reached(b)) + Cardinality(S) <= Cardinality(Reached(b + 1))
<1>1. \A b : /\ IsFiniteSet(Reached(b)) /\ Cardinality(Reached(b)) \in Nat
             /\ Cardinality(Reached(b)) <= Count
  <2> SUFFICES ASSUME NEW b
               PROVE  /\ IsFiniteSet(Reached(b)) /\ Cardinality(Reached(b)) \in Nat
                      /\ Cardinality(Reached(b)) <= Count
    OBVIOUS
  <2>1. Reached(b) \subseteq ListKey BY DEF Reached
  <2>2. IsFiniteSet(Reached(b)) /\ Cardinality(Reached(b)) <= Count
    BY <2>1, CountIsNat, FS_Subset DEF Count
  <2> QED BY <2>2, FS_CardinalityType
<1>2. Cardinality(Reached(Buckets + 1)) = Count BY ReachedGrows DEF Count
<1>3. ASSUME NEW b \in 1..Buckets, NEW S \in SUBSET present,
             present \subseteq ListKey, S = InBucket(b)
      PROVE  /\ Cardinality(S) \in Nat
             /\ Cardinality(Reached(b)) + Cardinality(S) <= Cardinality(Reached(b + 1))
  <2>1. /\ S \subseteq Reached(b + 1) /\ Reached(b) \subseteq Reached(b + 1)
    BY <1>3, ReachedGrows DEF InBucket
  <2>2. S \cap Reached(b) = {}
    <3>1. \A k \in S : BucketOf[k] = b BY <1>3 DEF InBucket
    <3> QED BY <3>1 DEF Reached
  <2>3. IsFiniteSet(S) /\ Cardinality(S) \in Nat
    BY <1>1, <2>1, FS_Subset, FS_CardinalityType
  <2>4. Cardinality(Reached(b) \cup S)
          = Cardinality(Reached(b)) + Cardinality(S) - Cardinality(Reached(b) \cap S)
    BY <1>1, <2>3, FS_Union
  <2>5. Cardinality(Reached(b) \cap S) = 0
    <3>1. Reached(b) \cap S = {} BY <2>2
    <3> QED BY <3>1, FS_EmptySet
  <2>6. Cardinality(Reached(b) \cup S) <= Cardinality(Reached(b + 1))
    <3>1. Reached(b) \cup S \subseteq Reached(b + 1) BY <2>1
    <3> QED BY <1>1, <3>1, FS_Subset
  <2> QED BY <1>1, <2>3, <2>4, <2>5, <2>6
<1> QED BY <1>1, <1>2, <1>3

(* What the scan has found is as long as that, and has a key twice only if *)
(* a bucket was returned again.                                            *)
FoundInv ==
  /\ repeats \in 0..MaxRepeats
  /\ Len(found) <= Count * repeats + Cardinality(Reached(bucket))
  /\ repeats = 0 => Distinct(found) /\ Range(found) \subseteq Reached(bucket)

LEMMA FoundInit == ListInit => FoundInv
<1> SUFFICES ASSUME ListInit PROVE FoundInv OBVIOUS
<1>1. found = <<>> /\ repeats = 0 /\ bucket = 1 BY DEF ListInit
<1>2. Len(found) = 0 /\ Range(found) = {} /\ Distinct(found)
  BY <1>1 DEF Range, Distinct
<1>3. Cardinality(Reached(bucket)) \in Nat BY <1>1, ReachedCounts, ListingConstants
<1>4. Count * repeats = 0 BY <1>1, CountIsNat
<1> QED BY <1>1, <1>2, <1>3, <1>4, ListingConstants DEF FoundInv

LEMMA FoundVisited ==
  ASSUME ScanInv, FoundInv, Visit
  PROVE  FoundInv'
<1>1. /\ bucket' = bucket + 1 /\ bucket \in 1..Buckets /\ bucket' \in 1..(Buckets + 1)
      /\ repeats' = repeats /\ found' = found \o AsSeq(InBucket(bucket))
  BY ReachedGrows DEF Visit, ScanInv
<1>2. present \subseteq ListKey /\ found \in Seq(ListKey) BY DEF ScanInv
<1>3. PICK here : here = InBucket(bucket) OBVIOUS
<1>4. here \subseteq present /\ here \subseteq ListKey BY <1>2, <1>3 DEF InBucket
<1>5. PICK more : more = AsSeq(here) OBVIOUS
<1>6. /\ more \in Seq(ListKey) /\ Range(more) = here /\ Distinct(more)
      /\ Len(more) = Cardinality(here)
  BY <1>4, <1>5, AsSeqLists
<1>7. /\ found' = found \o more /\ found' \in Seq(ListKey)
      /\ Range(found') = Range(found) \cup here
      /\ Len(found') = Len(found) + Cardinality(here)
  BY <1>1, <1>2, <1>3, <1>5, <1>6, RangeOfConcat
<1>8. /\ Cardinality(here) \in Nat /\ Cardinality(Reached(bucket)) \in Nat
      /\ Cardinality(Reached(bucket')) \in Nat
      /\ Cardinality(Reached(bucket)) + Cardinality(here) <= Cardinality(Reached(bucket'))
  BY <1>1, <1>2, <1>3, <1>4, ReachedCounts, ReachedGrows DEF ScanInv
<1>9. Len(found') <= Count * repeats' + Cardinality(Reached(bucket'))
  <2>1. repeats \in Nat /\ Count * repeats \in Nat
    BY CountIsNat, ListingConstants DEF FoundInv
  <2>2. Len(found) \in Nat /\ Len(found) <= Count * repeats + Cardinality(Reached(bucket))
    BY <1>2 DEF FoundInv
  <2> QED BY <1>1, <1>7, <1>8, <2>1, <2>2
<1>10. ASSUME repeats = 0
       PROVE  Distinct(found') /\ Range(found') \subseteq Reached(bucket')
  <2>1. Distinct(found) /\ Range(found) \subseteq Reached(bucket)
    BY <1>10 DEF FoundInv
  <2>2. here \subseteq Reached(bucket') /\ Reached(bucket) \subseteq Reached(bucket')
    BY <1>1, <1>3, <1>4, ReachedGrows DEF InBucket
  <2>3. here \cap Reached(bucket) = {}
    <3>1. \A k \in here : BucketOf[k] = bucket BY <1>3 DEF InBucket
    <3> QED BY <1>1, <3>1 DEF Reached
  <2>4. \A i \in 1..Len(found), j \in 1..Len(more) : found[i] # more[j]
    <3>1. \A i \in 1..Len(found) : found[i] \in Range(found) BY <1>2 DEF Range
    <3>2. \A j \in 1..Len(more) : more[j] \in here BY <1>6 DEF Range
    <3> QED BY <2>1, <2>3, <3>1, <3>2
  <2>5. Distinct(found')
    <3> SUFFICES ASSUME NEW i \in 1..Len(found'), NEW j \in 1..Len(found'),
                        found'[i] = found'[j]
                 PROVE  i = j
      BY DEF Distinct
    <3>1. Len(found) \in Nat /\ Len(more) \in Nat /\ Len(found') = Len(found) + Len(more)
      BY <1>2, <1>6, <1>7
    <3>2. \A n \in 1..Len(found') :
            found'[n] = IF n <= Len(found) THEN found[n] ELSE more[n - Len(found)]
      BY <1>2, <1>6, <1>7
    <3>3. CASE i <= Len(found) /\ j <= Len(found)
      BY <2>1, <3>1, <3>2, <3>3 DEF Distinct
    <3>4. CASE i > Len(found) /\ j > Len(found)
      <4>1. i - Len(found) \in 1..Len(more) /\ j - Len(found) \in 1..Len(more)
        BY <3>1, <3>4
      <4>2. more[i - Len(found)] = more[j - Len(found)] BY <3>1, <3>2, <3>4
      <4>3. i - Len(found) = j - Len(found) BY <1>6, <4>1, <4>2 DEF Distinct
      <4> QED BY <3>1, <4>3
    <3>5. CASE i <= Len(found) /\ j > Len(found)
      <4>1. i \in 1..Len(found) /\ j - Len(found) \in 1..Len(more) BY <3>1, <3>5
      <4> QED BY <2>4, <3>1, <3>2, <3>5, <4>1
    <3>6. CASE i > Len(found) /\ j <= Len(found)
      <4>1. j \in 1..Len(found) /\ i - Len(found) \in 1..Len(more) BY <3>1, <3>6
      <4> QED BY <2>4, <3>1, <3>2, <3>6, <4>1
    <3> QED BY <3>1, <3>3, <3>4, <3>5, <3>6
  <2> QED BY <1>7, <2>1, <2>2, <2>5
<1> QED BY <1>1, <1>9, <1>10 DEF FoundInv

LEMMA FoundNext ==
  ASSUME ScanInv, FoundInv, [ListNext]_listVars
  PROVE  FoundInv'
<1>0. /\ bucket \in 1..(Buckets + 1) /\ found \in Seq(ListKey) /\ present \subseteq ListKey
      /\ Cardinality(Reached(bucket)) \in Nat /\ Cardinality(Reached(bucket)) <= Count
      /\ Len(found) \in Nat /\ repeats \in Nat /\ Count * repeats \in Nat /\ Count \in Nat
  BY ReachedCounts, CountIsNat, ListingConstants DEF ScanInv, FoundInv
<1>1. CASE UNCHANGED <<found, bucket, repeats>>
  BY <1>1 DEF FoundInv, Reached, Distinct
<1>2. CASE StartList
  <2>1. found' = <<>> /\ bucket' = 1 /\ repeats' = repeats BY <1>2 DEF StartList
  <2>2. Len(found') = 0 /\ Range(found') = {} /\ Distinct(found')
    BY <2>1 DEF Range, Distinct
  <2>3. Cardinality(Reached(bucket')) \in Nat BY <2>1, ReachedCounts, ListingConstants
  <2> QED BY <1>0, <2>1, <2>2, <2>3 DEF FoundInv
<1>3. CASE Select
  <2>1. found' = AsSeq(present) /\ bucket' = Buckets + 1 /\ repeats' = repeats
    BY <1>3 DEF Select
  <2>2. /\ Distinct(found') /\ Range(found') = present
        /\ Len(found') = Cardinality(present)
    BY <1>0, <2>1, AsSeqLists
  <2>3. /\ Cardinality(present) <= Count /\ Cardinality(present) \in Nat
    BY <1>0, CountIsNat, FS_Subset, FS_CardinalityType DEF Count
  <2>4. Reached(bucket') = ListKey /\ Cardinality(Reached(bucket')) = Count
    BY <2>1, ReachedGrows, ReachedCounts
  <2> QED BY <1>0, <2>1, <2>2, <2>3, <2>4 DEF FoundInv
<1>4. CASE VisitAgain
  <2>1. /\ found' = found /\ bucket' = bucket - 1 /\ bucket > 1
        /\ repeats' = repeats + 1 /\ repeats < MaxRepeats
    BY <1>4 DEF VisitAgain
  <2>2. Cardinality(Reached(bucket')) \in Nat
    BY <1>0, <2>1, ReachedCounts, ListingConstants
  <2>3. Count * repeats' = Count * repeats + Count BY <1>0, <2>1
  <2>4. Len(found) <= Count * repeats + Cardinality(Reached(bucket)) BY DEF FoundInv
  <2> QED BY <1>0, <2>1, <2>2, <2>3, <2>4, ListingConstants DEF FoundInv
<1> QED BY <1>1, <1>2, <1>3, <1>4, FoundVisited
        DEF ListNext, InsertKey, RemoveKey, Write, Respond, NextPage, listVars, scan

(* Lists, and so pages, are never longer than Longest; a walk goes on only *)
(* after a full page, so its limit is not larger either.                   *)
PagesInv ==
  /\ ScanInv /\ FoundInv /\ ListTypeOK /\ PageIsSlice
  /\ \A i \in 1..Len(pages) : Len(pages[i]) <= Longest
  /\ stage = "answered" => pages # <<>>
  /\ stage # "answered" /\ pages # <<>> => limit \in 0..Longest

LEMMA PagesInit == ListInit => PagesInv
<1> SUFFICES ASSUME ListInit PROVE PagesInv OBVIOUS
<1>1. ScanInv /\ FoundInv BY ScanInit, FoundInit
<1>2. /\ offset \in 0..MaxWord /\ limit \in (0..MaxWord) \cup {NoLimit}
      /\ <<program, backend>> \in Listers
  BY ListingAssumption DEF ListInit, ListingAssumption
<1>3. /\ pages = <<>> /\ pages \in Seq(Seq(ListKey)) /\ Len(pages) = 0
      /\ stage = "idle" /\ at_start \subseteq ListKey /\ writes = 0 /\ repeats = 0
      /\ inserted = FALSE /\ removed = FALSE
  BY <1>1 DEF ListInit, ScanInv
<1>4. ListTypeOK BY <1>1, <1>2, <1>3 DEF ListTypeOK, ScanInv
<1>5. PageIsSlice BY <1>3 DEF PageIsSlice
<1> QED BY <1>1, <1>3, <1>4, <1>5 DEF PagesInv

(* The page of a finished scan.                                            *)
LEMMA PageFacts ==
  ASSUME PagesInv, stage = "scanning", bucket = Buckets + 1
  PROVE  /\ Listing(found) \in Seq(ListKey) /\ Len(Listing(found)) <= Longest
         /\ Range(Listing(found)) = Range(found) \cap Matching
         /\ Page \in Seq(ListKey) /\ Len(Page) <= Longest
         /\ \/ Page = Slice(Listing(found))
            \/ /\ Page = <<>> /\ program = "Java"
               /\ offset + OrElse(MaxWord) > MaxWord
<1> DEFINE L == Listing(found)
<1>1. /\ found \in Seq(ListKey) /\ Len(found) \in Nat
      /\ Len(found) <= Count * repeats + Cardinality(Reached(bucket))
      /\ repeats \in 0..MaxRepeats
  BY DEF PagesInv, ScanInv, FoundInv
<1>2. Len(found) <= Longest
  <2>1. Cardinality(Reached(bucket)) = Count BY ReachedCounts
  <2>2. Count * repeats + Count <= Longest BY <1>1, ListingConstants
  <2>3. Count * repeats \in Nat /\ Count \in Nat /\ Longest \in Nat
    BY <1>1, CountIsNat, ListingConstants
  <2> QED BY <1>1, <2>1, <2>2, <2>3
<1>3. /\ L \in Seq(ListKey) /\ Len(L) <= Len(found)
      /\ Range(L) = Range(found) \cap Matching
  BY <1>1, ListingIsSorted
<1>4. Len(L) \in Nat /\ Len(L) <= Longest BY <1>1, <1>2, <1>3, ListingConstants
<1>5. /\ offset \in 0..MaxWord /\ limit \in (0..MaxWord) \cup {NoLimit}
      /\ offset \in Nat /\ limit \in Nat \cup {NoLimit}
      /\ program \in {"Rust", "Java"}
  <2>1. program \in {"Rust", "Java"}
    BY ListingAssumption DEF PagesInv, ListTypeOK, ListingAssumption
  <2> QED BY <2>1, ListingConstants DEF PagesInv, ListTypeOK
<1>6. \/ Page = RustPage(L)
      \/ program = "Java" /\ Page = JavaPage(L)
  BY <1>5 DEF Page
<1> HIDE DEF L
<1>7. offset + OrElse(MaxWord) \in Int BY <1>5, ListingConstants DEF OrElse
<1>8. \/ Page = Slice(L)
      \/ Page = <<>> /\ program = "Java" /\ offset + OrElse(MaxWord) > MaxWord
  <2>1. /\ RustPage(L) = Slice(L)
        /\ offset + OrElse(MaxWord) <= MaxWord => JavaPage(L) = Slice(L)
        /\ offset + OrElse(MaxWord) > MaxWord => JavaPage(L) = <<>>
    BY <1>3, <1>4, <1>5, PageCut
  <2>2. offset + OrElse(MaxWord) <= MaxWord \/ offset + OrElse(MaxWord) > MaxWord
    BY <1>7, ListingConstants
  <2> QED BY <1>6, <2>1, <2>2
<1>9. Slice(L) \in Seq(ListKey) /\ Len(Slice(L)) <= Len(L)
  BY <1>3, <1>5, SliceFacts
<1>10. Page \in Seq(ListKey) /\ Len(Page) <= Longest
  <2>1. CASE Page = Slice(L)
    <3>1. Len(Slice(L)) \in Nat BY <1>9
    <3> QED BY <1>4, <1>9, <2>1, <3>1, ListingConstants
  <2>2. CASE Page = <<>> BY <2>2, ListingConstants
  <2> QED BY <1>8, <2>1, <2>2
<1> QED BY <1>3, <1>4, <1>8, <1>10 DEF L

(* A page more in a walk.                                                  *)
LEMMA OnePageMore ==
  ASSUME NEW old \in Seq(Seq(ListKey)), NEW page \in Seq(ListKey)
  PROVE  /\ Append(old, page) \in Seq(Seq(ListKey)) /\ Append(old, page) # <<>>
         /\ Len(Append(old, page)) = Len(old) + 1 /\ Len(old) \in Nat
         /\ Append(old, page)[Len(Append(old, page))] = page
         /\ \A i \in 1..Len(old) : Append(old, page)[i] = old[i]
<1>1. /\ Append(old, page) \in Seq(Seq(ListKey))
      /\ Len(Append(old, page)) = Len(old) + 1 /\ Len(old) \in Nat
  OBVIOUS
<1>2. Append(old, page)[Len(old) + 1] = page OBVIOUS
<1>3. \A i \in 1..Len(old) : Append(old, page)[i] = old[i] OBVIOUS
<1>4. Append(old, page) # <<>>
  <2>1. Len(Append(old, page)) # 0 BY <1>1
  <2>2. Len(<<>>) = 0 OBVIOUS
  <2> QED BY <2>1, <2>2, Zenon
<1> QED BY <1>1, <1>2, <1>3, <1>4

LEMMA PagesResponded ==
  ASSUME PagesInv, ScanInv', FoundInv', Respond, UNCHANGED <<program, backend>>
  PROVE  PagesInv'
<1>1. PICK page : page = Page OBVIOUS
<1>2. /\ stage = "scanning" /\ bucket = Buckets + 1
      /\ stage' = "answered" /\ pages' = Append(pages, page)
      /\ UNCHANGED <<present, bucket, found, repeats, offset, limit, writes, seen,
                     at_start, inserted, removed>>
  BY <1>1 DEF Respond
<1>3. /\ page \in Seq(ListKey) /\ Len(page) <= Longest
      /\ \/ page = Slice(Listing(found))
         \/ program = "Java" /\ offset + OrElse(MaxWord) > MaxWord
  BY <1>1, <1>2, PageFacts
<1>4. pages \in Seq(Seq(ListKey)) /\ Len(pages) \in Nat BY DEF PagesInv, ListTypeOK
<1>5. /\ pages' \in Seq(Seq(ListKey)) /\ Len(pages') = Len(pages) + 1
      /\ pages'[Len(pages')] = page /\ pages' # <<>>
      /\ \A i \in 1..Len(pages) : pages'[i] = pages[i]
  BY <1>2, <1>3, <1>4, OnePageMore
<1>6. ListTypeOK' BY <1>2, <1>5 DEF PagesInv, ListTypeOK
<1>7. \A i \in 1..Len(pages') : Len(pages'[i]) <= Longest
  <2> SUFFICES ASSUME NEW i \in 1..Len(pages') PROVE Len(pages'[i]) <= Longest
    OBVIOUS
  <2>1. CASE i = Len(pages') BY <1>3, <1>5, <2>1
  <2>2. CASE i \in 1..Len(pages) BY <1>5, <2>2 DEF PagesInv
  <2> QED BY <1>4, <1>5, <2>1, <2>2
<1>8. PageIsSlice'
  <2>1. Slice(Listing(found))' = Slice(Listing(found))
    BY <1>2 DEF Slice, Listing, Matches, Preceding
  <2>2. OrElse(MaxWord)' = OrElse(MaxWord) BY <1>2 DEF OrElse
  <2>3. /\ offset + OrElse(MaxWord) \in Int /\ MaxWord \in Int
    BY ListingConstants DEF PagesInv, ListTypeOK, OrElse
  <2>4. program = "Java" /\ offset + OrElse(MaxWord) > MaxWord
          => ~(program = "Rust" \/ offset + OrElse(MaxWord) <= MaxWord)
    BY <2>3
  <2>5. program = "Rust" \/ offset + OrElse(MaxWord) <= MaxWord
          => page = Slice(Listing(found))
    BY <1>3, <2>4
  <2> QED BY <1>2, <1>5, <2>1, <2>2, <2>5 DEF PageIsSlice
<1> QED BY <1>2, <1>5, <1>6, <1>7, <1>8 DEF PagesInv

LEMMA PagesNext == PagesInv /\ [ListNext]_listVars => PagesInv'
<1> SUFFICES ASSUME PagesInv, [ListNext]_listVars PROVE PagesInv'
  OBVIOUS
<1>1. ScanInv' /\ FoundInv' BY ScanNext, FoundNext DEF PagesInv
<1>2. UNCHANGED <<program, backend>> BY DEF ListNext, listVars
<1>3. CASE Respond BY <1>1, <1>2, <1>3, PagesResponded
<1>4. CASE ~Respond
  <2>1. pages' = pages /\ limit' = limit
    BY <1>4 DEF ListNext, listVars, InsertKey, RemoveKey, Write, StartList, Select,
                Visit, VisitAgain, NextPage, request
  <2>2. /\ writes' \in Nat /\ inserted' \in BOOLEAN /\ removed' \in BOOLEAN
        /\ at_start' \subseteq ListKey
    <3>1. /\ writes \in Nat /\ inserted \in BOOLEAN /\ removed \in BOOLEAN
          /\ at_start \subseteq ListKey /\ present \subseteq ListKey
      BY DEF PagesInv, ListTypeOK
    <3>2. /\ writes' \in {writes, writes + 1} /\ at_start' \in {at_start, present}
          /\ inserted' \in {inserted, inserted \/ Walking}
          /\ removed' \in {removed, removed \/ Walking}
      <4>1. CASE \E k \in ListKey : InsertKey(k)
        BY <4>1 DEF InsertKey, Write, request
      <4>2. CASE \E k \in ListKey : RemoveKey(k)
        BY <4>2 DEF RemoveKey, Write, request
      <4>3. CASE ~\E k \in ListKey : InsertKey(k) \/ RemoveKey(k)
        <5>1. /\ writes' = writes /\ inserted' = inserted /\ removed' = removed
              /\ at_start' = at_start \/ at_start' = present
          BY <4>3 DEF ListNext, listVars, StartList, Select, Visit, VisitAgain,
                      NextPage, Respond, request
        <5> QED BY <5>1
      <4> QED BY <4>1, <4>2, <4>3
    <3>3. inserted' \in BOOLEAN /\ removed' \in BOOLEAN
      BY <3>1, <3>2
    <3> QED BY <3>1, <3>2, <3>3
  <2>3. /\ stage' \in {"idle", "scanning", "answered"}
        /\ stage' = "answered" => stage = "answered" /\ UNCHANGED <<found, offset>>
    BY <1>4 DEF ListNext, listVars, InsertKey, RemoveKey, Write, StartList, Select,
           Visit, VisitAgain, NextPage, request, scan, PagesInv, ListTypeOK
  <2>4. offset' \in 0..MaxWord
    BY ListingConstants DEF ListNext, listVars, InsertKey, RemoveKey, Write, StartList, Select,
           Visit, VisitAgain, NextPage, Respond, request, PagesInv, ListTypeOK
  <2>5. ListTypeOK'
    <3>1. /\ pages' \in Seq(Seq(ListKey)) /\ limit' \in (0..MaxWord) \cup {NoLimit}
          /\ <<program', backend'>> \in Listers
      BY <1>2, <2>1 DEF PagesInv, ListTypeOK
    <3>2. repeats' \in Nat BY <1>1, ListingConstants DEF FoundInv
    <3> QED BY <1>1, <2>2, <2>3, <2>4, <3>1, <3>2 DEF ListTypeOK, ScanInv
  <2>6. PageIsSlice'
    <3> SUFFICES ASSUME stage' = "answered" PROVE PageIsSlice' BY DEF PageIsSlice
    <3>1. UNCHANGED <<found, offset, limit, pages, program>> /\ stage = "answered"
      BY <1>2, <2>1, <2>3
    <3>2. Slice(Listing(found))' = Slice(Listing(found))
      BY <3>1 DEF Slice, Listing, Matches, Preceding
    <3>3. OrElse(MaxWord)' = OrElse(MaxWord) BY <3>1 DEF OrElse
    <3> QED BY <3>1, <3>2, <3>3 DEF PagesInv, PageIsSlice
  <2>7. stage' # "answered" /\ pages' # <<>> => limit' \in 0..Longest
    <3>1. CASE NextPage
      <4>1. /\ stage = "answered" /\ pages # <<>> /\ limit \in 0..MaxWord
            /\ limit = Len(pages[Len(pages)])
        BY <3>1 DEF NextPage, PagesInv, ListTypeOK
      <4>2. Len(pages) \in 1..Len(pages) BY <4>1 DEF PagesInv, ListTypeOK
      <4>3. limit <= Longest BY <4>1, <4>2 DEF PagesInv
      <4> QED BY <2>1, <4>1, <4>3, ListingConstants
    <3>2. CASE ~NextPage
      <4>1. stage' # "answered" => stage # "answered"
        BY <1>4, <3>2 DEF ListNext, listVars, InsertKey, RemoveKey, Write, StartList,
                          Select, Visit, VisitAgain, scan
      <4> QED BY <2>1, <4>1 DEF PagesInv
    <3> QED BY <3>1, <3>2
  <2> QED BY <1>1, <2>1, <2>3, <2>5, <2>6, <2>7 DEF PagesInv
<1> QED BY <1>3, <1>4

(* An answer is the slice of the sorted, filtered list that the request    *)
(* asked for, whatever the lists and the parameters; a Java answer where   *)
(* offset + limit fits a long (mod.rs 237-241, RecordHandler.java 74-81).  *)
THEOREM PagesAreSlices == ListSpec => []PageIsSlice
<1>1. PagesInv => PageIsSlice BY DEF PagesInv
<1> QED BY <1>1, PagesInit, PagesNext, PTL DEF ListSpec

----------------------------------------------------------------------------
(* A walk.  Sure is what the next list has in any case, Maybe what it may  *)
(* have, and Ahead where the next page begins.  While keys are only        *)
(* inserted, the keys that are still missing count more than Ahead; while  *)
(* keys are only removed, those that have been returned count no more.     *)

Sure == IF stage = "scanning" THEN Always ELSE present
Maybe == IF stage = "scanning" THEN Sometime ELSE present
Ahead == IF stage = "answered" THEN offset + limit ELSE offset
Taken == IF stage = "answered" THEN Len(pages) - 1 ELSE Len(pages)
FromZero == limit # NoLimit /\ offset = Taken * limit
CountUpto(S, k) == Cardinality(Upto(S \cap Matching, k))
Missing == (at_start \cap Matching) \ Returned

GrowInv ==
  ~removed /\ Walking =>
    /\ at_start \subseteq Sure /\ Maybe \subseteq present
    /\ repeats = 0 /\ FromZero =>
         /\ WalkEnded => Missing = {}
         /\ \A k \in Missing : CountUpto(Sure, k) > Ahead

OncePaged ==
  \A i, j \in 1..Len(pages) : \A a \in 1..Len(pages[i]), b \in 1..Len(pages[j]) :
    pages[i][a] = pages[j][b] => i = j /\ a = b

ShrinkInv ==
  ~inserted =>
    /\ present \subseteq Sure
    /\ repeats = 0 =>
         /\ OncePaged
         /\ limit # NoLimit => \A k \in Returned : CountUpto(Maybe, k) <= Ahead

WalkInv == PagesInv /\ GrowInv /\ ShrinkInv

LEMMA CountGrows ==
  ASSUME NEW S, NEW T, S \subseteq T, T \subseteq ListKey, NEW k
  PROVE  /\ CountUpto(S, k) <= CountUpto(T, k)
         /\ CountUpto(S, k) \in Nat /\ CountUpto(T, k) \in Nat
<1> DEFINE A == Upto(S \cap Matching, k)   B == Upto(T \cap Matching, k)
<1>1. A \subseteq B /\ B \subseteq ListKey BY DEF Upto
<1> HIDE DEF A, B
<1>2. IsFiniteSet(B) BY <1>1, CountIsNat, FS_Subset
<1>3. IsFiniteSet(A) /\ Cardinality(A) <= Cardinality(B) BY <1>1, <1>2, FS_Subset
<1>4. Cardinality(A) \in Nat /\ Cardinality(B) \in Nat
  BY <1>2, <1>3, FS_CardinalityType
<1> QED BY <1>3, <1>4 DEF CountUpto, A, B

(* What the store has holds between the two, as far as they are promised.  *)
LEMMA SureAndMaybe ==
  ASSUME ScanInv
  PROVE  Sure \subseteq present /\ present \subseteq Maybe /\ Maybe \subseteq ListKey
<1>1. CASE stage = "scanning"
  <2>1. present \in seen /\ seen \subseteq SUBSET ListKey BY <1>1 DEF ScanInv
  <2>2. Always \subseteq present /\ present \subseteq Sometime /\ Sometime \subseteq ListKey
    BY <2>1 DEF Always, Sometime
  <2> QED BY <1>1, <2>2 DEF Sure, Maybe
<1>2. CASE stage # "scanning" BY <1>2 DEF Sure, Maybe, ScanInv
<1> QED BY <1>1, <1>2

(* The list of a finished scan in which no bucket was returned twice.      *)
LEMMA ListPlaces ==
  ASSUME PagesInv, stage = "scanning", bucket = Buckets + 1, repeats = 0
  PROVE  /\ \A n \in 1..Len(Listing(found)) :
              /\ CountUpto(Range(found), Listing(found)[n]) = n
              /\ \A m \in 1..Len(Listing(found)) :
                   Listing(found)[m] = Listing(found)[n] => m = n
         /\ \A k \in Range(found) \cap Matching :
              \E n \in 1..Len(Listing(found)) : Listing(found)[n] = k
         /\ Sure \subseteq Range(found) /\ Range(found) \subseteq Maybe
         /\ Range(found) \subseteq ListKey
<1>1. found \in Seq(ListKey) /\ Distinct(found)
  BY DEF PagesInv, ScanInv, FoundInv
<1>2. PICK L : L = Listing(found) OBVIOUS
<1>3. L \in Seq(ListKey) /\ Range(L) = Range(found) \cap Matching
  BY <1>1, <1>2, ListingIsSorted
<1>4. \A n \in 1..Len(L) :
        /\ Cardinality(Upto(Range(L), L[n])) = n
        /\ \A m \in 1..Len(L) : m < n => L[m] < L[n]
  BY <1>1, <1>2, PlaceIsCount
<1>5. \A n \in 1..Len(L) : CountUpto(Range(found), L[n]) = n
  BY <1>3, <1>4 DEF CountUpto
<1>6. \A m, n \in 1..Len(L) : L[m] = L[n] => m = n
  BY <1>4, Zenon
<1>7. \A k \in Range(found) \cap Matching : \E n \in 1..Len(L) : L[n] = k
  <2>1. \A k \in Range(L) : \E n \in 1..Len(L) : L[n] = k BY <1>3 DEF Range
  <2> QED BY <1>3, <2>1
<1>8. Sure \subseteq Range(found) /\ Range(found) \subseteq Maybe
  BY ReachedGrows DEF PagesInv, ScanInv, Sure, Maybe, Always
<1>9. Range(found) \subseteq ListKey BY <1>1 DEF Range
<1> QED BY <1>2, <1>5, <1>6, <1>7, <1>8, <1>9

(* A page more is returned.                                                *)
LEMMA ReturnedGrows ==
  ASSUME PagesInv, Respond
  PROVE  \E page \in Seq(ListKey) :
           /\ page = Page /\ Len(page) \in Nat
           /\ Len(pages') = Len(pages) + 1 /\ Len(pages) \in Nat
           /\ pages'[Len(pages')] = page
           /\ \A i \in 1..Len(pages) : pages'[i] = pages[i]
           /\ Returned' = Returned \cup Range(page)
<1>1. PICK page : page = Page OBVIOUS
<1>2. stage = "scanning" /\ bucket = Buckets + 1 /\ pages' = Append(pages, page)
  BY <1>1 DEF Respond
<1>3. page \in Seq(ListKey) BY <1>1, <1>2, PageFacts
<1>4. pages \in Seq(Seq(ListKey)) /\ Len(pages) \in Nat BY DEF PagesInv, ListTypeOK
<1>5. /\ pages' \in Seq(Seq(ListKey)) /\ Len(pages') = Len(pages) + 1
      /\ pages'[Len(pages')] = page
      /\ \A i \in 1..Len(pages) : pages'[i] = pages[i]
  BY <1>2, <1>3, <1>4, OnePageMore
<1>6. Returned' = Returned \cup Range(page)
  <2>1. DOMAIN pages = 1..Len(pages) /\ DOMAIN pages' = 1..Len(pages')
    BY <1>4, <1>5
  <2>2. \A i \in DOMAIN pages' : i \in DOMAIN pages \/ i = Len(pages')
    BY <1>4, <1>5, <2>1
  <2>3. Len(pages') \in DOMAIN pages' /\ DOMAIN pages \subseteq DOMAIN pages'
    BY <1>4, <1>5, <2>1
  <2>4. Returned' = UNION {Range(pages'[i]) : i \in DOMAIN pages'}
    BY DEF Returned, Range
  <2>5. \A x : x \in Returned' <=> \E i \in DOMAIN pages' : x \in Range(pages'[i])
    BY <2>4
  <2>6. \A x : x \in Returned <=> \E i \in DOMAIN pages : x \in Range(pages[i])
    BY DEF Returned
  <2>7. \A x : x \in Returned' <=> x \in Returned \/ x \in Range(page)
    BY <1>5, <2>1, <2>2, <2>3, <2>5, <2>6
  <2> QED BY <2>7
<1> QED BY <1>1, <1>3, <1>4, <1>5, <1>6

LEMMA WalkTypes ==
  ASSUME PagesInv
  PROVE  /\ Ahead \in Int /\ offset \in 0..MaxWord
         /\ offset \in Nat /\ limit \in Nat \cup {NoLimit} /\ Len(pages) \in Nat
         /\ pages \in Seq(Seq(ListKey))
         /\ present \subseteq ListKey /\ at_start \subseteq ListKey
BY ListingConstants DEF PagesInv, ListTypeOK, Ahead, NoLimit

(* Before the first page nothing has been returned.                        *)
LEMMA NothingReturned == pages = <<>> => Returned = {} /\ OncePaged
BY DEF Returned, OncePaged

LEMMA WalkInit == ListInit => WalkInv
<1> SUFFICES ASSUME ListInit PROVE WalkInv OBVIOUS
<1>1. stage = "idle" /\ pages = <<>> BY DEF ListInit
<1>2. GrowInv BY <1>1 DEF GrowInv, Walking
<1>3. ShrinkInv BY <1>1, NothingReturned DEF ShrinkInv, Sure
<1> QED BY <1>2, <1>3, PagesInit DEF WalkInv

(* A step of the scan concerns no promise of the walk.                     *)
LEMMA WalkKept ==
  ASSUME WalkInv, repeats' = 0 => repeats = 0,
         UNCHANGED <<present, stage, offset, limit, pages, seen, at_start,
                     inserted, removed>>
  PROVE  GrowInv' /\ ShrinkInv'
<1>1. Sure' = Sure /\ Maybe' = Maybe BY DEF Sure, Maybe, Always, Sometime
<1>2. Ahead' = Ahead /\ FromZero' = FromZero BY DEF Ahead, FromZero, Taken
<1>3. Returned' = Returned BY DEF Returned
<1>4. /\ Missing' = Missing /\ WalkEnded' = WalkEnded /\ Walking' = Walking
      /\ OncePaged' = OncePaged
  BY <1>3 DEF Missing, WalkEnded, Walking, OncePaged
<1>5. GrowInv' BY <1>1, <1>2, <1>4 DEF WalkInv, GrowInv, CountUpto, Upto
<1>6. ShrinkInv' BY <1>1, <1>2, <1>3, <1>4 DEF WalkInv, ShrinkInv, CountUpto, Upto
<1> QED BY <1>5, <1>6

(* Another task inserts a key.                                             *)
LEMMA WalkInserted ==
  ASSUME WalkInv, PagesInv', NEW new \in ListKey, InsertKey(new)
  PROVE  GrowInv' /\ ShrinkInv'
<1>1. /\ present' = present \cup {new}
      /\ UNCHANGED <<stage, offset, limit, pages, at_start, removed, repeats>>
      /\ stage = "scanning" => seen' = seen \cup {present'}
      /\ inserted' = (inserted \/ Walking)
  BY DEF InsertKey, Write, scan, request
<1>2. Sure \subseteq present /\ present \subseteq ListKey /\ present' \subseteq ListKey
  BY SureAndMaybe DEF WalkInv, PagesInv, ScanInv
<1>3. Sure \subseteq Sure' /\ Sure' \subseteq ListKey
  <2>1. CASE stage = "scanning"
    <3>1. Always' = Always \cap present' BY <1>1, <1>2, <2>1 DEF Always
    <3> QED BY <1>1, <1>2, <2>1, <3>1 DEF Sure
  <2>2. CASE stage # "scanning" BY <1>1, <1>2, <2>2 DEF Sure
  <2> QED BY <2>1, <2>2
<1>4. /\ Ahead' = Ahead /\ FromZero' = FromZero /\ Returned' = Returned
      /\ Walking' = Walking /\ WalkEnded' = WalkEnded /\ Missing' = Missing
      /\ Ahead \in Int
  BY <1>1, WalkTypes
     DEF Ahead, FromZero, Taken, Returned, Walking, WalkEnded, Missing, WalkInv
<1>5. ASSUME ~removed', Walking' PROVE GrowInv'
  <2>1. /\ at_start \subseteq Sure /\ Maybe \subseteq present
        /\ repeats = 0 /\ FromZero =>
             /\ WalkEnded => Missing = {}
             /\ \A k \in Missing : CountUpto(Sure, k) > Ahead
    BY <1>1, <1>4, <1>5 DEF WalkInv, GrowInv
  <2>2. Maybe' \subseteq present'
    <3>1. CASE stage = "scanning"
      <4>1. Sometime' = Sometime \cup present' BY <1>1, <3>1 DEF Sometime
      <4> QED BY <1>1, <2>1, <3>1, <4>1 DEF Maybe
    <3>2. CASE stage # "scanning" BY <1>1, <3>2 DEF Maybe
    <3> QED BY <3>1, <3>2
  <2>3. ASSUME repeats = 0, FromZero, NEW k \in Missing
        PROVE  CountUpto(Sure', k) > Ahead
    <3>1. /\ CountUpto(Sure, k) <= CountUpto(Sure', k)
          /\ CountUpto(Sure, k) \in Nat /\ CountUpto(Sure', k) \in Nat
      BY <1>2, <1>3, CountGrows
    <3>2. CountUpto(Sure, k) > Ahead BY <2>1, <2>3
    <3> QED BY <1>4, <3>1, <3>2
  <2> QED BY <1>1, <1>3, <1>4, <2>1, <2>2, <2>3 DEF GrowInv
<1>6. ASSUME ~inserted' PROVE ShrinkInv'
  <2>1. ~Walking BY <1>1, <1>6
  <2>2. stage # "scanning" /\ pages = <<>> BY <2>1 DEF Walking
  <2>3. Sure' = present' BY <1>1, <2>2 DEF Sure
  <2>4. pages' = <<>> BY <1>1, <2>2
  <2>5. Returned' = {} /\ OncePaged' BY <2>4 DEF Returned, OncePaged
  <2> QED BY <2>3, <2>5 DEF ShrinkInv
<1> QED BY <1>5, <1>6 DEF GrowInv, ShrinkInv

(* Another task removes a key.                                             *)
LEMMA WalkRemoved ==
  ASSUME WalkInv, PagesInv', NEW old \in ListKey, RemoveKey(old)
  PROVE  GrowInv' /\ ShrinkInv'
<1>1. /\ present' = present \ {old}
      /\ UNCHANGED <<stage, offset, limit, pages, at_start, inserted, repeats>>
      /\ stage = "scanning" => seen' = seen \cup {present'}
      /\ removed' = (removed \/ Walking)
  BY DEF RemoveKey, Write, scan, request
<1>2. present \subseteq Maybe /\ Maybe \subseteq ListKey
  BY SureAndMaybe DEF WalkInv, PagesInv
<1>3. Walking' = Walking BY <1>1 DEF Walking
<1>4. GrowInv' BY <1>1, <1>3 DEF GrowInv
<1>5. ASSUME ~inserted' PROVE ShrinkInv'
  <2>1. /\ present \subseteq Sure
        /\ repeats = 0 =>
             /\ OncePaged
             /\ limit # NoLimit => \A k \in Returned : CountUpto(Maybe, k) <= Ahead
    BY <1>1, <1>5 DEF WalkInv, ShrinkInv
  <2>2. present' \subseteq Sure'
    <3>1. CASE stage = "scanning"
      <4>1. Always' = Always \cap present' BY <1>1, <3>1 DEF Always
      <4> QED BY <1>1, <2>1, <3>1, <4>1 DEF Sure
    <3>2. CASE stage # "scanning" BY <1>1, <3>2 DEF Sure
    <3> QED BY <3>1, <3>2
  <2>3. Maybe' \subseteq Maybe
    <3>1. CASE stage = "scanning"
      <4>1. Sometime' = Sometime \cup present' BY <1>1, <3>1 DEF Sometime
      <4> QED BY <1>1, <1>2, <3>1, <4>1 DEF Maybe
    <3>2. CASE stage # "scanning" BY <1>1, <3>2 DEF Maybe
    <3> QED BY <3>1, <3>2
  <2>4. /\ Ahead' = Ahead /\ Returned' = Returned /\ OncePaged' = OncePaged
        /\ Ahead \in Int
    BY <1>1, WalkTypes DEF Ahead, Returned, OncePaged, WalkInv
  <2>5. ASSUME repeats = 0, limit # NoLimit, NEW k \in Returned
        PROVE  CountUpto(Maybe', k) <= Ahead
    <3>1. /\ CountUpto(Maybe', k) <= CountUpto(Maybe, k)
          /\ CountUpto(Maybe', k) \in Nat /\ CountUpto(Maybe, k) \in Nat
      BY <1>2, <2>3, CountGrows
    <3>2. CountUpto(Maybe, k) <= Ahead BY <2>1, <2>5
    <3> QED BY <2>4, <3>1, <3>2
  <2> QED BY <1>1, <2>1, <2>2, <2>4, <2>5 DEF ShrinkInv
<1> QED BY <1>4, <1>5 DEF ShrinkInv

(* A request arrives.                                                      *)
LEMMA WalkStarted ==
  ASSUME WalkInv, StartList
  PROVE  GrowInv' /\ ShrinkInv'
<1>1. /\ stage = "idle" /\ stage' = "scanning" /\ seen' = {present}
      /\ at_start' = IF pages = <<>> THEN present ELSE at_start
      /\ UNCHANGED <<present, offset, limit, pages, repeats, inserted, removed>>
  BY DEF StartList
<1>2. /\ Ahead \in Int /\ Len(pages) \in Nat /\ present \subseteq ListKey
      /\ limit \in Nat \cup {NoLimit}
  BY WalkTypes DEF WalkInv
<1>3. Sure = present /\ Maybe = present /\ Sure' = present /\ Maybe' = present
  BY <1>1, <1>2 DEF Sure, Maybe, Always, Sometime
<1>4. /\ Ahead' = Ahead /\ FromZero' = FromZero /\ Returned' = Returned
      /\ OncePaged' = OncePaged /\ ~WalkEnded' /\ Ahead = offset /\ Taken = Len(pages)
  BY <1>1 DEF Ahead, FromZero, Taken, Returned, OncePaged, WalkEnded
<1>5. ShrinkInv'
  BY <1>1, <1>3, <1>4 DEF WalkInv, ShrinkInv
<1>6. CASE pages # <<>>
  <2>1. Missing' = Missing /\ Walking /\ at_start' = at_start
    BY <1>1, <1>4, <1>6 DEF Missing, Walking
  <2>2. GrowInv' BY <1>1, <1>3, <1>4, <2>1 DEF WalkInv, GrowInv
  <2> QED BY <1>5, <2>2
<1>7. CASE pages = <<>>
  <2>1. at_start' = present BY <1>1, <1>7
  <2>2. ASSUME FromZero' PROVE Ahead' = 0
    <3>1. offset = Taken * limit /\ limit \in Nat BY <1>2, <1>4, <2>2 DEF FromZero
    <3>2. Taken = 0 BY <1>4, <1>7
    <3> QED BY <1>4, <3>1, <3>2
  <2>3. ASSUME NEW k \in Missing' PROVE CountUpto(present, k) > 0
    <3>1. k \in present /\ k \in Matching BY <2>1, <2>3 DEF Missing
    <3>2. k \in Int
      <4>1. ListKey \subseteq Int BY ListingAssumption DEF ListingAssumption
      <4> QED BY <1>2, <3>1, <4>1
    <3>3. k \in Upto(present \cap Matching, k) BY <3>1, <3>2 DEF Upto
    <3>4. IsFiniteSet(Upto(present \cap Matching, k))
      <4>1. Upto(present \cap Matching, k) \subseteq ListKey BY <1>2 DEF Upto
      <4> QED BY <4>1, CountIsNat, FS_Subset
    <3>5. /\ Cardinality(Upto(present \cap Matching, k)) \in Nat
          /\ Cardinality(Upto(present \cap Matching, k)) # 0
      BY <3>3, <3>4, FS_CardinalityType, FS_EmptySet
    <3> QED BY <3>5 DEF CountUpto
  <2>4. ASSUME FromZero', NEW k \in Missing' PROVE CountUpto(Sure', k) > Ahead'
    <3>1. CountUpto(present, k) > 0 BY <2>3, <2>4
    <3> QED BY <1>3, <2>2, <2>4, <3>1
  <2>5. at_start' \subseteq Sure' /\ Maybe' \subseteq present'
    BY <1>1, <1>3, <2>1
  <2>6. GrowInv' BY <1>4, <2>4, <2>5 DEF GrowInv
  <2> QED BY <1>5, <2>6
<1> QED BY <1>6, <1>7

(* The client asks for the page after the last one.                        *)
LEMMA WalkContinued ==
  ASSUME WalkInv, NextPage
  PROVE  GrowInv' /\ ShrinkInv'
<1>1. /\ stage = "answered" /\ stage' = "idle" /\ limit # NoLimit
      /\ offset' = offset + limit
      /\ UNCHANGED <<present, limit, pages, at_start, repeats, inserted, removed>>
  BY DEF NextPage
<1>2. /\ Len(pages) \in Nat /\ offset \in Nat /\ limit \in Nat
  BY <1>1, WalkTypes DEF WalkInv
<1>3. Sure' = Sure /\ Maybe' = Maybe /\ Ahead' = Ahead
  BY <1>1 DEF Sure, Maybe, Ahead
<1>4. /\ Returned' = Returned /\ OncePaged' = OncePaged /\ ~WalkEnded'
      /\ Missing' = Missing /\ Walking' = Walking
  BY <1>1 DEF Returned, OncePaged, WalkEnded, Missing, Walking
<1>5. FromZero' => FromZero
  <2>1. Taken = Len(pages) - 1 /\ Taken' = Len(pages) BY <1>1 DEF Taken
  <2>2. \A a, b \in Nat : (a - 1) * b = a * b - b OBVIOUS
  <2>3. (Len(pages) - 1) * limit = Len(pages) * limit - limit /\ Len(pages) * limit \in Int
    BY <1>2, <2>2
  <2> QED BY <1>1, <1>2, <2>1, <2>3 DEF FromZero
<1>6. GrowInv' BY <1>1, <1>3, <1>4, <1>5 DEF WalkInv, GrowInv
<1>7. ShrinkInv' BY <1>1, <1>3, <1>4 DEF WalkInv, ShrinkInv
<1> QED BY <1>6, <1>7

(* What a page has, and what a page that is the slice lacks.               *)
LEMMA PageHas ==
  ASSUME PagesInv, stage = "scanning", bucket = Buckets + 1
  PROVE  /\ \A a \in 1..Len(Page) : /\ Page[a] = Listing(found)[offset + a]
                                    /\ offset + a \in 1..Len(Listing(found))
         /\ limit # NoLimit => Len(Page) <= limit
         /\ limit # NoLimit /\ offset + limit <= MaxWord =>
              \A n \in 1..Len(Listing(found)) :
                /\ offset < n /\ n <= offset + limit
                     => Listing(found)[n] \in Range(Page)
                /\ n > offset + limit => Len(Page) = limit
<1>1. PICK page : page = Page OBVIOUS
<1>2. PICK L : L = Listing(found) OBVIOUS
<1>3. /\ offset \in Nat /\ limit \in Nat \cup {NoLimit}
  BY WalkTypes
<1>4. /\ page \in Seq(ListKey) /\ L \in Seq(ListKey)
      /\ \/ page = Slice(L)
         \/ page = <<>> /\ offset + OrElse(MaxWord) > MaxWord
  BY <1>1, <1>2, PageFacts
<1>5. /\ Slice(L) \in Seq(ListKey)
      /\ \A i \in 1..Len(Slice(L)) :
           Slice(L)[i] = L[offset + i] /\ offset + i \in 1..Len(L)
      /\ limit # NoLimit => Len(Slice(L)) <= limit
      /\ \A n \in 1..Len(L) :
           /\ offset < n /\ (limit = NoLimit \/ n <= offset + limit)
                => n - offset \in 1..Len(Slice(L))
           /\ limit # NoLimit /\ n > offset + limit => Len(Slice(L)) = limit
  BY <1>3, <1>4, SliceFacts
<1>6. CASE page = Slice(L)
  <2>1. ASSUME NEW n \in 1..Len(L), offset < n, limit # NoLimit, n <= offset + limit
        PROVE  L[n] \in Range(page)
    <3>1. PICK i \in 1..Len(page) : i = n - offset BY <1>5, <1>6, <2>1
    <3>2. page[i] = L[offset + i] BY <1>5, <1>6
    <3>3. offset + i = n BY <1>3, <1>4, <3>1
    <3>4. i \in DOMAIN page BY <1>4
    <3> QED BY <3>2, <3>3, <3>4 DEF Range
  <2> QED BY <1>1, <1>2, <1>5, <1>6, <2>1
<1>7. CASE page = <<>> /\ offset + OrElse(MaxWord) > MaxWord
  <2>1. limit # NoLimit => offset + limit > MaxWord BY <1>7 DEF OrElse
  <2>2. ~(limit # NoLimit /\ offset + limit <= MaxWord)
    BY <1>3, <2>1, ListingConstants
  <2>3. Len(page) = 0 /\ (limit # NoLimit => 0 <= limit) BY <1>3, <1>7
  <2> QED BY <1>1, <2>2, <2>3
<1> QED BY <1>4, <1>6, <1>7

(* While keys are only inserted a page takes the first of the missing keys,*)
(* or as many keys that sort before them as it has room for.               *)
LEMMA RespondedGrow ==
  ASSUME WalkInv, Respond
  PROVE  GrowInv'
<1>1. /\ stage = "scanning" /\ bucket = Buckets + 1 /\ stage' = "answered"
      /\ UNCHANGED <<present, repeats, offset, limit, at_start, removed>>
  BY DEF Respond
<1> SUFFICES ASSUME ~removed' PROVE GrowInv' BY DEF GrowInv
<1>2. /\ at_start \subseteq Sure /\ Maybe \subseteq present
      /\ repeats = 0 /\ FromZero => \A k \in Missing : CountUpto(Sure, k) > Ahead
  BY <1>1 DEF WalkInv, GrowInv, Walking
<1>3. /\ Sure \subseteq present /\ present \subseteq ListKey
      /\ Sure' = present /\ Maybe' = present
  BY <1>1, SureAndMaybe DEF WalkInv, PagesInv, ScanInv, Sure, Maybe
<1>4. PICK page \in Seq(ListKey) :
        /\ page = Page /\ Len(page) \in Nat
        /\ Len(pages') = Len(pages) + 1 /\ Len(pages) \in Nat
        /\ pages'[Len(pages')] = page
        /\ Returned' = Returned \cup Range(page)
  BY ReturnedGrows DEF WalkInv
<1>5. /\ Missing' = Missing \ Range(page) /\ Missing \subseteq at_start \cap Matching
      /\ Taken = Len(pages) /\ Taken' = Taken
      /\ Ahead = offset /\ Ahead' = offset + limit /\ offset \in Nat
      /\ limit \in Nat \cup {NoLimit}
  BY <1>1, <1>4, WalkTypes DEF Missing, Taken, Ahead, WalkInv
<1>6. FromZero' => FromZero BY <1>1, <1>5 DEF FromZero
<1>7. ASSUME repeats = 0, FromZero, NEW k \in Missing'
      PROVE  Len(page) = limit /\ CountUpto(present, k) > offset + limit
  <2>1. PICK L : L = Listing(found) OBVIOUS
  <2>2. /\ \A n \in 1..Len(L) : CountUpto(Range(found), L[n]) = n
        /\ \A j \in Range(found) \cap Matching : \E n \in 1..Len(L) : L[n] = j
        /\ Sure \subseteq Range(found) /\ Range(found) \subseteq Maybe
        /\ Range(found) \subseteq ListKey
    BY <1>1, <1>7, <2>1, ListPlaces DEF WalkInv
  <2>3. k \in Missing /\ k \notin Range(page) BY <1>5, <1>7
  <2>4. k \in Range(found) \cap Matching BY <1>2, <1>5, <2>2, <2>3
  <2>5. PICK n \in 1..Len(L) : L[n] = k BY <2>2, <2>4
  <2>6. CountUpto(Sure, k) <= n /\ CountUpto(Sure, k) \in Nat /\ n \in Nat
    <3>1. /\ CountUpto(Sure, k) <= CountUpto(Range(found), k)
          /\ CountUpto(Sure, k) \in Nat /\ CountUpto(Range(found), k) \in Nat
      BY <2>2, CountGrows
    <3> QED BY <2>2, <2>5, <3>1
  <2>7. CountUpto(Sure, k) > offset BY <1>2, <1>5, <1>7, <2>3
  <2>8. offset < n BY <1>5, <2>6, <2>7
  <2>9. limit \in Nat /\ limit # NoLimit /\ offset + limit <= MaxWord
    <3>1. limit # NoLimit /\ limit \in Nat /\ offset = Taken * limit
      BY <1>5, <1>7 DEF FromZero
    <3>2. CASE pages = <<>>
      <4>1. Taken = 0 BY <1>5, <3>2
      <4>2. offset = 0 BY <3>1, <4>1
      <4>3. limit <= MaxWord
        BY <3>1, ListingConstants DEF WalkInv, PagesInv, ListTypeOK
      <4> QED BY <3>1, <4>2, <4>3
    <3>3. CASE pages # <<>>
      <4>1. limit <= Longest BY <1>1, <3>3, ListingConstants DEF WalkInv, PagesInv
      <4>2. n <= Longest
        <5>1. Len(L) <= Longest /\ L \in Seq(ListKey) BY <1>1, <2>1, PageFacts DEF WalkInv
        <5>2. Len(L) \in Nat BY <5>1
        <5> QED BY <5>1, <5>2, ListingConstants
      <4> QED BY <1>5, <2>6, <2>8, <3>1, <4>1, <4>2, ListingConstants
    <3> QED BY <3>1, <3>2, <3>3
  <2>10. /\ n <= offset + limit => L[n] \in Range(page)
         /\ n > offset + limit => Len(page) = limit
    BY <1>1, <1>4, <2>1, <2>8, <2>9, PageHas DEF WalkInv
  <2>11. n > offset + limit BY <1>5, <2>3, <2>5, <2>6, <2>9, <2>10
  <2>12. n <= CountUpto(present, k) /\ CountUpto(present, k) \in Nat
    <3>1. Range(found) \subseteq present BY <1>2, <2>2
    <3>2. /\ CountUpto(Range(found), k) <= CountUpto(present, k)
          /\ CountUpto(present, k) \in Nat
      BY <1>3, <3>1, CountGrows
    <3> QED BY <2>2, <2>5, <3>2
  <2> QED BY <1>5, <2>6, <2>9, <2>10, <2>11, <2>12
<1>8. ASSUME repeats = 0, FromZero', WalkEnded' PROVE Missing' = {}
  <2> SUFFICES ASSUME NEW k \in Missing' PROVE FALSE OBVIOUS
  <2>1. Len(page) = limit BY <1>6, <1>7, <1>8
  <2>2. limit \in Nat /\ Len(page) < limit
    BY <1>1, <1>4, <1>5, <1>8 DEF WalkEnded
  <2> QED BY <2>1, <2>2
<1>9. ASSUME repeats = 0, FromZero', NEW k \in Missing'
      PROVE  CountUpto(Sure', k) > Ahead'
  BY <1>3, <1>5, <1>6, <1>7, <1>9
<1>10. at_start' \subseteq Sure' /\ Maybe' \subseteq present'
  BY <1>1, <1>2, <1>3
<1> QED BY <1>1, <1>8, <1>9, <1>10 DEF GrowInv

(* While keys are only removed a page begins behind all that was returned. *)
LEMMA RespondedShrink ==
  ASSUME WalkInv, Respond
  PROVE  ShrinkInv'
<1>1. /\ stage = "scanning" /\ bucket = Buckets + 1 /\ stage' = "answered"
      /\ UNCHANGED <<present, repeats, offset, limit, inserted>>
  BY DEF Respond
<1> SUFFICES ASSUME ~inserted' PROVE ShrinkInv' BY DEF ShrinkInv
<1>2. /\ present \subseteq Sure
      /\ repeats = 0 =>
           /\ OncePaged
           /\ limit # NoLimit => \A k \in Returned : CountUpto(Maybe, k) <= offset
  BY <1>1 DEF WalkInv, ShrinkInv, Ahead
<1>3. present \subseteq Maybe /\ Maybe \subseteq ListKey
  BY SureAndMaybe DEF WalkInv, PagesInv
<1>4. Sure' = present /\ Maybe' = present /\ Ahead' = offset + limit
  BY <1>1 DEF Sure, Maybe, Ahead
<1>5. PICK page \in Seq(ListKey) :
        /\ page = Page /\ Len(page) \in Nat
        /\ Len(pages') = Len(pages) + 1 /\ Len(pages) \in Nat
        /\ pages'[Len(pages')] = page
        /\ \A i \in 1..Len(pages) : pages'[i] = pages[i]
        /\ Returned' = Returned \cup Range(page)
  BY ReturnedGrows DEF WalkInv
<1>6. offset \in Nat /\ limit \in Nat \cup {NoLimit} BY WalkTypes DEF WalkInv
<1> SUFFICES ASSUME repeats = 0
             PROVE  /\ OncePaged'
                    /\ limit # NoLimit =>
                         \A k \in Returned' : CountUpto(present, k) <= offset + limit
  BY <1>1, <1>4 DEF ShrinkInv
<1>7. PICK L : L = Listing(found) OBVIOUS
<1>8. /\ \A n \in 1..Len(L) : CountUpto(Range(found), L[n]) = n
      /\ \A m, n \in 1..Len(L) : L[m] = L[n] => m = n
      /\ Sure \subseteq Range(found) /\ Range(found) \subseteq Maybe
      /\ Range(found) \subseteq ListKey
  BY <1>1, <1>7, ListPlaces DEF WalkInv
<1>9. /\ \A a \in 1..Len(page) : page[a] = L[offset + a] /\ offset + a \in 1..Len(L)
      /\ limit # NoLimit => Len(page) <= limit
  BY <1>1, <1>5, <1>7, PageHas DEF WalkInv
<1>10. ASSUME NEW a \in 1..Len(page)
       PROVE  CountUpto(Range(found), page[a]) = offset + a
  BY <1>8, <1>9
<1>11. ASSUME NEW a \in 1..Len(page), page[a] \in Returned PROVE FALSE
  <2>1. pages # <<>> BY <1>11, NothingReturned
  <2>2. limit # NoLimit
    BY <1>1, <2>1, ListingConstants DEF WalkInv, PagesInv, NoLimit
  <2>3. CountUpto(Maybe, page[a]) <= offset BY <1>2, <1>11, <2>2
  <2>4. /\ CountUpto(Range(found), page[a]) <= CountUpto(Maybe, page[a])
        /\ CountUpto(Maybe, page[a]) \in Nat
    BY <1>3, <1>8, CountGrows
  <2> QED BY <1>6, <1>10, <2>3, <2>4
<1>12. \A i \in 1..Len(pages) : \A a \in 1..Len(pages[i]) : pages[i][a] \in Returned
  <2>1. pages \in Seq(Seq(ListKey)) BY WalkTypes DEF WalkInv
  <2>2. \A i \in 1..Len(pages) : pages[i] \in Seq(ListKey) BY <2>1
  <2>3. \A i \in 1..Len(pages) : \A a \in 1..Len(pages[i]) : pages[i][a] \in Range(pages[i])
    BY <2>2 DEF Range
  <2>4. \A i \in 1..Len(pages) : Range(pages[i]) \subseteq Returned
    <3>1. DOMAIN pages = 1..Len(pages) BY <2>1
    <3> QED BY <3>1 DEF Returned
  <2> QED BY <2>3, <2>4
<1>13. OncePaged'
  <2> SUFFICES ASSUME NEW i \in 1..Len(pages'), NEW j \in 1..Len(pages'),
                      NEW a \in 1..Len(pages'[i]), NEW b \in 1..Len(pages'[j]),
                      pages'[i][a] = pages'[j][b]
               PROVE  i = j /\ a = b
    BY DEF OncePaged
  <2>1. /\ i \in 1..Len(pages) \/ i = Len(pages')
        /\ j \in 1..Len(pages) \/ j = Len(pages')
    BY <1>5
  <2>2. CASE i \in 1..Len(pages) /\ j \in 1..Len(pages)
    <3>1. pages'[i] = pages[i] /\ pages'[j] = pages[j] BY <1>5, <2>2
    <3>2. /\ a \in 1..Len(pages[i]) /\ b \in 1..Len(pages[j])
          /\ pages[i][a] = pages[j][b]
      BY <3>1
    <3> QED BY <1>2, <2>2, <3>2 DEF OncePaged
  <2>3. CASE i = Len(pages') /\ j = Len(pages')
    <3>1. a \in 1..Len(page) /\ b \in 1..Len(page) /\ page[a] = page[b]
      BY <1>5, <2>3
    <3>2. offset + a = offset + b BY <1>8, <1>9, <3>1
    <3> QED BY <1>5, <1>6, <2>3, <3>1, <3>2
  <2>4. CASE i \in 1..Len(pages) /\ j = Len(pages')
    <3>1. pages[i][a] \in Returned BY <1>5, <1>12, <2>4
    <3>2. b \in 1..Len(page) /\ page[b] = pages[i][a] BY <1>5, <2>4
    <3> QED BY <1>11, <3>1, <3>2
  <2>5. CASE i = Len(pages') /\ j \in 1..Len(pages)
    <3>1. pages[j][b] \in Returned BY <1>5, <1>12, <2>5
    <3>2. a \in 1..Len(page) /\ page[a] = pages[j][b] BY <1>5, <2>5
    <3> QED BY <1>11, <3>1, <3>2
  <2> QED BY <2>1, <2>2, <2>3, <2>4, <2>5
<1>14. ASSUME limit # NoLimit, NEW k \in Returned'
       PROVE  CountUpto(present, k) <= offset + limit
  <2>1. limit \in Nat BY <1>6, <1>14
  <2>2. CASE k \in Returned
    <3>1. CountUpto(Maybe, k) <= offset BY <1>2, <1>14, <2>2
    <3>2. /\ CountUpto(present, k) <= CountUpto(Maybe, k)
          /\ CountUpto(present, k) \in Nat /\ CountUpto(Maybe, k) \in Nat
      BY <1>3, CountGrows
    <3> QED BY <1>6, <2>1, <3>1, <3>2
  <2>3. CASE k \in Range(page)
    <3>1. PICK a \in 1..Len(page) : page[a] = k BY <1>5, <2>3 DEF Range
    <3>2. CountUpto(Range(found), k) = offset + a BY <1>10, <3>1
    <3>3. present \subseteq Range(found) BY <1>2, <1>8
    <3>4. /\ CountUpto(present, k) <= CountUpto(Range(found), k)
          /\ CountUpto(present, k) \in Nat
      BY <1>8, <3>3, CountGrows
    <3>5. a <= limit BY <1>5, <1>9, <1>14, <2>1
    <3> QED BY <1>6, <2>1, <3>2, <3>4, <3>5
  <2> QED BY <1>5, <1>14, <2>2, <2>3
<1> QED BY <1>13, <1>14

LEMMA WalkNext == WalkInv /\ [ListNext]_listVars => WalkInv'
<1> SUFFICES ASSUME WalkInv, [ListNext]_listVars PROVE WalkInv'
  OBVIOUS
<1>1. PagesInv' BY PagesNext DEF WalkInv
<1>2. ASSUME NEW k \in ListKey, InsertKey(k) PROVE GrowInv' /\ ShrinkInv'
  BY <1>1, <1>2, WalkInserted
<1>3. ASSUME NEW k \in ListKey, RemoveKey(k) PROVE GrowInv' /\ ShrinkInv'
  BY <1>1, <1>3, WalkRemoved
<1>4. ASSUME StartList PROVE GrowInv' /\ ShrinkInv'
  BY <1>4, WalkStarted
<1>5. ASSUME Select \/ Visit PROVE GrowInv' /\ ShrinkInv'
  BY <1>5, WalkKept DEF Select, Visit, request
<1>6. ASSUME VisitAgain PROVE GrowInv' /\ ShrinkInv'
  <2>1. repeats' = 0 => repeats = 0
    BY <1>6 DEF VisitAgain, WalkInv, PagesInv, FoundInv
  <2> QED BY <1>6, <2>1, WalkKept DEF VisitAgain, request
<1>7. ASSUME Respond PROVE GrowInv' /\ ShrinkInv'
  BY <1>7, RespondedGrow, RespondedShrink
<1>8. ASSUME NextPage PROVE GrowInv' /\ ShrinkInv'
  BY <1>8, WalkContinued
<1>9. ASSUME UNCHANGED listVars PROVE GrowInv' /\ ShrinkInv'
  BY <1>9, WalkKept DEF listVars
<1>10. GrowInv' /\ ShrinkInv'
  BY <1>2, <1>3, <1>4, <1>5, <1>6, <1>7, <1>8, <1>9 DEF ListNext
<1> QED BY <1>1, <1>10 DEF WalkInv

(* A client that walks the pages from the first one gets every matching    *)
(* key that was in the store when it began, as long as no key is removed   *)
(* meanwhile, and gets no key twice as long as none is inserted and no     *)
(* bucket is returned again, whatever the keys, the limit and the order of *)
(* writes, scans and requests (mod.rs 223-244, RecordHandler.java 56-87).  *)
THEOREM WalksAreConsistent == ListSpec => []WalkConsistent
<1>1. WalkInv => WalkConsistent
  <2> SUFFICES ASSUME WalkInv PROVE WalkConsistent OBVIOUS
  <2>1. WalkMissesNothing
    <3> SUFFICES ASSUME WalkEnded, FromStart, ~removed, repeats = 0
                 PROVE  at_start \cap Matching \subseteq Returned
      BY DEF WalkMissesNothing
    <3>1. stage = "answered" /\ limit # NoLimit BY DEF WalkEnded
    <3>2. Walking BY <3>1 DEF Walking, WalkInv, PagesInv
    <3>3. FromZero BY <3>1 DEF FromZero, FromStart, Taken
    <3>4. Missing = {} BY <3>2, <3>3 DEF WalkInv, GrowInv
    <3> QED BY <3>4 DEF Missing
  <2>2. WalkRepeatsNothing
    <3> SUFFICES ASSUME ~inserted, repeats = 0,
                        NEW i \in DOMAIN pages, NEW j \in DOMAIN pages,
                        NEW a \in DOMAIN pages[i], NEW b \in DOMAIN pages[j],
                        pages[i][a] = pages[j][b]
                 PROVE  i = j /\ a = b
      BY DEF WalkRepeatsNothing
    <3>1. OncePaged BY DEF WalkInv, ShrinkInv
    <3>2. pages \in Seq(Seq(ListKey)) BY WalkTypes DEF WalkInv
    <3>3. /\ i \in 1..Len(pages) /\ j \in 1..Len(pages)
          /\ pages[i] \in Seq(ListKey) /\ pages[j] \in Seq(ListKey)
      BY <3>2
    <3>4. a \in 1..Len(pages[i]) /\ b \in 1..Len(pages[j]) BY <3>3
    <3> QED BY <3>1, <3>3, <3>4 DEF OncePaged
  <2> QED BY <2>1, <2>2 DEF WalkConsistent
<1> QED BY <1>1, WalkInit, WalkNext, PTL DEF ListSpec

----------------------------------------------------------------------------
(* What the two parts of a run keep beside each other.                     *)

LEMMA RunIsBoth == StoresSpec => Spec /\ ListSpec
<1>1. StoresInit => Init /\ ListInit BY DEF StoresInit
<1>2. [StoresNext]_<<part, vars, listVars>> => [Next]_vars /\ [ListNext]_listVars
  BY DEF StoresNext
<1> QED BY <1>1, <1>2, PTL DEF StoresSpec, Spec, ListSpec

(* Neither the stores (cache.rs) nor a client that walks the pages of a    *)
(* list (list_records) ever come to hold anything but rows, stages,        *)
(* answers, keys and pages of the kinds they are declared for.             *)
THEOREM RunTypeCorrect == StoresSpec => []StoresTypes
<1>1. TypeInv /\ PagesInv => StoresTypes BY DEF TypeInv, PagesInv, StoresTypes
<1>2. Spec => []TypeInv BY TypeCorrect
<1>3. ListSpec => []PagesInv BY PagesInit, PagesNext, PTL DEF ListSpec
<1> QED BY <1>1, <1>2, <1>3, RunIsBoth, PTL
=============================================================================
