---------------------------- MODULE CreateSchemas ----------------------------
(***************************************************************************)
(* The create-schemas command of both programs, run by several operators   *)
(* or init containers at once and again after a failure.  The stores are   *)
(* taken in their order and each gets its table: by CREATE TABLE with      *)
(* ORA-00955 forgiven, by CREATE TABLE IF NOT EXISTS, which looks before   *)
(* it creates, or by a Flyway migration, which happens once for each       *)
(* database.  The first error ends the command and leaves what it made.    *)
(***************************************************************************)
EXTENDS Naturals, Sequences

CONSTANTS
  Runner,     \* running instances of the command
  Configs,    \* each a sequence of stores, [kind, database, table]
  Database,
  AutoCommit, \* the databases that commit each DDL statement: Oracle
  MaxFailures \* bound: calls to a database that fail

Kinds == {"oracle", "postgres", "flyway", "other"}

ASSUME CreateAssumption ==
  /\ \A c \in Configs :
       /\ Len(c) \in Nat
       /\ \A i \in 1..Len(c) : c[i].kind \in Kinds /\ c[i].database \in Database
  /\ AutoCommit \subseteq Database
  /\ MaxFailures \in Nat

VARIABLES
  config,   \* the configuration all of them are given
  tables,   \* <<database, table>>: what exists
  history,  \* flyway_schema_history of each database: none, begun, V1 applied or failed
  at,       \* the store each command is at
  doing,
  failures

createVars == <<config, tables, history, at, doing, failures>>

TableOf(s) == <<s.database, s.table>>
StoreSet == {config[i] : i \in 1..Len(config)}
Wanted == {s \in StoreSet : s.kind # "other"}

CreateTypeOK ==
  /\ config \in Configs
  /\ tables \subseteq {TableOf(s) : s \in Wanted}
  /\ history \in [Database -> {"none", "begun", "applied", "failed"}]
  /\ at \in [Runner -> 1..Len(config) + 1]
  /\ doing \in [Runner -> {"idle", "connect", "execute", "absent", "done", "error"}]
  /\ failures \in 0..MaxFailures

CreateInit ==
  /\ config \in Configs
  /\ tables = {} /\ history = [db \in Database |-> "none"]
  /\ at = [r \in Runner |-> 1]
  /\ doing = [r \in Runner |-> "idle"]
  /\ failures = 0

Here(r) == config[at[r]]
More(r) == at[r] <= Len(config)
Become(r, stage) == doing' = [doing EXCEPT ![r] = stage]

(* The next store of the loop.                                             *)
Continue(r) ==
  /\ at' = [at EXCEPT ![r] = @ + 1]
  /\ Become(r, "connect")

Run(r) ==
  /\ doing[r] \in {"idle", "error"}
  /\ at' = [at EXCEPT ![r] = 1]
  /\ Become(r, "connect")
  /\ UNCHANGED <<config, tables, history, failures>>

Skip(r) ==
  /\ doing[r] = "connect" /\ More(r) /\ Here(r).kind = "other"
  /\ Continue(r)
  /\ UNCHANGED <<tables, history, failures>>

Connect(r) ==
  /\ doing[r] = "connect" /\ More(r) /\ Here(r).kind # "other"
  /\ Become(r, "execute")
  /\ UNCHANGED <<tables, history, at, failures>>

(* The table is made or ORA-00955 says that it exists.                     *)
CreateOracle(r) ==
  /\ doing[r] = "execute" /\ Here(r).kind = "oracle"
  /\ tables' = tables \cup {TableOf(Here(r))}
  /\ Continue(r)
  /\ UNCHANGED <<history, failures>>

LookPostgresOnly(r) ==   \* mutant: the table is looked for and not created
  /\ doing[r] = "execute" /\ Here(r).kind = "postgres"
  /\ Continue(r)
  /\ UNCHANGED <<tables, history, failures>>

(* IF NOT EXISTS looks first; two sessions may both find nothing.          *)
LookPostgres(r) ==
  /\ doing[r] = "execute" /\ Here(r).kind = "postgres"
  /\ IF TableOf(Here(r)) \in tables THEN Continue(r)
                                    ELSE Become(r, "absent") /\ UNCHANGED at
  /\ UNCHANGED <<tables, history, failures>>

(* The loser of that race gets a unique violation from the catalogue.      *)
CreatePostgres(r) ==
  /\ doing[r] = "absent"
  /\ tables' = tables \cup {TableOf(Here(r))}
  /\ IF TableOf(Here(r)) \in tables THEN Become(r, "error") /\ UNCHANGED at
                                    ELSE Continue(r)
  /\ UNCHANGED <<history, failures>>

(* Flyway locks its history, and makes one only in a schema without        *)
(* tables: baselineOnMigrate is not set.                                   *)
Open(db) ==
  history[db] = "begun" \/ (history[db] = "none" /\ \A t \in tables : t[1] # db)

(* V1 is applied where the history has no V1; it does not look for a table *)
(* that is there.  A failed V1 is refused until somebody repairs the       *)
(* history; where a transaction takes V1 back, it is not recorded.         *)
Migrate(r) ==
  /\ doing[r] = "execute" /\ Here(r).kind = "flyway"
  /\ LET db == Here(r).database
         new == TableOf(Here(r))
         Record(h) == history' = [history EXCEPT ![db] = h] IN
     \/ /\ history[db] = "applied"
        /\ Continue(r) /\ UNCHANGED <<tables, history>>
     \/ /\ Open(db) /\ new \notin tables
        /\ Continue(r)
        /\ tables' = tables \cup {new} /\ Record("applied")
     \/ /\ Open(db) /\ new \in tables
        /\ Become(r, "error") /\ UNCHANGED <<tables, at>>
        /\ Record(IF db \in AutoCommit THEN "failed" ELSE "begun")
     \/ /\ history[db] # "applied" /\ ~Open(db)
        /\ Become(r, "error") /\ UNCHANGED <<tables, history, at>>
  /\ UNCHANGED failures

(* What a migration that fails may leave: the history without V1; where no *)
(* transaction takes V1 back, V1 recorded as failed, and the table with V1 *)
(* recorded or not; elsewhere V1 and its table, if only the answer of the  *)
(* commit is lost.                                                         *)
CutShort(s) ==
  LET db == s.database
      Record(h) == history' = [history EXCEPT ![db] = h] IN
  /\ Open(db)
  /\ \/ Record("begun") /\ UNCHANGED tables
     \/ db \in AutoCommit /\ Record("failed") /\ UNCHANGED tables
     \/ /\ TableOf(s) \notin tables /\ tables' = tables \cup {TableOf(s)}
        /\ Record("applied") \/ (db \in AutoCommit /\ (Record("begun") \/ Record("failed")))

(* The connection or the statement fails for the caller (main.rs 150, 187, *)
(* Cli.java 104); a statement that has reached the database may have made  *)
(* its table all the same.                                                 *)
Fault(r) ==
  /\ failures < MaxFailures /\ failures' = failures + 1
  /\ doing[r] \in {"connect", "execute", "absent"} /\ More(r)
  /\ Here(r).kind # "other"
  /\ \/ UNCHANGED <<tables, history>>
     \/ /\ doing[r] = "absent" \/ (doing[r] = "execute" /\ Here(r).kind = "oracle")
        /\ tables' = tables \cup {TableOf(Here(r))} /\ UNCHANGED history
     \/ doing[r] = "execute" /\ Here(r).kind = "flyway" /\ CutShort(Here(r))
  /\ Become(r, "error")
  /\ UNCHANGED at

Finish(r) ==
  /\ doing[r] = "connect" /\ ~More(r)
  /\ Become(r, "done")
  /\ UNCHANGED <<tables, history, at, failures>>

DatabaseReplied(r) ==
  /\ \/ Connect(r) \/ CreateOracle(r)
     \/ LookPostgres(r) \/ CreatePostgres(r) \/ Migrate(r) \/ Fault(r)
  /\ UNCHANGED config

LoopStep(r) == (Skip(r) \/ Finish(r)) /\ UNCHANGED config

CreateStep(r) == DatabaseReplied(r) \/ LoopStep(r)

CreateNext == \E r \in Runner : Run(r) \/ CreateStep(r)

CreateSpec == CreateInit /\ [][CreateNext]_createVars

----------------------------------------------------------------------------
(* Properties.                                                             *)

(* A command that reports success leaves a table for each store, whatever  *)
(* the other commands did meanwhile and wherever they failed.  The history *)
(* of a database knows no tables: of the Flyway stores that share one, one *)
(* has its table (Cli.java 113).                                           *)
Migrated(s) == \E s2 \in Wanted :
  s.kind = "flyway" /\ s2.kind = "flyway" /\ s2.database = s.database /\ TableOf(s2) \in tables
SuccessMeansTables ==
  \A r \in Runner :
    doing[r] = "done" => \A s \in Wanted : TableOf(s) \in tables \/ Migrated(s)

(* Started again after each failure, and with databases that answer or     *)
(* refuse, the command succeeds: what a failed or a concurrent run leaves  *)
(* behind, a table whose making it was told had failed included, is no     *)
(* obstacle to the next, but for a migration recorded as failed.           *)
RerunSucceeds ==
  (\A r \in Runner : WF_createVars(DatabaseReplied(r)) /\ WF_createVars(Run(r)))
    => \A r \in Runner :
         doing[r] # "idle" ~> doing[r] = "done" \/ \E db \in Database : history[db] = "failed"
=============================================================================
