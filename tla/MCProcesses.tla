----------------------------- MODULE MCProcesses -----------------------------
(* The parts of the two programs that share no state with the consumers,   *)
(* explored by one run: each behaviour exercises one part and leaves the   *)
(* others in their initial states.                                         *)
EXTENDS StartupChecks, Service, JavaStartup, HealthServer, SchemaService,
        CreateSchemas, TLC

CONSTANTS
  registry, broker, redis, postgres, peer, other, pg, ora, cache, users, e1, e2, e3

VARIABLE part

----------------------------------------------------------------------------
(* MyState::new: Redis is checked and connected, the registry is checked   *)
(* and preloads two schemas, Postgres only connects.                       *)
RustServices == {registry, broker, redis, postgres}
RedisPostgresPreload == <<redis, postgres, registry, registry>>

(* The Java command line: one URL to call before, two to call after.       *)
JavaServices == RustServices \cup {peer}
OneUrl == <<peer>>
TwoUrls == <<peer, registry>>

Probes == e1 :> "/alive" @@ e2 :> "/ready" @@ e3 :> "/startup"

(* create-schemas: the stores of the Rust program, of the Java one with    *)
(* two Postgres databases or an Oracle one, and two tables in one database.*)
Of(kind, database, table) == [kind |-> kind, database |-> database, table |-> table]
RustStores ==
  <<Of("other", pg, cache), Of("postgres", pg, cache), Of("oracle", ora, cache),
    Of("postgres", pg, users), Of("oracle", ora, users)>>
JavaStores == <<Of("flyway", pg, cache), Of("other", ora, users), Of("flyway", ora, cache)>>
SharedDatabase == <<Of("flyway", pg, cache), Of("flyway", pg, users)>>
AllConfigs == {RustStores, JavaStores, SharedDatabase}

----------------------------------------------------------------------------
Parts == {"startup", "service", "java", "health", "schemas", "create"}

(* Bound: at most two services are down when the Java program starts.      *)
FewDown == Cardinality(Dependency \ available) <= 2

Init ==
  /\ part \in Parts
  /\ IF part = "startup" THEN StartupInit ELSE StartupInit /\ up = {}
  /\ IF part = "java" THEN JavaInit /\ FewDown ELSE JavaInit /\ available = {} /\ command = "start"
  /\ IF part = "health" THEN HealthInit
     ELSE HealthInit /\ store = [s \in Checked |-> "up"]
  /\ IF part = "create" THEN CreateInit ELSE CreateInit /\ config = RustStores
  /\ ServiceInit /\ SchemaInit

vars == <<part, startupVars, serviceVars, javaVars, healthVars, schemaVars, createVars>>

(* A step of part p, which leaves the variables of the others alone.       *)
Startup(A) == part = "startup" /\ A
  /\ UNCHANGED <<part, serviceVars, javaVars, healthVars, schemaVars, createVars>>
Serves(A) == part = "service" /\ A
  /\ UNCHANGED <<part, startupVars, javaVars, healthVars, schemaVars, createVars>>
Java(A) == part = "java" /\ A
  /\ UNCHANGED <<part, startupVars, serviceVars, healthVars, schemaVars, createVars>>
Health(A) == part = "health" /\ A
  /\ UNCHANGED <<part, startupVars, serviceVars, javaVars, schemaVars, createVars>>
Schemas(A) == part = "schemas" /\ A
  /\ UNCHANGED <<part, startupVars, serviceVars, javaVars, healthVars, createVars>>
Create(A) == part = "create" /\ A
  /\ UNCHANGED <<part, startupVars, serviceVars, javaVars, healthVars, schemaVars>>

Next ==
  \/ Startup(StartupNext) \/ Serves(ServiceNext) \/ Java(JavaNext)
  \/ Health(HealthNext) \/ Schemas(SchemaNext) \/ Create(CreateNext)

----------------------------------------------------------------------------
(* Fairness: of what a program does by itself.  That a remote service      *)
(* answers or refuses is assumed nowhere here; a property that needs it    *)
(* says so.                                                                *)

(* The startup task is polled and its timers fire; the tasks of the        *)
(* service are polled.                                                     *)
RustFairness == WF_vars(Startup(BuilderStep)) /\ WF_vars(Serves(Proceed))

(* Threads run; a command closes its context when it is done, a service    *)
(* only if it is told to.                                                  *)
CommandFairness ==
  WF_vars(Java(CommandStep)) /\ WF_vars(command # "start" /\ Java(Close))

(* The dispatcher runs; a call to a database that is not silent returns.   *)
HealthFairness ==
  /\ WF_vars(Health(Reply \/ ServingStops \/ \E e \in Exchange : Dispatch(e)))
  /\ \A s \in Checked : WF_vars(Health(StoreAnswers(s)))

(* Threads run.  A monitor is not fair, and needs not be: with every       *)
(* schema cached nobody new comes to wait.  RestClient has no timeout, so  *)
(* a fetch may hang.                                                       *)
SchemaFairness ==
  \A t \in Thread :
    WF_vars(Schemas(Look(t))) /\ WF_vars(Schemas(LookAgain(t))) /\ WF_vars(Schemas(Enter(t)))

(* A command takes the next store, and ends after the last.                *)
CreateFairness == \A r \in Runner : WF_vars(Create(LoopStep(r)))

Spec ==
  /\ Init /\ [][Next]_vars
  /\ RustFairness /\ CommandFairness /\ HealthFairness /\ SchemaFairness /\ CreateFairness

----------------------------------------------------------------------------
(* Properties.                                                             *)

ProcessTypes ==
  /\ StartupTypeOK /\ ServiceTypeOK /\ JavaTypeOK
  /\ HealthTypeOK /\ SchemaTypeOK /\ CreateTypeOK

(* Every part brings to an end what it has begun: a startup, a cancelled   *)
(* service, a command, a process told to stop, an exchange with the health *)
(* server, a call for a schema, where a cached one needs no registry and   *)
(* any other a registry that answers, and the making of tables.            *)
RegistryAnswers == \A t \in Thread : WF_vars(Schemas(FetchOk(t) \/ FetchErr(t)))
EveryPartEnds ==
  /\ StartupEnds /\ CancelEnds /\ CommandEnds /\ StopEnds /\ ExchangesEnd
  /\ CachedIsServed /\ RerunSucceeds
  /\ RegistryAnswers => CallsEnd
=============================================================================
