--------------------------- MODULE ProcessesProofs ---------------------------
(***************************************************************************)
(* Proofs about the parts that share no state with a consumer: Service,    *)
(* HealthServer, CreateSchemas and SchemaService, for any requests,        *)
(* exchanges, stores, commands, configurations and threads; and, at the    *)
(* end, about MCProcesses, which puts them and the startup of both         *)
(* programs side by side.                                                  *)
(***************************************************************************)
EXTENDS MCProcesses, StartupChecksProofs

----------------------------------------------------------------------------
(* Service.  The inductive invariant says at each stage of the stop which  *)
(* of the earlier stages it can rely on.                                   *)

StopInv ==
  /\ ServiceTypeOK
  /\ stage \in After \cup {"returned"} => pending = {}
  /\ stage \in {"deregister", "cancel", "returned"} => hams = "stopped"
  /\ stage \in {"cancel", "returned"} => ~scraped

USE ServiceAssumption

LEMMA StopInit == ServiceInit => StopInv
BY DEF ServiceInit, StopInv, ServiceTypeOK, Before, Serving, After, Over

(* The stages before the web server serves, in which nothing is accepted.  *)
LEMMA StartingStep ==
  ASSUME StopInv,
         \/ NewState \/ NewHams \/ RegisterPrometheus \/ StartHams
         \/ SpawnConsumer \/ Bind \/ ServiceFails
  PROVE  StopInv'
BY DEF StopInv, ServiceTypeOK, Before, Serving, After, Over, To, tasks, web,
       NewState, NewHams, RegisterPrometheus, StartHams, SpawnConsumer, Bind,
       ServiceFails

LEMMA ServingStep ==
  ASSUME StopInv, Drain \/ \E r \in Request : Accept(r) \/ Answer(r)
  PROVE  StopInv'
BY DEF StopInv, ServiceTypeOK, Before, Serving, After, Over, To, tasks, web,
       Drain, Accept, Answer

LEMMA StoppingStep ==
  ASSUME StopInv,
         ServerEnds \/ StopHams \/ DeregisterPrometheus \/ ServiceReturns
  PROVE  StopInv'
<1> USE DEF StopInv, ServiceTypeOK, Before, Serving, After, Over, To, tasks, web
<1>1. CASE ServerEnds BY <1>1 DEF ServerEnds
<1>2. CASE StopHams BY <1>2 DEF StopHams
<1>3. CASE DeregisterPrometheus BY <1>3 DEF DeregisterPrometheus
<1>4. CASE ServiceReturns BY <1>4 DEF ServiceReturns
<1> QED BY <1>1, <1>2, <1>3, <1>4

(* What happens beside the service: the consumer, the token, a signal.     *)
LEMMA BesideStep ==
  ASSUME StopInv, ClearLag \/ EndConsumer \/ Cancel \/ Signal
  PROVE  StopInv'
<1> USE DEF StopInv, ServiceTypeOK, Before, Serving, After, Over, tasks, web
<1>1. CASE ClearLag BY <1>1 DEF ClearLag
<1>2. CASE EndConsumer BY <1>2 DEF EndConsumer
<1>3. CASE Cancel BY <1>3 DEF Cancel
<1>4. CASE Signal BY <1>4 DEF Signal
<1> QED BY <1>1, <1>2, <1>3, <1>4

LEMMA StopStep ==
  ASSUME StopInv, [ServiceNext]_serviceVars
  PROVE  StopInv'
<1>1. CASE ServiceNext
  BY <1>1, StartingStep, ServingStep, StoppingStep, BesideStep
     DEF ServiceNext, Proceed
<1>2. CASE UNCHANGED serviceVars
  BY <1>2 DEF serviceVars, StopInv, ServiceTypeOK, tasks, web
<1> QED BY <1>1, <1>2

(* A service that returns has answered every request it accepted, and no   *)
(* scrape can reach the state it drops, whenever it is cancelled.          *)
THEOREM ReturnsStopped == ServiceSpec => []StopsInOrder
<1>1. StopInv => StopsInOrder BY DEF StopInv, StopsInOrder, After
<1> QED BY <1>1, StopInit, StopStep, PTL DEF ServiceSpec

----------------------------------------------------------------------------
(* HealthServer.  While an exchange is served, what the handler remembers  *)
(* of the stores it has asked and of the lag is true of the exchange.      *)

HandlerHonest ==
  /\ serving = NoExchange => unasked = {}
  /\ serving # NoExchange =>
       /\ Asks(serving) /\ healthy => Checked \ unasked \subseteq sawUp[serving]
       /\ Path[serving] = "/ready" /\ lag => cleared
HealthInv == HealthTypeOK /\ HandlerHonest /\ OkIsHonest

LEMMA HealthInitInv == HealthInit => HealthInv
<1> SUFFICES ASSUME HealthInit PROVE HealthInv
  OBVIOUS
<1>1. HealthTypeOK
  <2>1. store_changes \in 0..MaxStoreChanges
    BY HealthAssumption DEF HealthInit
  <2>2. reply \in [Exchange -> {"none", "200", "503"}] BY DEF HealthInit
  <2>3. sawUp \in [Exchange -> SUBSET Checked] BY DEF HealthInit
  <2>4. /\ store \in [Checked -> {"up", "down", "silent"}]
        /\ cleared = FALSE /\ lag = FALSE /\ healthy = TRUE
        /\ queue = {} /\ unasked = {} /\ serving = NoExchange /\ socket = "open"
    BY Zenon DEF HealthInit
  <2>5. cleared \in BOOLEAN /\ lag \in BOOLEAN /\ healthy \in BOOLEAN
    BY <2>4
  <2>6. /\ queue \subseteq Exchange /\ unasked \subseteq Checked
        /\ serving \in Exchange \cup {NoExchange}
    BY <2>4
  <2> QED BY <2>1, <2>2, <2>3, <2>4, <2>5, <2>6, Zenon DEF HealthTypeOK
<1>2. HandlerHonest BY DEF HealthInit, HandlerHonest
<1>3. OkIsHonest BY DEF HealthInit, OkIsHonest
<1> QED BY <1>1, <1>2, <1>3 DEF HealthInv

(* Between a request and its answer.                                       *)
LEMMA HandlingStep ==
  ASSUME HealthInv,
         \/ \E e \in Exchange : Arrive(e) \/ Dispatch(e)
         \/ \E s \in Checked : StoreAnswers(s)
  PROVE  HealthInv'
<1> USE NoExchangeAssumption
    DEF HealthInv, HealthTypeOK, HandlerHonest, OkIsHonest, Asks, handler
<1>1. ASSUME NEW e \in Exchange, Arrive(e) PROVE HealthInv'
  BY <1>1 DEF Arrive
<1>2. ASSUME NEW e \in Exchange, Dispatch(e) PROVE HealthInv'
  BY <1>2 DEF Dispatch
<1>3. ASSUME NEW s \in Checked, StoreAnswers(s) PROVE HealthInv'
  <2>1. serving \in Exchange BY <1>3 DEF StoreAnswers
  <2>2. /\ unasked' = unasked \ {s} /\ healthy' = (healthy /\ store[s] = "up")
        /\ sawUp' \in [Exchange -> SUBSET Checked]
        /\ \A e \in Exchange : sawUp[e] \subseteq sawUp'[e]
        /\ store[s] = "up" => s \in sawUp'[serving]
        /\ UNCHANGED <<store, store_changes, cleared, queue, serving, lag, reply, socket>>
    BY <1>3, <2>1 DEF StoreAnswers
  <2>3. HealthTypeOK' BY <2>2
  <2>4. HandlerHonest' BY <2>1, <2>2
  <2>5. OkIsHonest' BY <2>2
  <2> QED BY <2>3, <2>4, <2>5
<1> QED BY <1>1, <1>2, <1>3

(* The answer, when every store has been asked.                            *)
LEMMA ReplyStep ==
  ASSUME HealthInv, Reply
  PROVE  HealthInv'
<1> USE NoExchangeAssumption DEF HealthInv, HealthTypeOK, handler, Reply
<1>1. HealthTypeOK' /\ HandlerHonest' BY DEF HandlerHonest
<1>2. ASSUME NEW e \in Exchange, reply'[e] = "200", Asks(e)
      PROVE  sawUp'[e] = Checked /\ (Path[e] = "/ready" => cleared')
  <2>1. CASE e # serving BY <1>2, <2>1 DEF OkIsHonest
  <2>2. CASE e = serving
    <3>1. lag /\ healthy BY <1>2, <2>2
    <3>2. Checked \subseteq sawUp[e] BY <1>2, <2>2, <3>1 DEF HandlerHonest
    <3> QED BY <2>2, <3>1, <3>2 DEF HandlerHonest
  <2> QED BY <2>1, <2>2
<1> QED BY <1>1, <1>2 DEF OkIsHonest, Asks

LEMMA HealthStep ==
  ASSUME HealthInv, [HealthNext]_healthVars
  PROVE  HealthInv'
<1> USE DEF HealthInv, HealthTypeOK, HandlerHonest, OkIsHonest, Asks, handler
<1>1. CASE LagCleared BY <1>1 DEF LagCleared
<1>2. ASSUME NEW s \in Checked, StoreChanges(s) PROVE HealthInv'
  BY <1>2, HealthAssumption DEF StoreChanges
<1>3. CASE StopServing BY <1>3 DEF StopServing
<1>4. CASE ServingStops BY <1>4 DEF ServingStops
<1>5. CASE UNCHANGED healthVars BY <1>5 DEF healthVars
<1> QED BY <1>1, <1>2, <1>3, <1>4, <1>5, HandlingStep, ReplyStep DEF HealthNext

(* A 200 is honest, whatever the stores do while the handler asks them and *)
(* whoever waits for the one thread meanwhile.                             *)
THEOREM HealthIsHonest == HealthSpec => []OkIsHonest
<1>1. HealthInv => OkIsHonest BY DEF HealthInv
<1> QED BY <1>1, HealthInitInv, HealthStep, PTL DEF HealthSpec

----------------------------------------------------------------------------
(* CreateSchemas.  Every store that a command has gone past is served, and *)
(* no step takes a table away.                                             *)

Served(s) == TableOf(s) \in tables \/ Migrated(s)
Placed(r) ==
  /\ doing[r] \in {"execute", "absent"} => More(r) /\ Here(r).kind # "other"
  /\ doing[r] = "done" => ~More(r)
  /\ \A i \in 1..Len(config) : i < at[r] => config[i].kind = "other" \/ Served(config[i])
AppliedOnce ==
  \A db \in Database : history[db] = "applied" =>
    \E s \in Wanted : s.kind = "flyway" /\ s.database = db /\ TableOf(s) \in tables
CreateInv == CreateTypeOK /\ AppliedOnce /\ \A r \in Runner : Placed(r)

LEMMA ServedStays ==
  ASSUME config' = config, tables \subseteq tables', NEW s, Served(s)
  PROVE  Served(s)'
BY DEF Served, Migrated, Wanted, StoreSet, TableOf

LEMMA ConfiguredStore ==
  ASSUME CreateTypeOK, NEW i \in 1..Len(config)
  PROVE  /\ config[i].kind \in Kinds /\ config[i].database \in Database
         /\ config[i].kind # "other" => config[i] \in Wanted
BY CreateAssumption DEF CreateTypeOK, Wanted, StoreSet

(* What every step of a command comes to.                                  *)
TablesKept ==
  /\ config' = config /\ tables \subseteq tables'
  /\ tables' \subseteq {TableOf(s) : s \in Wanted}
  /\ history' \in [Database -> {"none", "begun", "applied", "failed"}] /\ AppliedOnce'
  /\ failures' \in 0..MaxFailures
Moved(r, step) ==
  /\ Become(r, step)
  /\ \/ /\ at' = at
        /\ step \in {"execute", "absent"} => More(r) /\ Here(r).kind # "other"
        /\ step = "done" => ~More(r)
     \/ at' = [at EXCEPT ![r] = 1] /\ step = "connect"
     \/ /\ at' = [at EXCEPT ![r] = @ + 1] /\ step = "connect" /\ More(r)
        /\ \E s : s = Here(r) /\ (s.kind = "other" \/ Served(s)')

LEMMA CommandProgress ==
  ASSUME CreateInv, NEW r \in Runner,
         NEW step \in {"connect", "execute", "absent", "done", "error"},
         TablesKept, Moved(r, step)
  PROVE  CreateInv'
<1> USE DEF TablesKept, Moved
<1>1. Len(config) \in Nat /\ at \in [Runner -> 1..Len(config) + 1]
  BY CreateAssumption DEF CreateInv, CreateTypeOK
<1>2. at' \in [Runner -> 1..Len(config) + 1]
  BY <1>1 DEF More
<1>3. /\ doing' = [doing EXCEPT ![r] = step]
      /\ doing' \in [Runner -> {"idle", "connect", "execute", "absent", "done", "error"}]
  <2>1. doing' = [doing EXCEPT ![r] = step] BY DEF Become
  <2>2. doing \in [Runner -> {"idle", "connect", "execute", "absent", "done", "error"}]
    BY DEF CreateInv, CreateTypeOK
  <2> QED BY <2>1, <2>2
<1>4. CreateTypeOK'
  BY <1>2, <1>3 DEF CreateInv, CreateTypeOK, Wanted, StoreSet
<1>5. ASSUME NEW q \in Runner, q # r PROVE Placed(q)'
  <2>1. at'[q] = at[q] /\ doing'[q] = doing[q] BY <1>1, <1>3, <1>5 DEF CreateInv, CreateTypeOK
  <2>2. Placed(q) BY DEF CreateInv
  <2> QED BY <2>1, <2>2, ServedStays DEF Placed, More, Here
<1>6. Placed(r)'
  <2>1. doing'[r] = step BY <1>3 DEF CreateInv, CreateTypeOK
  <2>2. Placed(r) BY DEF CreateInv
  <2>3. CASE at' = at
    BY <2>1, <2>2, <2>3, <1>1, ServedStays DEF Placed, More, Here
  <2>4. CASE at' = [at EXCEPT ![r] = 1] /\ step = "connect"
    BY <2>1, <2>4, <1>1 DEF Placed
  <2>5. CASE /\ at' = [at EXCEPT ![r] = @ + 1] /\ step = "connect"
             /\ \E s : s = Here(r) /\ (s.kind = "other" \/ Served(s)')
    <3>1. at'[r] = at[r] + 1 /\ at[r] \in Nat BY <2>5, <1>1
    <3>2. ASSUME NEW i \in 1..Len(config), i < at'[r]
          PROVE  config[i].kind = "other" \/ Served(config[i])'
      <4>1. CASE i < at[r] BY <4>1, <2>2, ServedStays DEF Placed
      <4>2. CASE i = at[r] BY <4>2, <2>5 DEF Here
      <4> QED BY <3>1, <3>2, <1>1, <4>1, <4>2
    <3> QED BY <2>1, <2>5, <3>2 DEF Placed
  <2> QED BY <2>1, <2>2, <2>3, <2>4, <2>5 DEF Placed, More, Here
<1> QED BY <1>4, <1>5, <1>6 DEF CreateInv

(* Flyway records V1, or what became of it, beside the table it has made.  *)
LEMMA Recorded ==
  ASSUME CreateInv, NEW w \in Wanted, w.kind = "flyway", w.database \in Database,
         NEW h \in {"begun", "applied", "failed"},
         history' = [history EXCEPT ![w.database] = h],
         tables' = tables \/ tables' = tables \cup {TableOf(w)},
         h = "applied" => TableOf(w) \in tables',
         config' = config, failures' \in 0..MaxFailures
  PROVE  TablesKept
<1>1. /\ history \in [Database -> {"none", "begun", "applied", "failed"}]
      /\ tables \subseteq {TableOf(s) : s \in Wanted} /\ AppliedOnce
  BY DEF CreateInv, CreateTypeOK
<1>2. tables \subseteq tables' /\ tables' \subseteq {TableOf(s) : s \in Wanted}
  BY <1>1
<1>3. ASSUME NEW d \in Database, history'[d] = "applied"
      PROVE  \E s \in Wanted : s.kind = "flyway" /\ s.database = d /\ TableOf(s) \in tables'
  <2>1. CASE d = w.database
    <3>1. h = "applied" BY <1>1, <1>3, <2>1
    <3> QED BY <2>1, <3>1
  <2>2. CASE d # w.database
    <3>1. history[d] = "applied" BY <1>1, <1>3, <2>2
    <3> QED BY <1>1, <1>2, <3>1 DEF AppliedOnce
  <2> QED BY <2>1, <2>2
<1>4. AppliedOnce' BY <1>3 DEF AppliedOnce, Wanted, StoreSet, TableOf
<1>5. history' \in [Database -> {"none", "begun", "applied", "failed"}] BY <1>1
<1> QED BY <1>2, <1>4, <1>5 DEF TablesKept

LEMMA CreateInitInv == CreateInit => CreateInv
<1> SUFFICES ASSUME CreateInit PROVE CreateInv
  OBVIOUS
<1>1. config \in Configs /\ Len(config) \in Nat
  BY CreateAssumption DEF CreateInit
<1>2. CreateTypeOK
  <2>1. at \in [Runner -> 1..Len(config) + 1] BY <1>1 DEF CreateInit
  <2>2. failures \in 0..MaxFailures BY CreateAssumption DEF CreateInit
  <2> QED BY <1>1, <2>1, <2>2 DEF CreateInit, CreateTypeOK
<1>3. AppliedOnce BY DEF CreateInit, AppliedOnce
<1>4. \A r \in Runner : Placed(r) BY <1>1 DEF CreateInit, Placed
<1> QED BY <1>2, <1>3, <1>4 DEF CreateInv

LEMMA CreateStepInv ==
  ASSUME CreateInv, NEW r \in Runner, Run(r) \/ CreateStep(r)
  PROVE  CreateInv'
<1>1. CreateTypeOK /\ AppliedOnce /\ Placed(r) /\ config' = config
  BY DEF CreateInv, Run, CreateStep, DatabaseReplied, LoopStep
<1>2. /\ tables \subseteq {TableOf(s) : s \in Wanted} /\ failures \in 0..MaxFailures
      /\ history \in [Database -> {"none", "begun", "applied", "failed"}]
      /\ at \in [Runner -> 1..Len(config) + 1] /\ Len(config) \in Nat
  BY <1>1, CreateAssumption DEF CreateTypeOK
<1>3. ASSUME UNCHANGED history, failures' \in 0..MaxFailures, tables \subseteq tables',
             tables' \subseteq {TableOf(s) : s \in Wanted}
      PROVE  TablesKept
  <2>1. AppliedOnce' BY <1>1, <1>3 DEF AppliedOnce, Wanted, StoreSet, TableOf
  <2> QED BY <1>1, <1>2, <1>3, <2>1 DEF TablesKept
<1>4. ASSUME More(r), Here(r).kind # "other"
      PROVE  Here(r) \in Wanted /\ Here(r).database \in Database
  BY <1>1, <1>2, <1>4, ConfiguredStore DEF More, Here
<1>5. CASE Run(r)
  <2>1. TablesKept BY <1>2, <1>3, <1>5 DEF Run
  <2>2. Moved(r, "connect") BY <1>5 DEF Run, Moved
  <2> QED BY <2>1, <2>2, CommandProgress
<1>6. CASE Skip(r)
  <2>1. TablesKept BY <1>2, <1>3, <1>6 DEF Skip
  <2>2. Moved(r, "connect") BY <1>6 DEF Skip, Moved, Continue
  <2> QED BY <2>1, <2>2, CommandProgress
<1>7. CASE Connect(r)
  <2>1. TablesKept BY <1>2, <1>3, <1>7 DEF Connect
  <2>2. Moved(r, "execute") BY <1>7 DEF Connect, Moved
  <2> QED BY <2>1, <2>2, CommandProgress
<1>8. CASE CreateOracle(r)
  <2>1. Here(r) \in Wanted BY <1>1, <1>4, <1>8 DEF CreateOracle, Placed
  <2>2. tables' = tables \cup {TableOf(Here(r))} BY <1>8 DEF CreateOracle
  <2>3. \E s : s = Here(r) /\ Served(s)' BY <2>2 DEF Served, TableOf
  <2>4. TablesKept BY <1>2, <1>3, <1>8, <2>1, <2>2 DEF CreateOracle
  <2>5. Moved(r, "connect")
    BY <1>1, <1>8, <2>3 DEF CreateOracle, Continue, Placed, Moved
  <2> QED BY <2>4, <2>5, CommandProgress
<1>9. CASE LookPostgres(r)
  <2>1. UNCHANGED <<tables, history, failures>> BY <1>9 DEF LookPostgres
  <2>2. TablesKept BY <1>2, <1>3, <2>1
  <2>3. CASE TableOf(Here(r)) \in tables
    <3>1. \E s : s = Here(r) /\ Served(s)' BY <2>1, <2>3 DEF Served, TableOf
    <3>2. Moved(r, "connect")
      BY <1>1, <1>9, <2>3, <3>1 DEF LookPostgres, Continue, Placed, Moved
    <3> QED BY <2>2, <3>2, CommandProgress
  <2>4. CASE TableOf(Here(r)) \notin tables
    <3>1. Moved(r, "absent") BY <1>1, <1>9, <2>4 DEF LookPostgres, Placed, Moved
    <3> QED BY <2>2, <3>1, CommandProgress
  <2> QED BY <2>3, <2>4
<1>10. CASE CreatePostgres(r)
  <2>1. Here(r) \in Wanted BY <1>1, <1>4, <1>10 DEF CreatePostgres, Placed
  <2>2. tables' = tables \cup {TableOf(Here(r))} BY <1>10 DEF CreatePostgres
  <2>3. \E s : s = Here(r) /\ Served(s)' BY <2>2 DEF Served, TableOf
  <2>4. TablesKept BY <1>2, <1>3, <1>10, <2>1, <2>2 DEF CreatePostgres
  <2>5. CASE TableOf(Here(r)) \in tables
    <3>1. Moved(r, "error") BY <1>10, <2>5 DEF CreatePostgres, Moved
    <3> QED BY <2>4, <3>1, CommandProgress
  <2>6. CASE TableOf(Here(r)) \notin tables
    <3>1. Moved(r, "connect")
      BY <1>1, <1>10, <2>3, <2>6 DEF CreatePostgres, Continue, Placed, Moved
    <3> QED BY <2>4, <3>1, CommandProgress
  <2> QED BY <2>5, <2>6
<1>11. CASE Migrate(r)
  <2> DEFINE db == Here(r).database
  <2>1. /\ Here(r) \in Wanted /\ db \in Database /\ More(r)
        /\ Here(r).kind = "flyway" /\ failures' = failures
    BY <1>1, <1>4, <1>11 DEF Migrate, Placed
  <2>2. CASE /\ history[db] = "applied"
             /\ Continue(r) /\ UNCHANGED <<tables, history>>
    <3>1. Served(Here(r)) BY <1>1, <2>1, <2>2 DEF AppliedOnce, Served, Migrated
    <3>2. \E s : s = Here(r) /\ Served(s)' BY <1>1, <2>2, <3>1, ServedStays
    <3>3. TablesKept BY <1>2, <1>3, <2>1, <2>2
    <3>4. Moved(r, "connect") BY <2>1, <2>2, <3>2 DEF Continue, Moved
    <3> QED BY <3>3, <3>4, CommandProgress
  <2>3. CASE /\ Continue(r)
             /\ tables' = tables \cup {TableOf(Here(r))}
             /\ history' = [history EXCEPT ![db] = "applied"]
    <3>1. \E s : s = Here(r) /\ Served(s)' BY <2>3 DEF Served, TableOf
    <3>2. TablesKept BY <1>1, <1>2, <2>1, <2>3, Recorded
    <3>3. Moved(r, "connect") BY <2>1, <2>3, <3>1 DEF Continue, Moved
    <3> QED BY <3>2, <3>3, CommandProgress
  <2>4. CASE /\ Become(r, "error") /\ UNCHANGED <<tables, at>>
             /\ \E h \in {"begun", "failed"} : history' = [history EXCEPT ![db] = h]
    <3>1. TablesKept BY <1>1, <1>2, <2>1, <2>4, Recorded
    <3>2. Moved(r, "error") BY <2>4 DEF Moved
    <3> QED BY <3>1, <3>2, CommandProgress
  <2>5. CASE Become(r, "error") /\ UNCHANGED <<tables, history, at>>
    <3>1. TablesKept BY <1>2, <1>3, <2>1, <2>5
    <3>2. Moved(r, "error") BY <2>5 DEF Moved
    <3> QED BY <3>1, <3>2, CommandProgress
  <2> QED BY <1>11, <2>2, <2>3, <2>4, <2>5 DEF Migrate
<1>12. CASE Fault(r)
  <2>1. /\ failures' \in 0..MaxFailures /\ at' = at /\ Become(r, "error")
        /\ Here(r) \in Wanted /\ Here(r).database \in Database
    BY <1>2, <1>4, <1>12, CreateAssumption DEF Fault
  <2>2. ASSUME UNCHANGED <<tables, history>> PROVE TablesKept
    BY <1>2, <1>3, <2>1, <2>2
  <2>3. ASSUME tables' = tables \cup {TableOf(Here(r))}, UNCHANGED history
        PROVE  TablesKept
    BY <1>2, <1>3, <2>1, <2>3
  <2>4. ASSUME Here(r).kind = "flyway", CutShort(Here(r)) PROVE TablesKept
    <3> DEFINE w == Here(r)
    <3>1. PICK h \in {"begun", "applied", "failed"} :
            /\ history' = [history EXCEPT ![w.database] = h]
            /\ tables' = tables \/ tables' = tables \cup {TableOf(w)}
            /\ h = "applied" => TableOf(w) \in tables'
      BY <2>4 DEF CutShort
    <3> QED BY <1>1, <2>1, <2>4, <3>1, Recorded
  <2>5. TablesKept BY <1>12, <2>2, <2>3, <2>4 DEF Fault
  <2>6. Moved(r, "error") BY <2>1 DEF Moved
  <2> QED BY <2>5, <2>6, CommandProgress
<1>13. CASE Finish(r)
  <2>1. TablesKept BY <1>2, <1>3, <1>13 DEF Finish
  <2>2. Moved(r, "done") BY <1>13 DEF Finish, Moved
  <2> QED BY <2>1, <2>2, CommandProgress
<1> QED BY <1>5, <1>6, <1>7, <1>8, <1>9, <1>10, <1>11, <1>12, <1>13
        DEF CreateStep, DatabaseReplied, LoopStep

LEMMA CreateNextInv == CreateInv /\ [CreateNext]_createVars => CreateInv'
<1> SUFFICES ASSUME CreateInv, [CreateNext]_createVars PROVE CreateInv'
  OBVIOUS
<1>1. CASE CreateNext BY <1>1, CreateStepInv DEF CreateNext
<1>2. CASE UNCHANGED createVars
  <2>1. UNCHANGED <<config, tables, history, at, doing, failures>>
    BY <1>2 DEF createVars
  <2>2. CreateTypeOK'
    BY <2>1 DEF CreateInv, CreateTypeOK, Wanted, StoreSet
  <2>3. AppliedOnce'
    BY <2>1 DEF CreateInv, AppliedOnce, Wanted, StoreSet, TableOf
  <2>4. \A r \in Runner : Placed(r)'
    BY <2>1, ServedStays DEF CreateInv, Placed, More, Here
  <2> QED BY <2>2, <2>3, <2>4 DEF CreateInv
<1> QED BY <1>1, <1>2

(* A create-schemas that reports success leaves a table for each store,    *)
(* however many run at once, whatever failed before and whoever lost the   *)
(* race for a table; where Flyway stores share a database, one of them.    *)
THEOREM SuccessIsTables == CreateSpec => []SuccessMeansTables
<1>1. CreateInv => SuccessMeansTables
  <2> SUFFICES ASSUME CreateInv, NEW r \in Runner, doing[r] = "done", NEW s \in Wanted
               PROVE  Served(s)
    BY DEF SuccessMeansTables, Served
  <2>1. Placed(r) /\ ~More(r) BY DEF CreateInv, Placed
  <2>2. at[r] \in Nat /\ Len(config) \in Nat
    BY CreateAssumption DEF CreateInv, CreateTypeOK
  <2>3. PICK i \in 1..Len(config) : s = config[i] /\ s.kind # "other"
    BY DEF Wanted, StoreSet
  <2> QED BY <2>1, <2>2, <2>3 DEF Placed, More
<1> QED BY <1>1, CreateInitInv, CreateNextInv, PTL DEF CreateSpec

----------------------------------------------------------------------------
(* SchemaService.  The invariant is the four properties and one more fact: *)
(* who fetches has found, under the lock, that the schema is not cached.   *)
(* Only a thread in the monitor adds to the cache, so that stays true      *)
(* until its fetch is over, and the fetch is the first of its id.          *)

(* A thread in a call asks for an id; one that fetches asks for an id that *)
(* is not in the cache.                                                    *)
AskedOK ==
  /\ \A t \in Thread : calling[t] # "idle" => asked[t] \in Schema
  /\ \A t \in Thread : calling[t] = "fetching" => asked[t] \notin schemaCache

SchemaInv == SchemaTypeOK /\ LockInv /\ AskedOK /\ FetchedOnce /\ FailureIsOwn

(* Nobody is in a call, and nothing is cached.                             *)
LEMMA SchemaInitInv == SchemaInit => SchemaInv
  BY NobodyAssumption, SchemaAssumption
  DEF SchemaInit, SchemaInv, SchemaTypeOK, LockInv, AskedOK, FetchedOnce, FailureIsOwn, Stages,
      Inside, Cached

(* What every thread but the one that takes a step keeps.                  *)
LEMMA GotoFacts ==
  ASSUME SchemaTypeOK, NEW t \in Thread, NEW s \in Stages, Goto(t, s)
  PROVE  /\ calling' \in [Thread -> Stages] /\ calling'[t] = s
         /\ \A u \in Thread \ {t} : calling'[u] = calling[u]
  BY DEF SchemaTypeOK, Goto

----------------------------------------------------------------------------
(* The steps outside the monitor.                                          *)

(* A call begins: only the caller's own state changes.                     *)
LEMMA GetSchemaKeeps ==
  ASSUME SchemaInv, NEW t \in Thread, NEW id \in Schema, GetSchema(t, id)
  PROVE  SchemaInv'
<1>1. /\ asked' \in [Thread -> Schema \cup {Nobody}] /\ asked'[t] = id
      /\ \A u \in Thread \ {t} : asked'[u] = asked[u]
      /\ failed' \in [Thread -> BOOLEAN] /\ failed'[t] = FALSE
      /\ \A u \in Thread \ {t} : failed'[u] = failed[u]
      /\ UNCHANGED <<schemaCache, lock, failedFetches, fetches>> /\ calling[t] = "idle"
  BY DEF SchemaInv, SchemaTypeOK, GetSchema
<1>2. /\ calling' \in [Thread -> Stages] /\ calling'[t] = "called"
      /\ \A u \in Thread \ {t} : calling'[u] = calling[u]
  BY GotoFacts DEF SchemaInv, GetSchema, Stages
<1>3. SchemaTypeOK'
  BY <1>1, <1>2 DEF SchemaInv, SchemaTypeOK
<1>4. LockInv'
  BY <1>1, <1>2 DEF SchemaInv, LockInv, Inside
<1>5. AskedOK' /\ FetchedOnce' /\ FailureIsOwn'
  BY <1>1, <1>2 DEF SchemaInv, AskedOK, FetchedOnce, FailureIsOwn, Cached
<1> QED BY <1>3, <1>4, <1>5 DEF SchemaInv

(* The first look.                                                         *)
LEMMA LookKeeps ==
  ASSUME SchemaInv, NEW t \in Thread, Look(t)
  PROVE  SchemaInv'
<1>1. /\ UNCHANGED <<schemaCache, asked, lock, failedFetches, fetches, failed>>
      /\ calling[t] = "called"
  BY DEF Look
<1>2. PICK s \in {"answered", "waiting"} :
        Goto(t, s) /\ (s = "answered" => Cached(t))
  BY DEF Look
<1>3. /\ calling' \in [Thread -> Stages] /\ calling'[t] = s
      /\ \A u \in Thread \ {t} : calling'[u] = calling[u]
  BY <1>2, GotoFacts DEF SchemaInv, Stages
<1>4. SchemaTypeOK'
  BY <1>1, <1>3 DEF SchemaInv, SchemaTypeOK
<1>5. LockInv'
  BY <1>1, <1>3 DEF SchemaInv, LockInv, Inside
<1>6. AskedOK' /\ FetchedOnce' /\ FailureIsOwn'
  BY <1>1, <1>2, <1>3 DEF SchemaInv, AskedOK, FetchedOnce, FailureIsOwn, Cached
<1> QED BY <1>4, <1>5, <1>6 DEF SchemaInv

(* A call ends.                                                            *)
LEMMA ReturnKeeps ==
  ASSUME SchemaInv, NEW t \in Thread, ReturnSchema(t)
  PROVE  SchemaInv'
<1>1. /\ asked' \in [Thread -> Schema \cup {Nobody}]
      /\ \A u \in Thread \ {t} : asked'[u] = asked[u]
      /\ UNCHANGED <<schemaCache, lock, failedFetches, fetches, failed>>
      /\ calling[t] \in {"answered", "thrown"}
  BY DEF SchemaInv, SchemaTypeOK, ReturnSchema
<1>2. /\ calling' \in [Thread -> Stages] /\ calling'[t] = "idle"
      /\ \A u \in Thread \ {t} : calling'[u] = calling[u]
  BY GotoFacts DEF SchemaInv, ReturnSchema, Stages
<1>3. SchemaTypeOK'
  BY <1>1, <1>2 DEF SchemaInv, SchemaTypeOK
<1>4. LockInv'
  BY <1>1, <1>2 DEF SchemaInv, LockInv, Inside
<1>5. AskedOK' /\ FetchedOnce' /\ FailureIsOwn'
  BY <1>1, <1>2 DEF SchemaInv, AskedOK, FetchedOnce, FailureIsOwn, Cached
<1> QED BY <1>3, <1>4, <1>5 DEF SchemaInv

----------------------------------------------------------------------------
(* The steps that take, hold and release the monitor.                      *)

(* Nobody is inside when a thread enters.                                  *)
LEMMA EnterKeeps ==
  ASSUME SchemaInv, NEW t \in Thread, Enter(t)
  PROVE  SchemaInv'
<1>1. /\ UNCHANGED <<schemaCache, asked, failedFetches, fetches, failed>>
      /\ calling[t] = "waiting" /\ lock = Nobody /\ lock' = t
  BY DEF Enter
<1>2. /\ calling' \in [Thread -> Stages] /\ calling'[t] = "locked"
      /\ \A u \in Thread \ {t} : calling'[u] = calling[u]
  BY GotoFacts DEF SchemaInv, Enter, Stages
<1>3. SchemaTypeOK'
  BY <1>1, <1>2 DEF SchemaInv, SchemaTypeOK
<1>4. LockInv'
  <2>1. \A u \in Thread : calling[u] \notin Inside
    BY <1>1, NobodyAssumption DEF SchemaInv, LockInv
  <2> QED BY <1>1, <1>2, <2>1 DEF LockInv, Inside
<1>5. AskedOK' /\ FetchedOnce' /\ FailureIsOwn'
  BY <1>1, <1>2 DEF SchemaInv, AskedOK, FetchedOnce, FailureIsOwn, Cached
<1> QED BY <1>3, <1>4, <1>5 DEF SchemaInv

(* A thread that leaves the monitor was the only one inside.               *)
LEMMA LeaveFacts ==
  ASSUME SchemaInv, NEW t \in Thread, calling[t] \in Inside,
         NEW s \in {"answered", "thrown"}, Goto(t, s), lock' = Nobody
  PROVE  LockInv' /\ calling' \in [Thread -> Stages] /\ calling'[t] = s
         /\ \A u \in Thread \ {t} : calling'[u] = calling[u] /\ calling[u] \notin Inside
<1>1. /\ calling' \in [Thread -> Stages] /\ calling'[t] = s
      /\ \A u \in Thread \ {t} : calling'[u] = calling[u]
  BY GotoFacts DEF SchemaInv, Stages
<1>2. \A u \in Thread \ {t} : calling[u] \notin Inside
  BY DEF SchemaInv, LockInv
<1> QED BY <1>1, <1>2, NobodyAssumption DEF LockInv, Inside

(* The second look: a thread that goes on to fetch has seen, under the     *)
(* lock, that its schema is not cached.                                    *)
LEMMA LookAgainKeeps ==
  ASSUME SchemaInv, NEW t \in Thread, LookAgain(t)
  PROVE  SchemaInv'
<1>1. /\ UNCHANGED <<schemaCache, asked, failedFetches, fetches, failed>>
      /\ calling[t] = "locked"
  BY DEF LookAgain
<1>2. CASE Cached(t)
  <2>1. Goto(t, "answered") /\ lock' = Nobody
    BY <1>2 DEF LookAgain
  <2>2. /\ LockInv' /\ calling' \in [Thread -> Stages] /\ calling'[t] = "answered"
        /\ \A u \in Thread \ {t} : calling'[u] = calling[u]
    BY <1>1, <2>1, LeaveFacts DEF Inside
  <2>3. SchemaTypeOK'
    BY <1>1, <2>1, <2>2 DEF SchemaInv, SchemaTypeOK
  <2>4. AskedOK' /\ FetchedOnce' /\ FailureIsOwn'
    BY <1>1, <1>2, <2>2 DEF SchemaInv, AskedOK, FetchedOnce, FailureIsOwn, Cached
  <2> QED BY <2>2, <2>3, <2>4 DEF SchemaInv
<1>3. CASE ~Cached(t)
  <2>1. Goto(t, "fetching") /\ lock' = lock
    BY <1>3 DEF LookAgain
  <2>2. /\ calling' \in [Thread -> Stages] /\ calling'[t] = "fetching"
        /\ \A u \in Thread \ {t} : calling'[u] = calling[u]
    BY <2>1, GotoFacts DEF SchemaInv, Stages
  <2>3. SchemaTypeOK'
    BY <1>1, <2>1, <2>2 DEF SchemaInv, SchemaTypeOK
  <2>4. LockInv'
    BY <1>1, <2>1, <2>2 DEF SchemaInv, LockInv, Inside
  <2>5. AskedOK' /\ FetchedOnce' /\ FailureIsOwn'
    BY <1>1, <1>3, <2>2 DEF SchemaInv, AskedOK, FetchedOnce, FailureIsOwn, Cached
  <2> QED BY <2>3, <2>4, <2>5 DEF SchemaInv
<1> QED BY <1>2, <1>3

(* A fetch that succeeds is the first of its id, and makes it cached.      *)
LEMMA FetchOkKeeps ==
  ASSUME SchemaInv, NEW t \in Thread, FetchOk(t)
  PROVE  SchemaInv'
<1>1. /\ schemaCache' = schemaCache \cup {asked[t]}
      /\ fetches' = [fetches EXCEPT ![asked[t]] = @ + 1]
      /\ UNCHANGED <<asked, failedFetches, failed>>
      /\ calling[t] = "fetching" /\ Goto(t, "answered") /\ lock' = Nobody
  BY DEF FetchOk
<1>2. /\ asked[t] \in Schema /\ asked[t] \notin schemaCache
      /\ fetches[asked[t]] = 0
  BY <1>1 DEF SchemaInv, AskedOK, FetchedOnce
<1>3. /\ LockInv' /\ calling' \in [Thread -> Stages] /\ calling'[t] = "answered"
      /\ \A u \in Thread \ {t} : calling'[u] = calling[u] /\ calling[u] \notin Inside
  BY <1>1, LeaveFacts DEF Inside
<1>4. SchemaTypeOK'
  BY <1>1, <1>2, <1>3 DEF SchemaInv, SchemaTypeOK
<1>5. AskedOK' /\ FailureIsOwn'
  BY <1>1, <1>3 DEF SchemaInv, AskedOK, FailureIsOwn, Cached, Inside
<1>6. FetchedOnce'
  BY <1>1, <1>2 DEF SchemaInv, SchemaTypeOK, FetchedOnce
<1> QED BY <1>3, <1>4, <1>5, <1>6 DEF SchemaInv

(* A fetch that fails leaves the cache alone and releases the monitor.     *)
LEMMA FetchErrKeeps ==
  ASSUME SchemaInv, NEW t \in Thread, FetchErr(t)
  PROVE  SchemaInv'
<1>1. /\ failed' \in [Thread -> BOOLEAN] /\ failed'[t]
      /\ \A u \in Thread \ {t} : failed'[u] = failed[u]
      /\ failedFetches' \in Nat /\ UNCHANGED <<schemaCache, asked, fetches>>
      /\ calling[t] = "fetching" /\ Goto(t, "thrown") /\ lock' = Nobody
  BY DEF SchemaInv, SchemaTypeOK, FetchErr
<1>2. /\ LockInv' /\ calling' \in [Thread -> Stages] /\ calling'[t] = "thrown"
      /\ \A u \in Thread \ {t} : calling'[u] = calling[u]
  BY <1>1, LeaveFacts DEF Inside
<1>3. SchemaTypeOK'
  BY <1>1, <1>2 DEF SchemaInv, SchemaTypeOK
<1>4. AskedOK' /\ FetchedOnce' /\ FailureIsOwn'
  BY <1>1, <1>2 DEF SchemaInv, AskedOK, FetchedOnce, FailureIsOwn, Cached
<1> QED BY <1>2, <1>3, <1>4 DEF SchemaInv

----------------------------------------------------------------------------
(* Every step keeps the invariant.                                         *)
LEMMA SchemaStepInv == SchemaInv /\ [SchemaNext]_schemaVars => SchemaInv'
<1> SUFFICES ASSUME SchemaInv, [SchemaNext]_schemaVars PROVE SchemaInv'
  OBVIOUS
<1>1. CASE UNCHANGED schemaVars
  BY <1>1 DEF SchemaInv, SchemaTypeOK, LockInv, AskedOK, FetchedOnce, FailureIsOwn, Cached, schemaVars
<1>2. CASE SchemaNext
  <2>1. PICK t \in Thread : SchemaStep(t)
    BY <1>2 DEF SchemaNext
  <2>2. CASE \E id \in Schema : GetSchema(t, id)
    BY <2>2, GetSchemaKeeps
  <2>3. CASE Look(t)
    BY <2>3, LookKeeps
  <2>4. CASE Enter(t)
    BY <2>4, EnterKeeps
  <2>5. CASE LookAgain(t)
    BY <2>5, LookAgainKeeps
  <2>6. CASE FetchOk(t)
    BY <2>6, FetchOkKeeps
  <2>7. CASE FetchErr(t)
    BY <2>7, FetchErrKeeps
  <2>8. CASE ReturnSchema(t)
    BY <2>8, ReturnKeeps
  <2> QED BY <2>1, <2>2, <2>3, <2>4, <2>5, <2>6, <2>7, <2>8 DEF SchemaStep
<1> QED BY <1>1, <1>2

LEMMA SchemaInvariance == SchemaSpec => []SchemaInv
<1> QED BY SchemaInitInv, SchemaStepInv, PTL DEF SchemaSpec

(* Whoever misses a schema, and however many do so at once: the registry   *)
(* is asked successfully once for each id (SchemaService.java 33-71).      *)
THEOREM OneFetchEach == SchemaSpec => []FetchedOnce
<1>1. SchemaInv => FetchedOnce
  BY DEF SchemaInv
<1> QED BY <1>1, SchemaInvariance, PTL

(* One thread's failed fetch is never another's answer.                    *)
THEOREM FailuresAreOwn == SchemaSpec => []FailureIsOwn
<1>1. SchemaInv => FailureIsOwn
  BY DEF SchemaInv
<1> QED BY <1>1, SchemaInvariance, PTL

(* The monitor and the types.                                              *)
THEOREM Monitor == SchemaSpec => [](SchemaTypeOK /\ LockInv)
<1>1. SchemaInv => SchemaTypeOK /\ LockInv
  BY DEF SchemaInv
<1> QED BY <1>1, SchemaInvariance, PTL

----------------------------------------------------------------------------
(* All parts side by side.  In a behaviour one part takes every step, and  *)
(* the inductive invariants of the others hold on as their variables stay. *)

PartsInv ==
  StartupInv /\ StopInv /\ JavaInv /\ HealthInv /\ SchemaInv /\ CreateInv

LEMMA PartsInit == Init => PartsInv
<1> SUFFICES ASSUME Init PROVE PartsInv
  OBVIOUS
<1>1. StartupInit /\ JavaInit /\ HealthInit /\ CreateInit /\ ServiceInit /\ SchemaInit
  BY DEF Init
<1> QED BY <1>1, StartupInitInv, StopInit, JavaInitInv, HealthInitInv, SchemaInitInv,
           CreateInitInv DEF PartsInv

LEMMA PartsNext == PartsInv /\ [Next]_vars => PartsInv'
<1> SUFFICES ASSUME PartsInv, [Next]_vars PROVE PartsInv'
  OBVIOUS
<1>1. /\ [StartupNext]_startupVars /\ [ServiceNext]_serviceVars
      /\ [JavaNext]_javaVars /\ [HealthNext]_healthVars
      /\ [SchemaNext]_schemaVars /\ [CreateNext]_createVars
  BY DEF Next, vars, Startup, Serves, Java, Health, Schemas, Create
<1> QED BY <1>1, StartupInvStep, StopStep, JavaInvStep, HealthStep, SchemaStepInv,
           CreateNextInv DEF PartsInv

(* Each part keeps the types of its variables, whatever the other parts'   *)
(* tasks, threads and commands do beside it.                               *)
THEOREM PartsTypeCorrect == Spec => []ProcessTypes
<1>1. PartsInv => ProcessTypes
  BY DEF PartsInv, StartupInv, StopInv, JavaInv, HealthInv, SchemaInv, CreateInv, ProcessTypes
<1> QED BY <1>1, PartsInit, PartsNext, PTL DEF Spec
=============================================================================
