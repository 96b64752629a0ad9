----------------------------- MODULE JavaStartup -----------------------------
(***************************************************************************)
(* One run of the Java container's command line, from the Spring context   *)
(* to its end: CacheFactory opens the connection pools, the hams server    *)
(* starts, StartupCheckRunner runs the startup checks in a pool of         *)
(* threads, then the preflights, then the consumer; when the context       *)
(* closes HamsService calls the shutdown URLs.  config-check and           *)
(* create-schemas run the same application, without the checks and the     *)
(* consumer.                                                               *)
(***************************************************************************)
EXTENDS Naturals, Sequences, FiniteSets

CONSTANTS
  Dependency,
  Registry, Broker,  \* two of the services
  Stores,     \* the databases of the configured stores
  Pools,      \* those whose constructor connects: Postgres, Oracle
  Contacted,  \* those checkHealth() calls unsubscribed: Redis
  Preload,    \* how many schemas are preloaded
  Preflights, Shutdowns,  \* sequences of services
  Commands,   \* of "start", "config-check" and "create-schemas"
  Enabled,    \* startup-checks.enabled of the file
  JavaFails,      \* startup-checks.fails
  HamsFails,  \* hams.checks.fails
  Workers,    \* threads of the common pool
  MaxSwings  \* bound: services going down or coming up

ASSUME JavaStartupAssumption ==
  /\ {Registry, Broker} \cup Stores \subseteq Dependency
  /\ Pools \subseteq Stores /\ Contacted \subseteq Stores
  /\ Preflights \in Seq(Dependency) /\ Shutdowns \in Seq(Dependency)
  /\ Commands \subseteq {"start", "config-check", "create-schemas"}
  /\ Enabled \in BOOLEAN /\ Workers \in Nat \ {0}
  /\ {Preload, JavaFails, HamsFails, MaxSwings} \subseteq Nat

VARIABLES
  command,   \* the command given, one of Commands
  available, \* the services that answer
  swings,
  phase,     \* where the command is
  progress, attemptsRemaining,  \* of each startup check, and its attemptsRemaining
  loaded,    \* preloaded schemas in schemaCache
  preflight,      \* the preflight being called
  attempts,  \* of each preflight, what is left
  hook,      \* the shutdown URL being called
  patience,  \* of that URL, what is left
  outcome,   \* of SpringApplication.run
  listening,      \* does the hams server listen?
  consuming   \* has the consumer thread been started?

env == <<command, available, swings>>
checkState == <<progress, attemptsRemaining, loaded>>
preflights == <<preflight, attempts>>
hooks == <<hook, patience>>
javaVars == <<env, phase, checkState, preflights, hooks, outcome, listening, consuming>>

JavaCheck == {"registry", "preload", "kafka", "caches"}
Checks == IF Enabled /\ command = "start" THEN JavaCheck ELSE {}
Busy == {c \in Checks : progress[c] \in {"trying", "sleeping"}}

JavaTypeOK ==
  /\ command \in Commands
  /\ available \subseteq Dependency /\ swings \in 0..MaxSwings
  /\ phase \in {"context", "unopened", "checks", "preflights", "failed",
                "running", "closing", "exited"}
  /\ progress \in [Checks -> {"queued", "trying", "sleeping", "passed", "spent"}]
  /\ attemptsRemaining \in [Checks -> 0..JavaFails]
  /\ loaded \in 0..Preload
  /\ preflight \in 1..Len(Preflights) + 1 /\ hook \in 1..Len(Shutdowns) + 1
  /\ attempts \in [1..Len(Preflights) -> 0..HamsFails]
  /\ patience \in 0..HamsFails
  /\ outcome \in {"starting", "started", "refused"}
  /\ listening \in BOOLEAN /\ consuming \in BOOLEAN

JavaInit ==
  /\ command \in Commands
  /\ available \in SUBSET Dependency /\ swings = 0
  /\ phase = "context"
  /\ progress = [c \in Checks |-> "queued"]
  /\ attemptsRemaining = [c \in Checks |-> JavaFails]
  /\ loaded = 0
  /\ preflight = 1 /\ hook = 1
  /\ attempts = [i \in 1..Len(Preflights) |-> HamsFails]
  /\ patience = HamsFails
  /\ outcome = "starting" /\ listening = FALSE /\ consuming = FALSE

(* CacheFactory, then the @PostConstruct of HamsService.                   *)
ContextOk ==
  /\ phase = "context" /\ Pools \subseteq available
  /\ phase' = "checks"
  /\ listening' \in BOOLEAN   \* none without an address or with its port taken
  /\ UNCHANGED <<env, checkState, preflights, hooks, outcome, consuming>>

ContextErr ==
  /\ phase = "context" /\ ~(Pools \subseteq available)
  /\ phase' = "unopened"
  /\ UNCHANGED <<env, checkState, preflights, hooks, outcome, listening, consuming>>

(* A check takes a thread of the pool and keeps it while it sleeps.        *)
Attempt(c) ==
  /\ phase = "checks"
  /\ \/ progress[c] = "sleeping"
     \/ progress[c] = "queued" /\ Cardinality(Busy) < Workers
  /\ progress' = [progress EXCEPT ![c] = IF JavaFails = 0 THEN "spent" ELSE "trying"]
  /\ UNCHANGED <<env, phase, attemptsRemaining, loaded, preflights, hooks, outcome, listening, consuming>>

Needs(c) ==
  CASE c = "registry" -> {Registry}
    [] c = "kafka" -> {Broker}
    [] c = "caches" -> Contacted
    [] c = "preload" -> IF Preload = 0 THEN {} ELSE {Registry}

(* The preload fetches what is not cached yet; a fetch that works is kept  *)
(* by schemaCache even if the attempt fails at a later one.                *)
Preloads ==
  /\ phase = "checks" /\ "preload" \in Checks /\ progress["preload"] = "trying"
  /\ loaded + 1 < Preload /\ Registry \in available
  /\ loaded' = loaded + 1
  /\ UNCHANGED <<env, phase, progress, attemptsRemaining, preflights, hooks, outcome, listening, consuming>>

CheckOk(c) ==
  /\ phase = "checks" /\ progress[c] = "trying"
  /\ Needs(c) \subseteq available
  /\ c = "preload" => loaded + 1 >= Preload
  /\ progress' = [progress EXCEPT ![c] = "passed"]
  /\ loaded' = IF c = "preload" THEN Preload ELSE loaded
  /\ UNCHANGED <<env, phase, attemptsRemaining, preflights, hooks, outcome, listening, consuming>>

CheckErrForgiven(c) ==   \* mutant: the attempts are not counted
  /\ phase = "checks" /\ progress[c] = "trying"
  /\ ~(Needs(c) \subseteq available)
  /\ progress' = [progress EXCEPT ![c] = "sleeping"]
  /\ UNCHANGED <<env, phase, attemptsRemaining, loaded, preflights, hooks, outcome, listening, consuming>>

CheckErr(c) ==
  /\ phase = "checks" /\ progress[c] = "trying"
  /\ ~(Needs(c) \subseteq available)
  /\ progress' = [progress EXCEPT ![c] = IF attemptsRemaining[c] > 1 THEN "sleeping" ELSE "spent"]
  /\ attemptsRemaining' = [attemptsRemaining EXCEPT ![c] = @ - 1]
  /\ UNCHANGED <<env, phase, loaded, preflights, hooks, outcome, listening, consuming>>

(* allOf waits for every check, the failed ones too.                       *)
Join ==
  /\ phase = "checks" /\ \A c \in Checks : progress[c] \in {"passed", "spent"}
  /\ phase' = IF \A c \in Checks : progress[c] = "passed" THEN "preflights" ELSE "failed"
  /\ UNCHANGED <<env, checkState, preflights, hooks, outcome, listening, consuming>>

Preflighting == phase = "preflights" /\ preflight <= Len(Preflights)

PreflightOk ==
  /\ Preflighting /\ attempts[preflight] > 0 /\ Preflights[preflight] \in available
  /\ preflight' = preflight + 1
  /\ UNCHANGED <<env, phase, checkState, attempts, hooks, outcome, listening, consuming>>

PreflightErr ==
  /\ Preflighting /\ attempts[preflight] > 0 /\ Preflights[preflight] \notin available
  /\ attempts' = [attempts EXCEPT ![preflight] = @ - 1]
  /\ UNCHANGED <<env, phase, checkState, preflight, hooks, outcome, listening, consuming>>

PreflightSpent ==
  /\ Preflighting /\ attempts[preflight] = 0
  /\ phase' = "failed"
  /\ UNCHANGED <<env, checkState, preflights, hooks, outcome, listening, consuming>>

StartUngated ==   \* mutant: the preflights are not waited for
  /\ phase = "preflights"
  /\ phase' = "running" /\ outcome' = "started"
  /\ consuming' = (command = "start")
  /\ UNCHANGED <<env, checkState, preflights, hooks, listening>>

(* KafkaConsumerService.start, which a command without a web server skips. *)
Start ==
  /\ phase = "preflights" /\ preflight > Len(Preflights)
  /\ phase' = "running" /\ outcome' = "started"
  /\ consuming' = (command = "start")
  /\ UNCHANGED <<env, checkState, preflights, hooks, listening>>

(* A runner threw: SpringApplication.run closes the context.  A context    *)
(* that never came up has no HamsService to destroy.                       *)
RunFails ==
  /\ phase \in {"failed", "unopened"} /\ outcome = "starting"
  /\ phase' = IF phase = "failed" THEN "closing" ELSE phase
  /\ outcome' = "refused"
  /\ UNCHANGED <<env, checkState, preflights, hooks, listening, consuming>>

(* SIGTERM, or the command has done its work.                              *)
Close ==
  /\ phase = "running"
  /\ phase' = "closing"
  /\ UNCHANGED <<env, checkState, preflights, hooks, outcome, listening, consuming>>

(* HamsService.destroy: server.stop(0), which waits for the dispatcher     *)
(* thread to end (HealthServer), then the shutdown URLs.                   *)
StopServer ==
  /\ phase = "closing" /\ listening
  /\ listening' = FALSE
  /\ UNCHANGED <<env, phase, checkState, preflights, hooks, outcome, consuming>>

Calling == phase = "closing" /\ ~listening /\ hook <= Len(Shutdowns)

ShutdownOk ==
  /\ Calling /\ patience > 0 /\ Shutdowns[hook] \in available
  /\ hook' = hook + 1 /\ patience' = HamsFails
  /\ UNCHANGED <<env, phase, checkState, preflights, outcome, listening, consuming>>

ShutdownErr ==
  /\ Calling /\ patience > 0 /\ Shutdowns[hook] \notin available
  /\ patience' = patience - 1
  /\ UNCHANGED <<env, phase, checkState, preflights, hook, outcome, listening, consuming>>

(* The exception that ends destroy leaves the other URLs uncalled.         *)
Exit ==
  /\ phase = "closing" /\ ~listening
  /\ hook > Len(Shutdowns) \/ patience = 0
  /\ phase' = "exited"
  /\ UNCHANGED <<env, checkState, preflights, hooks, outcome, listening, consuming>>

DependencyChanges(s) ==
  /\ swings < MaxSwings /\ swings' = swings + 1
  /\ available' = IF s \in available THEN available \ {s} ELSE available \cup {s}
  /\ UNCHANGED <<command, phase, checkState, preflights, hooks, outcome, listening, consuming>>

(* What the threads of the command do by themselves.                       *)
CommandStep ==
  \/ (\E c \in Checks : Attempt(c)) \/ Join
  \/ PreflightSpent \/ Start \/ RunFails \/ Exit

(* The answers that they wait for.                                         *)
PoolsReplied == ContextOk \/ ContextErr
CheckReplied(c) == c \in Checks /\ (CheckOk(c) \/ CheckErr(c) \/ (c = "preload" /\ Preloads))
PreflightReplied == PreflightOk \/ PreflightErr
ShutdownReplied == ShutdownOk \/ ShutdownErr

JavaNext ==
  \/ CommandStep \/ PoolsReplied \/ \E c \in JavaCheck : CheckReplied(c)
  \/ PreflightReplied \/ ShutdownReplied \/ StopServer
  \/ Close \/ \E s \in Dependency : DependencyChanges(s)

JavaSpec == JavaInit /\ [][JavaNext]_javaVars

----------------------------------------------------------------------------
(* The refinement of StartupGate.                                          *)

JavaItem ==
  {<<"pools">>} \cup {<<"check", c>> : c \in JavaCheck}
    \cup {<<"preflight", i>> : i \in 1..Len(Preflights)}

Asked(i) ==
  CASE i[1] = "pools" -> Pools
    [] i[1] = "check" -> Needs(i[2])
    [] i[1] = "preflight" -> {Preflights[i[2]]}

Required == {i \in JavaItem : i[1] = "check" => i[2] \in Checks}

Seen(i) ==
  CASE i[1] = "pools" -> phase \notin {"context", "unopened"}
    [] i[1] = "check" -> progress[i[2]] = "passed"
    [] i[1] = "preflight" -> i[2] < preflight

BudgetOf(i) ==
  CASE i[1] = "pools" -> 1
    [] i[1] = "check" -> JavaFails
    [] i[1] = "preflight" -> HamsFails

JavaFailuresOf(i) ==
  CASE i[1] = "pools" -> IF phase = "unopened" THEN 1 ELSE 0
    [] i[1] = "check" -> IF i \in Required THEN JavaFails - attemptsRemaining[i[2]] ELSE 0
    [] i[1] = "preflight" -> HamsFails - attempts[i[2]]

ApplicationGate ==
  INSTANCE StartupGate WITH
    Item <- JavaItem, required <- Required, up <- available,
    Asks <- [i \in JavaItem |-> Asked(i)],
    Budget <- [i \in JavaItem |-> BudgetOf(i)],
    seen <- {i \in Required : Seen(i)},
    misses <- [i \in JavaItem |-> JavaFailuresOf(i)]

----------------------------------------------------------------------------
(* Properties.                                                             *)

(* The application implements StartupGate: the consumer starts only once   *)
(* the pools are open, each check has passed and each preflight has been   *)
(* answered, and the run is an error only where one of them has used up    *)
(* the attempts that its configuration gives it.                           *)
ApplicationGated == ApplicationGate!GateSpec

(* No call has a timeout: neither the attempts of the startup checks       *)
(* (StartupCheckService.java 120) nor those of the preflights and of the   *)
(* shutdown URLs (HamsService.java 151, 164), and server.stop(0) waits for *)
(* the exchange that is being served, which may wait for a silent store.   *)
ChecksReply == \A c \in JavaCheck : WF_javaVars(CheckReplied(c))
ShutdownsReply == WF_javaVars(ShutdownReplied)
DispatcherEnds == WF_javaVars(StopServer)

(* A command that has opened its pools ends by itself, and a service       *)
(* either runs or ends, as long as its calls are answered or refused and   *)
(* the dispatcher ends.                                                    *)
CommandEnds ==
  ChecksReply /\ WF_javaVars(PreflightReplied) /\ ShutdownsReply /\ DispatcherEnds
    => (phase = "checks" ~> phase = "exited" \/ (command = "start" /\ phase = "running"))

(* Told to stop, the process does stop: once the dispatcher has ended, a   *)
(* shutdown URL that is down holds it up for a bounded number of attempts. *)
(* A URL is left uncalled only where one before it has used them all up.   *)
StopEnds ==
  ShutdownsReply /\ DispatcherEnds
    => (phase = "closing" ~> phase = "exited" /\ (hook <= Len(Shutdowns) => patience = 0))
=============================================================================
