------------------------------- MODULE Service -------------------------------
(***************************************************************************)
(* service_start and service_cancellable of the Rust container: the order  *)
(* in which the state, the hams server, the consumer task and the web      *)
(* server come up, what ends them, and the requests under way meanwhile.   *)
(* What MyState::new does is StartupChecks, what the consumer does is      *)
(* PushConsumer; here each of them works or ends.                          *)
(***************************************************************************)
EXTENDS Naturals

CONSTANTS
  Request,
  Cancellable,  \* does a caller of service_cancellable hold the token?
  Signalled     \* may the process get SIGTERM or SIGINT?

ASSUME ServiceAssumption == Cancellable \in BOOLEAN /\ Signalled \in BOOLEAN

VARIABLES
  stage,      \* where service_cancellable is
  hams,       \* the health server's thread
  scraped,    \* is hams given the address of state for its metrics?
  probe,      \* lag_probe
  consumer,   \* the spawned task
  cancelled,  \* the CancellationToken
  pending,    \* requests the web server has accepted and not answered
  answered

tasks == <<hams, scraped, probe, consumer>>
web == <<pending, answered>>
serviceVars == <<stage, tasks, cancelled, web>>

Before == {"new", "hams", "register", "start", "spawn", "bind"}
Serving == {"serving", "draining"}
After == {"stop", "deregister", "cancel"}
Over == {"returned", "failed", "killed"}

ServiceTypeOK ==
  /\ stage \in Before \cup Serving \cup After \cup Over
  /\ hams \in {"none", "built", "running", "stopped"}
  /\ scraped \in BOOLEAN /\ probe \in BOOLEAN /\ cancelled \in BOOLEAN
  /\ consumer \in {"none", "running", "ended"}
  /\ pending \subseteq Request /\ answered \subseteq Request

ServiceInit ==
  /\ stage = "new"
  /\ hams = "none" /\ scraped = FALSE /\ probe = FALSE /\ consumer = "none"
  /\ cancelled = FALSE
  /\ pending = {} /\ answered = {}

To(from, to) == stage = from /\ stage' = to

NewState == To("new", "hams") /\ UNCHANGED <<tasks, cancelled, web>>

NewHams ==
  /\ To("hams", "register")
  /\ hams' = "built"
  /\ UNCHANGED <<scraped, probe, consumer, cancelled, web>>

RegisterPrometheus ==
  /\ To("register", "start")
  /\ scraped' = TRUE
  /\ UNCHANGED <<hams, probe, consumer, cancelled, web>>

StartHams ==
  /\ To("start", "spawn")
  /\ hams' = "running"
  /\ UNCHANGED <<scraped, probe, consumer, cancelled, web>>

SpawnConsumer ==
  /\ To("spawn", "bind")
  /\ consumer' = "running"
  /\ UNCHANGED <<hams, scraped, probe, cancelled, web>>

Bind == To("bind", "serving") /\ UNCHANGED <<tasks, cancelled, web>>

(* Any of these may fail; `?` or a panic ends the process as it is.        *)
ServiceFails ==
  /\ stage \in Before \cup {"stop", "deregister"}
  /\ stage' = "failed"
  /\ UNCHANGED <<tasks, cancelled, web>>

Accept(r) ==
  /\ stage = "serving" /\ r \notin pending \cup answered
  /\ pending' = pending \cup {r}
  /\ UNCHANGED <<stage, tasks, cancelled, answered>>

Answer(r) ==
  /\ stage \in Serving /\ r \in pending
  /\ pending' = pending \ {r} /\ answered' = answered \cup {r}
  /\ UNCHANGED <<stage, tasks, cancelled>>

(* with_graceful_shutdown: no request is accepted any more.                *)
Drain ==
  /\ cancelled
  /\ To("serving", "draining")
  /\ UNCHANGED <<tasks, cancelled, web>>

ServerEnds ==
  /\ To("draining", "stop") /\ pending = {}
  /\ UNCHANGED <<tasks, cancelled, web>>

StopHamsLater ==   \* mutant: hams is left running
  /\ To("stop", "deregister")
  /\ UNCHANGED <<tasks, cancelled, web>>

StopHams ==
  /\ To("stop", "deregister")
  /\ hams' = "stopped"
  /\ UNCHANGED <<scraped, probe, consumer, cancelled, web>>

DeregisterPrometheus ==
  /\ To("deregister", "cancel")
  /\ scraped' = FALSE
  /\ UNCHANGED <<hams, probe, consumer, cancelled, web>>

(* ct.cancel, and the state is dropped.                                    *)
ServiceReturns ==
  /\ To("cancel", "returned")
  /\ cancelled' = TRUE
  /\ UNCHANGED <<tasks, web>>

(* The consumer opens the probe, and may end with an error nobody awaits.  *)
ClearLag ==
  /\ consumer = "running" /\ stage \notin Over /\ ~probe
  /\ probe' = TRUE
  /\ UNCHANGED <<stage, hams, scraped, consumer, cancelled, web>>

EndConsumer ==
  /\ consumer = "running" /\ stage \notin Over
  /\ consumer' = "ended"
  /\ UNCHANGED <<stage, hams, scraped, probe, cancelled, web>>

Cancel ==
  /\ Cancellable /\ ~cancelled /\ stage \notin Over
  /\ cancelled' = TRUE
  /\ UNCHANGED <<stage, tasks, web>>

(* Nothing in the program handles a signal.                                *)
Signal ==
  /\ Signalled /\ stage \notin Over
  /\ stage' = "killed"
  /\ UNCHANGED <<tasks, cancelled, web>>

(* What the service does by itself; NewState waits for the services that   *)
(* StartupChecks asks, and an answer for what its handler awaits.          *)
Proceed ==
  \/ NewHams \/ RegisterPrometheus \/ StartHams \/ SpawnConsumer
  \/ Bind \/ Drain \/ ServerEnds \/ StopHams \/ DeregisterPrometheus \/ ServiceReturns

ServiceNext ==
  \/ NewState \/ Proceed \/ ServiceFails \/ ClearLag \/ EndConsumer \/ Cancel \/ Signal
  \/ \E r \in Request : Accept(r) \/ Answer(r)

ServiceSpec == ServiceInit /\ [][ServiceNext]_serviceVars

----------------------------------------------------------------------------
(* Properties.                                                             *)

(* The stop keeps its order: a service that returns has answered each      *)
(* request it has accepted, and when its state is dropped hams has stopped *)
(* and the callback with the state's address is taken back.                *)
StopsInOrder ==
  stage = "returned" => pending = {} /\ hams = "stopped" /\ ~scraped

(* A cancelled service comes to its end, once its state is made or refused *)
(* and the requests that it has accepted are answered: the drain has no    *)
(* limit (webserver/mod.rs 165).                                           *)
StateArrives == WF_serviceVars(NewState \/ (stage = "new" /\ ServiceFails))
RequestsAnswered == \A r \in Request : WF_serviceVars(Answer(r))
CancelEnds == StateArrives /\ RequestsAnswered => (cancelled ~> stage \in Over)
=============================================================================
