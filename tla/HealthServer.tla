----------------------------- MODULE HealthServer -----------------------------
(***************************************************************************)
(* The hams server of the Java container.  Its executor is null, so one    *)
(* dispatcher thread takes the exchanges one by one and runs each handler  *)
(* to its end; /ready reads the lag indicator and asks the stores in turn, *)
(* /startup asks the stores, and each blocks until a store has answered.   *)
(***************************************************************************)
EXTENDS Naturals, FiniteSets

CONSTANTS
  Exchange,
  Path,       \* path of each exchange
  Checked,
  MaxStoreChanges  \* bound: stores going up, down or silent

Paths == {"/alive", "/ready", "/startup", "/metrics"}

ASSUME HealthAssumption ==
  Path \in [Exchange -> Paths] /\ MaxStoreChanges \in Nat

VARIABLES
  store,    \* what each database does: answers, refuses, or says nothing
  store_changes,
  cleared,  \* LagClearedHealthIndicator
  queue,    \* exchanges that wait for the dispatcher
  serving,  \* the exchange it runs, or Nobody
  lag,      \* isLagCleared, as read by the handler
  unasked,  \* stores health() has still to ask
  healthy,  \* allHealthy
  reply,    \* of each exchange
  socket,   \* of the server: open, stopping while stop(0) waits, stopped
  sawUp     \* history: stores that answered up to each exchange

healthVars ==
  <<store, store_changes, cleared, queue, serving, lag, unasked, healthy, reply, socket, sawUp>>
handler == <<lag, unasked, healthy>>

NoExchange == "nobody"
ASSUME NoExchangeAssumption == NoExchange \notin Exchange

HealthTypeOK ==
  /\ store \in [Checked -> {"up", "down", "silent"}] /\ store_changes \in 0..MaxStoreChanges
  /\ cleared \in BOOLEAN
  /\ queue \subseteq Exchange /\ serving \in Exchange \cup {NoExchange}
  /\ lag \in BOOLEAN /\ unasked \subseteq Checked /\ healthy \in BOOLEAN
  /\ reply \in [Exchange -> {"none", "200", "503"}]
  /\ socket \in {"open", "stopping", "stopped"}
  /\ sawUp \in [Exchange -> SUBSET Checked]

HealthInit ==
  /\ store \in [Checked -> {"up", "down", "silent"}] /\ store_changes = 0
  /\ cleared = FALSE
  /\ queue = {} /\ serving = NoExchange
  /\ lag = FALSE /\ unasked = {} /\ healthy = TRUE
  /\ reply = [e \in Exchange |-> "none"]
  /\ socket = "open"
  /\ sawUp = [e \in Exchange |-> {}]

Asks(e) == Path[e] \in {"/ready", "/startup"}

Arrive(e) ==
  /\ socket = "open"
  /\ e \notin queue /\ serving # e /\ reply[e] = "none"
  /\ queue' = queue \cup {e}
  /\ UNCHANGED <<store, store_changes, cleared, serving, handler, reply, socket, sawUp>>

(* /ready reads the lag before it asks the stores.                         *)
Dispatch(e) ==
  /\ socket # "stopped" /\ serving = NoExchange /\ e \in queue
  /\ queue' = queue \ {e}
  /\ serving' = e
  /\ lag' = (Path[e] = "/ready" => cleared)
  /\ unasked' = IF Asks(e) THEN Checked ELSE {}
  /\ healthy' = TRUE
  /\ UNCHANGED <<store, store_changes, cleared, reply, socket, sawUp>>

StoreAnswersLast(s) ==   \* mutant: the last store asked decides
  /\ s \in unasked /\ store[s] # "silent"
  /\ unasked' = unasked \ {s}
  /\ healthy' = (store[s] = "up")
  /\ sawUp' = [sawUp EXCEPT ![serving] = IF store[s] = "up" THEN @ \cup {s} ELSE @]
  /\ UNCHANGED <<store, store_changes, cleared, queue, serving, lag, reply, socket>>

(* checkHealth().block() returns or throws.                                *)
StoreAnswers(s) ==
  /\ s \in unasked /\ store[s] # "silent"
  /\ unasked' = unasked \ {s}
  /\ healthy' = (healthy /\ store[s] = "up")
  /\ sawUp' = [sawUp EXCEPT ![serving] = IF store[s] = "up" THEN @ \cup {s} ELSE @]
  /\ UNCHANGED <<store, store_changes, cleared, queue, serving, lag, reply, socket>>

Reply ==
  /\ serving # NoExchange /\ unasked = {}
  /\ reply' = [reply EXCEPT ![serving] = IF lag /\ healthy THEN "200" ELSE "503"]
  /\ serving' = NoExchange
  /\ UNCHANGED <<store, store_changes, cleared, queue, handler, socket, sawUp>>

(* HamsService.destroy: server.stop(0) takes no new exchange, waits for    *)
(* the dispatcher to end the one it serves, and drops the rest.            *)
StopServing ==
  /\ socket = "open" /\ socket' = "stopping"
  /\ UNCHANGED <<store, store_changes, cleared, queue, serving, handler, reply, sawUp>>

ServingStops ==
  /\ socket = "stopping" /\ serving = NoExchange
  /\ socket' = "stopped" /\ queue' = {}
  /\ UNCHANGED <<store, store_changes, cleared, serving, handler, reply, sawUp>>

(* The consumer has caught up (JavaConsumer); it is never taken back.      *)
LagCleared ==
  /\ ~cleared /\ cleared' = TRUE
  /\ UNCHANGED <<store, store_changes, queue, serving, handler, reply, socket, sawUp>>

StoreChanges(s) ==
  /\ store_changes < MaxStoreChanges /\ store_changes' = store_changes + 1
  /\ store' \in [Checked -> {"up", "down", "silent"}]
  /\ \A t \in Checked \ {s} : store'[t] = store[t]
  /\ UNCHANGED <<cleared, queue, serving, handler, reply, socket, sawUp>>

HealthNext ==
  \/ \E e \in Exchange : Arrive(e) \/ Dispatch(e)
  \/ \E s \in Checked : StoreAnswers(s) \/ StoreChanges(s)
  \/ Reply \/ LagCleared \/ StopServing \/ ServingStops

HealthSpec == HealthInit /\ [][HealthNext]_healthVars

----------------------------------------------------------------------------
(* Properties.                                                             *)

(* A 200 of /ready or /startup has seen each store up since the exchange   *)
(* was taken, and /ready the lag cleared.                                  *)
OkIsHonest ==
  \A e \in Exchange :
    reply[e] = "200" /\ Asks(e)
      => sawUp[e] = Checked /\ (Path[e] = "/ready" => cleared)

(* Every exchange is answered, or dropped by a stop, and a stop comes to   *)
(* its end: a store that keeps silent holds up the one thread, but not for *)
(* longer than its silence.                                                *)
SilentForGood == \E s \in Checked : <>[](store[s] = "silent")
ExchangesEnd ==
  \/ SilentForGood
  \/ /\ \A e \in Exchange : e \in queue ~> reply[e] # "none" \/ socket = "stopped"
     /\ socket = "stopping" ~> socket = "stopped"
=============================================================================
