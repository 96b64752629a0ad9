---------------------------- MODULE StartupChecks ----------------------------
(***************************************************************************)
(* MyState::new of the Rust container up to the state it returns.  The     *)
(* startup checks run concurrently in one task, each with its own budget   *)
(* of attempts (startup_tools.rs); then the stores connect and the schemas *)
(* are preloaded, one after the other and with one attempt each.  Nothing  *)
(* of the service, the health endpoints included, runs before it returns.  *)
(***************************************************************************)
EXTENDS Naturals, Sequences

CONSTANTS
  Service,    \* schema registry, broker, databases: up or down
  Check,      \* with a startup check; none if startup_checks.enabled is false
  Blocking,   \* checks that block the task while they wait: Kafka metadata
  Connects,   \* services called once each after the checks, in this order
  Fails,      \* startup_checks.fails
  MaxOutages  \* bound: services going down or coming up

ASSUME StartupAssumption ==
  /\ Check \subseteq Service /\ Blocking \subseteq Check
  /\ Connects \in Seq(Service)
  /\ Fails \in Nat /\ MaxOutages \in Nat

VARIABLES
  up,       \* the services that answer
  outages,
  check_state,       \* what each check is doing
  attempts_remaining,     \* attempts_remaining of each check
  blocker,  \* the check that holds the task
  building,    \* where MyState::new is
  next_connect      \* the next of Connects

startupVars == <<up, outages, check_state, attempts_remaining, blocker, building, next_connect>>

NoCheck == "nobody"

ASSUME NoCheckAssumption == NoCheck \notin Service

StartupTypeOK ==
  /\ up \subseteq Service /\ outages \in 0..MaxOutages
  /\ check_state \in [Check -> {"idle", "trying", "sleeping", "passed", "spent"}]
  /\ attempts_remaining \in [Check -> 0..Fails]
  /\ blocker \in Blocking \cup {NoCheck}
  /\ building \in {"checks", "connecting", "broken", "built", "refused"}
  /\ next_connect \in 1..Len(Connects) + 1

StartupInit ==
  /\ up \in SUBSET Service /\ outages = 0
  /\ check_state = [c \in Check |-> IF Fails = 0 THEN "spent" ELSE "idle"]
  /\ attempts_remaining = [c \in Check |-> Fails]
  /\ blocker = NoCheck
  /\ building = "checks" /\ next_connect = 1

Polled(c) == building = "checks" /\ blocker \in {NoCheck, c}

BeginAttemptOnce(c) ==   \* mutant: nothing wakes a check that sleeps
  /\ Polled(c) /\ check_state[c] = "idle"
  /\ check_state' = [check_state EXCEPT ![c] = "trying"]
  /\ blocker' = IF c \in Blocking THEN c ELSE NoCheck
  /\ UNCHANGED <<up, outages, attempts_remaining, building, next_connect>>

(* make_future().await: fetch_metadata does not yield until it returns.    *)
BeginAttempt(c) ==
  /\ Polled(c) /\ check_state[c] \in {"idle", "sleeping"}
  /\ check_state' = [check_state EXCEPT ![c] = "trying"]
  /\ blocker' = IF c \in Blocking THEN c ELSE NoCheck
  /\ UNCHANGED <<up, outages, attempts_remaining, building, next_connect>>

ReplyOk(c) ==
  /\ Polled(c) /\ check_state[c] = "trying" /\ c \in up
  /\ check_state' = [check_state EXCEPT ![c] = "passed"]
  /\ blocker' = NoCheck
  /\ UNCHANGED <<up, outages, attempts_remaining, building, next_connect>>

ReplyErrPastZero(c) ==   \* mutant: one attempt more than the budget
  /\ Polled(c) /\ check_state[c] = "trying" /\ c \notin up
  /\ attempts_remaining' = [attempts_remaining EXCEPT ![c] = @ - 1]
  /\ check_state' = [check_state EXCEPT ![c] = IF attempts_remaining[c] > 0 THEN "sleeping" ELSE "spent"]
  /\ blocker' = NoCheck
  /\ UNCHANGED <<up, outages, building, next_connect>>

(* A failed attempt; the sleep before the next one ends with BeginAttempt. *)
ReplyErr(c) ==
  /\ Polled(c) /\ check_state[c] = "trying" /\ c \notin up
  /\ attempts_remaining' = [attempts_remaining EXCEPT ![c] = @ - 1]
  /\ check_state' = [check_state EXCEPT ![c] = IF attempts_remaining[c] > 1 THEN "sleeping" ELSE "spent"]
  /\ blocker' = NoCheck
  /\ UNCHANGED <<up, outages, building, next_connect>>

AllPassed ==
  /\ building = "checks" /\ \A c \in Check : check_state[c] = "passed"
  /\ building' = "connecting"
  /\ UNCHANGED <<up, outages, check_state, attempts_remaining, blocker, next_connect>>

ConnectOk ==
  /\ building = "connecting" /\ next_connect <= Len(Connects)
  /\ Connects[next_connect] \in up
  /\ next_connect' = next_connect + 1
  /\ UNCHANGED <<up, outages, check_state, attempts_remaining, blocker, building>>

ConnectErrSkipped ==   \* mutant: the store or schema is left out
  /\ building = "connecting" /\ next_connect <= Len(Connects)
  /\ Connects[next_connect] \notin up
  /\ next_connect' = next_connect + 1
  /\ UNCHANGED <<up, outages, check_state, attempts_remaining, blocker, building>>

(* No retry here: the error leaves MyState::new.                           *)
ConnectErr ==
  /\ building = "connecting" /\ next_connect <= Len(Connects)
  /\ Connects[next_connect] \notin up
  /\ building' = "broken"
  /\ UNCHANGED <<up, outages, check_state, attempts_remaining, blocker, next_connect>>

Built ==
  /\ building = "connecting" /\ next_connect > Len(Connects)
  /\ building' = "built"
  /\ UNCHANGED <<up, outages, check_state, attempts_remaining, blocker, next_connect>>

(* try_join_all returns the first error and drops the other checks.        *)
GiveUp ==
  /\ \/ building = "broken"
     \/ building = "checks" /\ blocker = NoCheck /\ \E c \in Check : check_state[c] = "spent"
  /\ building' = "refused"
  /\ UNCHANGED <<up, outages, check_state, attempts_remaining, blocker, next_connect>>

ServiceChanges(s) ==
  /\ outages < MaxOutages /\ outages' = outages + 1
  /\ up' = IF s \in up THEN up \ {s} ELSE up \cup {s}
  /\ UNCHANGED <<check_state, attempts_remaining, blocker, building, next_connect>>

(* What the task does by itself, and what it waits for.                    *)
BuilderStep == (\E c \in Check : BeginAttempt(c)) \/ AllPassed \/ Built \/ GiveUp
Replied(c) == ReplyOk(c) \/ ReplyErr(c)
Connected == ConnectOk \/ ConnectErr

StartupNext ==
  \/ BuilderStep \/ Connected \/ \E c \in Check : Replied(c)
  \/ \E s \in Service : ServiceChanges(s)

StartupSpec == StartupInit /\ [][StartupNext]_startupVars

----------------------------------------------------------------------------
(* What the environment sees, and the refinement of StartupGate.           *)

StartupItem == {<<"check", c>> : c \in Check} \cup {<<"once", i>> : i \in 1..Len(Connects)}

seen ==
  {<<"check", c>> : c \in {c \in Check : check_state[c] = "passed"}}
    \cup {<<"once", i>> : i \in 1..next_connect - 1}

AllChecked == \A c \in Check : check_state[c] = "passed"

FailuresOf(i) ==
  IF i[1] = "check" THEN Fails - attempts_remaining[i[2]]
  ELSE IF i[2] = next_connect /\ building \in {"broken", "refused"} /\ AllChecked THEN 1 ELSE 0

startup_outcome ==
  CASE building = "built" -> "started"
    [] building = "refused" -> "refused"
    [] OTHER -> "starting"

MyStateGate ==
  INSTANCE StartupGate WITH
    Item <- StartupItem, required <- StartupItem, outcome <- startup_outcome,
    Asks <- [i \in StartupItem |-> {IF i[1] = "check" THEN i[2] ELSE Connects[i[2]]}],
    Budget <- [i \in StartupItem |-> IF i[1] = "check" THEN Fails ELSE 1],
    misses <- [i \in StartupItem |-> FailuresOf(i)]

----------------------------------------------------------------------------
(* Properties.                                                             *)

(* MyState::new implements StartupGate: it returns a state only when every *)
(* check has passed and every store and schema has been reached, and an    *)
(* error only when a check has used up its attempts or one of the calls    *)
(* that get a single attempt has failed.                                   *)
MyStateGated == MyStateGate!GateSpec

(* No call of the startup has a timeout (startup_tools.rs 59,              *)
(* kafka_utils.rs 60): that attempts of some checks, or the calls after    *)
(* the checks, are answered or refused is said where it is needed.         *)
Answers(S) == \A c \in S : WF_startupVars(Replied(c))
CallsAnswered == Answers(Check) /\ WF_startupVars(Connected)

(* A startup that has begun comes to an end, whatever is down, as long as  *)
(* its calls are answered or refused.  It is refused for a check that has  *)
(* used up its budget even if others are silent for ever, unless the check *)
(* that is silent blocks the task.                                         *)
Begun == \E c \in Check : check_state[c] # "idle"
Spent == building = "checks" /\ \E c \in Check : check_state[c] = "spent"
StartupEnds ==
  /\ CallsAnswered => (Begun ~> building \in {"built", "refused"})
  /\ Answers(Blocking) => (Spent ~> building = "refused")

(* The retries are worth having: while an attempt is left to every check,  *)
(* services that come up, stay up and answer let the process start.        *)
Hopeful ==
  /\ Begun /\ building \notin {"broken", "refused"}
  /\ \A c \in Check : check_state[c] # "spent"
RetriesPayOff == CallsAnswered => ((Hopeful /\ [](up = Service)) ~> building = "built")
=============================================================================
