------------------------- MODULE StartupChecksProofs -------------------------
(***************************************************************************)
(* Proofs about the startup of both programs, for any services, checks,    *)
(* preflights, budgets and outages: MyState::new (StartupChecks) and the   *)
(* Spring application (JavaStartup) implement StartupGate.  The inductive  *)
(* invariants tie each check to its budget and each phase to what it has   *)
(* waited for.                                                             *)
(***************************************************************************)
EXTENDS StartupChecks, JavaStartup, TLAPS

StartupInv ==
  /\ StartupTypeOK
  /\ \A c \in Check : check_state[c] = "spent" => attempts_remaining[c] = 0
  /\ \A c \in Check :
       check_state[c] \in {"idle", "trying", "sleeping"} => attempts_remaining[c] > 0
  /\ building = "checks" => next_connect = 1
  /\ building \in {"connecting", "broken", "built"} => AllChecked
  /\ building = "broken" => next_connect <= Len(Connects)

USE StartupAssumption, NoCheckAssumption DEF NoCheck

LEMMA StartupInitInv == StartupInit => StartupInv
<1> SUFFICES ASSUME StartupInit PROVE StartupInv
  OBVIOUS
<1>1. Len(Connects) \in Nat OBVIOUS
<1> QED BY <1>1 DEF StartupInit, StartupInv, StartupTypeOK

LEMMA StartupInvStep ==
  ASSUME StartupInv, [StartupNext]_startupVars
  PROVE  StartupInv'
<1> USE DEF StartupInv, StartupTypeOK, AllChecked
<1>0. Len(Connects) \in Nat OBVIOUS
<1>1. ASSUME NEW c \in Check, BeginAttempt(c) PROVE StartupInv'
  BY <1>1 DEF BeginAttempt, Polled
<1>2. ASSUME NEW c \in Check, ReplyOk(c) PROVE StartupInv'
  BY <1>2 DEF ReplyOk, Polled
<1>3. ASSUME NEW c \in Check, ReplyErr(c) PROVE StartupInv'
  BY <1>3 DEF ReplyErr, Polled
<1>4. CASE AllPassed BY <1>4 DEF AllPassed
<1>5. CASE ConnectOk BY <1>0, <1>5 DEF ConnectOk
<1>6. CASE ConnectErr BY <1>6 DEF ConnectErr
<1>7. CASE Built BY <1>7 DEF Built
<1>8. CASE GiveUp BY <1>8 DEF GiveUp
<1>9. ASSUME NEW s \in Service, ServiceChanges(s) PROVE StartupInv'
  BY <1>9 DEF ServiceChanges
<1>10. CASE UNCHANGED startupVars BY <1>10 DEF startupVars
<1> QED BY <1>1, <1>2, <1>3, <1>4, <1>5, <1>6, <1>7, <1>8, <1>9, <1>10
        DEF StartupNext, BuilderStep, Replied, Connected

(* No check is tried more often than its budget allows, none is tried once *)
(* it has passed or given up, and no store is contacted before all passed. *)
THEOREM StartupTypes == StartupSpec => []StartupInv
BY StartupInitInv, StartupInvStep, PTL DEF StartupSpec

----------------------------------------------------------------------------
(* Refinement of StartupGate.                                              *)

Misses == [i \in StartupItem |-> FailuresOf(i)]

(* The steps that the gate does not see.                                   *)
LEMMA Unseen ==
  ASSUME UNCHANGED <<seen, startup_outcome>>,
         \A i \in StartupItem : FailuresOf(i)' = FailuresOf(i)
  PROVE  MyStateGate!GateNext
BY DEF MyStateGate!GateNext, MyStateGate!Elsewhere

(* What counts as seen, by kind.                                           *)
LEMMA SeenItems ==
  /\ \A c : <<"check", c>> \in StartupItem <=> c \in Check
  /\ \A c : <<"check", c>> \in seen <=> c \in Check /\ check_state[c] = "passed"
  /\ \A n : <<"once", n>> \in StartupItem <=> n \in 1..Len(Connects)
  /\ \A n : <<"once", n>> \in seen <=> n \in 1..next_connect - 1
BY DEF StartupItem, seen

LEMMA GateStep ==
  ASSUME StartupInv, [StartupNext]_startupVars
  PROVE  MyStateGate!GateNext \/ UNCHANGED <<up, seen, Misses, startup_outcome>>
<1> USE DEF StartupInv, StartupTypeOK
<1>0. Len(Connects) \in Nat OBVIOUS
<1>1. ASSUME NEW c \in Check, BeginAttempt(c) PROVE MyStateGate!GateNext
  <2>1. seen' = seen BY <1>1 DEF BeginAttempt, Polled, seen
  <2>2. startup_outcome' = startup_outcome
    BY <1>1 DEF BeginAttempt, startup_outcome
  <2>3. \A i \in StartupItem : FailuresOf(i)' = FailuresOf(i)
    BY <1>1 DEF BeginAttempt, Polled, FailuresOf
  <2> QED BY <2>1, <2>2, <2>3, Unseen
<1>2. ASSUME NEW c \in Check, ReplyOk(c) PROVE MyStateGate!GateNext
  <2> DEFINE i == <<"check", c>>
  <2>1. building = "checks" /\ building' = "checks" /\ startup_outcome = "starting"
        /\ startup_outcome' = startup_outcome
    BY <1>2 DEF ReplyOk, Polled, startup_outcome
  <2>2. i \in StartupItem /\ i \notin seen /\ seen' = seen \cup {i}
    BY <1>2 DEF ReplyOk, seen, StartupItem
  <2>3. \A j \in StartupItem : FailuresOf(j)' = FailuresOf(j)
    BY <1>2, <2>1 DEF ReplyOk, FailuresOf
  <2>4. FailuresOf(i) < Fails
    BY <1>2 DEF ReplyOk, FailuresOf
  <2>5. MyStateGate!Open(i)
    BY <2>1, <2>2, <2>4 DEF MyStateGate!Open
  <2>6. c \in up /\ up' = up BY <1>2 DEF ReplyOk
  <2>7. MyStateGate!See(i)
    BY <2>1, <2>2, <2>3, <2>5, <2>6 DEF MyStateGate!See
  <2> QED BY <2>2, <2>7 DEF MyStateGate!GateNext
<1>3. ASSUME NEW c \in Check, ReplyErr(c) PROVE MyStateGate!GateNext
  <2> DEFINE i == <<"check", c>>
  <2>1. building = "checks" /\ building' = "checks" /\ startup_outcome = "starting"
        /\ startup_outcome' = startup_outcome
    BY <1>3 DEF ReplyErr, Polled, startup_outcome
  <2>2. i \in StartupItem /\ i \notin seen /\ seen' = seen
    BY <1>3 DEF ReplyErr, seen, StartupItem
  <2>3. /\ FailuresOf(i) < Fails /\ FailuresOf(i)' = FailuresOf(i) + 1
    BY <1>3 DEF ReplyErr, FailuresOf
  <2>4. \A j \in StartupItem : j # i => FailuresOf(j)' = FailuresOf(j)
    BY <1>3, <2>1 DEF ReplyErr, FailuresOf, StartupItem
  <2>5. MyStateGate!Open(i)
    BY <2>1, <2>2, <2>3 DEF MyStateGate!Open
  <2>6. c \notin up /\ up' = up BY <1>3 DEF ReplyErr
  <2>7. Misses' = [Misses EXCEPT ![i] = @ + 1]
    BY <2>2, <2>3, <2>4 DEF Misses
  <2>8. MyStateGate!Miss(i)
    BY <2>1, <2>2, <2>5, <2>6, <2>7 DEF MyStateGate!Miss, Misses
  <2> QED BY <2>2, <2>8 DEF MyStateGate!GateNext
<1>4. CASE AllPassed
  <2>1. seen' = seen BY <1>4 DEF AllPassed, seen
  <2>2. startup_outcome' = startup_outcome
    BY <1>4 DEF AllPassed, startup_outcome
  <2>3. \A i \in StartupItem : FailuresOf(i)' = FailuresOf(i)
    BY <1>4 DEF AllPassed, FailuresOf
  <2> QED BY <2>1, <2>2, <2>3, Unseen
<1>5. CASE ConnectOk
  <2> DEFINE i == <<"once", next_connect>>
  <2>1. building = "connecting" /\ building' = "connecting"
        /\ startup_outcome = "starting" /\ startup_outcome' = startup_outcome
    BY <1>5 DEF ConnectOk, startup_outcome
  <2>2. next_connect \in 1..Len(Connects) /\ next_connect' = next_connect + 1
    BY <1>0, <1>5 DEF ConnectOk
  <2>3. i \in StartupItem /\ i \notin seen
    BY <2>2, SeenItems
  <2>4. 1..next_connect' - 1 = (1..next_connect - 1) \cup {next_connect}
    BY <2>2
  <2>5. seen' = seen \cup {i}
    BY <1>5, <2>4 DEF ConnectOk, seen
  <2>6. \A j \in StartupItem : FailuresOf(j)' = FailuresOf(j)
    BY <1>5, <2>1 DEF ConnectOk, FailuresOf
  <2>7. FailuresOf(i) = 0 BY <2>1 DEF FailuresOf
  <2>8. MyStateGate!Open(i)
    BY <2>1, <2>3, <2>7 DEF MyStateGate!Open
  <2>9. Connects[next_connect] \in up /\ up' = up BY <1>5 DEF ConnectOk
  <2>10. MyStateGate!See(i)
    BY <2>1, <2>3, <2>5, <2>6, <2>8, <2>9 DEF MyStateGate!See
  <2> QED BY <2>3, <2>10 DEF MyStateGate!GateNext
<1>6. CASE ConnectErr
  <2>0. PICK n \in 1..Len(Connects) : n = next_connect
    BY <1>0, <1>6 DEF ConnectErr
  <2> DEFINE i == <<"once", n>>
  <2>1. building = "connecting" /\ building' = "broken" /\ AllChecked /\ AllChecked'
        /\ startup_outcome = "starting" /\ startup_outcome' = startup_outcome
    BY <1>6 DEF ConnectErr, startup_outcome, AllChecked
  <2>2. n = next_connect /\ next_connect' = next_connect
    BY <1>6, <2>0 DEF ConnectErr
  <2>3. i \in StartupItem /\ i \notin seen
    BY <2>2, SeenItems
  <2>4. seen' = seen BY <1>6 DEF ConnectErr, seen
  <2>5. FailuresOf(i) = 0 /\ FailuresOf(i)' = 1
    BY <2>1, <2>2 DEF FailuresOf
  <2>6. \A j \in StartupItem : j # i => FailuresOf(j)' = FailuresOf(j)
    <3>1. \A m \in 1..Len(Connects) : m # n =>
            FailuresOf(<<"once", m>>)' = FailuresOf(<<"once", m>>)
      BY <2>1, <2>2 DEF FailuresOf
    <3>2. \A c \in Check : FailuresOf(<<"check", c>>)' = FailuresOf(<<"check", c>>)
      BY <1>6 DEF ConnectErr, FailuresOf
    <3> QED BY <3>1, <3>2 DEF StartupItem
  <2>7. MyStateGate!Open(i)
    BY <2>1, <2>3, <2>5 DEF MyStateGate!Open
  <2>8. Connects[n] \notin up /\ up' = up BY <1>6, <2>2 DEF ConnectErr
  <2>9. Misses' = [Misses EXCEPT ![i] = @ + 1]
    <3>1. FailuresOf(i)' = FailuresOf(i) + 1 BY <2>5
    <3> HIDE DEF i
    <3> QED BY <2>3, <2>6, <3>1 DEF Misses
  <2>10. MyStateGate!Miss(i)
    BY <2>1, <2>3, <2>4, <2>7, <2>8, <2>9 DEF MyStateGate!Miss, Misses
  <2> QED BY <2>3, <2>10 DEF MyStateGate!GateNext
<1>7. CASE Built
  <2>1. startup_outcome = "starting" /\ startup_outcome' = "started"
    BY <1>7 DEF Built, startup_outcome
  <2>2. next_connect - 1 = Len(Connects) /\ AllChecked
    BY <1>0, <1>7 DEF Built
  <2>3. seen = StartupItem /\ seen' = seen
    BY <1>7, <2>2 DEF Built, seen, StartupItem, AllChecked
  <2>4. \A j \in StartupItem : FailuresOf(j)' = FailuresOf(j)
    BY <1>7 DEF Built, FailuresOf
  <2> QED BY <1>7, <2>1, <2>3, <2>4
          DEF Built, MyStateGate!GateNext, MyStateGate!Admit
<1>8. CASE GiveUp
  <2>1. startup_outcome = "starting" /\ startup_outcome' = "refused"
        /\ building \in {"broken", "checks"}
    BY <1>8 DEF GiveUp, startup_outcome
  <2>2. seen' = seen /\ up' = up BY <1>8 DEF GiveUp, seen
  <2>3. \A j \in StartupItem : FailuresOf(j)' = FailuresOf(j)
    BY <1>8 DEF GiveUp, FailuresOf, AllChecked
  <2>4. \E i \in StartupItem \ seen :
          FailuresOf(i) = IF i[1] = "check" THEN Fails ELSE 1
    <3>1. CASE building = "broken"
      <4>1. next_connect \in 1..Len(Connects) BY <1>0, <3>1
      <4>2. <<"once", next_connect>> \in StartupItem \ seen
        BY <4>1, SeenItems
      <4>3. FailuresOf(<<"once", next_connect>>) = 1
        BY <3>1 DEF FailuresOf, AllChecked
      <4> QED BY <4>2, <4>3
    <3>2. CASE building = "checks"
      <4>1. PICK c \in Check : check_state[c] = "spent"
        BY <1>8, <3>2 DEF GiveUp
      <4>2. <<"check", c>> \in StartupItem \ seen
        BY <4>1, SeenItems
      <4>3. FailuresOf(<<"check", c>>) = Fails
        BY <4>1 DEF FailuresOf
      <4> QED BY <4>2, <4>3
    <3> QED BY <2>1, <3>1, <3>2
  <2>5. MyStateGate!Refuse
    BY <2>1, <2>2, <2>3, <2>4 DEF MyStateGate!Refuse
  <2> QED BY <2>5 DEF MyStateGate!GateNext
<1>9. ASSUME NEW s \in Service, ServiceChanges(s) PROVE MyStateGate!GateNext
  <2>1. UNCHANGED <<seen, startup_outcome>>
    BY <1>9 DEF ServiceChanges, seen, startup_outcome
  <2>2. \A i \in StartupItem : FailuresOf(i)' = FailuresOf(i)
    BY <1>9 DEF ServiceChanges, FailuresOf, AllChecked
  <2> QED BY <2>1, <2>2, Unseen
<1>10. CASE UNCHANGED startupVars
  BY <1>10 DEF startupVars, seen, startup_outcome, Misses, FailuresOf, AllChecked
<1> QED BY <1>1, <1>2, <1>3, <1>4, <1>5, <1>6, <1>7, <1>8, <1>9, <1>10
        DEF StartupNext, BuilderStep, Replied, Connected

(* Whatever is down, comes back or goes away, the service starts only      *)
(* after every check has passed and every store and schema was reached,    *)
(* and gives up only on one that has used up its attempts.                 *)
THEOREM StartupIsGated == StartupSpec => MyStateGated
<1>1. StartupInit => MyStateGate!GateInit
  <2> SUFFICES ASSUME StartupInit PROVE MyStateGate!GateInit
    OBVIOUS
  <2>1. seen = {}
    BY DEF StartupInit, seen
  <2>2. startup_outcome = "starting" BY DEF StartupInit, startup_outcome
  <2>3. \A i \in StartupItem : FailuresOf(i) = 0
    BY DEF StartupInit, FailuresOf, StartupItem
  <2> QED BY <2>1, <2>2, <2>3 DEF MyStateGate!GateInit
<1>2. ASSUME StartupInv, [StartupNext]_startupVars
      PROVE  [MyStateGate!GateNext]_<<StartupItem, up, seen,
               [i \in StartupItem |-> FailuresOf(i)], startup_outcome>>
  BY <1>2, GateStep DEF Misses, StartupItem
<1> QED BY <1>1, <1>2, StartupTypes, PTL
        DEF StartupSpec, MyStateGated, MyStateGate!GateSpec, MyStateGate!gvars

----------------------------------------------------------------------------
(* JavaStartup implements StartupGate too.  The inductive invariant ties   *)
(* each check to its attempts, and each phase to what it has waited for    *)
(* and to the outcome.                                                     *)

JavaInv ==
  /\ JavaTypeOK
  /\ \A c \in Checks :
       /\ progress[c] = "queued" => attemptsRemaining[c] = JavaFails
       /\ progress[c] \in {"trying", "sleeping"} => attemptsRemaining[c] > 0
       /\ progress[c] = "spent" => attemptsRemaining[c] = 0
  /\ phase \in {"context", "checks", "preflights", "failed"} => outcome = "starting"
  /\ phase \in {"running", "closing", "exited"} => outcome # "starting"
  /\ phase \in {"preflights", "running"} => \A c \in Checks : progress[c] = "passed"
  /\ phase = "failed" =>
       \/ \E c \in Checks : progress[c] = "spent"
       \/ preflight <= Len(Preflights) /\ attempts[preflight] = 0

LEMMA JavaLengths ==
  /\ Len(Preflights) \in Nat /\ Len(Shutdowns) \in Nat
  /\ JavaFails \in Nat /\ HamsFails \in Nat /\ Preload \in Nat /\ MaxSwings \in Nat
BY JavaStartupAssumption

LEMMA JavaInitInv == JavaInit => JavaInv
<1> SUFFICES ASSUME JavaInit PROVE JavaInv
  OBVIOUS
<1> USE JavaLengths
<1>1. JavaTypeOK
  <2>1. /\ progress \in [Checks -> {"queued", "trying", "sleeping", "passed", "spent"}]
        /\ attemptsRemaining \in [Checks -> 0..JavaFails]
        /\ attempts \in [1..Len(Preflights) -> 0..HamsFails]
    BY DEF JavaInit
  <2>2. /\ loaded \in 0..Preload /\ patience \in 0..HamsFails /\ swings \in 0..MaxSwings
        /\ preflight \in 1..Len(Preflights) + 1 /\ hook \in 1..Len(Shutdowns) + 1
    BY DEF JavaInit
  <2> QED BY <2>1, <2>2 DEF JavaInit, JavaTypeOK
<1>2. \A c \in Checks : progress[c] = "queued" /\ attemptsRemaining[c] = JavaFails
  BY DEF JavaInit
<1> QED BY <1>1, <1>2 DEF JavaInit, JavaInv

LEMMA JavaInvStep ==
  ASSUME JavaInv, [JavaNext]_javaVars
  PROVE  JavaInv'
<1> USE JavaLengths
    DEF JavaInv, JavaTypeOK, env, checkState, preflights, hooks, Checks
<1>1. CASE ContextOk BY <1>1 DEF ContextOk
<1>2. CASE ContextErr BY <1>2 DEF ContextErr
<1>3. ASSUME NEW c \in Checks, Attempt(c) PROVE JavaInv'
  BY <1>3 DEF Attempt
<1>4. ASSUME NEW c \in Checks, CheckOk(c) PROVE JavaInv'
  BY <1>4 DEF CheckOk
<1>5. ASSUME NEW c \in Checks, CheckErr(c) PROVE JavaInv'
  <2>1. attemptsRemaining[c] \in 1..JavaFails
    BY <1>5 DEF CheckErr
  <2>2. /\ attemptsRemaining' \in [Checks -> 0..JavaFails]
        /\ attemptsRemaining'[c] = attemptsRemaining[c] - 1
    BY <1>5, <2>1 DEF CheckErr
  <2>3. /\ progress' \in [Checks -> {"queued", "trying", "sleeping", "passed", "spent"}]
        /\ progress'[c] = IF attemptsRemaining[c] > 1 THEN "sleeping" ELSE "spent"
    BY <1>5 DEF CheckErr
  <2>4. \A d \in Checks :
          d # c => progress'[d] = progress[d]
                   /\ attemptsRemaining'[d] = attemptsRemaining[d]
    BY <1>5 DEF CheckErr
  <2>5. JavaTypeOK'
    BY <1>5, <2>2, <2>3 DEF CheckErr
  <2>6. \A d \in Checks :
          /\ progress'[d] = "queued" => attemptsRemaining'[d] = JavaFails
          /\ progress'[d] \in {"trying", "sleeping"} => attemptsRemaining'[d] > 0
          /\ progress'[d] = "spent" => attemptsRemaining'[d] = 0
    <3> SUFFICES ASSUME NEW d \in Checks
                 PROVE  /\ progress'[d] = "queued" => attemptsRemaining'[d] = JavaFails
                        /\ progress'[d] \in {"trying", "sleeping"} => attemptsRemaining'[d] > 0
                        /\ progress'[d] = "spent" => attemptsRemaining'[d] = 0
      OBVIOUS
    <3>1. CASE d = c BY <2>1, <2>2, <2>3, <3>1
    <3>2. CASE d # c BY <2>4, <3>2
    <3> QED BY <3>1, <3>2
  <2> QED BY <1>5, <2>5, <2>6 DEF CheckErr
<1>6. CASE Preloads BY <1>6 DEF Preloads
<1>7. CASE Join BY <1>7 DEF Join
<1>8. CASE PreflightOk
  <2>1. preflight' \in 1..Len(Preflights) + 1
    BY <1>8 DEF PreflightOk, Preflighting
  <2>2. JavaTypeOK'
    BY <1>8, <2>1 DEF PreflightOk, Preflighting
  <2> QED BY <1>8, <2>2 DEF PreflightOk, Preflighting
<1>9. CASE PreflightErr
  <2>1. preflight \in 1..Len(Preflights) /\ attempts[preflight] \in 1..HamsFails
    <3>1. /\ preflight \in 1..Len(Preflights) + 1
          /\ attempts \in [1..Len(Preflights) -> 0..HamsFails]
      OBVIOUS
    <3>2. preflight <= Len(Preflights) /\ attempts[preflight] > 0
      BY <1>9 DEF PreflightErr, Preflighting
    <3>3. preflight \in 1..Len(Preflights) BY <3>1, <3>2
    <3>4. attempts[preflight] \in 0..HamsFails BY <3>1, <3>3
    <3> QED BY <3>2, <3>3, <3>4
  <2>2. attempts' \in [1..Len(Preflights) -> 0..HamsFails]
    BY <1>9, <2>1 DEF PreflightErr
  <2> QED BY <1>9, <2>2 DEF PreflightErr, Preflighting
<1>10. CASE PreflightSpent BY <1>10 DEF PreflightSpent, Preflighting
<1>11. CASE Start BY <1>11 DEF Start
<1>12. CASE RunFails BY <1>12 DEF RunFails
<1>13. CASE Close BY <1>13 DEF Close
<1>14. CASE StopServer BY <1>14 DEF StopServer
<1>15. CASE ShutdownOk BY <1>15 DEF ShutdownOk, Calling
<1>16. CASE ShutdownErr BY <1>16 DEF ShutdownErr, Calling
<1>17. CASE Exit BY <1>17 DEF Exit
<1>18. ASSUME NEW s \in Dependency, DependencyChanges(s) PROVE JavaInv'
  BY <1>18 DEF DependencyChanges
<1>19. CASE UNCHANGED javaVars BY <1>19 DEF javaVars
<1> QED BY <1>1, <1>2, <1>3, <1>4, <1>5, <1>6, <1>7, <1>8, <1>9, <1>10, <1>11,
           <1>12, <1>13, <1>14, <1>15, <1>16, <1>17, <1>18, <1>19
        DEF JavaNext, CommandStep, PoolsReplied, CheckReplied, PreflightReplied, ShutdownReplied

JavaSeen == {i \in Required : Seen(i)}
JavaMisses == [i \in JavaItem |-> JavaFailuresOf(i)]

(* What the gate counts as seen and as a failure, by kind of item.         *)
LEMMA JavaItems ==
  /\ <<"pools">> \in JavaItem
  /\ \A c : <<"check", c>> \in JavaItem <=> c \in JavaCheck
  /\ \A n : <<"preflight", n>> \in JavaItem <=> n \in 1..Len(Preflights)
  /\ \A i \in JavaItem : \/ i = <<"pools">>
                         \/ \E c \in JavaCheck : i = <<"check", c>>
                         \/ \E n \in 1..Len(Preflights) : i = <<"preflight", n>>
BY DEF JavaItem

LEMMA JavaSeenItems ==
  /\ JavaSeen \subseteq Required /\ Required \subseteq JavaItem
  /\ <<"pools">> \in Required
  /\ \A c : <<"check", c>> \in Required <=> c \in Checks
  /\ \A n : <<"preflight", n>> \in Required <=> n \in 1..Len(Preflights)
  /\ <<"pools">> \in JavaSeen <=> phase \notin {"context", "unopened"}
  /\ \A c : <<"check", c>> \in JavaSeen <=> c \in Checks /\ progress[c] = "passed"
  /\ \A n : <<"preflight", n>> \in JavaSeen <=> n \in 1..Len(Preflights) /\ n < preflight
<1>1. /\ Required \subseteq JavaItem /\ JavaSeen \subseteq Required
      /\ <<"pools">> \in Required
      /\ \A c : <<"check", c>> \in Required <=> c \in Checks
      /\ \A n : <<"preflight", n>> \in Required <=> n \in 1..Len(Preflights)
  BY JavaItems DEF Required, JavaSeen, Checks
<1>2. <<"pools">> \in JavaSeen <=> phase \notin {"context", "unopened"}
  BY <1>1 DEF JavaSeen, Seen
<1>3. \A c : <<"check", c>> \in JavaSeen <=> c \in Checks /\ progress[c] = "passed"
  BY <1>1 DEF JavaSeen, Seen
<1>4. \A n : <<"preflight", n>> \in JavaSeen <=> n \in 1..Len(Preflights) /\ n < preflight
  BY <1>1 DEF JavaSeen, Seen
<1> QED BY <1>1, <1>2, <1>3, <1>4

LEMMA JavaMissesOf ==
  /\ JavaMisses[<<"pools">>] = IF phase = "unopened" THEN 1 ELSE 0
  /\ \A c \in JavaCheck : JavaMisses[<<"check", c>>] =
       IF c \in Checks THEN JavaFails - attemptsRemaining[c] ELSE 0
  /\ \A n \in 1..Len(Preflights) :
       JavaMisses[<<"preflight", n>>] = HamsFails - attempts[n]
BY JavaItems, JavaSeenItems DEF JavaMisses, JavaFailuresOf

(* A step that neither answers, misses nor decides anything.               *)
LEMMA JavaUnseen ==
  ASSUME command' = command, outcome' = outcome, progress' = progress,
         attemptsRemaining' = attemptsRemaining, preflight' = preflight,
         attempts' = attempts,
         phase = "unopened" <=> phase' = "unopened",
         phase = "context" <=> phase' = "context"
  PROVE  /\ ApplicationGate!GateNext
         /\ Required' = Required /\ JavaSeen' = JavaSeen /\ JavaMisses' = JavaMisses
<1>1. Required' = Required BY DEF Required, Checks
<1>2. \A i \in JavaItem : JavaFailuresOf(i)' = JavaFailuresOf(i)
  BY <1>1 DEF JavaFailuresOf
<1>3. \A i \in JavaItem : Seen(i)' <=> Seen(i) BY JavaItems DEF Seen
<1>4. JavaSeen' = JavaSeen BY <1>1, <1>3, JavaSeenItems DEF JavaSeen
<1>5. JavaMisses' = JavaMisses BY <1>2 DEF JavaMisses
<1> QED BY <1>1, <1>4, <1>5
        DEF ApplicationGate!GateNext, ApplicationGate!Elsewhere, JavaSeen, JavaMisses

(* An item that answers is seen, and one that does not has a miss more.    *)
LEMMA JavaSees ==
  ASSUME NEW i \in Required, i \notin JavaSeen, outcome = "starting", outcome' = outcome,
         Required' = Required, available' = available, JavaMisses' = JavaMisses,
         JavaMisses[i] < BudgetOf(i), Asked(i) \subseteq available,
         JavaSeen' = JavaSeen \cup {i}
  PROVE  ApplicationGate!GateNext
BY JavaSeenItems
   DEF ApplicationGate!GateNext, ApplicationGate!See, ApplicationGate!Open, JavaSeen, JavaMisses

LEMMA JavaMissesOne ==
  ASSUME NEW i \in Required, i \notin JavaSeen, outcome = "starting", outcome' = outcome,
         Required' = Required, available' = available,
         JavaMisses' = [JavaMisses EXCEPT ![i] = @ + 1],
         JavaMisses[i] < BudgetOf(i), ~(Asked(i) \subseteq available),
         JavaSeen' = JavaSeen
  PROVE  ApplicationGate!GateNext
BY JavaSeenItems
   DEF ApplicationGate!GateNext, ApplicationGate!Miss, ApplicationGate!Open, JavaSeen, JavaMisses

(* The steps that bear on an item, then those that decide.                 *)
LEMMA PoolsStep ==
  ASSUME JavaInv, ContextOk \/ ContextErr
  PROVE  ApplicationGate!GateNext
<1> DEFINE i == <<"pools">>
<1> USE DEF env, checkState, preflights
<1>1. /\ phase = "context" /\ outcome = "starting" /\ outcome' = outcome
      /\ command' = command /\ available' = available /\ progress' = progress
      /\ attemptsRemaining' = attemptsRemaining /\ preflight' = preflight
      /\ attempts' = attempts
  BY DEF ContextOk, ContextErr, JavaInv
<1>2. Required' = Required BY <1>1 DEF Required, Checks
<1>3. i \in Required /\ i \notin JavaSeen /\ JavaMisses[i] = 0
  BY <1>1, JavaSeenItems, JavaMissesOf
<1>4. \A j \in JavaItem : j # i =>
        (Seen(j)' <=> Seen(j)) /\ JavaFailuresOf(j)' = JavaFailuresOf(j)
  BY <1>1, <1>2, JavaItems DEF Seen, JavaFailuresOf
<1>5. BudgetOf(i) = 1 /\ Asked(i) = Pools BY DEF BudgetOf, Asked
<1>6. CASE ContextOk
  <2>1. phase' = "checks" /\ Pools \subseteq available BY <1>6 DEF ContextOk
  <2>2. Seen(i)' BY <2>1 DEF Seen
  <2>3. JavaSeen' = JavaSeen \cup {i}
    BY <1>2, <1>3, <1>4, <2>2, JavaSeenItems DEF JavaSeen
  <2>4. JavaFailuresOf(i)' = JavaFailuresOf(i) BY <1>1, <2>1 DEF JavaFailuresOf
  <2>5. JavaMisses' = JavaMisses BY <1>4, <2>4 DEF JavaMisses
  <2> QED BY <1>1, <1>2, <1>3, <1>5, <2>1, <2>3, <2>5, JavaSees
<1>7. CASE ContextErr
  <2>1. phase' = "unopened" /\ ~(Pools \subseteq available) BY <1>7 DEF ContextErr
  <2>2. ~Seen(i)' /\ ~Seen(i) BY <1>1, <2>1 DEF Seen
  <2>3. JavaSeen' = JavaSeen
    BY <1>2, <1>4, <2>2, JavaSeenItems DEF JavaSeen
  <2>4. JavaFailuresOf(i)' = JavaFailuresOf(i) + 1
    BY <1>1, <2>1 DEF JavaFailuresOf
  <2>5. JavaMisses' = [JavaMisses EXCEPT ![i] = @ + 1]
    <3> HIDE DEF i
    <3> QED BY <1>3, <1>4, <2>4, JavaSeenItems DEF JavaMisses
  <2>6. JavaMisses[i] < BudgetOf(i) /\ ~(Asked(i) \subseteq available)
    BY <1>3, <1>5, <2>1
  <2> HIDE DEF i
  <2> QED BY <2>6, <1>1, <1>2, <1>3, <1>5, <2>1, <2>3, <2>5, JavaMissesOne
<1> QED BY <1>6, <1>7

LEMMA CheckStep ==
  ASSUME JavaInv, NEW c \in Checks, CheckOk(c) \/ CheckErr(c)
  PROVE  ApplicationGate!GateNext
<1> DEFINE i == <<"check", c>>
<1> USE DEF env, checkState, preflights
<1>1. /\ phase = "checks" /\ phase' = phase /\ outcome = "starting" /\ outcome' = outcome
      /\ command' = command /\ available' = available /\ preflight' = preflight
      /\ attempts' = attempts /\ progress[c] = "trying"
  BY DEF CheckOk, CheckErr, JavaInv
<1>2. Required' = Required /\ Checks' = Checks BY <1>1 DEF Required, Checks
<1>3. /\ progress \in [Checks -> {"queued", "trying", "sleeping", "passed", "spent"}]
      /\ attemptsRemaining \in [Checks -> 0..JavaFails] /\ attemptsRemaining[c] > 0
  BY <1>1 DEF JavaInv, JavaTypeOK
<1>4. c \in JavaCheck BY DEF Checks
<1>5. i \in Required /\ i \notin JavaSeen BY <1>1, JavaSeenItems
<1>6. JavaMisses[i] = JavaFails - attemptsRemaining[c] BY <1>4, JavaMissesOf
<1>7. JavaMisses[i] < BudgetOf(i) /\ Asked(i) = Needs(c)
  BY <1>3, <1>6, JavaLengths DEF BudgetOf, Asked
<1>8. CASE CheckOk(c)
  <2>1. /\ progress' = [progress EXCEPT ![c] = "passed"]
        /\ attemptsRemaining' = attemptsRemaining /\ Needs(c) \subseteq available
    BY <1>8 DEF CheckOk
  <2>2. \A j \in Required : Seen(j)' <=> Seen(j) \/ j = i
    <3>1. \A d \in Checks : progress'[d] = "passed" <=> progress[d] = "passed" \/ d = c
      BY <1>1, <1>3, <2>1
    <3>2. /\ Seen(<<"pools">>)' <=> Seen(<<"pools">>)
          /\ \A d \in Checks : Seen(<<"check", d>>)' <=> Seen(<<"check", d>>) \/ d = c
          /\ \A n \in 1..Len(Preflights) :
               Seen(<<"preflight", n>>)' <=> Seen(<<"preflight", n>>)
      BY <1>1, <3>1 DEF Seen
    <3> QED BY <3>2, JavaItems, JavaSeenItems
  <2>3. JavaSeen' = JavaSeen \cup {i} BY <1>2, <1>5, <2>2 DEF JavaSeen
  <2>4. JavaMisses' = JavaMisses
    BY <1>1, <1>2, <2>1, JavaItems DEF JavaMisses, JavaFailuresOf
  <2> QED BY <1>1, <1>2, <1>5, <1>7, <2>1, <2>3, <2>4, JavaSees
<1>9. CASE CheckErr(c)
  <2>1. /\ progress' = [progress EXCEPT ![c] =
                          IF attemptsRemaining[c] > 1 THEN "sleeping" ELSE "spent"]
        /\ attemptsRemaining' = [attemptsRemaining EXCEPT ![c] = @ - 1]
        /\ ~(Needs(c) \subseteq available)
    BY <1>9 DEF CheckErr
  <2>2. \A j \in Required : Seen(j)' <=> Seen(j)
    <3>1. \A d \in Checks : progress'[d] = "passed" <=> progress[d] = "passed"
      BY <1>1, <1>3, <2>1
    <3>2. /\ Seen(<<"pools">>)' <=> Seen(<<"pools">>)
          /\ \A d \in Checks : Seen(<<"check", d>>)' <=> Seen(<<"check", d>>)
          /\ \A n \in 1..Len(Preflights) :
               Seen(<<"preflight", n>>)' <=> Seen(<<"preflight", n>>)
      BY <1>1, <3>1 DEF Seen
    <3> QED BY <3>2, JavaItems, JavaSeenItems
  <2>3. JavaSeen' = JavaSeen BY <1>2, <2>2 DEF JavaSeen
  <2>4. \A j \in JavaItem : j # i => JavaFailuresOf(j)' = JavaFailuresOf(j)
    BY <1>1, <1>2, <1>3, <2>1, JavaItems, JavaSeenItems DEF JavaFailuresOf
  <2>5. JavaFailuresOf(i)' = JavaFailuresOf(i) + 1
    BY <1>2, <1>3, <1>5, <2>1, JavaLengths DEF JavaFailuresOf
  <2>6. JavaMisses' = [JavaMisses EXCEPT ![i] = @ + 1]
    BY <1>5, <2>4, <2>5, JavaSeenItems DEF JavaMisses
  <2> QED BY <1>1, <1>2, <1>5, <1>7, <2>1, <2>3, <2>6, JavaMissesOne
<1> QED BY <1>8, <1>9

LEMMA PreflightStep ==
  ASSUME JavaInv, PreflightOk \/ PreflightErr
  PROVE  ApplicationGate!GateNext
<1>0. PICK n \in 1..Len(Preflights) : n = preflight
  BY JavaLengths DEF PreflightOk, PreflightErr, Preflighting, JavaInv, JavaTypeOK
<1> DEFINE i == <<"preflight", n>>
<1> USE DEF env, checkState
<1>1. /\ phase = "preflights" /\ phase' = phase /\ outcome = "starting" /\ outcome' = outcome
      /\ command' = command /\ available' = available /\ progress' = progress
      /\ attemptsRemaining' = attemptsRemaining /\ attempts[n] > 0
  BY <1>0 DEF PreflightOk, PreflightErr, Preflighting, JavaInv
<1>2. Required' = Required /\ Checks' = Checks BY <1>1 DEF Required, Checks
<1>3. attempts \in [1..Len(Preflights) -> 0..HamsFails]
  BY DEF JavaInv, JavaTypeOK
<1>4. i \in Required /\ i \notin JavaSeen BY <1>0, JavaSeenItems, JavaLengths
<1>5. JavaMisses[i] = HamsFails - attempts[n] BY JavaMissesOf
<1>6. JavaMisses[i] < BudgetOf(i) /\ Asked(i) = {Preflights[n]}
  BY <1>1, <1>3, <1>5, JavaLengths DEF BudgetOf, Asked
<1>7. CASE PreflightOk
  <2>1. preflight' = n + 1 /\ attempts' = attempts /\ Preflights[n] \in available
    BY <1>0, <1>7 DEF PreflightOk
  <2>2. \A j \in Required : Seen(j)' <=> Seen(j) \/ j = i
    <3>1. /\ Seen(<<"pools">>)' <=> Seen(<<"pools">>)
          /\ \A c \in Checks : Seen(<<"check", c>>)' <=> Seen(<<"check", c>>)
          /\ \A m \in 1..Len(Preflights) :
               Seen(<<"preflight", m>>)' <=> Seen(<<"preflight", m>>) \/ m = n
      BY <1>0, <1>1, <2>1, JavaLengths DEF Seen
    <3> QED BY <3>1, JavaItems, JavaSeenItems
  <2>3. JavaSeen' = JavaSeen \cup {i} BY <1>2, <1>4, <2>2 DEF JavaSeen
  <2>4. JavaMisses' = JavaMisses
    BY <1>1, <1>2, <2>1, JavaItems DEF JavaMisses, JavaFailuresOf
  <2>5. Asked(i) \subseteq available BY <1>6, <2>1
  <2> HIDE DEF i
  <2> QED BY <1>1, <1>2, <1>4, <1>6, <2>3, <2>4, <2>5, JavaSees
<1>8. CASE PreflightErr
  <2>1. /\ preflight' = preflight /\ attempts' = [attempts EXCEPT ![n] = @ - 1]
        /\ Preflights[n] \notin available
    BY <1>0, <1>8 DEF PreflightErr
  <2>2. JavaSeen' = JavaSeen
    <3>1. \A j \in JavaItem : Seen(j)' <=> Seen(j)
      BY <1>1, <2>1, JavaItems DEF Seen
    <3> QED BY <1>2, <3>1, JavaSeenItems DEF JavaSeen
  <2>3. \A j \in JavaItem : j # i => JavaFailuresOf(j)' = JavaFailuresOf(j)
    <3>1. \A m \in 1..Len(Preflights) : m # n => attempts'[m] = attempts[m]
      BY <1>3, <2>1
    <3>2. /\ JavaFailuresOf(<<"pools">>)' = JavaFailuresOf(<<"pools">>)
          /\ \A c \in JavaCheck :
               JavaFailuresOf(<<"check", c>>)' = JavaFailuresOf(<<"check", c>>)
          /\ \A m \in 1..Len(Preflights) : m # n =>
               JavaFailuresOf(<<"preflight", m>>)' = JavaFailuresOf(<<"preflight", m>>)
      BY <1>1, <1>2, <3>1 DEF JavaFailuresOf
    <3> QED BY <3>2, JavaItems
  <2>4. JavaFailuresOf(i)' = JavaFailuresOf(i) + 1
    <3>1. attempts'[n] = attempts[n] - 1 /\ attempts[n] \in Nat BY <1>3, <2>1, JavaLengths
    <3>2. /\ JavaFailuresOf(i)' = HamsFails - attempts'[n]
          /\ JavaFailuresOf(i) = HamsFails - attempts[n]
      BY DEF JavaFailuresOf
    <3> HIDE DEF i
    <3> QED BY <3>1, <3>2, JavaLengths
  <2>5. ~(Asked(i) \subseteq available) BY <1>6, <2>1
  <2> HIDE DEF i
  <2>6. JavaMisses' = [JavaMisses EXCEPT ![i] = @ + 1]
    BY <1>4, <2>3, <2>4, JavaSeenItems DEF JavaMisses
  <2> QED BY <1>1, <1>2, <1>4, <1>6, <2>2, <2>5, <2>6, JavaMissesOne
<1> QED BY <1>7, <1>8

LEMMA StartStep ==
  ASSUME JavaInv, Start
  PROVE  ApplicationGate!GateNext
<1> USE DEF env, checkState, preflights
<1>1. /\ phase = "preflights" /\ phase' = "running" /\ outcome = "starting"
      /\ outcome' = "started" /\ preflight > Len(Preflights)
      /\ \A c \in Checks : progress[c] = "passed"
      /\ command' = command /\ available' = available /\ progress' = progress
      /\ attemptsRemaining' = attemptsRemaining /\ preflight' = preflight
      /\ attempts' = attempts
  BY DEF Start, JavaInv
<1>2. preflight \in Nat BY JavaLengths DEF JavaInv, JavaTypeOK
<1>3. Required' = Required BY <1>1 DEF Required, Checks
<1>4. \A n \in 1..Len(Preflights) : n < preflight BY <1>1, <1>2, JavaLengths
<1>5. JavaSeen = Required BY <1>1, <1>4, JavaItems, JavaSeenItems
<1>6. \A j \in JavaItem : Seen(j)' <=> Seen(j) BY <1>1, JavaItems DEF Seen
<1>7. JavaSeen' = JavaSeen BY <1>3, <1>6, JavaSeenItems DEF JavaSeen
<1>8. JavaMisses' = JavaMisses
  BY <1>1, <1>3, JavaItems DEF JavaMisses, JavaFailuresOf
<1> QED BY <1>1, <1>3, <1>5, <1>7, <1>8
        DEF ApplicationGate!GateNext, ApplicationGate!Admit, JavaSeen, JavaMisses

LEMMA RunFailsStep ==
  ASSUME JavaInv, RunFails
  PROVE  ApplicationGate!GateNext
<1> USE DEF env, checkState, preflights
<1>1. /\ phase \in {"failed", "unopened"} /\ outcome = "starting" /\ outcome' = "refused"
      /\ phase' = IF phase = "failed" THEN "closing" ELSE phase
      /\ command' = command /\ available' = available /\ progress' = progress
      /\ attemptsRemaining' = attemptsRemaining /\ preflight' = preflight
      /\ attempts' = attempts
  BY DEF RunFails
<1>2. Required' = Required BY <1>1 DEF Required, Checks
<1>3. \A j \in JavaItem : Seen(j)' <=> Seen(j) BY <1>1, JavaItems DEF Seen
<1>4. JavaSeen' = JavaSeen BY <1>2, <1>3, JavaSeenItems DEF JavaSeen
<1>5. JavaMisses' = JavaMisses
  BY <1>1, <1>2, JavaItems DEF JavaMisses, JavaFailuresOf
<1>6. \E i \in Required \ JavaSeen : JavaMisses[i] = BudgetOf(i)
  <2>1. CASE phase = "unopened"
    <3>1. <<"pools">> \in Required \ JavaSeen BY <2>1, JavaSeenItems
    <3>2. JavaMisses[<<"pools">>] = 1 BY <2>1, JavaMissesOf
    <3>3. BudgetOf(<<"pools">>) = 1 BY DEF BudgetOf
    <3> QED BY <3>1, <3>2, <3>3
  <2>2. ASSUME NEW c \in Checks, progress[c] = "spent"
        PROVE  \E i \in Required \ JavaSeen : JavaMisses[i] = BudgetOf(i)
    <3>1. <<"check", c>> \in Required \ JavaSeen BY <2>2, JavaSeenItems
    <3>2. attemptsRemaining[c] = 0 /\ c \in JavaCheck BY <2>2 DEF JavaInv, Checks
    <3>3. JavaMisses[<<"check", c>>] = JavaFails BY <3>2, JavaMissesOf, JavaLengths
    <3>4. BudgetOf(<<"check", c>>) = JavaFails BY DEF BudgetOf
    <3> QED BY <3>1, <3>3, <3>4
  <2>3. CASE preflight <= Len(Preflights) /\ attempts[preflight] = 0
    <3>1. PICK n \in 1..Len(Preflights) : n = preflight
      BY <2>3, JavaLengths DEF JavaInv, JavaTypeOK
    <3>2. <<"preflight", n>> \in Required \ JavaSeen
      BY <3>1, JavaSeenItems, JavaLengths
    <3>3. JavaMisses[<<"preflight", n>>] = HamsFails
      BY <2>3, <3>1, JavaMissesOf, JavaLengths
    <3>4. BudgetOf(<<"preflight", n>>) = HamsFails BY DEF BudgetOf
    <3> QED BY <3>2, <3>3, <3>4
  <2> QED BY <1>1, <2>1, <2>2, <2>3 DEF JavaInv
<1>7. \E i \in Required \ JavaSeen :
        JavaMisses[i] = [j \in JavaItem |-> BudgetOf(j)][i]
  BY <1>6, JavaSeenItems
<1> QED BY <1>1, <1>2, <1>4, <1>5, <1>7
        DEF ApplicationGate!GateNext, ApplicationGate!Refuse, JavaSeen, JavaMisses

LEMMA JavaGateStep ==
  ASSUME JavaInv, [JavaNext]_javaVars
  PROVE  \/ ApplicationGate!GateNext
         \/ UNCHANGED <<Required, available, JavaSeen, JavaMisses, outcome>>
<1> USE DEF env, checkState, preflights, hooks
<1>1. CASE ContextOk \/ ContextErr BY <1>1, PoolsStep
<1>2. ASSUME NEW c \in Checks, CheckOk(c) \/ CheckErr(c) PROVE ApplicationGate!GateNext
  BY <1>2, CheckStep
<1>3. CASE PreflightOk \/ PreflightErr BY <1>3, PreflightStep
<1>4. CASE Start BY <1>4, StartStep
<1>5. CASE RunFails BY <1>5, RunFailsStep
<1>6. ASSUME NEW c \in Checks, Attempt(c) PROVE ApplicationGate!GateNext
  <2>1. progress' = [progress EXCEPT ![c] = IF JavaFails = 0 THEN "spent" ELSE "trying"]
        /\ progress[c] \in {"queued", "sleeping"}
    BY <1>6 DEF Attempt
  <2>2. progress \in [Checks -> {"queued", "trying", "sleeping", "passed", "spent"}]
    BY DEF JavaInv, JavaTypeOK
  <2>3. Required' = Required /\ Checks' = Checks BY <1>6 DEF Attempt, Required, Checks
  <2>4. \A d \in Checks : progress'[d] = "passed" <=> progress[d] = "passed"
    BY <2>1, <2>2
  <2>5. \A i \in Required : Seen(i)' <=> Seen(i)
    <3>1. /\ Seen(<<"pools">>)' <=> Seen(<<"pools">>)
          /\ \A d \in Checks : Seen(<<"check", d>>)' <=> Seen(<<"check", d>>)
          /\ \A n \in 1..Len(Preflights) :
               Seen(<<"preflight", n>>)' <=> Seen(<<"preflight", n>>)
      BY <1>6, <2>4 DEF Attempt, Seen
    <3> QED BY <3>1, JavaItems, JavaSeenItems
  <2>6. JavaSeen' = JavaSeen BY <2>3, <2>5 DEF JavaSeen
  <2>7. JavaMisses' = JavaMisses
    BY <1>6, <2>3, JavaItems DEF Attempt, JavaMisses, JavaFailuresOf
  <2>8. outcome' = outcome BY <1>6 DEF Attempt
  <2> QED BY <2>3, <2>6, <2>7, <2>8
          DEF ApplicationGate!GateNext, ApplicationGate!Elsewhere, JavaSeen, JavaMisses
<1>7. CASE Preloads BY <1>7, JavaUnseen DEF Preloads
<1>8. CASE Join BY <1>8, JavaUnseen DEF Join
<1>9. CASE PreflightSpent BY <1>9, JavaUnseen DEF PreflightSpent, Preflighting
<1>10. CASE Close BY <1>10, JavaUnseen DEF Close
<1>11. CASE StopServer BY <1>11, JavaUnseen DEF StopServer
<1>12. CASE ShutdownOk BY <1>12, JavaUnseen DEF ShutdownOk, Calling
<1>13. CASE ShutdownErr BY <1>13, JavaUnseen DEF ShutdownErr, Calling
<1>14. CASE Exit BY <1>14, JavaUnseen DEF Exit
<1>15. ASSUME NEW s \in Dependency, DependencyChanges(s) PROVE ApplicationGate!GateNext
  BY <1>15, JavaUnseen DEF DependencyChanges
<1>16. CASE UNCHANGED javaVars BY <1>16, JavaUnseen DEF javaVars
<1> QED BY <1>1, <1>2, <1>3, <1>4, <1>5, <1>6, <1>7, <1>8, <1>9, <1>10, <1>11,
           <1>12, <1>13, <1>14, <1>15, <1>16
        DEF JavaNext, CommandStep, PoolsReplied, CheckReplied, PreflightReplied, ShutdownReplied

(* Whatever services come and go, the Java program starts its consumer     *)
(* only when its pools, checks and preflights have been answered, and ends *)
(* with an error only when one of them has used up its attempts.           *)
THEOREM ApplicationIsGated == JavaSpec => ApplicationGated
<1>1. JavaInit => ApplicationGate!GateInit
  <2> SUFFICES ASSUME JavaInit PROVE ApplicationGate!GateInit
    OBVIOUS
  <2>1. /\ phase = "context" /\ outcome = "starting" /\ preflight = 1
        /\ progress = [c \in Checks |-> "queued"]
        /\ attemptsRemaining = [c \in Checks |-> JavaFails]
        /\ attempts = [i \in 1..Len(Preflights) |-> HamsFails]
    BY DEF JavaInit
  <2>2. \A c \in Checks : progress[c] # "passed" BY <2>1
  <2>3. JavaSeen = {}
    <3>1. /\ <<"pools">> \notin JavaSeen
          /\ \A c \in JavaCheck : <<"check", c>> \notin JavaSeen
          /\ \A n \in 1..Len(Preflights) : <<"preflight", n>> \notin JavaSeen
      BY <2>1, <2>2, JavaSeenItems, JavaLengths
    <3> QED BY <3>1, JavaItems, JavaSeenItems
  <2>4. \A i \in JavaItem : JavaFailuresOf(i) = 0
    <3>1. /\ JavaFailuresOf(<<"pools">>) = 0
          /\ \A c \in JavaCheck : JavaFailuresOf(<<"check", c>>) = 0
          /\ \A n \in 1..Len(Preflights) : JavaFailuresOf(<<"preflight", n>>) = 0
      BY <2>1, JavaLengths, JavaSeenItems DEF JavaFailuresOf
    <3> QED BY <3>1, JavaItems
  <2> QED BY <2>1, <2>3, <2>4, JavaSeenItems DEF ApplicationGate!GateInit, JavaSeen
<1>2. ASSUME JavaInv, [JavaNext]_javaVars
      PROVE  [ApplicationGate!GateNext]_<<Required, available, {i \in Required : Seen(i)},
               [i \in JavaItem |-> JavaFailuresOf(i)], outcome>>
  BY <1>2, JavaGateStep DEF JavaSeen, JavaMisses
<1>3. JavaSpec => []JavaInv BY JavaInitInv, JavaInvStep, PTL DEF JavaSpec
<1> QED BY <1>1, <1>2, <1>3, PTL
        DEF JavaSpec, ApplicationGated, ApplicationGate!GateSpec, ApplicationGate!gvars
=============================================================================
