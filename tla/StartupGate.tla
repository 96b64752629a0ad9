----------------------------- MODULE StartupGate -----------------------------
(***************************************************************************)
(* What starting up promises, in either program: the service runs only     *)
(* after each thing it depends on has answered once, and gives up only     *)
(* after one of them has failed as often as its budget allows.             *)
(***************************************************************************)
EXTENDS Naturals

CONSTANTS
  Item,   \* what may have to be seen before the service runs
  Asks,   \* Asks[i]: the services that have to answer for i
  Budget  \* Budget[i]: the failures after which i may be given up

VARIABLES
  required,  \* what has to be seen, of Item
  up,        \* the services that answer
  seen, misses, outcome

gvars == <<required, up, seen, misses, outcome>>

GateTypeOK ==
  /\ required \subseteq Item /\ seen \subseteq required
  /\ misses \in [Item -> Nat]
  /\ outcome \in {"starting", "started", "refused"}

GateInit ==
  /\ required \subseteq Item /\ seen = {}
  /\ misses = [i \in Item |-> 0]
  /\ outcome = "starting"

Open(i) == outcome = "starting" /\ i \in required /\ i \notin seen /\ misses[i] < Budget[i]

See(i) ==
  /\ Open(i) /\ Asks[i] \subseteq up
  /\ seen' = seen \cup {i}
  /\ UNCHANGED <<required, up, misses, outcome>>

Miss(i) ==
  /\ Open(i) /\ ~(Asks[i] \subseteq up)
  /\ misses' = [misses EXCEPT ![i] = @ + 1]
  /\ UNCHANGED <<required, up, seen, outcome>>

Admit ==
  /\ outcome = "starting" /\ seen = required
  /\ outcome' = "started"
  /\ UNCHANGED <<required, up, seen, misses>>

Refuse ==
  /\ outcome = "starting"
  /\ \E i \in required \ seen : misses[i] = Budget[i]
  /\ outcome' = "refused"
  /\ UNCHANGED <<required, up, seen, misses>>

(* Services come and go as they like.                                      *)
Elsewhere == UNCHANGED <<required, seen, misses, outcome>>

GateNext == Admit \/ Refuse \/ Elsewhere \/ \E i \in Item : See(i) \/ Miss(i)

GateSpec == GateInit /\ [][GateNext]_gvars
=============================================================================
