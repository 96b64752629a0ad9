------------------------------ MODULE MCWebApi ------------------------------
(* Instances of WebApi for TLC: one route to each store, a route to a      *)
(* store that is not configured, and a payload of each kind.               *)
EXTENDS WebApi, TLC

CONSTANTS p1, k1, A, B, mem, ext, toMem, toExt, toNone, NoStore, c1, c2

OneStoreEach == [s \in {A, B} |-> IF s = A THEN ext ELSE mem]
AllOnFirst == [k \in Key |-> p1]
Destinations == [r \in Routes |-> CASE r = toMem -> mem [] r = toExt -> ext
                                   [] OTHER -> NoStore]
Update(k, s) == [kind |-> "update", key |-> k, schema |-> s]
OneKey == {Update(k1, A), Update(k1, B), [kind |-> "tombstone", key |-> k1]}

(* 11 is framed with schema B, 12 is not framed, 13 does not decode.       *)
Payloads == 11..13
PayloadSchema == [b \in Body |-> IF b = 12 THEN NoSchema ELSE B]
BadAvro == {13}

----------------------------------------------------------------------------
(* Bounds of one behaviour, tighter than the constants: reads of the       *)
(* in-memory store over a rebalance, writes to every store beside a longer *)
(* log and a fault, or two clients.                                        *)
VARIABLE scene

Scenes == {"reads", "writes", "clients"}

Within ==
  /\ scene = "reads" =>
       /\ faults' = 0 /\ served' <= 2 /\ req'[c2] = NoRequest
       /\ \A i \in DOMAIN log'[p1] : log'[p1][i] # Update(k1, A)
       /\ req'[c1].op \in Operation =>
            req'[c1].op = "get" /\ req'[c1].store = mem
  /\ scene = "writes" =>
       /\ rebalances' = 0 /\ served' <= 1 /\ req'[c2] = NoRequest
       /\ req'[c1].op \in Operation => req'[c1].body # 13
  /\ scene = "clients" =>
       /\ rebalances' = 0 /\ faults' = 0 /\ Len(log'[p1]) <= 1
       /\ \A c \in Client : req'[c].op \in Operation => req'[c].body # 11

SceneInit == WebInit /\ scene \in Scenes
SceneNext == WebNext /\ Within /\ UNCHANGED scene
SceneSpec == SceneInit /\ [][SceneNext]_<<webVars, scene>> /\ WebFairness
=============================================================================
