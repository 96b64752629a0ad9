---------------------------- MODULE MCJavaWebApi ----------------------------
(* Instances of JavaWebApi for TLC: a route to a database, one to an       *)
(* in-memory store, one to a store that is not configured.                 *)
EXTENDS JavaWebApi, TLC

CONSTANTS p1, k1, A, B, X, mem, ext, toMem, toExt, toNone, NoStore, c1

MemoryFirst == <<mem, ext>>
OneStoreEach == [s \in Schema |-> IF s = A THEN ext ELSE mem]
AllOnFirst == [k \in Key |-> p1]
Destinations == [r \in Routes |-> CASE r = toMem -> mem [] r = toExt -> ext
                                   [] OTHER -> NoStore]
Update(k, s) == [kind |-> "update", key |-> k, schema |-> s]
OneKey == {Update(k1, A), Update(k1, B), [kind |-> "tombstone", key |-> k1]}

(* 11 is framed with schema B, 12 is not framed, 13 does not decode, 14 has*)
(* an id the registry does not know.                                       *)
PayloadSchema ==
  [b \in Body |-> CASE b = 12 -> NoSchema [] b = 14 -> X [] OTHER -> B]
AllPayloads == 11..14
BadAvro == {13}

----------------------------------------------------------------------------
(* Bounds of one behaviour, tighter than the constants: the consumer thread*)
(* alone with two of a fault, a death and a rebalance, a request beside    *)
(* faults and deaths, or two requests in a row.                            *)
VARIABLE scene

Scenes == {"thread", "failures", "requests"}

Within ==
  /\ scene = "thread" =>
       served' = 0 /\ faults' + crashes' + rebalances' <= 2
  /\ scene = "failures" =>
       rebalances' = 0 /\ served' <= 1 /\ Len(log'[p1]) <= 1
  /\ scene = "requests" =>
       /\ rebalances' = 0 /\ served' + Len(log'[p1]) <= 3
       /\ faults' = 0 /\ crashes' = 0 /\ closing' = FALSE

SceneInit == WebInit /\ scene \in Scenes
SceneNext == WebNext /\ Within /\ UNCHANGED scene
SceneSpec == SceneInit /\ [][SceneNext]_<<webVars, scene>> /\ WebFairness
=============================================================================
