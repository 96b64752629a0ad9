--------------------------- MODULE MCPushConsumer ---------------------------
(* Instances of PushConsumer for TLC: one or two partitions, two stores,   *)
(* one of them in memory, and the traffic that tells the paths apart.      *)
EXTENDS PushConsumer, TLC

CONSTANTS p1, p2, k1, k2, A, B, U, mem, ext

OneStoreEach == [s \in {A, B, U} |-> CASE s = A -> ext [] s = B -> mem
                                       [] OTHER -> Unrouted]
AllOnFirst == [k \in Key |-> p1]
KeyPerPartition == [k \in Key |-> IF k = k1 THEN p1 ELSE p2]

Update(k, s) == [kind |-> "update", key |-> k, schema |-> s]
Tombstone(k) == [kind |-> "tombstone", key |-> k]

(* One key moving between a database and memory, and its deletion.         *)
OneKey == {Update(k1, A), Update(k1, B), Tombstone(k1)}
(* The same with a record of each kind that changes no store.              *)
Mixed == OneKey \cup {Update(k2, A), Update(k1, U), Update(NoKey, A),
                      Tombstone(NoKey), [kind |-> "invalid", key |-> k1]}
(* One key per partition.                                                  *)
TwoKeys == {Update(k1, A), Tombstone(k1), Update(k2, A), Update(k2, B)}
=============================================================================
