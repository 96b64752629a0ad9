---------------------------- MODULE SchemaService ----------------------------
(***************************************************************************)
(* SchemaService of the Java container: the consumer thread, the threads   *)
(* of the web server and the preload check all call getSchema.  A schema   *)
(* that is not in schemaCache is fetched in a synchronized method, which   *)
(* looks again before it fetches; the method is one lock for every id.     *)
(* The registry answers, fails, or does not answer for a long time.        *)
(***************************************************************************)
EXTENDS Naturals, FiniteSets

CONSTANTS
  Thread,
  Schema,    \* ids the registry knows
  MaxFailedFetches  \* bound: failed fetches

ASSUME SchemaAssumption == MaxFailedFetches \in Nat

VARIABLES
  schemaCache,
  asked,    \* the id each thread is asking for
  calling,
  lock,     \* the thread in the synchronized method
  failedFetches,
  fetches,  \* history: successful fetches of each id
  failed    \* history: did a fetch fail in this call?

schemaVars == <<schemaCache, asked, calling, lock, failedFetches, fetches, failed>>

Nobody == "nobody"
Stages == {"idle", "called", "waiting", "locked", "fetching", "answered", "thrown"}
Inside == {"locked", "fetching"}

ASSUME NobodyAssumption == Nobody \notin Thread /\ Nobody \notin Schema

SchemaTypeOK ==
  /\ schemaCache \subseteq Schema
  /\ asked \in [Thread -> Schema \cup {Nobody}]
  /\ calling \in [Thread -> Stages]
  /\ lock \in Thread \cup {Nobody}
  /\ failedFetches \in Nat
  /\ fetches \in [Schema -> Nat]
  /\ failed \in [Thread -> BOOLEAN]

SchemaInit ==
  /\ schemaCache = {}
  /\ asked = [t \in Thread |-> Nobody]
  /\ calling = [t \in Thread |-> "idle"]
  /\ lock = Nobody
  /\ failedFetches = 0
  /\ fetches = [id \in Schema |-> 0]
  /\ failed = [t \in Thread |-> FALSE]

Cached(t) == asked[t] \in schemaCache
Goto(t, stage) == calling' = [calling EXCEPT ![t] = stage]

GetSchema(t, id) ==
  /\ calling[t] = "idle"
  /\ asked' = [asked EXCEPT ![t] = id]
  /\ failed' = [failed EXCEPT ![t] = FALSE]
  /\ Goto(t, "called")
  /\ UNCHANGED <<schemaCache, lock, failedFetches, fetches>>

(* The first look, without the lock.                                       *)
Look(t) ==
  /\ calling[t] = "called"
  /\ Goto(t, IF Cached(t) THEN "answered" ELSE "waiting")
  /\ UNCHANGED <<schemaCache, asked, lock, failedFetches, fetches, failed>>

Enter(t) ==
  /\ calling[t] = "waiting" /\ lock = Nobody
  /\ lock' = t
  /\ Goto(t, "locked")
  /\ UNCHANGED <<schemaCache, asked, failedFetches, fetches, failed>>

LookOnce(t) ==   \* mutant: no second look
  /\ calling[t] = "locked"
  /\ Goto(t, "fetching")
  /\ UNCHANGED <<schemaCache, asked, lock, failedFetches, fetches, failed>>

(* The second look, under the lock.                                        *)
LookAgain(t) ==
  /\ calling[t] = "locked"
  /\ IF Cached(t) THEN Goto(t, "answered") /\ lock' = Nobody
                  ELSE Goto(t, "fetching") /\ UNCHANGED lock
  /\ UNCHANGED <<schemaCache, asked, failedFetches, fetches, failed>>

FetchOk(t) ==
  /\ calling[t] = "fetching"
  /\ schemaCache' = schemaCache \cup {asked[t]}
  /\ fetches' = [fetches EXCEPT ![asked[t]] = @ + 1]
  /\ Goto(t, "answered") /\ lock' = Nobody
  /\ UNCHANGED <<asked, failedFetches, failed>>

FetchErrShared(t) ==   \* mutant: whoever waits for the same id fails as well
  LET same(u) == u = t \/ (calling[u] = "waiting" /\ asked[u] = asked[t]) IN
  /\ calling[t] = "fetching"
  /\ failedFetches < MaxFailedFetches /\ failedFetches' = failedFetches + 1
  /\ failed' = [failed EXCEPT ![t] = TRUE]
  /\ calling' = [u \in Thread |-> IF same(u) THEN "thrown" ELSE calling[u]]
  /\ lock' = Nobody
  /\ UNCHANGED <<schemaCache, asked, fetches>>

(* The call fails, or answers nothing that parses: nothing is cached.      *)
FetchErr(t) ==
  /\ calling[t] = "fetching"
  /\ failedFetches < MaxFailedFetches /\ failedFetches' = failedFetches + 1
  /\ failed' = [failed EXCEPT ![t] = TRUE]
  /\ Goto(t, "thrown") /\ lock' = Nobody
  /\ UNCHANGED <<schemaCache, asked, fetches>>

ReturnSchema(t) ==
  /\ calling[t] \in {"answered", "thrown"}
  /\ asked' = [asked EXCEPT ![t] = Nobody]
  /\ Goto(t, "idle")
  /\ UNCHANGED <<schemaCache, lock, failedFetches, fetches, failed>>

SchemaStep(t) ==
  \/ \E id \in Schema : GetSchema(t, id)
  \/ Look(t) \/ Enter(t) \/ LookAgain(t)
  \/ FetchOk(t) \/ FetchErr(t)
  \/ ReturnSchema(t)

SchemaNext == \E t \in Thread : SchemaStep(t)

SchemaSpec == SchemaInit /\ [][SchemaNext]_schemaVars

----------------------------------------------------------------------------
(* Properties.                                                             *)

(* However many threads miss a schema at once, it is fetched once: a       *)
(* schema in the cache has been fetched one time, any other not at all     *)
(* (prd-ingestion.md 78, the thundering herd).                             *)
FetchedOnce ==
  \A id \in Schema : fetches[id] = IF id \in schemaCache THEN 1 ELSE 0

(* A thread is refused its schema only where the fetch it made itself has  *)
(* failed; what another thread's failure leaves behind does not reach it.  *)
FailureIsOwn ==
  \A t \in Thread :
    /\ calling[t] = "thrown" => failed[t]
    /\ calling[t] = "answered" => Cached(t)

(* A schema that is in the cache is served while another thread waits for  *)
(* a registry that may never answer.                                       *)
CachedIsServed ==
  \A t \in Thread, id \in Schema :
    calling[t] = "called" /\ asked[t] = id /\ id \in schemaCache ~> calling[t] = "answered"

(* Every call ends, as long as the registry answers.                       *)
CallsEnd == \A t \in Thread : calling[t] = "called" ~> calling[t] \in {"answered", "thrown"}

(* The monitor: whoever is inside holds the lock, so one thread at most.   *)
LockInv ==
  \A t \in Thread : calling[t] \in Inside <=> lock = t
=============================================================================
