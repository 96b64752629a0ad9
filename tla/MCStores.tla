------------------------------ MODULE MCStores ------------------------------
(* An instance of Stores and one of KeyListing, explored by one run: each  *)
(* behaviour exercises one of them.  Each store is named after its backend.*)
EXTENDS Stores, KeyListing

CONSTANTS mem1, mem2, redis, redis2, mongo, oracle, postgres, postgrestx

VARIABLE part

MCBackendOf ==
  mem1 :> "InMemory" @@ mem2 :> "InMemory" @@ redis :> "Redis"
    @@ redis2 :> "RedisTwoStep" @@ mongo :> "Mongo" @@ oracle :> "Oracle"
    @@ postgres :> "Postgres" @@ postgrestx :> "PostgresTx"
TwoMapsOrOne == {{mem1, mem2}} \cup {{s} : s \in Store \ {mem1, mem2}}

FourKeys == 1..4
OddEven == [k \in ListKey |-> 1 + (k % 2)]
AllButTwo == ListKey \ {2}
RustAndJava == {<<"Rust", "InMemory">>, <<"Rust", "Redis">>, <<"Java", "Sql">>}
ListLimits == {1, 2, NoLimit}
ListOffsets == {0, 31}

----------------------------------------------------------------------------
StoresInit ==
  /\ part \in {"stores", "listing"}
  /\ Init /\ ListInit
  /\ part = "stores" =>
       /\ <<program, backend>> = <<"Rust", "Redis">>
       /\ present = {} /\ offset = 0 /\ limit = NoLimit
  /\ part = "listing" => configured = {mem1, mem2}

StoresNext ==
  \/ part = "stores" /\ Next /\ UNCHANGED <<part, listVars>>
  \/ part = "listing" /\ ListNext /\ UNCHANGED <<part, vars>>

StoresTypes == TypeOK /\ ListTypeOK

StoresSpec == StoresInit /\ [][StoresNext]_<<part, vars, listVars>>
=============================================================================
